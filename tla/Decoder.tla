------------------------------ MODULE Decoder -------------------------------
(***************************************************************************)
(* binfmt.Decode (internal/binfmt/decode.go): header, then one pass over   *)
(* the payload with a cursor that latches its first error, then one check  *)
(* of every index, so that Store.At can slice without looking.  Decode is  *)
(* what a damaged file has to get past; nothing after it looks again.      *)
(*                                                                         *)
(* One step is one row: a string, a name, a city, one value of a column.   *)
(* "return err" of the code is a Reject action; c.fail only sets err, and  *)
(* the rows that follow read zeros without moving, as in the code.         *)
(***************************************************************************)
EXTENDS Format

VARIABLES
    file,         \* [header, inflates, payload]
    pos, err,     \* cursor.pos, cursor.err
    pc,           \* the part of unmarshal being run
    column,       \* the column the part "delta", "sparse", "values" is at
    numStrings, blobLen, numCities, n, values,   \* the counts read
    previous,     \* the last record of a sparse column that has a value
    updated,      \* kenAllUpdated, romeUpdated
    blob, strOff, \* the string table
    prefs, cities, zips, flags,
    columns,      \* recCity, recKanji, recKana, recRomaji
    notes,        \* recNote, recNoteKn: [present, rank, ids]
    result        \* what Decode returned

payload == file.payload

sizes == <<numStrings, blobLen, numCities, n, values, previous>>
table == <<blob, strOff>>
store == <<updated, blob, strOff, prefs, cities, zips, flags, columns, notes>>
decoderState == <<pos, err, pc, column, sizes, store, result>>
decoderVars == <<file, decoderState>>

Headers == {"good", "short", "magic", "version"}

File == [header : Headers, inflates : BOOLEAN, payload : Seq(Byte)]

NoValues == [present |-> <<>>, rank |-> <<>>, ids |-> <<>>]

(* An empty Store and a cursor at the start of the payload. *)
Fresh ==
    /\ pos = 0
    /\ err = FALSE
    /\ pc = "header"
    /\ column = "city"
    /\ numStrings = 0 /\ blobLen = 0 /\ numCities = 0 /\ n = 0 /\ values = 0
    /\ previous = -1
    /\ updated = [kenAll |-> 0, rome |-> 0]
    /\ blob = <<>>
    /\ strOff = <<>>
    /\ prefs = <<>>
    /\ cities = <<>>
    /\ zips = <<>>
    /\ flags = <<>>
    /\ columns = [c \in DeltaColumns |-> <<>>]
    /\ notes = [c \in SparseColumns |-> NoValues]
    /\ result = "none"

-----------------------------------------------------------------------------
(* The cursor.  A read takes a cursor [v, pos, err] and returns the next   *)
(* one, v being what was read: zero once an error is latched.              *)

Cursor == [v |-> 0, pos |-> pos, err |-> err]

Failed(c) == [v |-> 0, pos |-> c.pos, err |-> TRUE]

ReadUvarint(c) ==
    LET u == UvarintAt(payload, c.pos)
    IN  IF c.err \/ ~u.ok THEN Failed(c)
        ELSE [v |-> u.v, pos |-> c.pos + u.len, err |-> FALSE]

ReadVarint(c) ==
    LET u == ReadUvarint(c) IN [u EXCEPT !.v = Zag(u.v)]

ReadByte(c) ==
    IF c.err \/ c.pos >= Len(payload) THEN Failed(c)
    ELSE [v |-> payload[c.pos + 1], pos |-> c.pos + 1, err |-> FALSE]

ReadBytes(c, len) ==
    IF c.err \/ c.pos + len > Len(payload) THEN [Failed(c) EXCEPT !.v = <<>>]
    ELSE [v |-> SubSeq(payload, c.pos + 1, c.pos + len), pos |-> c.pos + len,
          err |-> FALSE]

(* cursor.bounded: too large is an error, never a truncation. *)
ReadBounded(c, max) ==
    LET u == ReadUvarint(c)
    IN  IF ~u.err /\ u.v > max THEN Failed(u) ELSE u

ReadUvarint32(c) == ReadBounded(c, MaxUint32)

ReadNameRef(c) ==
    LET kanji == ReadUvarint32(c)
        kana == ReadUvarint32(kanji)
        romaji == ReadUvarint32(kana)
    IN  [v |-> [kanji |-> kanji.v, kana |-> kana.v, romaji |-> romaji.v],
         pos |-> romaji.pos, err |-> romaji.err]

(* cursor.count: more elements than bytes left.  This error is returned,   *)
(* and not latched.                                                        *)
TooMany(c) == c.v > Len(payload) - c.pos

Refused(c) == c.err \/ TooMany(c)

Advance(c) == pos' = c.pos /\ err' = c.err

Goto(l) == pc' = l /\ result' = result

(* "return nil, err" *)
Reject ==
    /\ pc' = "done"
    /\ result' = "rejected"
    /\ UNCHANGED <<pos, err, column, sizes, store>>

-----------------------------------------------------------------------------
(* Decode: the header and the stream. *)

HeaderOK ==
    file.header = "good" /\ file.inflates /\ Len(payload) <= MaxPayload

ReadHeader ==
    /\ pc = "header"
    /\ HeaderOK
    /\ Goto("dates")
    /\ UNCHANGED <<pos, err, column, sizes, store>>

RejectHeader == pc = "header" /\ ~HeaderOK /\ Reject

ReadDates ==
    /\ pc = "dates"
    /\ LET kenAll == ReadVarint(Cursor)
           rome == ReadVarint(kenAll)
       IN  /\ updated' = [kenAll |-> kenAll.v, rome |-> rome.v]
           /\ Advance(rome)
    /\ Goto("table")
    /\ UNCHANGED <<column, sizes, table, prefs, cities, zips, flags, columns,
                   notes>>

-----------------------------------------------------------------------------
(* The string table. *)

TableStrings == ReadUvarint(Cursor)

TableBlob == ReadBounded(TableStrings, MaxPayload)

(* Mutant: the two sizes of the table are not compared. *)
MutantTableOK ==
    /\ ~Refused(TableStrings)
    /\ TableStrings.v # 0
    /\ ~TableBlob.err

TableOK ==
    /\ ~Refused(TableStrings)
    /\ TableStrings.v # 0
    /\ ~TableBlob.err
    /\ TableStrings.v <= TableBlob.v + 1

ReadTable ==
    /\ pc = "table"
    /\ TableOK
    /\ numStrings' = TableStrings.v
    /\ blobLen' = TableBlob.v
    /\ Advance(TableBlob)
    /\ Goto("strings")
    /\ UNCHANGED <<column, numCities, n, values, previous, store>>

RejectTable == pc = "table" /\ ~TableOK /\ Reject

PreviousString ==
    IF strOff = <<>> THEN <<>>
    ELSE SubSeq(blob, strOff[Len(strOff)] + 1, Len(blob))

Prefix == ReadBounded(Cursor, blobLen)

Suffix == ReadUvarint(Prefix)

(* A string keeps a prefix of the one before it, and none at a restart. *)
StringOK ==
    /\ Len(strOff) % RestartInterval = 0 => Prefix.v = 0
    /\ Prefix.v <= Len(PreviousString)
    /\ ~Refused(Suffix)
    /\ Len(blob) + Prefix.v + Suffix.v <= blobLen

ReadString ==
    /\ pc = "strings"
    /\ Len(strOff) < numStrings
    /\ StringOK
    /\ strOff' = Append(strOff, Len(blob))
    /\ LET bytes == ReadBytes(Suffix, Suffix.v)
       IN  /\ blob' = blob \o SubSeq(PreviousString, 1, Prefix.v) \o bytes.v
           /\ Advance(bytes)
    /\ Goto("strings")
    /\ UNCHANGED <<column, sizes, updated, prefs, cities, zips, flags, columns,
                   notes>>

RejectString ==
    /\ pc = "strings"
    /\ Len(strOff) < numStrings
    /\ ~StringOK
    /\ Reject

StringsOK ==
    /\ ~err
    /\ Len(blob) = blobLen
    /\ Len(strOff) > 1 => strOff[2] = 0
    /\ Len(strOff) = 1 => blob = <<>>

EndStrings ==
    /\ pc = "strings"
    /\ Len(strOff) = numStrings
    /\ StringsOK
    /\ strOff' = Append(strOff, Len(blob))
    /\ Goto("prefs")
    /\ UNCHANGED <<pos, err, column, sizes, updated, blob, prefs, cities, zips,
                   flags, columns, notes>>

RejectStrings ==
    /\ pc = "strings"
    /\ Len(strOff) = numStrings
    /\ ~StringsOK
    /\ Reject

-----------------------------------------------------------------------------
(* Prefectures and cities. *)

ReadPrefecture ==
    /\ pc = "prefs"
    /\ Len(prefs) < PrefectureCount
    /\ prefs' = Append(prefs, ReadNameRef(Cursor).v)
    /\ Advance(ReadNameRef(Cursor))
    /\ Goto("prefs")
    /\ UNCHANGED <<column, sizes, updated, table, cities, zips, flags, columns,
                   notes>>

ReadCityCount ==
    /\ pc = "prefs"
    /\ Len(prefs) = PrefectureCount
    /\ ~Refused(ReadUvarint(Cursor))
    /\ numCities' = ReadUvarint(Cursor).v
    /\ Advance(ReadUvarint(Cursor))
    /\ Goto("cities")
    /\ UNCHANGED <<column, numStrings, blobLen, n, values, previous, store>>

RejectCityCount ==
    /\ pc = "prefs"
    /\ Len(prefs) = PrefectureCount
    /\ Refused(ReadUvarint(Cursor))
    /\ Reject

ReadCity ==
    /\ pc = "cities"
    /\ Len(cities) < numCities
    /\ LET jis == ReadUvarint32(Cursor)
           pref == ReadByte(jis)
           name == ReadNameRef(pref)
       IN  /\ cities' = Append(cities, [jis |-> jis.v, pref |-> pref.v,
                                        name |-> name.v])
           /\ Advance(name)
    /\ Goto("cities")
    /\ UNCHANGED <<column, sizes, updated, table, prefs, zips, flags, columns,
                   notes>>

ReadRecordCount ==
    /\ pc = "cities"
    /\ Len(cities) = numCities
    /\ ~Refused(ReadUvarint(Cursor))
    /\ n' = ReadUvarint(Cursor).v
    /\ Advance(ReadUvarint(Cursor))
    /\ Goto("zips")
    /\ UNCHANGED <<column, numStrings, blobLen, numCities, values, previous,
                   store>>

RejectRecordCount ==
    /\ pc = "cities"
    /\ Len(cities) = numCities
    /\ Refused(ReadUvarint(Cursor))
    /\ Reject

-----------------------------------------------------------------------------
(* The record columns. *)

(* Mutant: columns start at -1, as the sparse ones do. *)
MutantLastOf(s) == IF s = <<>> THEN -1 ELSE s[Len(s)]

LastOf(s) == IF s = <<>> THEN 0 ELSE s[Len(s)]

(* Mutant: differences are not accumulated. *)
MutantNextZip(c) == c.v

(* Zip codes are stored as differences that cannot be negative. *)
NextZip(c) == LastOf(zips) + c.v

ReadZip ==
    /\ pc = "zips"
    /\ Len(zips) < n
    /\ NextZip(ReadUvarint32(Cursor)) <= MaxZip
    /\ zips' = Append(zips, NextZip(ReadUvarint32(Cursor)))
    /\ Advance(ReadUvarint32(Cursor))
    /\ Goto("zips")
    /\ UNCHANGED <<column, sizes, updated, table, prefs, cities, flags, columns,
                   notes>>

RejectZip ==
    /\ pc = "zips"
    /\ Len(zips) < n
    /\ NextZip(ReadUvarint32(Cursor)) > MaxZip
    /\ Reject

EndZips ==
    /\ pc = "zips"
    /\ Len(zips) = n
    /\ Goto("delta")
    /\ UNCHANGED <<pos, err, column, sizes, store>>

MaxOf(c) == IF c = "city" THEN MaxUint16 ELSE numStrings - 1

Leave ==
    /\ column' = NextColumn[column]
    /\ Goto(CASE column' \in DeltaColumns -> "delta"
              [] column' \in SparseColumns -> "sparse"
              [] column' = "flags" -> "flags")

(* deltaColumn: both sides of the range are checked before the addition. *)
InField(delta) ==
    /\ delta >= -LastOf(columns[column])
    /\ delta <= MaxOf(column) - LastOf(columns[column])

ReadDelta ==
    /\ pc = "delta"
    /\ ~err
    /\ Len(columns[column]) < n
    /\ LET delta == ReadVarint(Cursor)
       IN  IF delta.err \/ ~InField(delta.v)
           THEN Advance(Failed(delta)) /\ UNCHANGED columns
           ELSE /\ columns' = [columns EXCEPT ![column] =
                                  Append(@, LastOf(@) + delta.v)]
                /\ Advance(delta)
    /\ Goto("delta")
    /\ UNCHANGED <<column, sizes, updated, table, prefs, cities, zips, flags,
                   notes>>

(* The column is full, or an error was latched before or inside it. *)
EndDelta ==
    /\ pc = "delta"
    /\ err \/ Len(columns[column]) = n
    /\ Leave
    /\ UNCHANGED <<pos, err, sizes, store>>

(* sparseStrings.  An error of count leaves the column empty: when it is   *)
(* the one that is not latched, unmarshal goes on as if nothing happened.  *)
Words == (n + WordBits - 1) \div WordBits

SkipSparse ==
    /\ pc = "sparse"
    /\ Refused(ReadUvarint(Cursor))
    /\ Advance(ReadUvarint(Cursor))
    /\ Leave
    /\ UNCHANGED <<sizes, store>>

FailSparse ==
    /\ pc = "sparse"
    /\ ~Refused(ReadUvarint(Cursor))
    /\ ReadUvarint(Cursor).v > n
    /\ Advance(Failed(ReadUvarint(Cursor)))
    /\ Leave
    /\ UNCHANGED <<sizes, store>>

ReadSparse ==
    /\ pc = "sparse"
    /\ ~Refused(ReadUvarint(Cursor))
    /\ ReadUvarint(Cursor).v <= n
    /\ values' = ReadUvarint(Cursor).v
    /\ previous' = -1
    /\ notes' = [notes EXCEPT ![column] =
                    [present |-> [w \in 1 .. Words |-> {}],
                     rank |-> [w \in 1 .. Words |-> 0],
                     ids |-> <<>>]]
    /\ Advance(ReadUvarint(Cursor))
    /\ Goto("values")
    /\ UNCHANGED <<column, numStrings, blobLen, numCities, n, updated, table,
                   prefs, cities, zips, flags, columns>>

ValueGap == ReadBounded(Cursor, n)

ValueRecord == previous + 1 + ValueGap.v

ValueId == ReadUvarint32(ValueGap)

ValueOK ==
    /\ ~ValueGap.err
    /\ ValueRecord < n
    /\ ~ValueId.err
    /\ ValueId.v \in 1 .. numStrings - 1

SetBit(present, i) ==
    [present EXCEPT ![i \div WordBits + 1] = @ \cup {i % WordBits}]

ReadValue ==
    /\ pc = "values"
    /\ Len(notes[column].ids) < values
    /\ ValueOK
    /\ notes' = [notes EXCEPT ![column] =
                    [present |-> SetBit(@.present, ValueRecord),
                     rank |-> @.rank,
                     ids |-> Append(@.ids, ValueId.v)]]
    /\ previous' = ValueRecord
    /\ Advance(ValueId)
    /\ Goto("values")
    /\ UNCHANGED <<column, numStrings, blobLen, numCities, n, values, updated,
                   table, prefs, cities, zips, flags, columns>>

FailValue ==
    /\ pc = "values"
    /\ Len(notes[column].ids) < values
    /\ ~ValueOK
    /\ Advance(Failed(ValueId))
    /\ Leave
    /\ UNCHANGED <<sizes, store>>

(* Mutant: the word's own bits are counted. *)
MutantRanks(present) ==
    LET rank[w \in 1 .. Len(present)] ==
            IF w = 1 THEN Cardinality(present[1])
            ELSE rank[w - 1] + Cardinality(present[w])
    IN  rank

(* For each word, the set bits before it. *)
Ranks(present) ==
    LET rank[w \in 1 .. Len(present)] ==
            IF w = 1 THEN 0 ELSE rank[w - 1] + Cardinality(present[w - 1])
    IN  rank

EndValues ==
    /\ pc = "values"
    /\ Len(notes[column].ids) = values
    /\ notes' = [notes EXCEPT ![column].rank = Ranks(notes[column].present)]
    /\ Leave
    /\ UNCHANGED <<pos, err, sizes, updated, table, prefs, cities, zips, flags,
                   columns>>

ReadFlags ==
    /\ pc = "flags"
    /\ Len(flags) < n
    /\ flags' = Append(flags, ReadByte(Cursor).v)
    /\ Advance(ReadByte(Cursor))
    /\ Goto("flags")
    /\ UNCHANGED <<column, sizes, updated, table, prefs, cities, zips, columns,
                   notes>>

-----------------------------------------------------------------------------
(* Store.check: every index, once. *)

RefOK(ref) ==
    ref.kanji < numStrings /\ ref.kana < numStrings /\ ref.romaji < numStrings

(* Mutant: city indices are not checked. *)
MutantCheck ==
    /\ \A i \in 1 .. n :
          /\ columns.kanji[i] < numStrings
          /\ columns.kana[i] < numStrings
          /\ columns.romaji[i] < numStrings
    /\ \A i \in DOMAIN cities :
          RefOK(cities[i].name) /\ cities[i].pref < PrefectureCount
    /\ \A i \in DOMAIN prefs : RefOK(prefs[i])

Check ==
    /\ \A i \in 1 .. n :
          /\ columns.kanji[i] < numStrings
          /\ columns.kana[i] < numStrings
          /\ columns.romaji[i] < numStrings
          /\ columns.city[i] < Len(cities)
    /\ \A i \in DOMAIN cities :
          RefOK(cities[i].name) /\ cities[i].pref < PrefectureCount
    /\ \A i \in DOMAIN prefs : RefOK(prefs[i])

(* Mutant: trailing bytes are not noticed. *)
MutantConsumed == TRUE

Consumed == pos = Len(payload)

(* Mutant: the latched error only skips the check. *)
MutantAcceptable == (err \/ Check) /\ Consumed

Acceptable == ~err /\ Check /\ Consumed

Accept ==
    /\ pc = "flags"
    /\ Len(flags) = n
    /\ Acceptable
    /\ pc' = "done"
    /\ result' = "accepted"
    /\ UNCHANGED <<pos, err, column, sizes, store>>

RejectStore == pc = "flags" /\ Len(flags) = n /\ ~Acceptable /\ Reject

ReadStep ==
    \/ ReadHeader \/ RejectHeader \/ ReadDates
    \/ ReadTable \/ RejectTable
    \/ ReadString \/ RejectString \/ EndStrings \/ RejectStrings
    \/ ReadPrefecture \/ ReadCityCount \/ RejectCityCount
    \/ ReadCity \/ ReadRecordCount \/ RejectRecordCount
    \/ ReadZip \/ RejectZip \/ EndZips
    \/ ReadDelta \/ EndDelta
    \/ SkipSparse \/ FailSparse \/ ReadSparse
    \/ ReadValue \/ FailValue \/ EndValues
    \/ ReadFlags \/ Accept \/ RejectStore

DecodeStep == ReadStep /\ UNCHANGED file

(* Decode of any file whatever. *)
DecodeSpec ==
    /\ file \in File /\ Fresh
    /\ [][DecodeStep]_decoderVars

-----------------------------------------------------------------------------
(* What the decoded store answers.  Records count from zero. *)

Str(id) == SubSeq(blob, strOff[id + 1] + 1, strOff[id + 2])

Name(ref) ==
    [kanji |-> Str(ref.kanji), kana |-> Str(ref.kana), romaji |-> Str(ref.romaji)]

Prefectures == [i \in DOMAIN prefs |-> Name(prefs[i])]

(* sparseStringColumn.id, and whether its three slice accesses are inside. *)
NoteIndex(s, i) ==
    s.rank[i \div WordBits + 1]
      + Cardinality({b \in s.present[i \div WordBits + 1] : b < i % WordBits})
      + 1

HasNote(s, i) == (i % WordBits) \in s.present[i \div WordBits + 1]

NoteId(s, i) == IF HasNote(s, i) THEN s.ids[NoteIndex(s, i)] ELSE 0

NoteReadable(s, i) ==
    /\ i \div WordBits + 1 \in DOMAIN s.present
    /\ HasNote(s, i) => NoteIndex(s, i) \in DOMAIN s.ids
    /\ NoteId(s, i) < numStrings

At(i) ==
    LET city == cities[columns.city[i + 1] + 1]
    IN  [prefecture |-> Name(prefs[city.pref + 1]),
         city |-> Name(city.name),
         town |-> [kanji |-> Str(columns.kanji[i + 1]),
                   kana |-> Str(columns.kana[i + 1]),
                   romaji |-> Str(columns.romaji[i + 1])],
         prefIndex |-> city.pref,
         note |-> Str(NoteId(notes.note, i)),
         noteKana |-> Str(NoteId(notes.noteKana, i)),
         zip |-> zips[i + 1],
         jis |-> city.jis,
         flags |-> flags[i + 1]]

-----------------------------------------------------------------------------
NameRefs == [kanji : Nat, kana : Nat, romaji : Nat]

(* The decoder's variables have the types of the Go fields they stand for. *)
DecoderTypeOK ==
    /\ pos \in Nat
    /\ err \in BOOLEAN
    /\ pc \in {"header", "dates", "table", "strings", "prefs", "cities",
               "zips", "delta", "sparse", "values", "flags", "done"}
    /\ column \in DeltaColumns \cup SparseColumns \cup {"flags"}
    /\ numStrings \in Nat /\ blobLen \in Nat /\ numCities \in Nat
    /\ n \in Nat /\ values \in Nat
    /\ previous \in Nat \cup {-1}
    /\ updated \in [kenAll : Int, rome : Int]
    /\ blob \in Seq(Byte)
    /\ strOff \in Seq(Nat)
    /\ prefs \in Seq(NameRefs)
    /\ cities \in Seq([jis : Nat, pref : Nat, name : NameRefs])
    /\ zips \in Seq(0 .. MaxZip)
    /\ flags \in Seq(Byte)
    /\ columns \in [DeltaColumns -> Seq(Nat)]
    /\ notes \in [SparseColumns ->
                    [present : Seq(SUBSET (0 .. WordBits - 1)),
                     rank : Seq(Nat), ids : Seq(Nat)]]
    /\ result \in {"none", "accepted", "rejected"}

(* The zip codes are sorted from the first one read to the last, whatever  *)
(* the payload: "sorted by construction ... the only thing keeping the     *)
(* search honest" (decode.go:194-196), and none is wider than it prints.   *)
ZipsSorted ==
    /\ \A i, j \in DOMAIN zips : i <= j => zips[i] <= zips[j]
    /\ \A i \in DOMAIN zips : zips[i] \in 0 .. MaxZip

(* In an accepted store the columns are parallel, and every city,          *)
(* prefecture and string index but those of the notes is inside its table, *)
(* whose offsets cut the blob into slices (decode.go:230-256).             *)
CheckedIndices ==
    result = "accepted" =>
        /\ Len(zips) = n /\ Len(flags) = n
        /\ \A c \in DeltaColumns : Len(columns[c]) = n
        /\ Len(strOff) = numStrings + 1
        /\ \A i \in 1 .. numStrings : strOff[i] <= strOff[i + 1]
        /\ strOff[numStrings + 1] <= Len(blob)
        /\ Len(prefs) = PrefectureCount
        /\ \A i \in 1 .. n :
              /\ columns.city[i] \in 0 .. Len(cities) - 1
              /\ \A c \in DeltaColumns \ {"city"} :
                    columns[c][i] \in 0 .. numStrings - 1
        /\ \A i \in DOMAIN cities :
              /\ RefOK(cities[i].name)
              /\ cities[i].pref \in 0 .. PrefectureCount - 1
        /\ \A i \in DOMAIN prefs : RefOK(prefs[i])

(* In an accepted store a notes column that was allocated answers for      *)
(* every record: presence bit, rank and id agree (decode.go:59-67).        *)
NotesReadable ==
    result = "accepted" =>
        \A c \in SparseColumns :
            notes[c] # NoValues =>
                \A i \in 0 .. n - 1 : NoteReadable(notes[c], i)

(* Nothing is allocated for more elements than the payload can hold, and   *)
(* the blob never outgrows the size announced for it (decode.go:16-18,     *)
(* 124-136, 387-390).                                                      *)
AllocationsBounded ==
    /\ numStrings <= blobLen + 1
    /\ numStrings <= Len(payload)
    /\ numCities <= Len(payload)
    /\ n <= Len(payload)
    /\ blobLen <= MaxPayload
    /\ Len(blob) <= blobLen

(* Why the properties above hold, for every payload: what is known of each *)
(* part of the store at each part of unmarshal.                            *)
Reading == {"delta", "sparse", "values", "flags"}

ReadPast(parts) == pc \in parts \cup Reading \/ result = "accepted"

Standing ==
    /\ file \in File
    /\ pos \in Nat /\ pos <= Len(payload)
    /\ result = "accepted" => pc = "done" /\ ~err /\ Len(flags) = n /\ Check

CountsBounded ==
    /\ {numStrings, blobLen, numCities, n} \subseteq Nat
    /\ numStrings <= blobLen + 1
    /\ numStrings <= Len(payload)
    /\ numCities <= Len(payload)
    /\ n <= Len(payload)
    /\ blobLen <= MaxPayload

TableBuilt ==
    /\ blob \in Seq(Byte)
    /\ Len(blob) <= blobLen
    /\ strOff \in Seq(0 .. Len(blob))
    /\ \A i \in 1 .. Len(strOff) - 1 : strOff[i] <= strOff[i + 1]
    /\ pc \in {"header", "dates", "table"} => blob = <<>> /\ strOff = <<>>
    /\ pc = "strings" => Len(strOff) <= numStrings
    /\ ReadPast({"prefs", "cities", "zips"}) => Len(strOff) = numStrings + 1

NamesBuilt ==
    /\ prefs \in Seq(NameRefs)
    /\ Len(prefs) <= PrefectureCount
    /\ ReadPast({"cities", "zips"}) => Len(prefs) = PrefectureCount
    /\ cities \in Seq([jis : Nat, pref : Nat, name : NameRefs])

ZipsBuilt ==
    /\ zips \in Seq(0 .. MaxZip)
    /\ ZipsSorted
    /\ pc \notin {"zips", "done"} \cup Reading => zips = <<>>
    /\ pc = "zips" => Len(zips) <= n
    /\ ReadPast({}) => Len(zips) = n

(* The columns that are complete when a column is read. *)
ColumnsBefore ==
    [city |-> {}, kanji |-> {"city"}, kana |-> {"city", "kanji"},
     romaji |-> {"city", "kanji", "kana"}, note |-> DeltaColumns,
     noteKana |-> DeltaColumns, flags |-> DeltaColumns]

AtColumn ==
    /\ column \in DOMAIN ColumnsBefore
    /\ pc \notin Reading \cup {"done"} => column = "city"
    /\ pc = "delta" => column \in DeltaColumns
    /\ pc \in {"sparse", "values"} => column \in SparseColumns
    /\ pc = "flags" \/ result = "accepted" => column = "flags"

ColumnsBuilt ==
    /\ columns \in [DeltaColumns -> Seq(Nat)]
    /\ ~err /\ ReadPast({}) =>
          \A c \in ColumnsBefore[column] : Len(columns[c]) = n

(* The records a notes column has a value for, as many as it has values.   *)
Noted(s) == {i \in 0 .. n - 1 : HasNote(s, i)}

Filled(s) ==
    /\ s.present \in [1 .. Words -> SUBSET (0 .. WordBits - 1)]
    /\ s.ids \in Seq(1 .. numStrings - 1)
    /\ Cardinality(Noted(s)) = Len(s.ids)

Ranked(s) == Filled(s) /\ s.rank = Ranks(s.present)

NotesBuilt ==
    /\ notes \in [SparseColumns ->
                    [present : Seq(SUBSET (0 .. WordBits - 1)),
                     rank : Seq(Nat), ids : Seq(Nat)]]
    /\ pc \notin Reading \cup {"done"} =>
          \A c \in SparseColumns : notes[c] = NoValues
    /\ ~err /\ pc = "values" =>
          /\ Filled(notes[column])
          /\ previous \in -1 .. n - 1
          /\ \A i \in Noted(notes[column]) : i <= previous
    /\ ~err =>
          \A c \in SparseColumns :
              notes[c] # NoValues /\ ~(pc = "values" /\ c = column) =>
                  Ranked(notes[c])

IInv ==
    /\ Standing /\ CountsBounded /\ TableBuilt /\ NamesBuilt
    /\ ZipsBuilt /\ AtColumn /\ ColumnsBuilt /\ NotesBuilt

(* An error, once latched, is never forgotten, and the store it was found  *)
(* in is never accepted, however many rows are read after it               *)
(* (decode.go:321-322).                                                    *)
ErrorIsFinal == [][err => err' /\ result' # "accepted"]_decoderVars

(* How far the decoder is from its return: the parts of unmarshal still to *)
(* run, and the rows the current part still has.                           *)
PhasesLeft ==
    LET early == [header |-> 13, dates |-> 12, table |-> 11, strings |-> 10,
                  prefs |-> 9, cities |-> 8, zips |-> 7, done |-> -1]
        columnsLeft == [city |-> 6, kanji |-> 5, kana |-> 4, romaji |-> 3,
                        note |-> 2, noteKana |-> 1, flags |-> 0]
    IN  IF pc \in DOMAIN early THEN early[pc] ELSE columnsLeft[column]

RowsLeft ==
    CASE pc = "strings" -> numStrings - Len(strOff)
      [] pc = "prefs" -> PrefectureCount - Len(prefs)
      [] pc = "cities" -> numCities - Len(cities)
      [] pc = "zips" -> n - Len(zips)
      [] pc = "delta" -> n - Len(columns[column]) + (IF err THEN 0 ELSE 1)
      [] pc = "sparse" -> n + 1
      [] pc = "values" -> values - Len(notes[column].ids)
      [] pc = "flags" -> n - Len(flags)
      [] OTHER -> 0

(* No payload makes the decoder go round in circles: every row it reads    *)
(* leaves fewer to read, in this part or in the ones after it.             *)
Advances ==
    [][\/ PhasesLeft' < PhasesLeft
       \/ PhasesLeft' = PhasesLeft /\ 0 <= RowsLeft' /\ RowsLeft' < RowsLeft
      ]_decoderState

(* Every record of an accepted store can be read (decode.go:230-231:       *)
(* "check validates every index once at load time so that the hot lookup   *)
(* path can slice the blob without bounds reasoning of its own").          *)
AtNeverPanics ==
    result = "accepted" =>
        \A c \in SparseColumns :
            \A i \in 0 .. n - 1 : NoteReadable(notes[c], i)

(* No code of an accepted store is wider than it is printed                *)
(* (format.go:56-58: "both sides of the format reject it rather than emit  *)
(* a plausible wrong answer").                                             *)
CodesFitWidth ==
    result = "accepted" =>
        /\ \A i \in DOMAIN zips : zips[i] <= MaxZip
        /\ \A i \in DOMAIN cities : cities[i].jis <= MaxJIS
=============================================================================
