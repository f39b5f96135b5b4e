---------------------------- MODULE CodecProofs -----------------------------
(***************************************************************************)
(* What Encode wrote comes back whole, for every dataset it accepts and    *)
(* under any limits, and a file that was damaged otherwise than in a byte  *)
(* is refused.                                                             *)
(*                                                                         *)
(* The payload follows what was written as far as both go (Follows), which *)
(* says of a truncated payload and of one with a byte too many what they   *)
(* have in common with the whole one.  As long as it does, the decoder is  *)
(* on the track of the encoder (OnTrack): it stands where the part or the  *)
(* row it reads next was written, and has built what was written before.   *)
(* Each of its steps keeps it there, or leaves it where it will refuse the *)
(* file: because it read past the end of a payload that was cut off        *)
(* (Lost), or because it has bytes left of one that goes on (Longer).  At  *)
(* the end of the track every answer of the store is the one the dataset   *)
(* would give.  CodecInv says this of each stage of the life of a file.    *)
(***************************************************************************)
EXTENDS FormatProofs

-----------------------------------------------------------------------------
(* Where each part and each row begins, and that the payload has it there. *)

(* The payload agrees with what was written, as far as both go. *)
Follows(d, t) == Len(payload) \in Nat /\ Continues(payload, 0, Marshal(d, t))

(* Each part stands where the ones before it end.                          *)
LEMMA PartsStand ==
    ASSUME NEW d, NEW t, Wrote(d, t)
    PROVE  /\ Marshal(d, t) \in Seq(Byte) /\ Len(Marshal(d, t)) \in Nat
           /\ Len(Marshal(d, t)) = Start(d, t)[15]
           /\ Start(d, t) \in [0 .. 15 -> Nat] /\ Start(d, t)[0] = 0
           /\ \A p \in 1 .. 15 :
                 /\ Parts(d, t)[p] \in Seq(Byte)
                 /\ Start(d, t)[p] = Start(d, t)[p - 1] + Len(Parts(d, t)[p])
                 /\ Start(d, t)[p] <= Len(Marshal(d, t))
                 /\ Continues(Marshal(d, t), Start(d, t)[p - 1], Parts(d, t)[p])
  <1> DEFINE ss == Parts(d, t)
             off == Offsets(ss)
  <1>1. ss \in Seq(Seq(Byte)) /\ Len(ss) = 15
    BY PartsAre
  <1>2. Marshal(d, t) = FlattenSeq(ss) /\ Start(d, t) = off
    BY MarshalIs DEF Start
  <1> HIDE DEF ss
  <1>3. /\ FlattenSeq(ss) \in Seq(Byte)
        /\ Len(FlattenSeq(ss)) = off[15]
        /\ \A p \in 1 .. 15 : Continues(FlattenSeq(ss), off[p - 1], ss[p])
    BY <1>1, Flattened
  <1>4. /\ off \in [0 .. 15 -> Nat] /\ off[0] = 0
        /\ \A p \in 1 .. 15 : off[p] = off[p - 1] + Len(ss[p])
    BY <1>1, OffsetsAre
  <1>5. \A p \in 1 .. 15 : off[p] <= off[15] /\ ss[p] \in Seq(Byte)
    <2> TAKE p \in 1 .. 15
    <2>1. p \in 0 .. Len(ss) /\ 15 \in p .. Len(ss) /\ p \in 1 .. Len(ss)
      BY <1>1
    <2>2. off[p] <= off[15]
      BY <1>1, <2>1, OffsetsGrow
    <2>3. ss[p] \in Seq(Byte)
      BY <1>1, <2>1, ElementOfSeq
    <2> QED
      BY <2>2, <2>3
  <1> HIDE DEF off
  <1> QED
    BY <1>2, <1>3, <1>4, <1>5 DEF ss

(* The payload goes on with what the written one goes on with.             *)
LEMMA PayloadContinues ==
    ASSUME NEW d, NEW t, Wrote(d, t), Follows(d, t), NEW q \in Nat,
           NEW s \in Seq(Byte), Continues(Marshal(d, t), q, s),
           q + Len(s) <= Len(Marshal(d, t))
    PROVE  Continues(payload, q, s)
  <1> DEFINE F == Marshal(d, t)
  <1>1. /\ Len(payload) \in Nat /\ Continues(payload, 0, F) /\ Len(F) \in Nat
        /\ Len(s) \in Nat
    BY PartsStand DEF Follows
  <1>2. Continues(F, q, s) /\ q + Len(s) <= Len(F)
    OBVIOUS
  <1> HIDE DEF F
  <1>3. Continues(payload, 0 + q, s)
    BY <1>1, <1>2, ContinuesInside
  <1> QED
    BY <1>3

(* Row k of a part ends here. *)
Here(d, t, p, head, rows, k) ==
    (Start(d, t)[p - 1] + Len(head)) + Offsets(rows)[k]

(* A part is a head and rows, and the payload has them in their places. *)
Laid(d, t, p, head, rows) ==
    /\ Start(d, t)[p - 1] \in Nat /\ Len(head) \in Nat
    /\ Continues(payload, Start(d, t)[p - 1], head)
    /\ Start(d, t)[p - 1] + Len(head) <= Len(Marshal(d, t))
    /\ Here(d, t, p, head, rows, 0) = Start(d, t)[p - 1] + Len(head)
    /\ Here(d, t, p, head, rows, Len(rows)) = Start(d, t)[p]
    /\ \A k \in 0 .. Len(rows) : Here(d, t, p, head, rows, k) \in Nat
    /\ \A k \in 1 .. Len(rows) :
          /\ Continues(payload, Here(d, t, p, head, rows, k - 1), rows[k])
          /\ Here(d, t, p, head, rows, k) =
               Here(d, t, p, head, rows, k - 1) + Len(rows[k])
          /\ Here(d, t, p, head, rows, k) <= Len(Marshal(d, t))

(* A part is laid out as its head and its rows.                            *)
LEMMA PartLaid ==
    ASSUME NEW d, NEW t, Wrote(d, t), Follows(d, t), NEW p \in 1 .. 15,
           NEW head \in Seq(Byte), NEW rows \in Seq(Seq(Byte)),
           Parts(d, t)[p] = head \o FlattenSeq(rows)
    PROVE  Laid(d, t, p, head, rows)
  <1> DEFINE F == Marshal(d, t)
             q == Start(d, t)[p - 1]
             r == Start(d, t)[p]
             flat == FlattenSeq(rows)
             off == Offsets(rows)
             m == Len(rows)
             part == Parts(d, t)[p]
             h == Len(head)
  <1>1. /\ F \in Seq(Byte) /\ Len(F) \in Nat /\ q \in Nat /\ r \in Nat
        /\ part \in Seq(Byte) /\ r = q + Len(part) /\ r <= Len(F)
        /\ Continues(F, q, part)
    <2>1. p - 1 \in 0 .. 15 /\ p \in 0 .. 15
      OBVIOUS
    <2> QED
      BY <2>1, PartsStand, ZenonT(60)
  <1>2. /\ flat \in Seq(Byte) /\ Len(flat) = off[m]
        /\ \A k \in 1 .. m : Continues(flat, off[k - 1], rows[k])
    BY Flattened
  <1>3. /\ off \in [0 .. m -> Nat] /\ off[0] = 0
        /\ \A k \in 1 .. m : off[k] = off[k - 1] + Len(rows[k])
    BY OffsetsAre
  <1>4. part = head \o flat /\ h \in Nat /\ m \in Nat
        /\ \A k \in 1 .. m : rows[k] \in Seq(Byte)
    OBVIOUS
  <1>5. \A k \in 1 .. m : off[k] <= off[m]
    <2> TAKE k \in 1 .. m
    <2>1. k \in 0 .. Len(rows) /\ Len(rows) \in k .. Len(rows)
      BY <1>4
    <2> QED
      BY <2>1, OffsetsGrow
  <1> HIDE DEF off, flat, q, r, F, part, h
  <1>6. Len(part) = h + off[m] /\ off[m] \in Nat /\ Len(flat) \in Nat
    BY <1>2, <1>3, <1>4, ConcatProperties DEF h
  <1>7. Continues(F, q, head) /\ Continues(F, q + h, flat)
    BY <1>1, <1>2, <1>4, ContinuesConcat DEF h
  <1>8. q + h <= Len(F) /\ (q + h) + off[m] = r
    BY <1>1, <1>4, <1>6, SMTT(60)
  <1>9. ASSUME NEW k \in 1 .. m
        PROVE  /\ Continues(payload, (q + h) + off[k - 1], rows[k])
               /\ (q + h) + off[k] = ((q + h) + off[k - 1]) + Len(rows[k])
               /\ (q + h) + off[k] <= Len(F)
    <2>1. k - 1 \in 0 .. m /\ k \in 0 .. m
      BY <1>4
    <2> DEFINE a == off[k - 1]
               b == off[k]
               e == off[m]
               l == Len(rows[k])
    <2>2. /\ a \in Nat /\ b \in Nat /\ b = a + l /\ b <= e /\ e \in Nat
          /\ Continues(flat, a, rows[k])
      BY <1>2, <1>3, <1>5, <1>6, <2>1
    <2>3. rows[k] \in Seq(Byte)
      BY <1>4
    <2>4. l \in Nat
      BY <2>3
    <2>5. q + h \in Nat /\ (q + h) + e = r /\ e = Len(flat)
      BY <1>1, <1>2, <1>4, <1>8
    <2> HIDE DEF a, b, e, l
    <2>6. a + l <= Len(flat)
      BY <2>2, <2>4, <2>5
    <2>7. Continues(F, (q + h) + a, rows[k])
      BY <1>1, <1>6, <1>7, <2>2, <2>4, <2>5, <2>6, ContinuesInside DEF l
    <2>8. /\ (q + h) + b = ((q + h) + a) + l /\ (q + h) + b <= Len(F)
          /\ (q + h) + a \in Nat
      BY <1>1, <1>4, <2>2, <2>4, <2>5
    <2>9. ((q + h) + a) + Len(rows[k]) <= Len(F)
      BY <2>8 DEF l
    <2>10. Continues(payload, (q + h) + a, rows[k])
      BY <2>3, <2>7, <2>8, <2>9, PayloadContinues DEF F
    <2> QED
      BY <2>8, <2>10 DEF a, b, l
  <1>10. Continues(payload, q, head)
    <2>1. q + Len(head) <= Len(F)
      BY <1>8 DEF h
    <2> QED
      BY <1>1, <1>7, <2>1, PayloadContinues DEF F
  <1>11. \A k \in 0 .. m : (q + h) + off[k] \in Nat
    <2> TAKE k \in 0 .. m
    <2>1. off[k] \in Nat
      BY <1>3
    <2> QED
      BY <1>1, <1>4, <2>1, SMTT(60)
  <1>12. (q + h) + off[0] = q + h
    BY <1>1, <1>3, <1>4
  <1>13. \A k : Here(d, t, p, head, rows, k) = (q + h) + off[k]
    BY DEF Here, q, h, off
  <1> QED
    BY <1>1, <1>4, <1>8, <1>9, <1>10, <1>11, <1>12, <1>13 DEF Laid, q, h, r, F

(* A part that is only rows. *)
LEMMA RowsLaid ==
    ASSUME NEW d, NEW t, Wrote(d, t), Follows(d, t), NEW p \in 1 .. 15,
           NEW rows \in Seq(Seq(Byte)), Parts(d, t)[p] = FlattenSeq(rows)
    PROVE  Laid(d, t, p, <<>>, rows)
  <1>1. FlattenSeq(rows) \in Seq(Byte) /\ <<>> \in Seq(Byte)
    BY Flattened
  <1>2. <<>> \o FlattenSeq(rows) = FlattenSeq(rows)
    BY <1>1
  <1> QED
    BY <1>1, <1>2, PartLaid

(* A part that is one number or one column of bytes. *)
LEMMA PartContinues ==
    ASSUME NEW d, NEW t, Wrote(d, t), Follows(d, t), NEW p \in 1 .. 15
    PROVE  /\ Start(d, t)[p - 1] \in Nat
           /\ Continues(payload, Start(d, t)[p - 1], Parts(d, t)[p])
           /\ Start(d, t)[p] = Start(d, t)[p - 1] + Len(Parts(d, t)[p])
           /\ Start(d, t)[p] <= Len(Marshal(d, t))
  <1> DEFINE q == Start(d, t)[p - 1]
             part == Parts(d, t)[p]
             r == Start(d, t)[p]
  <1>1. /\ q \in Nat /\ part \in Seq(Byte) /\ r = q + Len(part)
        /\ r <= Len(Marshal(d, t)) /\ Continues(Marshal(d, t), q, part)
    <2>1. p - 1 \in 0 .. 15
      OBVIOUS
    <2>2. q \in Nat
      <3>1. Start(d, t) \in [0 .. 15 -> Nat]
        BY PartsStand
      <3> QED
        BY <2>1, <3>1
    <2>3. /\ part \in Seq(Byte) /\ r = q + Len(part)
          /\ r <= Len(Marshal(d, t)) /\ Continues(Marshal(d, t), q, part)
      BY PartsStand, ZenonT(60)
    <2> QED
      BY <2>2, <2>3, ZenonT(60)
  <1> HIDE DEF q, part, r
  <1>2. Continues(payload, q, part)
    BY <1>1, PayloadContinues
  <1> QED
    BY <1>1, <1>2 DEF q, part, r

(* How every part with rows is laid out.                                   *)
LEMMA AllLaid ==
    ASSUME NEW d, NEW t, Wrote(d, t), Follows(d, t)
    PROVE  /\ Laid(d, t, 3, TableHead(t), FrontRows(t))
           /\ Laid(d, t, 4, <<>>, PrefRows(d, t))
           /\ Laid(d, t, 6, <<>>, CityRows(d, t))
           /\ Laid(d, t, 8, <<>>, ZipRows(ZipsOf(d)))
           /\ \A c \in DeltaColumns :
                 Laid(d, t, PartOf[c], <<>>, DeltaRows(FieldOf(d, t, c)))
           /\ \A c \in SparseColumns :
                 Laid(d, t, PartOf[c], UvarintBytes(ValueCount(FieldOf(d, t, c))),
                      SparseRows(FieldOf(d, t, c)))
  <1>1. /\ Parts(d, t)[3] = TableHead(t) \o FlattenSeq(FrontRows(t))
        /\ Parts(d, t)[4] = FlattenSeq(PrefRows(d, t))
        /\ Parts(d, t)[6] = FlattenSeq(CityRows(d, t))
        /\ Parts(d, t)[8] = FlattenSeq(ZipRows(ZipsOf(d)))
        /\ Parts(d, t)[9] = FlattenSeq(DeltaRows(FieldOf(d, t, "city")))
        /\ Parts(d, t)[10] = FlattenSeq(DeltaRows(FieldOf(d, t, "kanji")))
        /\ Parts(d, t)[11] = FlattenSeq(DeltaRows(FieldOf(d, t, "kana")))
        /\ Parts(d, t)[12] = FlattenSeq(DeltaRows(FieldOf(d, t, "romaji")))
        /\ Parts(d, t)[13] = UvarintBytes(ValueCount(FieldOf(d, t, "note")))
                               \o FlattenSeq(SparseRows(FieldOf(d, t, "note")))
        /\ Parts(d, t)[14] = UvarintBytes(ValueCount(FieldOf(d, t, "noteKana")))
                               \o FlattenSeq(SparseRows(FieldOf(d, t, "noteKana")))
    BY DEF Parts
  <1>2. Laid(d, t, 3, TableHead(t), FrontRows(t))
    <2>1. TableHead(t) \in Seq(Byte)
      BY TableHeadIs
    <2>2. FrontRows(t) \in Seq(Seq(Byte))
      BY FrontRowsAre
    <2>3. Parts(d, t)[3] = TableHead(t) \o FlattenSeq(FrontRows(t))
      BY <1>1
    <2>4. 3 \in 1 .. 15
      OBVIOUS
    <2> QED
      BY <2>1, <2>2, <2>3, <2>4, PartLaid
  <1>3. Laid(d, t, 4, <<>>, PrefRows(d, t))
    BY <1>1, PrefRowsAre, RowsLaid
  <1>4. Laid(d, t, 6, <<>>, CityRows(d, t))
    BY <1>1, CityRowsAre, RowsLaid
  <1>5. Laid(d, t, 8, <<>>, ZipRows(ZipsOf(d)))
    BY <1>1, ZipRowsAre, RowsLaid
  <1>6. ASSUME NEW c \in DeltaColumns
        PROVE  Laid(d, t, PartOf[c], <<>>, DeltaRows(FieldOf(d, t, c)))
    <2>1. /\ PartOf[c] \in 1 .. 15
          /\ Parts(d, t)[PartOf[c]] = FlattenSeq(DeltaRows(FieldOf(d, t, c)))
      BY <1>1 DEF PartOf, DeltaColumns
    <2>2. DeltaRows(FieldOf(d, t, c)) \in Seq(Seq(Byte))
      BY ColumnBytes
    <2> QED
      BY <2>1, <2>2, RowsLaid
  <1>7. ASSUME NEW c \in SparseColumns
        PROVE  Laid(d, t, PartOf[c], UvarintBytes(ValueCount(FieldOf(d, t, c))),
                    SparseRows(FieldOf(d, t, c)))
    <2>1. /\ PartOf[c] \in 1 .. 15
          /\ Parts(d, t)[PartOf[c]] =
               UvarintBytes(ValueCount(FieldOf(d, t, c)))
                 \o FlattenSeq(SparseRows(FieldOf(d, t, c)))
      <3>1. CASE c = "note"
        BY <1>1, <3>1, SMTT(60) DEF PartOf
      <3>2. CASE c = "noteKana"
        BY <1>1, <3>2 DEF PartOf
      <3> QED
        BY <3>1, <3>2 DEF SparseColumns
    <2>2. /\ SparseRows(FieldOf(d, t, c)) \in Seq(Seq(Byte))
          /\ UvarintBytes(ValueCount(FieldOf(d, t, c))) \in Seq(Byte)
      BY ColumnBytes
    <2> QED
      BY <2>1, <2>2, PartLaid
  <1> QED
    BY <1>2, <1>3, <1>4, <1>5, <1>6, <1>7

-----------------------------------------------------------------------------
(* The decoder on the track of the encoder: it stands where the encoder    *)
(* stood, and has built what the encoder had read.                         *)

CityRef(d, t, i) ==
    [jis |-> d.cities[i].jis, pref |-> d.cities[i].pref,
     name |-> Ref(t, d.cities[i])]

CountBytes(d, t, c) == UvarintBytes(ValueCount(FieldOf(d, t, c)))

Stands(d, t) ==
    /\ pc \in {"header", "dates"} => pos = 0
    /\ pc = "table" => pos = Start(d, t)[2]
    /\ pc = "strings" =>
          pos = Here(d, t, 3, TableHead(t), FrontRows(t), Len(strOff))
    /\ pc = "prefs" => pos = Here(d, t, 4, <<>>, PrefRows(d, t), Len(prefs))
    /\ pc = "cities" => pos = Here(d, t, 6, <<>>, CityRows(d, t), Len(cities))
    /\ pc = "zips" => pos = Here(d, t, 8, <<>>, ZipRows(ZipsOf(d)), Len(zips))
    /\ pc = "delta" =>
          pos = Here(d, t, PartOf[column], <<>>, DeltaRows(FieldOf(d, t, column)),
                     Len(columns[column]))
    /\ pc = "sparse" => pos = Start(d, t)[PartOf[column] - 1]
    /\ pc = "values" =>
          pos = Here(d, t, PartOf[column], CountBytes(d, t, column),
                     SparseRows(FieldOf(d, t, column)), previous + 1)
    /\ pc = "flags" => pos = Start(d, t)[14] + Len(flags)
    /\ pc = "done" => pos = Start(d, t)[15]

SizesKept(d, t) ==
    /\ pc \notin {"header", "dates"} => updated = d.updated
    /\ pc \notin {"header", "dates", "table"} =>
          numStrings = Len(t) /\ blobLen = BlobLen(t)
    /\ pc \notin {"header", "dates", "table", "strings", "prefs"} =>
          numCities = Len(d.cities)
    /\ pc \notin {"header", "dates", "table", "strings", "prefs", "cities"} =>
          n = Len(d.records)
    /\ pc = "values" => values = ValueCount(FieldOf(d, t, column))

TableKept(d, t) ==
    /\ \A i \in 1 .. Len(strOff) : strOff[i] = Offsets(t)[i - 1]
    /\ \A i \in 1 .. Len(strOff) :
          i <= Len(t) => Continues(blob, Offsets(t)[i - 1], t[i])
    /\ pc = "strings" => Len(blob) = Offsets(t)[Len(strOff)]
    /\ pc \notin {"header", "dates", "table", "strings"} => Len(blob) = BlobLen(t)

NamesKept(d, t) ==
    /\ \A i \in 1 .. Len(prefs) : prefs[i] = Ref(t, d.prefectures[i])
    /\ pc \in {"header", "dates", "table", "strings"} => prefs = <<>>
    /\ \A i \in 1 .. Len(cities) : cities[i] = CityRef(d, t, i)
    /\ pc \in {"header", "dates", "table", "strings", "prefs"} => cities = <<>>
    /\ pc = "cities" => Len(cities) <= Len(d.cities)
    /\ pc \in {"zips", "done"} \cup Reading => Len(cities) = Len(d.cities)

RowsKept(d, t) ==
    /\ \A i \in 1 .. Len(zips) : zips[i] = ZipsOf(d)[i]
    /\ \A c \in DeltaColumns : \A i \in 1 .. Len(columns[c]) :
          columns[c][i] = FieldOf(d, t, c)[i]
    /\ pc \notin Reading \cup {"done"} => \A c \in DeltaColumns : columns[c] = <<>>
    /\ pc \in Reading =>
          \A c \in DeltaColumns \ (ColumnsBefore[column] \cup {column}) :
             columns[c] = <<>>
    /\ pc = "delta" => Len(columns[column]) <= n
    /\ \A i \in 1 .. Len(flags) : flags[i] = FlagsOf(d)[i]
    /\ pc \notin {"flags", "done"} => flags = <<>>
    /\ pc = "flags" => Len(flags) <= n

(* A notes column has the values of the first m records. *)
Matches(s, f, m) ==
    /\ Noted(s) = {i \in 0 .. m - 1 : f[i + 1] # 0}
    /\ \A i \in Noted(s) :
          s.ids[Cardinality(SetBefore(s.present, i)) + 1] = f[i + 1]

NotesBefore ==
    [city |-> {}, kanji |-> {}, kana |-> {}, romaji |-> {}, note |-> {},
     noteKana |-> {"note"}, flags |-> SparseColumns]

NotesKept(d, t) ==
    /\ pc = "values" =>
          /\ Matches(notes[column], FieldOf(d, t, column), previous + 1)
          /\ previous + 1 # 0 => FieldOf(d, t, column)[previous + 1] # 0
    /\ pc \in Reading \cup {"done"} =>
          \A c \in NotesBefore[column] :
             Ranked(notes[c]) /\ Matches(notes[c], FieldOf(d, t, c), n)

OnTrack(d, t) ==
    /\ ~err
    /\ result # "rejected"
    /\ Stands(d, t) /\ SizesKept(d, t) /\ TableKept(d, t) /\ NamesKept(d, t)
    /\ RowsKept(d, t) /\ NotesKept(d, t)

Short(d, t) == Len(payload) < Len(Marshal(d, t))

-----------------------------------------------------------------------------
(* What each step reads. *)

(* A row that is not found is cut off. *)
LEMMA RowFound ==
    ASSUME NEW d, NEW t, NEW c, NEW q \in Nat, NEW s, NEW v, NEW r \in Nat,
           Len(payload) \in Nat, Len(Marshal(d, t)) \in Nat,
           Gets(c, q, s, v), r = q + Len(s), r <= Len(Marshal(d, t))
    PROVE  \/ Short(d, t) /\ c.err
           \/ c = [v |-> v, pos |-> r, err |-> FALSE] /\ r <= Len(payload)
  BY DEF Gets, Short

(* The dates that are read are those that were written, or the payload     *)
(* ended before.                                                           *)
LEMMA DatesGot ==
    ASSUME NEW d, NEW t, Wrote(d, t), Follows(d, t), IInv, OnTrack(d, t), ReadDates
    PROVE  \/ Short(d, t) /\ err'
           \/ updated' = d.updated /\ pos' = Start(d, t)[2] /\ ~err'
  <1> DEFINE a == VarintBytes(d.updated.kenAll)
             b == VarintBytes(d.updated.rome)
             kenAll == ReadVarint(Cursor)
             rome == ReadVarint(kenAll)
  <1>1. Parts(d, t)[1] = a /\ Parts(d, t)[2] = b
    BY DEF Parts
  <1>2. /\ d.updated.kenAll \in Int /\ d.updated.rome \in Int
        /\ d.updated = [kenAll |-> d.updated.kenAll, rome |-> d.updated.rome]
    BY PartsOfDataset DEF Wrote
  <1>3. Zig(d.updated.kenAll) < VarintLimit /\ Zig(d.updated.rome) < VarintLimit
    BY DEF Wrote, Fits
  <1> DEFINE q == Start(d, t)[1]
             r == Start(d, t)[2]
  <1>4. /\ Continues(payload, 0, a) /\ q = 0 + Len(a) /\ q <= Len(Marshal(d, t))
        /\ Continues(payload, q, b) /\ r = q + Len(b) /\ r <= Len(Marshal(d, t))
        /\ q \in Nat /\ r \in Nat
    <2>1. 1 \in 1 .. 15 /\ 2 \in 1 .. 15 /\ 1 - 1 = 0 /\ 2 - 1 = 1 /\ 3 - 1 = 2
          /\ 3 \in 1 .. 15
      OBVIOUS
    <2>2. Start(d, t)[0] = 0
      BY PartsStand
    <2>3. /\ Continues(payload, Start(d, t)[0], Parts(d, t)[1])
          /\ Start(d, t)[1] = Start(d, t)[0] + Len(Parts(d, t)[1])
          /\ Start(d, t)[1] <= Len(Marshal(d, t))
      BY <2>1, PartContinues
    <2>4. /\ Continues(payload, Start(d, t)[1], Parts(d, t)[2])
          /\ Start(d, t)[2] = Start(d, t)[1] + Len(Parts(d, t)[2])
          /\ Start(d, t)[2] <= Len(Marshal(d, t))
          /\ Start(d, t)[1] \in Nat
      BY <2>1, PartContinues
    <2>5. Start(d, t)[2] \in Nat
      BY <2>1, PartContinues
    <2> QED
      BY <1>1, <2>2, <2>3, <2>4, <2>5
  <1>5. Cursor.pos = 0 /\ ~Cursor.err /\ Len(payload) \in Nat
        /\ Len(Marshal(d, t)) \in Nat
    BY PartsStand DEF ReadDates, OnTrack, Stands, Cursor, Follows
  <1>6. Gets(kenAll, 0, a, d.updated.kenAll)
    <2>1. Continues(payload, Cursor.pos, a)
      BY <1>4, <1>5
    <2> QED
      BY <1>2, <1>3, <1>5, <2>1, VarintGets
  <1>7. updated' = [kenAll |-> kenAll.v, rome |-> rome.v]
        /\ pos' = rome.pos /\ err' = rome.err
    BY DEF ReadDates, Advance
  <1> HIDE DEF q, r, a, b, kenAll
  <1>8. \/ Short(d, t) /\ kenAll.err
        \/ kenAll = [v |-> d.updated.kenAll, pos |-> q, err |-> FALSE]
    BY <1>4, <1>5, <1>6, RowFound
  <1>9. CASE Short(d, t) /\ kenAll.err
    <2>1. rome.err
      BY <1>9 DEF ReadVarint, ReadUvarint, Failed
    <2> QED
      BY <1>7, <1>9, <2>1
  <1>10. CASE kenAll = [v |-> d.updated.kenAll, pos |-> q, err |-> FALSE]
    <2>1. kenAll.pos = q /\ ~kenAll.err /\ kenAll.v = d.updated.kenAll
      BY <1>10
    <2>2. Gets(rome, q, b, d.updated.rome)
      BY <1>2, <1>3, <1>4, <1>5, <2>1, VarintGets DEF b
    <2> HIDE DEF rome
    <2>3. \/ Short(d, t) /\ rome.err
          \/ rome = [v |-> d.updated.rome, pos |-> r, err |-> FALSE]
      BY <1>4, <1>5, <2>2, RowFound
    <2> QED
      BY <1>2, <1>7, <2>1, <2>3 DEF r
  <1> QED
    BY <1>8, <1>9, <1>10

(* The part of a row that is one number. *)
LEMMA NumberFound ==
    ASSUME NEW d, NEW t, Wrote(d, t), Follows(d, t), NEW c, c.pos \in Nat, ~c.err,
           NEW x \in 0 .. VarintLimit - 1, Continues(payload, c.pos, UvarintBytes(x)),
           c.pos + Len(UvarintBytes(x)) <= Len(Marshal(d, t))
    PROVE  LET r == c.pos + Len(UvarintBytes(x))
           IN  \/ Short(d, t) /\ ReadUvarint(c).err
               \/ /\ ReadUvarint(c) = [v |-> x, pos |-> r, err |-> FALSE]
                  /\ r \in Nat /\ r <= Len(payload)
  <1> DEFINE s == UvarintBytes(x)
             r == c.pos + Len(s)
             u == ReadUvarint(c)
  <1>1. Len(s) \in Nat /\ r \in Nat
    BY UvarintShape, FormatAssumption, SMTT(60)
  <1>2. Len(payload) \in Nat /\ Len(Marshal(d, t)) \in Nat
    BY PartsStand DEF Follows
  <1>3. Gets(u, c.pos, s, x)
    BY <1>2, UvarintGets
  <1> HIDE DEF s, u
  <1> QED
    BY <1>1, <1>2, <1>3, RowFound DEF r, s, u

-----------------------------------------------------------------------------
(* The string table. *)

(* On the track the cursor stands inside the payload, without an error.    *)
LEMMA TrackCursor ==
    ASSUME NEW d, NEW t, OnTrack(d, t), IInv
    PROVE  /\ Cursor.pos = pos /\ ~Cursor.err /\ pos \in Nat
           /\ payload \in Seq(Byte) /\ Len(payload) \in Nat /\ pos <= Len(payload)
  BY StandingCursor DEF OnTrack, IInv, Standing, Cursor

(* What the decoder finds at the head of the table.                        *)
LEMMA TableFound ==
    ASSUME NEW d, NEW t, Wrote(d, t), Follows(d, t), IInv, OnTrack(d, t),
           pc = "table"
    PROVE  \/ Short(d, t) /\ (Refused(TableStrings) \/ TableBlob.err)
           \/ /\ ~Refused(TableStrings) /\ TableStrings.v = Len(t)
              /\ TableBlob = [v |-> BlobLen(t),
                              pos |-> Start(d, t)[2] + Len(TableHead(t)),
                              err |-> FALSE]
  <1> DEFINE a == UvarintBytes(Len(t))
             b == UvarintBytes(BlobLen(t))
             head == TableHead(t)
             q == Start(d, t)[2]
             F == Marshal(d, t)
             size == Offsets(FrontRows(t))[Len(t)]
  <1>1. /\ Len(t) \in 0 .. VarintLimit - 1 /\ BlobLen(t) \in 0 .. VarintLimit - 1
        /\ a \in Seq(Byte) /\ b \in Seq(Byte) /\ head \in Seq(Byte)
        /\ Len(head) = Len(a) + Len(b) /\ head = a \o b
    BY TableHeadIs DEF TableHead
  <1>2. BlobLen(t) <= MaxPayload /\ MaxPayload \in Nat
    BY BlobWrote, FormatAssumption
  <1>3. Laid(d, t, 3, head, FrontRows(t))
    BY AllLaid
  <1>4. /\ q \in Nat /\ Continues(payload, q, head) /\ q + Len(head) <= Len(F)
    <2>1. 3 - 1 = 2
      OBVIOUS
    <2> QED
      BY <1>3, <2>1 DEF Laid
  <1>5. /\ size \in Nat /\ Len(t) <= size /\ (q + Len(head)) + size <= Len(F)
    <2>1. /\ Len(FrontRows(t)) = Len(t) /\ Len(t) \in Nat \ {0} /\ Len(t) <= size
          /\ FrontRows(t) \in Seq(Seq(Byte))
      BY FrontRowsAre, TableWrote
    <2>2. size \in Nat
      <3>1. Len(t) \in 0 .. Len(FrontRows(t))
        BY <2>1
      <3> QED
        BY <2>1, <3>1, OffsetsAre
    <2>3. Here(d, t, 3, head, FrontRows(t), Len(t)) = (q + Len(head)) + size
      BY DEF Here
    <2>4. Here(d, t, 3, head, FrontRows(t), Len(t)) <= Len(F)
      <3>1. Len(t) \in 1 .. Len(FrontRows(t))
        BY <2>1
      <3> QED
        BY <1>3, <3>1 DEF Laid
    <2> QED
      BY <2>1, <2>2, <2>3, <2>4
  <1>6. /\ Cursor.pos = q /\ ~Cursor.err /\ Len(payload) \in Nat
    BY TrackCursor DEF OnTrack, Stands
  <1>7. Len(F) \in Nat
    BY PartsStand
  <1>8. Continues(payload, q, a) /\ Continues(payload, q + Len(a), b)
    BY <1>1, <1>4, <1>6, ContinuesConcat
  <1> DEFINE s == TableStrings
             e == TableBlob
             la == Len(a)
             lb == Len(b)
             lh == Len(head)
             lt == Len(t)
             lF == Len(F)
             lp == Len(payload)
  <1>9. la \in Nat /\ lb \in Nat /\ lh = la + lb /\ lt \in Nat
    BY <1>1, TableWrote
  <1>10. \/ Short(d, t) /\ s.err
         \/ s = [v |-> Len(t), pos |-> q + la, err |-> FALSE]
    <2>1. Continues(payload, Cursor.pos, a) /\ Cursor.pos \in Nat
      BY <1>4, <1>6, <1>8
    <2>2. Cursor.pos + la <= Len(F)
      BY <1>4, <1>6, <1>7, <1>9
    <2> QED
      BY <1>1, <1>6, <2>1, <2>2, NumberFound DEF TableStrings
  <1>11. CASE Short(d, t) /\ s.err
    BY <1>11 DEF Refused
  <1>12. CASE s = [v |-> Len(t), pos |-> q + la, err |-> FALSE]
    <2>1. s.v = Len(t) /\ s.pos = q + la /\ ~s.err /\ s.pos \in Nat
      BY <1>4, <1>9, <1>12
    <2>2. Gets(e, q + la, b, BlobLen(t))
      <3>1. Continues(payload, s.pos, b)
        BY <1>8, <2>1
      <3> HIDE DEF s
      <3>2. Gets(ReadBounded(s, MaxPayload), s.pos, b, BlobLen(t))
        BY <1>1, <1>2, <1>6, <2>1, <3>1, BoundedGets
      <3> QED
        BY <2>1, <3>2 DEF TableBlob, s
    <2> HIDE DEF s, e, a, b, head, q, F, size
    <2>3. \/ Short(d, t) /\ e.err
          \/ e = [v |-> BlobLen(t), pos |-> q + Len(head), err |-> FALSE]
      <3>1. q + Len(head) = (q + la) + Len(b) /\ q + la \in Nat
            /\ q + Len(head) \in Nat
        BY <1>4, <1>9
      <3>2. Len(Marshal(d, t)) \in Nat /\ q + Len(head) <= Len(Marshal(d, t))
        BY <1>4, <1>7 DEF F
      <3> QED
        BY <1>6, <2>2, <3>1, <3>2, RowFound
    <2>4. TooMany(s) => Short(d, t)
      <3>1. TooMany(s) <=> lt > lp - (q + la)
        BY <2>1 DEF TooMany
      <3>2. lt <= size /\ (q + lh) + size <= lF /\ size \in Nat /\ q \in Nat
            /\ lF \in Nat /\ lp \in Nat
        BY <1>4, <1>5, <1>6, <1>7
      <3>3. Short(d, t) <=> lp < lF
        BY DEF Short, F
      <3> HIDE DEF lt, lp, la, lb, lh, lF
      <3> QED
        BY <1>9, <3>1, <3>2, <3>3
    <2> QED
      BY <2>1, <2>3, <2>4 DEF Refused, s, e, q, head
  <1> QED
    BY <1>10, <1>11, <1>12

(* The table is refused only if the payload was cut off.                   *)
LEMMA TableGot ==
    ASSUME NEW d, NEW t, Wrote(d, t), Follows(d, t), IInv, OnTrack(d, t)
    PROVE  /\ ReadTable =>
                 /\ numStrings' = Len(t) /\ blobLen' = BlobLen(t) /\ ~err'
                 /\ pos' = Start(d, t)[2] + Len(TableHead(t))
           /\ RejectTable => Short(d, t)
  <1>1. ASSUME pc = "table", ~(Short(d, t) /\ (Refused(TableStrings) \/ TableBlob.err))
        PROVE  TableOK
    <2>1. /\ ~Refused(TableStrings) /\ TableStrings.v = Len(t)
          /\ TableBlob = [v |-> BlobLen(t),
                          pos |-> Start(d, t)[2] + Len(TableHead(t)),
                          err |-> FALSE]
      BY <1>1, TableFound
    <2>2. Len(t) # 0 /\ Len(t) <= BlobLen(t) + 1
      BY TableWrote, StringsFitBlob
    <2>3. TableBlob.v = BlobLen(t) /\ ~TableBlob.err
      BY <2>1
    <2> QED
      BY <2>1, <2>2, <2>3 DEF TableOK
  <1>2. ASSUME RejectTable PROVE Short(d, t)
    BY <1>1, <1>2 DEF RejectTable
  <1>3. ASSUME ReadTable
        PROVE  /\ numStrings' = Len(t) /\ blobLen' = BlobLen(t) /\ ~err'
               /\ pos' = Start(d, t)[2] + Len(TableHead(t))
    <2>1. ~(Refused(TableStrings) \/ TableBlob.err) /\ pc = "table"
      BY <1>3 DEF ReadTable, TableOK
    <2>2. /\ TableStrings.v = Len(t)
          /\ TableBlob = [v |-> BlobLen(t),
                          pos |-> Start(d, t)[2] + Len(TableHead(t)),
                          err |-> FALSE]
      BY <2>1, TableFound
    <2>3. /\ numStrings' = TableStrings.v /\ blobLen' = TableBlob.v
          /\ pos' = TableBlob.pos /\ err' = TableBlob.err
      BY <1>3 DEF ReadTable, Advance
    <2> QED
      BY <2>2, <2>3
  <1> QED
    BY <1>2, <1>3

(* Where the string table is read. *)
LEMMA StringsStand ==
    ASSUME NEW d, NEW t, Wrote(d, t), Follows(d, t), IInv, OnTrack(d, t),
           pc = "strings"
    PROVE  LET k == Len(strOff)
           IN  /\ k \in 0 .. Len(t) /\ numStrings = Len(t) /\ blobLen = BlobLen(t)
               /\ Len(blob) = Offsets(t)[k] /\ blob \in Seq(Byte)
               /\ k = 0 => strOff = <<>>
               /\ k > 0 => PreviousString = t[k]
               /\ k = 0 => PreviousString = <<>>
  <1> DEFINE k == Len(strOff)
             off == Offsets(t)
  <1>1. /\ numStrings = Len(t) /\ blobLen = BlobLen(t)
        /\ \A i \in 1 .. k : strOff[i] = off[i - 1]
        /\ \A i \in 1 .. k : i <= Len(t) => Continues(blob, off[i - 1], t[i])
        /\ Len(blob) = off[k]
    BY DEF OnTrack, SizesKept, TableKept
  <1>2. /\ blob \in Seq(Byte) /\ strOff \in Seq(0 .. Len(blob))
        /\ k <= numStrings
    BY DEF IInv, TableBuilt
  <1>3. k \in Nat /\ k \in 0 .. Len(t) /\ (k = 0 => strOff = <<>>)
        /\ (strOff = <<>> => k = 0)
    <2>1. k \in Nat
      BY <1>2
    <2> QED
      BY <1>1, <1>2, <2>1, TableWrote, EmptySeq
  <1>4. ASSUME k > 0 PROVE PreviousString = t[k]
    <2>1. k \in 1 .. Len(t) /\ k \in 1 .. k
      BY <1>3, <1>4
    <2>2. /\ t[k] \in Seq(Byte) /\ off[k] = off[k - 1] + Len(t[k])
          /\ off \in [0 .. Len(t) -> Nat]
      BY <2>1, BlobWrote
    <2>3. k - 1 \in 0 .. Len(t)
      BY <2>1
    <2> DEFINE a == off[k - 1]
               s == t[k]
               b == off[k]
    <2>4. a \in Nat /\ b = a + Len(s) /\ s \in Seq(Byte)
      BY <2>2, <2>3
    <2>5. PreviousString = SubSeq(blob, strOff[k] + 1, Len(blob))
      <3>1. strOff # <<>>
        BY <1>3, <1>4
      <3> QED
        BY <3>1 DEF PreviousString
    <2>6. strOff[k] = a /\ Len(blob) = b /\ Continues(blob, a, s)
      BY <1>1, <2>1
    <2>7. PreviousString = SubSeq(blob, a + 1, b)
      BY <2>5, <2>6
    <2> HIDE DEF a, b, s
    <2>8. Len(s) \in Nat
      BY <2>4
    <2> DEFINE r == SubSeq(blob, a + 1, b)
    <2>9. /\ r \in Seq(Byte) /\ Len(r) = Len(s)
          /\ \A i \in 1 .. Len(s) : r[i] = blob[a + i]
      BY <1>2, <2>4, <2>6, <2>8, SubSeqProperties
    <2>10. \A i \in 1 .. Len(s) : blob[a + i] = s[i]
      BY <2>4, <2>6, <2>8 DEF Continues
    <2> HIDE DEF r
    <2>11. r = s
      <3>1. \A i \in 1 .. Len(s) : r[i] = s[i]
        BY <2>9, <2>10
      <3> QED
        BY <2>4, <2>9, <3>1, SeqEqual
    <2> QED
      BY <2>7, <2>11 DEF r, s
  <1>5. k = 0 => PreviousString = <<>>
    BY <1>3 DEF PreviousString
  <1> QED
    BY <1>1, <1>2, <1>3, <1>4, <1>5

(* What the decoder finds at the next string: the prefix it shares and the *)
(* rest, or the end of the payload.                                        *)
LEMMA StringFound ==
    ASSUME NEW d, NEW t, Wrote(d, t), Follows(d, t), IInv, OnTrack(d, t),
           pc = "strings", Len(strOff) < numStrings
    PROVE  LET i == Len(strOff) + 1
               bytes == ReadBytes(Suffix, Suffix.v)
           IN  \/ Short(d, t) /\ Refused(Suffix)
               \/ /\ ~Refused(Suffix)
                  /\ Prefix.v = Shared(t, i)
                  /\ Suffix.v = Len(Unshared(t, i))
                  /\ bytes = [v |-> Unshared(t, i),
                              pos |-> Here(d, t, 3, TableHead(t), FrontRows(t), i),
                              err |-> FALSE]
  <1> DEFINE i == Len(strOff) + 1
             x == Shared(t, i)
             u == Unshared(t, i)
             a == UvarintBytes(x)
             b == UvarintBytes(Len(u))
             row == FrontRows(t)[i]
             q == Here(d, t, 3, TableHead(t), FrontRows(t), i - 1)
             r == Here(d, t, 3, TableHead(t), FrontRows(t), i)
             F == Marshal(d, t)
  <1>1. Len(strOff) \in 0 .. Len(t) /\ numStrings = Len(t) /\ blobLen = BlobLen(t)
        /\ Len(t) \in Nat
    BY StringsStand, TableWrote
  <1>2. i \in 1 .. Len(t) /\ i - 1 = Len(strOff)
    BY <1>1
  <1> HIDE DEF i
  <1>3. /\ x \in 0 .. VarintLimit - 1 /\ x <= BlobLen(t)
        /\ Len(u) \in 0 .. VarintLimit - 1 /\ u \in Seq(Byte)
        /\ a \in Seq(Byte) /\ Len(a) \in Nat \ {0}
        /\ b \in Seq(Byte) /\ Len(b) \in Nat \ {0}
        /\ row = (a \o b) \o u
        /\ row \in Seq(Byte) /\ Len(row) \in Nat \ {0}
        /\ Len(row) = (Len(a) + Len(b)) + Len(u)
    BY <1>2, FrontRow
  <1>4. /\ q \in Nat /\ r = q + Len(row) /\ r <= Len(F)
        /\ Continues(payload, q, row)
    <2>1. Laid(d, t, 3, TableHead(t), FrontRows(t)) /\ Len(FrontRows(t)) = Len(t)
      BY AllLaid, FrontRowsAre
    <2>2. i - 1 \in 0 .. Len(FrontRows(t)) /\ i \in 1 .. Len(FrontRows(t))
      BY <1>2, <2>1
    <2> QED
      BY <2>1, <2>2 DEF Laid
  <1>5. pos = q
    BY <1>2 DEF OnTrack, Stands
  <1>6. Cursor.pos = q /\ ~Cursor.err /\ payload \in Seq(Byte) /\ Len(payload) \in Nat
    BY <1>5, TrackCursor
  <1>7. Len(F) \in Nat
    BY PartsStand
  <1> DEFINE la == Len(a)
             lb == Len(b)
             lu == Len(u)
  <1>8. /\ Continues(payload, q, a)
        /\ Continues(payload, q + la, b)
        /\ Continues(payload, (q + la) + lb, u)
    <2> HIDE DEF a, b, u, q, row
    <2>1. a \o b \in Seq(Byte) /\ Len(a \o b) = la + lb
      BY <1>3, ConcatProperties
    <2>2. Continues(payload, q, (a \o b) \o u)
      BY <1>3, <1>4
    <2>3. Continues(payload, q, a \o b) /\ Continues(payload, q + Len(a \o b), u)
      BY <1>3, <1>4, <1>6, <2>1, <2>2, ContinuesConcat
    <2>4. Continues(payload, q, a) /\ Continues(payload, q + la, b)
      BY <1>3, <1>4, <1>6, <2>3, ContinuesConcat
    <2>5. q + Len(a \o b) = (q + la) + lb
      BY <1>3, <1>4, <2>1
    <2> QED
      BY <2>3, <2>4, <2>5
  <1>9. /\ la \in Nat /\ lb \in Nat /\ lu \in Nat
        /\ r = ((q + la) + lb) + lu /\ q + la \in Nat /\ (q + la) + lb \in Nat
        /\ q + la <= Len(F) /\ (q + la) + lb <= Len(F) /\ r \in Nat
    <2>1. la \in Nat /\ lb \in Nat /\ lu \in Nat /\ Len(row) = (la + lb) + lu
      BY <1>3
    <2> HIDE DEF la, lb, lu, q, r, row, F
    <2> QED
      BY <1>4, <1>7, <2>1
  <1> DEFINE bytes == ReadBytes(Suffix, Suffix.v)
  <1>10. Gets(Prefix, q, a, x)
    <2>1. Continues(payload, Cursor.pos, a)
      BY <1>6, <1>8
    <2>2. Gets(ReadBounded(Cursor, BlobLen(t)), Cursor.pos, a, x)
      BY <1>3, <1>4, <1>6, <2>1, BoundedGets, BlobWrote
    <2> QED
      BY <1>1, <1>6, <2>2 DEF Prefix
  <1>11. \/ Short(d, t) /\ Prefix.err
         \/ Prefix = [v |-> x, pos |-> q + la, err |-> FALSE]
    <2> HIDE DEF q, a, x
    <2> QED
      BY <1>4, <1>6, <1>7, <1>9, <1>10, RowFound DEF F
  <1>12. CASE Short(d, t) /\ Prefix.err
    <2>1. Suffix.err
      BY <1>12, NothingAfterError DEF Suffix
    <2> QED
      BY <1>12, <2>1 DEF Refused
  <1>13. CASE Prefix = [v |-> x, pos |-> q + la, err |-> FALSE]
    <2>1. Prefix.v = x /\ Prefix.pos = q + la /\ ~Prefix.err
      BY <1>13
    <2>2. \/ Short(d, t) /\ Suffix.err
          \/ /\ Suffix = [v |-> Len(u), pos |-> (q + la) + lb, err |-> FALSE]
             /\ (q + la) + lb <= Len(payload)
      <3>1. /\ Prefix.pos \in Nat /\ Continues(payload, Prefix.pos, b)
            /\ Prefix.pos + Len(b) <= Len(F)
        BY <1>8, <1>9, <2>1
      <3> HIDE DEF b, u, q, la, F
      <3>2. Len(u) \in 0 .. VarintLimit - 1
        BY <1>3
      <3> QED
        BY <2>1, <3>1, <3>2, NumberFound DEF b, F, Suffix
    <2>3. CASE Short(d, t) /\ Suffix.err
      BY <2>3 DEF Refused
    <2>4. CASE /\ Suffix = [v |-> Len(u), pos |-> (q + la) + lb, err |-> FALSE]
               /\ (q + la) + lb <= Len(payload)
      <3>1. Suffix.v = Len(u) /\ Suffix.pos = (q + la) + lb /\ ~Suffix.err
        BY <2>4
      <3>2. Gets(bytes, (q + la) + lb, u, u)
        <4>1. Continues(payload, Suffix.pos, u) /\ Suffix.pos \in Nat
          BY <1>8, <1>9, <3>1
        <4> HIDE DEF u
        <4>2. Gets(ReadBytes(Suffix, Len(u)), Suffix.pos, u, u)
          BY <1>3, <1>6, <3>1, <4>1, BytesGets
        <4> QED
          BY <3>1, <4>2
      <3> HIDE DEF bytes, q, r, a, b, u, F, la, lb
      <3>3. \/ Short(d, t) /\ bytes.err
            \/ bytes = [v |-> u, pos |-> r, err |-> FALSE] /\ r <= Len(payload)
        <4>1. r = ((q + la) + lb) + Len(u)
          BY <1>9
        <4>2. r <= Len(Marshal(d, t)) /\ Len(Marshal(d, t)) \in Nat
          BY <1>4, <1>7 DEF F
        <4> QED
          BY <1>6, <1>9, <3>2, <4>1, <4>2, RowFound
      <3>4. TooMany(Suffix) <=> lu > Len(payload) - ((q + la) + lb)
        BY <3>1 DEF TooMany
      <3> HIDE DEF lu
      <3>5. r <= Len(payload) => ~TooMany(Suffix)
        BY <1>6, <1>9, <3>4
      <3>6. r > Len(payload) => TooMany(Suffix) /\ Short(d, t)
        BY <1>4, <1>6, <1>7, <1>9, <3>4 DEF Short, F
      <3>7. CASE r <= Len(payload)
        <4>1. bytes = [v |-> u, pos |-> r, err |-> FALSE]
          BY <1>6, <1>9, <3>2, <3>7 DEF Gets, lu
        <4> QED
          BY <2>1, <3>1, <3>5, <3>7, <4>1 DEF Refused, i, x, u, r, bytes
      <3>8. CASE r > Len(payload)
        BY <3>6, <3>8 DEF Refused
      <3> QED
        BY <1>6, <1>9, <3>7, <3>8
    <2> QED
      BY <2>2, <2>3, <2>4
  <1> QED
    BY <1>11, <1>12, <1>13

(* A string is read as it stands in the table, and no table is refused. *)
LEMMA StringGot ==
    ASSUME NEW d, NEW t, Wrote(d, t), Follows(d, t), IInv, OnTrack(d, t)
    PROVE  /\ ReadString =>
                 LET i == Len(strOff) + 1
                 IN  /\ i \in 1 .. Len(t)
                     /\ blob' = blob \o t[i]
                     /\ strOff' = Append(strOff, Len(blob))
                     /\ pos' = Here(d, t, 3, TableHead(t), FrontRows(t), i)
                     /\ ~err'
           /\ RejectString => Short(d, t)
           /\ ~RejectStrings
  <1> DEFINE i == Len(strOff) + 1
             k == Len(strOff)
             x == Shared(t, i)
             u == Unshared(t, i)
             prev == PreviousString
             bytes == ReadBytes(Suffix, Suffix.v)
  <1>1. ASSUME pc = "strings"
        PROVE  /\ k \in 0 .. Len(t) /\ numStrings = Len(t) /\ blobLen = BlobLen(t)
               /\ Len(blob) = Offsets(t)[k] /\ blob \in Seq(Byte)
               /\ k = 0 => strOff = <<>>
               /\ k > 0 => prev = t[k]
               /\ k = 0 => prev = <<>>
    BY <1>1, StringsStand
  <1>2. ASSUME pc = "strings", k < numStrings
        PROVE  /\ i \in 1 .. Len(t) /\ i - 1 = k /\ t[i] \in Seq(Byte)
               /\ x \in 0 .. Len(t[i])
               /\ k % RestartInterval = 0 => x = 0
               /\ x <= Len(prev) /\ prev \in Seq(Byte)
               /\ SubSeq(prev, 1, x) = SubSeq(t[i], 1, x)
               /\ SubSeq(prev, 1, x) \o u = t[i]
               /\ Len(blob) + x + Len(u) <= blobLen
               /\ SubSeq(prev, 1, x) \in Seq(Byte) /\ u \in Seq(Byte)
    <2>1. i \in 1 .. Len(t) /\ i - 1 = k
      BY <1>1, <1>2
    <2>2. t \in Seq(Text) /\ t[i] \in Seq(Byte)
      BY <2>1, TableWrote, BlobWrote
    <2>3. /\ x \in 0 .. Len(t[i])
          /\ k % RestartInterval = 0 => x = 0
          /\ i = 1 => x = 0
          /\ i > 1 => /\ x <= Len(t[i - 1])
                      /\ SubSeq(t[i - 1], 1, x) = SubSeq(t[i], 1, x)
      BY <2>1, <2>2, SharedIs
    <2>4. /\ SubSeq(t[i], 1, x) \in Seq(Byte) /\ u \in Seq(Byte)
          /\ SubSeq(t[i], 1, x) \o u = t[i]
          /\ Len(u) = Len(t[i]) - x
      BY <2>2, <2>3, PrefixAndRest DEF Unshared
    <2>5. /\ x <= Len(prev) /\ prev \in Seq(Byte)
          /\ SubSeq(prev, 1, x) = SubSeq(t[i], 1, x)
      <3>1. CASE k = 0
        <4>1. prev = <<>> /\ x = 0
          BY <1>1, <1>2, <2>1, <2>3, <3>1
        <4>2. Len(<<>>) = 0 /\ <<>> \in Seq(Byte)
          OBVIOUS
        <4>3. Len(SubSeq(<<>>, 1, 0)) = 0 /\ SubSeq(<<>>, 1, 0) \in Seq(Byte)
          BY <4>2, PrefixAndRest
        <4>4. Len(SubSeq(t[i], 1, 0)) = 0 /\ SubSeq(t[i], 1, 0) \in Seq(Byte)
          BY <2>2, PrefixAndRest
        <4>5. SubSeq(<<>>, 1, 0) = SubSeq(t[i], 1, 0)
          BY <4>3, <4>4, EmptySeq
        <4> QED
          BY <4>1, <4>2, <4>5
      <3>2. CASE k > 0
        <4>1. prev = t[k] /\ i > 1 /\ i - 1 = k /\ k \in 1 .. Len(t)
          BY <1>1, <1>2, <2>1, <3>2
        <4>2. t[k] \in Seq(Byte)
          BY <4>1, BlobWrote
        <4> QED
          BY <2>3, <4>1, <4>2
      <3>3. k = 0 \/ k > 0
        BY <1>1, <1>2
      <3> HIDE DEF prev, x, k, i
      <3> QED
        BY <3>1, <3>2, <3>3
    <2>6. Len(blob) + x + Len(u) <= blobLen
      <3> DEFINE p == Offsets(t)[i - 1]
                 r == Offsets(t)[i]
      <3>1. r = p + Len(t[i]) /\ r <= BlobLen(t) /\ Len(blob) = p
            /\ blobLen = BlobLen(t)
        BY <1>1, <1>2, <2>1, BlobWrote
      <3>2. p \in Nat /\ r \in Nat
        <4>1. i - 1 \in 0 .. Len(t) /\ i \in 0 .. Len(t)
          BY <2>1
        <4> QED
          BY <4>1, BlobWrote
      <3>3. Len(u) = Len(t[i]) - x /\ x \in Nat /\ Len(t[i]) \in Nat
        BY <2>2, <2>3, <2>4
      <3> DEFINE lt == Len(t[i])
                 lu == Len(u)
                 lb == Len(blob)
                 lc == BlobLen(t)
      <3>4. /\ r = p + lt /\ r <= lc /\ lb = p /\ blobLen = lc
            /\ p \in Nat /\ r \in Nat /\ lu = lt - x /\ x \in Nat /\ lt \in Nat
            /\ lc \in Nat
        BY <3>1, <3>2, <3>3, BlobWrote
      <3>5. lb + x + lu <= blobLen
        <4> HIDE DEF p, r, u, x, lt, lu, lb, lc
        <4> QED
          BY <3>4
      <3> QED
        BY <3>5
    <2> QED
      BY <2>1, <2>2, <2>3, <2>4, <2>5, <2>6
  <1>3. ASSUME pc = "strings", k < numStrings, ~(Short(d, t) /\ Refused(Suffix))
        PROVE  /\ StringOK /\ Prefix.v = x
               /\ bytes = [v |-> u,
                           pos |-> Here(d, t, 3, TableHead(t), FrontRows(t), i),
                           err |-> FALSE]
    <2>1. /\ ~Refused(Suffix) /\ Prefix.v = x /\ Suffix.v = Len(u)
          /\ bytes = [v |-> u,
                      pos |-> Here(d, t, 3, TableHead(t), FrontRows(t), i),
                      err |-> FALSE]
      BY <1>3, StringFound
    <2>2. /\ k % RestartInterval = 0 => x = 0
          /\ x <= Len(prev)
          /\ Len(blob) + x + Len(u) <= blobLen
      BY <1>2, <1>3
    <2> HIDE DEF x, u, bytes, prev, i
    <2>3. StringOK
      BY <2>1, <2>2 DEF StringOK, prev
    <2> QED
      BY <2>1, <2>3
  <1>4. ASSUME RejectString PROVE Short(d, t)
    <2>1. pc = "strings" /\ k < numStrings /\ ~StringOK
      BY <1>4 DEF RejectString
    <2> QED
      BY <1>3, <2>1
  <1>5. ASSUME ReadString
        PROVE  /\ i \in 1 .. Len(t)
               /\ blob' = blob \o t[i]
               /\ strOff' = Append(strOff, Len(blob))
               /\ pos' = Here(d, t, 3, TableHead(t), FrontRows(t), i)
               /\ ~err'
    <2>1. pc = "strings" /\ k < numStrings /\ StringOK
      BY <1>5 DEF ReadString
    <2>2. ~Refused(Suffix)
      BY <2>1 DEF StringOK
    <2>3. /\ Prefix.v = x
          /\ bytes = [v |-> u,
                      pos |-> Here(d, t, 3, TableHead(t), FrontRows(t), i),
                      err |-> FALSE]
      BY <1>3, <2>1, <2>2
    <2>4. /\ strOff' = Append(strOff, Len(blob))
          /\ blob' = blob \o SubSeq(prev, 1, Prefix.v) \o bytes.v
          /\ pos' = bytes.pos /\ err' = bytes.err
      BY <1>5 DEF ReadString, Advance
    <2>5. blob' = (blob \o SubSeq(prev, 1, x)) \o u
      <3>1. Prefix.v = x /\ bytes.v = u
        BY <2>3
      <3> HIDE DEF x, u, bytes, prev
      <3> QED
        BY <2>4, <3>1
    <2>6. /\ i \in 1 .. Len(t) /\ SubSeq(prev, 1, x) \o u = t[i]
          /\ SubSeq(prev, 1, x) \in Seq(Byte) /\ u \in Seq(Byte)
          /\ blob \in Seq(Byte)
      BY <1>1, <1>2, <2>1
    <2> DEFINE s == SubSeq(prev, 1, x)
    <2>7. (blob \o s) \o u = blob \o (s \o u)
      <3>1. s \in Seq(Byte) /\ u \in Seq(Byte) /\ blob \in Seq(Byte)
        BY <2>6
      <3> HIDE DEF s, u
      <3> QED
        BY <3>1, ConcatAssociative, SMTT(60)
    <2>8. bytes.pos = Here(d, t, 3, TableHead(t), FrontRows(t), i) /\ ~bytes.err
      BY <2>3
    <2>9. blob' = blob \o t[i]
      <3>1. blob' = (blob \o s) \o u /\ s \o u = t[i]
        BY <2>5, <2>6
      <3> HIDE DEF s, u
      <3> QED
        BY <2>7, <3>1
    <2> HIDE DEF bytes
    <2> QED
      BY <2>4, <2>6, <2>8, <2>9
  <1>6. ASSUME RejectStrings PROVE FALSE
    <2>1. pc = "strings" /\ k = numStrings /\ ~StringsOK
      BY <1>6 DEF RejectStrings
    <2>2. k = Len(t) /\ Len(blob) = Offsets(t)[k] /\ blobLen = BlobLen(t)
          /\ blob \in Seq(Byte)
      BY <1>1, <2>1
    <2>3. Len(blob) = blobLen
      BY <2>2, BlobWrote
    <2>4. ~err
      BY DEF OnTrack
    <2>5. ASSUME k > 1 PROVE strOff[2] = 0
      <3>1. 2 \in 1 .. Len(strOff) /\ 2 - 1 = 1
        BY <2>2, <2>5, TableWrote
      <3>2. strOff[2] = Offsets(t)[2 - 1]
        BY <3>1 DEF OnTrack, TableKept
      <3> QED
        BY <3>1, <3>2, StringsFitBlob
    <2>6. ASSUME k = 1 PROVE blob = <<>>
      <3>1. Len(blob) = 0
        BY <2>2, <2>6, StringsFitBlob
      <3> QED
        BY <2>2, <3>1, EmptySeq
    <2> QED
      BY <2>1, <2>3, <2>4, <2>5, <2>6 DEF StringsOK
  <1> QED
    BY <1>4, <1>5, <1>6

-----------------------------------------------------------------------------
(* Rows of a part. *)

(* At a row the payload goes on with it.                                   *)
LEMMA RowAt ==
    ASSUME NEW d, NEW t, Wrote(d, t), Follows(d, t), IInv, OnTrack(d, t),
           NEW p, NEW head, NEW rows, Laid(d, t, p, head, rows),
           NEW k \in 0 .. Len(rows), k # Len(rows), Len(rows) \in Nat,
           pos = Here(d, t, p, head, rows, k)
    PROVE  /\ Cursor.pos = pos /\ Cursor.pos \in Nat /\ ~Cursor.err
           /\ Continues(payload, Cursor.pos, rows[k + 1])
           /\ Here(d, t, p, head, rows, k + 1) = pos + Len(rows[k + 1])
           /\ Here(d, t, p, head, rows, k + 1) \in Nat
           /\ Here(d, t, p, head, rows, k + 1) <= Len(Marshal(d, t))
           /\ Len(payload) \in Nat /\ Len(Marshal(d, t)) \in Nat
  <1>1. k + 1 \in 1 .. Len(rows) /\ k + 1 \in 0 .. Len(rows) /\ (k + 1) - 1 = k
    OBVIOUS
  <1> DEFINE h == Here(d, t, p, head, rows, k + 1)
             i == k + 1
  <1>2. i \in 1 .. Len(rows) /\ i \in 0 .. Len(rows) /\ i - 1 = k
    BY <1>1
  <1> HIDE DEF i
  <1>3. /\ Continues(payload, Here(d, t, p, head, rows, i - 1), rows[i])
        /\ Here(d, t, p, head, rows, i) =
             Here(d, t, p, head, rows, i - 1) + Len(rows[i])
        /\ Here(d, t, p, head, rows, i) <= Len(Marshal(d, t))
        /\ Here(d, t, p, head, rows, i) \in Nat
    BY <1>2 DEF Laid
  <1>4. /\ Cursor.pos = pos /\ pos \in Nat /\ ~Cursor.err /\ Len(payload) \in Nat
    BY TrackCursor
  <1>5. Len(Marshal(d, t)) \in Nat
    BY PartsStand
  <1> QED
    BY <1>2, <1>3, <1>4, <1>5 DEF i

(* A part that is one count. *)
LEMMA CountFound ==
    ASSUME NEW d, NEW t, Wrote(d, t), Follows(d, t), IInv, OnTrack(d, t),
           NEW p \in 1 .. 15, NEW x \in 0 .. VarintLimit - 1,
           Parts(d, t)[p] = UvarintBytes(x), pos = Start(d, t)[p - 1]
    PROVE  \/ Short(d, t) /\ ReadUvarint(Cursor).err
           \/ ReadUvarint(Cursor) = [v |-> x, pos |-> Start(d, t)[p], err |-> FALSE]
  <1> DEFINE s == UvarintBytes(x)
  <1>1. /\ Cursor.pos = Start(d, t)[p - 1] /\ ~Cursor.err
    BY TrackCursor
  <1>2. /\ Start(d, t)[p - 1] \in Nat
        /\ Continues(payload, Start(d, t)[p - 1], s)
        /\ Start(d, t)[p] = Start(d, t)[p - 1] + Len(s)
        /\ Start(d, t)[p] <= Len(Marshal(d, t))
    BY PartContinues
  <1>3. Cursor.pos \in Nat /\ Continues(payload, Cursor.pos, UvarintBytes(x))
        /\ Cursor.pos + Len(UvarintBytes(x)) = Start(d, t)[p]
        /\ Cursor.pos + Len(UvarintBytes(x)) <= Len(Marshal(d, t))
    BY <1>1, <1>2
  <1>4. \/ Short(d, t) /\ ReadUvarint(Cursor).err
        \/ ReadUvarint(Cursor) =
             [v |-> x, pos |-> Cursor.pos + Len(UvarintBytes(x)), err |-> FALSE]
    BY <1>1, <1>3, NumberFound
  <1> QED
    BY <1>3, <1>4

(* A count of things that take a byte each, and are all written. *)
LEMMA CountGot ==
    ASSUME NEW d, NEW t, Wrote(d, t), Follows(d, t), IInv, OnTrack(d, t),
           NEW p \in 1 .. 15, NEW x \in 0 .. VarintLimit - 1,
           Parts(d, t)[p] = UvarintBytes(x), pos = Start(d, t)[p - 1],
           Start(d, t)[p] + x <= Len(Marshal(d, t))
    PROVE  \/ Short(d, t) /\ Refused(ReadUvarint(Cursor))
           \/ ReadUvarint(Cursor) = [v |-> x, pos |-> Start(d, t)[p], err |-> FALSE]
              /\ ~Refused(ReadUvarint(Cursor))
  <1> DEFINE u == ReadUvarint(Cursor)
             q == Start(d, t)[p]
             lF == Len(Marshal(d, t))
             lp == Len(payload)
  <1>1. \/ Short(d, t) /\ u.err
        \/ u = [v |-> x, pos |-> q, err |-> FALSE]
    BY CountFound
  <1>2. q \in Nat /\ lF \in Nat /\ lp \in Nat /\ x \in Nat /\ q + x <= lF
    <2>1. p \in 0 .. 15
      OBVIOUS
    <2>2. Start(d, t) \in [0 .. 15 -> Nat] /\ Len(Marshal(d, t)) \in Nat
      BY PartsStand
    <2>3. lp \in Nat
      BY DEF Follows
    <2>4. VarintLimit \in Nat
      BY FormatAssumption
    <2>5. q \in Nat
      BY <2>1, <2>2
    <2>6. q + x <= lF
      OBVIOUS
    <2> HIDE DEF q, lp, lF
    <2> QED
      BY <2>2, <2>3, <2>4, <2>5, <2>6 DEF lF
  <1>3. Short(d, t) <=> lp < lF
    BY DEF Short
  <1> HIDE DEF u, q, lF, lp
  <1>4. CASE u = [v |-> x, pos |-> q, err |-> FALSE]
    <2>1. u.v = x /\ u.pos = q /\ ~u.err
      BY <1>4
    <2>2. TooMany(u) <=> x > lp - q
      BY <2>1 DEF TooMany, lp
    <2>3. TooMany(u) => lp < lF
      BY <1>2, <2>2
    <2> QED
      BY <1>3, <1>4, <2>1, <2>3 DEF Refused, u, q
  <1> QED
    BY <1>1, <1>4 DEF Refused, u

-----------------------------------------------------------------------------
(* Prefectures and cities. *)

(* The next prefecture that is read is the next that was written.          *)
LEMMA PrefectureGot ==
    ASSUME NEW d, NEW t, Wrote(d, t), Follows(d, t), IInv, OnTrack(d, t),
           ReadPrefecture
    PROVE  LET k == Len(prefs)
           IN  /\ k \in 0 .. PrefectureCount - 1
               /\ \/ Short(d, t) /\ err'
                  \/ /\ prefs' = Append(prefs, Ref(t, d.prefectures[k + 1]))
                     /\ pos' = Here(d, t, 4, <<>>, PrefRows(d, t), k + 1)
                     /\ ~err'
  <1> DEFINE k == Len(prefs)
             c == ReadNameRef(Cursor)
             ref == Ref(t, d.prefectures[k + 1])
             rows == PrefRows(d, t)
             s == rows[k + 1]
             r == Here(d, t, 4, <<>>, rows, k + 1)
  <1>1. pc = "prefs" /\ k < PrefectureCount
        /\ prefs' = Append(prefs, c.v) /\ pos' = c.pos /\ err' = c.err
    BY DEF ReadPrefecture, Advance
  <1>2. k \in 0 .. PrefectureCount - 1 /\ k + 1 \in 1 .. PrefectureCount
    BY <1>1, FormatAssumption DEF IInv, NamesBuilt
  <1>3. /\ rows \in Seq(Seq(Byte)) /\ Len(rows) = PrefectureCount
        /\ ref \in References /\ s = RefBytes(ref)
    BY <1>2, PrefRowsAre
  <1>4. pos = Here(d, t, 4, <<>>, rows, k)
    BY <1>1 DEF OnTrack, Stands
  <1>5. Laid(d, t, 4, <<>>, rows)
    BY AllLaid
  <1>6. k \in 0 .. Len(rows) /\ k # Len(rows) /\ Len(rows) \in Nat
    <2>1. PrefectureCount \in Nat
      BY FormatAssumption
    <2> HIDE DEF rows, k
    <2> QED
      BY <1>2, <1>3, <2>1
  <1> HIDE DEF rows, k
  <1>7. /\ Cursor.pos = pos /\ Cursor.pos \in Nat /\ ~Cursor.err
        /\ Continues(payload, Cursor.pos, s) /\ Len(payload) \in Nat
        /\ r = pos + Len(s) /\ r \in Nat /\ r <= Len(Marshal(d, t))
        /\ Len(Marshal(d, t)) \in Nat
    BY <1>4, <1>5, <1>6, RowAt
  <1>8. Gets(c, pos, s, ref)
    <2> HIDE DEF ref, s
    <2>1. Gets(c, Cursor.pos, RefBytes(ref), ref)
      BY <1>3, <1>7, NameRefGets
    <2> QED
      BY <1>3, <1>7, <2>1
  <1> HIDE DEF c, ref, s, r
  <1>9. \/ Short(d, t) /\ c.err
        \/ c = [v |-> ref, pos |-> r, err |-> FALSE]
    BY <1>7, <1>8, RowFound
  <1>10. \/ Short(d, t) /\ err'
         \/ prefs' = Append(prefs, ref) /\ ~err'
            /\ pos' = r
    BY <1>1, <1>9
  <1> QED
    BY <1>2, <1>10 DEF ref, rows, k, r

(* The number of cities that is read is the one that was written.          *)
LEMMA CityCountGot ==
    ASSUME NEW d, NEW t, Wrote(d, t), Follows(d, t), IInv, OnTrack(d, t)
    PROVE  /\ ReadCityCount =>
                 /\ numCities' = Len(d.cities) /\ ~err'
                 /\ pos' = Here(d, t, 6, <<>>, CityRows(d, t), 0)
           /\ RejectCityCount => Short(d, t)
  <1> DEFINE x == Len(d.cities)
             u == ReadUvarint(Cursor)
             rows == CityRows(d, t)
  <1>1. Laid(d, t, 6, <<>>, rows) /\ Laid(d, t, 4, <<>>, PrefRows(d, t))
    BY AllLaid
  <1>2. /\ rows \in Seq(Seq(Byte)) /\ Len(rows) = x /\ x <= Offsets(rows)[x]
        /\ x \in 0 .. VarintLimit - 1 /\ x \in Nat
    BY CityRowsAre, WroteCities, FormatAssumption
  <1>3. /\ Parts(d, t)[5] = UvarintBytes(x) /\ 5 \in 1 .. 15 /\ 5 - 1 = 4
        /\ 6 - 1 = 5 /\ 6 \in 1 .. 15
    BY DEF Parts
  <1>4. Here(d, t, 6, <<>>, rows, 0) = Start(d, t)[5]
    <2>1. /\ Here(d, t, 6, <<>>, rows, 0) = Start(d, t)[5] + Len(<<>>)
          /\ Start(d, t)[5] \in Nat
      BY <1>1, <1>3 DEF Laid
    <2> QED
      BY <2>1
  <1>5. Start(d, t)[5] + x <= Len(Marshal(d, t))
    <2>1. Here(d, t, 6, <<>>, rows, x) = Start(d, t)[6]
      BY <1>1, <1>2 DEF Laid
    <2>2. Here(d, t, 6, <<>>, rows, x) = (Start(d, t)[5] + Len(<<>>)) + Offsets(rows)[x]
      BY <1>3 DEF Here
    <2>3. Start(d, t)[6] <= Len(Marshal(d, t)) /\ Len(Marshal(d, t)) \in Nat
          /\ Start(d, t)[5] \in Nat
      <3>1. Start(d, t)[6 - 1] \in Nat
        BY <1>3, PartContinues
      <3> QED
        BY <1>3, <3>1, PartsStand
    <2>4. Offsets(rows)[x] \in Nat
      <3>1. x \in 0 .. Len(rows)
        BY <1>2
      <3> QED
        BY <1>2, <3>1, OffsetsAre
    <2> DEFINE a == Start(d, t)[5]
               o == Offsets(rows)[x]
               l == Len(Marshal(d, t))
    <2>5. a + o <= l /\ a \in Nat /\ o \in Nat /\ l \in Nat /\ x <= o /\ x \in Nat
      BY <1>2, <2>1, <2>2, <2>3, <2>4
    <2> HIDE DEF a, o, l, x
    <2>6. a + x <= l
      BY <2>5
    <2> QED
      BY <2>6 DEF a, l
  <1>6. ASSUME pc = "prefs", Len(prefs) = PrefectureCount
        PROVE  \/ Short(d, t) /\ Refused(u)
               \/ u = [v |-> x, pos |-> Start(d, t)[5], err |-> FALSE]
                  /\ ~Refused(u)
    <2>1. pos = Here(d, t, 4, <<>>, PrefRows(d, t), PrefectureCount)
      BY <1>6 DEF OnTrack, Stands
    <2>2. Len(PrefRows(d, t)) = PrefectureCount
      BY PrefRowsAre
    <2>3. pos = Start(d, t)[4]
      BY <1>1, <2>1, <2>2 DEF Laid
    <2> HIDE DEF x, u
    <2> QED
      BY <1>2, <1>3, <1>5, <2>3, CountGot DEF x, u
  <1> HIDE DEF x, u, rows
  <1>7. ASSUME ReadCityCount
        PROVE  /\ numCities' = x /\ ~err'
               /\ pos' = Here(d, t, 6, <<>>, rows, 0)
    <2>1. /\ pc = "prefs" /\ Len(prefs) = PrefectureCount /\ ~Refused(u)
          /\ numCities' = u.v /\ pos' = u.pos /\ err' = u.err
      BY <1>7 DEF ReadCityCount, Advance, u
    <2>2. u = [v |-> x, pos |-> Start(d, t)[5], err |-> FALSE]
      BY <1>6, <2>1
    <2> QED
      BY <1>4, <2>1, <2>2
  <1>8. ASSUME RejectCityCount PROVE Short(d, t)
    BY <1>6, <1>8 DEF RejectCityCount, u
  <1> QED
    BY <1>7, <1>8 DEF x, rows

(* The number of records that is read is the one that was written.         *)
LEMMA RecordCountGot ==
    ASSUME NEW d, NEW t, Wrote(d, t), Follows(d, t), IInv, OnTrack(d, t)
    PROVE  /\ ReadRecordCount =>
                 /\ n' = Len(d.records) /\ ~err'
                 /\ pos' = Here(d, t, 8, <<>>, ZipRows(ZipsOf(d)), 0)
           /\ RejectRecordCount => Short(d, t)
  <1> DEFINE x == Len(d.records)
             u == ReadUvarint(Cursor)
             rows == ZipRows(ZipsOf(d))
  <1>1. Laid(d, t, 6, <<>>, CityRows(d, t)) /\ Laid(d, t, 8, <<>>, rows)
    BY AllLaid
  <1>2. x \in 0 .. VarintLimit - 1 /\ x \in Nat
    BY WroteRecords, FormatAssumption, SMTT(60)
  <1>3. /\ Parts(d, t)[7] = UvarintBytes(x) /\ 7 \in 1 .. 15 /\ 7 - 1 = 6
        /\ Parts(d, t)[15] = FlagsOf(d) /\ 15 \in 1 .. 15 /\ 15 - 1 = 14
        /\ 8 - 1 = 7
    BY DEF Parts
  <1>4. Here(d, t, 8, <<>>, rows, 0) = Start(d, t)[7]
    <2>1. /\ Here(d, t, 8, <<>>, rows, 0) = Start(d, t)[7] + Len(<<>>)
          /\ Start(d, t)[7] \in Nat
      BY <1>1, <1>3 DEF Laid
    <2> QED
      BY <2>1
  <1>5. Start(d, t)[7] + x <= Len(Marshal(d, t))
    <2>1. Start(d, t)[7] <= Start(d, t)[14]
      <3>1. Parts(d, t) \in Seq(Seq(Byte)) /\ Len(Parts(d, t)) = 15
        BY PartsAre
      <3>2. 7 \in 0 .. Len(Parts(d, t)) /\ 14 \in 7 .. Len(Parts(d, t))
        BY <3>1
      <3> QED
        BY <3>1, <3>2, OffsetsGrow DEF Start
    <2>2. /\ Start(d, t)[15] = Start(d, t)[14] + Len(Parts(d, t)[15])
          /\ Start(d, t)[15] <= Len(Marshal(d, t))
          /\ Start(d, t)[14] \in Nat
      BY <1>3, PartContinues, SMTT(60)
    <2>3. Len(Parts(d, t)[15]) = x
      BY <1>3, FlagsWrote
    <2>4. Start(d, t)[7] \in Nat /\ Start(d, t)[15] \in Nat
          /\ Len(Marshal(d, t)) \in Nat
      <3>1. 7 \in 0 .. 15 /\ 15 \in 0 .. 15
        OBVIOUS
      <3> QED
        BY <3>1, PartsStand
    <2> DEFINE a == Start(d, t)[7]
               b == Start(d, t)[14]
               e == Start(d, t)[15]
               l == Len(Marshal(d, t))
    <2>5. a <= b /\ e = b + x /\ e <= l /\ a \in Nat /\ b \in Nat /\ e \in Nat
          /\ l \in Nat
      BY <2>1, <2>2, <2>3, <2>4
    <2> HIDE DEF a, b, e, l, x
    <2>6. a + x <= l
      BY <1>2, <2>5
    <2> QED
      BY <2>6 DEF a, l
  <1>6. ASSUME pc = "cities", Len(cities) = numCities
        PROVE  \/ Short(d, t) /\ Refused(u)
               \/ u = [v |-> x, pos |-> Start(d, t)[7], err |-> FALSE]
                  /\ ~Refused(u)
    <2>1. pos = Here(d, t, 6, <<>>, CityRows(d, t), Len(d.cities))
      <3>1. pos = Here(d, t, 6, <<>>, CityRows(d, t), Len(cities))
        BY <1>6 DEF OnTrack, Stands
      <3>2. numCities = Len(d.cities)
        BY <1>6 DEF OnTrack, SizesKept
      <3> QED
        BY <1>6, <3>1, <3>2
    <2>2. Len(CityRows(d, t)) = Len(d.cities)
      BY CityRowsAre
    <2>3. pos = Start(d, t)[6]
      BY <1>1, <2>1, <2>2 DEF Laid
    <2> HIDE DEF x, u
    <2> QED
      BY <1>2, <1>3, <1>5, <2>3, CountGot DEF x, u
  <1> HIDE DEF x, u, rows
  <1>7. ASSUME ReadRecordCount
        PROVE  /\ n' = x /\ ~err'
               /\ pos' = Here(d, t, 8, <<>>, rows, 0)
    <2>1. /\ pc = "cities" /\ Len(cities) = numCities /\ ~Refused(u)
          /\ n' = u.v /\ pos' = u.pos /\ err' = u.err
      BY <1>7 DEF ReadRecordCount, Advance, u
    <2>2. u = [v |-> x, pos |-> Start(d, t)[7], err |-> FALSE]
      BY <1>6, <2>1
    <2> QED
      BY <1>4, <2>1, <2>2
  <1>8. ASSUME RejectRecordCount PROVE Short(d, t)
    BY <1>6, <1>8 DEF RejectRecordCount, u
  <1> QED
    BY <1>7, <1>8 DEF x, rows

(* What goes on with three sequences goes on with each in its place.       *)
LEMMA ThreeParts ==
    ASSUME Len(payload) \in Nat, NEW q \in Nat, NEW a \in Seq(Byte),
           NEW b \in Seq(Byte), NEW c \in Seq(Byte),
           Continues(payload, q, (a \o b) \o c)
    PROVE  /\ Continues(payload, q, a)
           /\ Continues(payload, q + Len(a), b)
           /\ Continues(payload, (q + Len(a)) + Len(b), c)
  <1>1. a \o b \in Seq(Byte) /\ Len(a \o b) = Len(a) + Len(b)
        /\ Len(a) \in Nat /\ Len(b) \in Nat
    BY ConcatProperties
  <1>2. Continues(payload, q, a \o b) /\ Continues(payload, q + Len(a \o b), c)
    BY <1>1, ContinuesConcat
  <1>3. Continues(payload, q, a) /\ Continues(payload, q + Len(a), b)
    BY <1>2, ContinuesConcat
  <1>4. q + Len(a \o b) = (q + Len(a)) + Len(b)
    BY <1>1
  <1> QED
    BY <1>2, <1>3, <1>4

(* The next city that is read is the next that was written.                *)
LEMMA CityGot ==
    ASSUME NEW d, NEW t, Wrote(d, t), Follows(d, t), IInv, OnTrack(d, t), ReadCity
    PROVE  LET k == Len(cities)
           IN  /\ k \in 0 .. Len(d.cities) - 1
               /\ \/ Short(d, t) /\ err'
                  \/ /\ cities' = Append(cities, CityRef(d, t, k + 1))
                     /\ pos' = Here(d, t, 6, <<>>, CityRows(d, t), k + 1)
                     /\ ~err'
  <1> DEFINE k == Len(cities)
             i == k + 1
             jis == ReadUvarint32(Cursor)
             pref == ReadByte(jis)
             name == ReadNameRef(pref)
             ref == Ref(t, d.cities[i])
             x == d.cities[i].jis
             y == d.cities[i].pref
             rows == CityRows(d, t)
             s == rows[i]
             a == UvarintBytes(x)
             b == <<y>>
             c == RefBytes(ref)
             r == Here(d, t, 6, <<>>, rows, i)
             lF == Len(Marshal(d, t))
  <1>1. /\ pc = "cities" /\ k < numCities
        /\ cities' = Append(cities, [jis |-> jis.v, pref |-> pref.v,
                                     name |-> name.v])
        /\ pos' = name.pos /\ err' = name.err
    BY DEF ReadCity, Advance
  <1>2. k \in 0 .. Len(d.cities) - 1 /\ i \in 1 .. Len(d.cities)
    <2>1. numCities = Len(d.cities) /\ Len(d.cities) \in Nat /\ k \in Nat
      BY <1>1, WroteCities DEF IInv, NamesBuilt, OnTrack, SizesKept
    <2> HIDE DEF k
    <2> QED
      BY <1>1, <2>1
  <1>3. /\ rows \in Seq(Seq(Byte)) /\ Len(rows) = Len(d.cities)
        /\ ref \in References /\ x \in 0 .. MaxUint32
        /\ a \in Seq(Byte) /\ Len(a) \in Nat /\ b \in Seq(Byte) /\ Len(b) = 1
        /\ c \in Seq(Byte) /\ Len(c) \in Nat
        /\ s = (a \o b) \o c /\ Len(s) = (Len(a) + 1) + Len(c)
    BY <1>2, CityRow, CityRowsAre, ZenonT(60)
  <1>4. pos = Here(d, t, 6, <<>>, rows, k)
    BY <1>1 DEF OnTrack, Stands
  <1>5. Laid(d, t, 6, <<>>, rows)
    BY AllLaid
  <1>6. k \in 0 .. Len(rows) /\ k # Len(rows) /\ Len(rows) \in Nat
    <2>1. Len(d.cities) \in Nat
      BY WroteCities
    <2> HIDE DEF rows, k
    <2> QED
      BY <1>2, <1>3, <2>1
  <1>7. /\ Cursor.pos = pos /\ Cursor.pos \in Nat /\ ~Cursor.err /\ pos \in Nat
        /\ Continues(payload, pos, s) /\ Len(payload) \in Nat
        /\ r = pos + Len(s) /\ r \in Nat /\ r <= lF /\ lF \in Nat
    <2> HIDE DEF rows, k
    <2> QED
      BY <1>4, <1>5, <1>6, RowAt
  <1>8. /\ Continues(payload, pos, a)
        /\ Continues(payload, pos + Len(a), b)
        /\ Continues(payload, (pos + Len(a)) + Len(b), c)
    <2> HIDE DEF a, b, c, s
    <2> QED
      BY <1>3, <1>7, ThreeParts
  <1> DEFINE p1 == pos + Len(a)
             p2 == p1 + 1
  <1>9. /\ p1 \in Nat /\ p2 \in Nat /\ p1 <= lF /\ p2 <= lF /\ r = p2 + Len(c)
        /\ p2 = p1 + Len(b)
    <2> HIDE DEF a, b, c, s, r, lF
    <2> QED
      BY <1>3, <1>7, SMTT(60)
  <1>10. \/ Short(d, t) /\ jis.err
         \/ jis = [v |-> x, pos |-> p1, err |-> FALSE]
    <2>1. Continues(payload, Cursor.pos, a)
      BY <1>7, <1>8
    <2>2. Gets(jis, pos, a, x)
      <3> HIDE DEF x
      <3> QED
        BY <1>3, <1>7, <2>1, Uvarint32Gets
    <2> HIDE DEF jis, a, x
    <2> QED
      BY <1>7, <1>9, <2>2, RowFound
  <1>11. jis.err => pref.err /\ name.err
    <2>1. jis.err => pref.err
      BY NothingAfterError
    <2> HIDE DEF pref, jis
    <2> QED
      BY <2>1, NothingAfterError
  <1>12. ASSUME jis = [v |-> x, pos |-> p1, err |-> FALSE]
         PROVE  \/ Short(d, t) /\ pref.err
                \/ pref = [v |-> y, pos |-> p2, err |-> FALSE]
    <2>1. jis.pos = p1 /\ ~jis.err
      BY <1>12
    <2> HIDE DEF jis, p1, y
    <2>2. Gets(pref, p1, b, y)
      <3>1. Continues(payload, jis.pos, <<y>>) /\ jis.pos \in Nat
        BY <1>8, <1>9, <2>1 DEF p1
      <3> QED
        BY <1>7, <2>1, <3>1, ByteGets
    <2> HIDE DEF pref, b, p2
    <2> QED
      BY <1>7, <1>9, <2>2, RowFound
  <1>13. pref.err => name.err
    <2> HIDE DEF pref
    <2> QED
      BY NothingAfterError
  <1>14. ASSUME pref = [v |-> y, pos |-> p2, err |-> FALSE]
         PROVE  \/ Short(d, t) /\ name.err
                \/ name = [v |-> ref, pos |-> r, err |-> FALSE]
    <2>1. pref.pos = p2 /\ ~pref.err
      BY <1>14
    <2> HIDE DEF pref, ref
    <2>2. Gets(name, p2, c, ref)
      <3>1. Continues(payload, p2, c)
        BY <1>8, <1>9
      <3> HIDE DEF p2
      <3>2. Continues(payload, pref.pos, RefBytes(ref)) /\ pref.pos \in Nat
        BY <1>9, <2>1, <3>1
      <3> QED
        BY <1>3, <1>7, <2>1, <3>2, NameRefGets
    <2> HIDE DEF name, c, p2, r
    <2> QED
      BY <1>7, <1>9, <2>2, RowFound
  <1>15. \/ Short(d, t) /\ name.err
         \/ /\ jis.v = x /\ pref.v = y
            /\ name = [v |-> ref, pos |-> r, err |-> FALSE]
    <2>1. jis = [v |-> x, pos |-> p1, err |-> FALSE] => jis.v = x
      OBVIOUS
    <2>2. pref = [v |-> y, pos |-> p2, err |-> FALSE] => pref.v = y
      OBVIOUS
    <2> HIDE DEF jis, pref, name, x, y, p1, p2, r, ref
    <2> QED
      BY <1>10, <1>11, <1>12, <1>13, <1>14, <2>1, <2>2
  <1>16. CityRef(d, t, i) = [jis |-> x, pref |-> y, name |-> ref]
    BY DEF CityRef
  <1>17. \/ Short(d, t) /\ err'
         \/ cities' = Append(cities, CityRef(d, t, i)) /\ pos' = r /\ ~err'
    <2> HIDE DEF jis, pref, name, x, y, r, ref
    <2> QED
      BY <1>1, <1>15, <1>16
  <1> QED
    BY <1>2, <1>17

-----------------------------------------------------------------------------
(* Zip codes. *)

(* The next zip code that is read is the next that was written, and never  *)
(* too wide.                                                               *)
LEMMA ZipGot ==
    ASSUME NEW d, NEW t, Wrote(d, t), Follows(d, t), IInv, OnTrack(d, t)
    PROVE  /\ ReadZip =>
                 LET k == Len(zips)
                 IN  /\ k \in 0 .. Len(d.records) - 1
                     /\ \/ Short(d, t) /\ err'
                        \/ /\ zips' = Append(zips, ZipsOf(d)[k + 1])
                           /\ pos' = Here(d, t, 8, <<>>, ZipRows(ZipsOf(d)), k + 1)
                           /\ ~err'
           /\ ~RejectZip
  <1> DEFINE k == Len(zips)
             i == k + 1
             Z == ZipsOf(d)
             x == Z[i] - Before(Z, i)
             u == ReadUvarint32(Cursor)
             rows == ZipRows(Z)
             s == rows[i]
             r == Here(d, t, 8, <<>>, rows, i)
  <1>1. ASSUME pc = "zips", k < n
        PROVE  /\ k \in 0 .. Len(d.records) - 1
               /\ \/ Short(d, t) /\ u.err /\ u.v = 0
                  \/ u = [v |-> x, pos |-> r, err |-> FALSE]
               /\ LastOf(zips) + x = Z[i] /\ Z[i] <= MaxZip
               /\ LastOf(zips) + 0 <= MaxZip
    <2>1. n = Len(d.records) /\ Len(d.records) \in Nat /\ k \in Nat
      BY <1>1, WroteRecords DEF IInv, ZipsBuilt, OnTrack, SizesKept
    <2>2. k \in 0 .. Len(d.records) - 1 /\ i \in 1 .. Len(d.records)
      <3> HIDE DEF k
      <3> QED
        BY <1>1, <2>1
    <2>3. /\ rows \in Seq(Seq(Byte)) /\ Len(rows) = Len(d.records)
          /\ x \in 0 .. MaxUint32 /\ s = UvarintBytes(x)
      BY <2>2, ZipRow, ZipRowsAre
    <2>4. pos = Here(d, t, 8, <<>>, rows, k)
      BY <1>1 DEF OnTrack, Stands
    <2>5. Laid(d, t, 8, <<>>, rows)
      BY AllLaid
    <2>6. k \in 0 .. Len(rows) /\ k # Len(rows) /\ Len(rows) \in Nat
      <3> HIDE DEF rows, k
      <3> QED
        BY <2>1, <2>2, <2>3
    <2>7. /\ Cursor.pos = pos /\ Cursor.pos \in Nat /\ ~Cursor.err /\ pos \in Nat
          /\ Continues(payload, pos, s) /\ Len(payload) \in Nat
          /\ r = pos + Len(s) /\ r \in Nat /\ r <= Len(Marshal(d, t))
          /\ Len(Marshal(d, t)) \in Nat
      <3> HIDE DEF rows, k
      <3> QED
        BY <2>4, <2>5, <2>6, RowAt
    <2>8. Gets(u, pos, s, x)
      <3> HIDE DEF x, s
      <3>1. Continues(payload, Cursor.pos, UvarintBytes(x))
        BY <2>3, <2>7
      <3> QED
        BY <2>3, <2>7, <3>1, Uvarint32Gets
    <2>9. u.err => u.v = 0
      BY DEF ReadUvarint32, ReadBounded, ReadUvarint, Failed
    <2>10. \/ Short(d, t) /\ u.err
           \/ u = [v |-> x, pos |-> r, err |-> FALSE]
      <3> HIDE DEF u, s, r, x
      <3> QED
        BY <2>7, <2>8, RowFound
    <2>11. /\ Z \in [1 .. Len(d.records) -> 0 .. MaxZip]
           /\ \A j \in 1 .. Len(zips) : zips[j] = Z[j]
           /\ zips \in Seq(0 .. MaxZip)
      BY ZipsWrote DEF IInv, ZipsBuilt, OnTrack, RowsKept
    <2>12. LastOf(zips) = Before(Z, i)
      <3>1. CASE k = 0
        <4>1. zips = <<>> /\ i = 1
          BY <2>11, <3>1, EmptySeq
        <4> QED
          BY <4>1 DEF LastOf, Before
      <3>2. CASE k # 0
        <4>1. zips # <<>> /\ i # 1 /\ i - 1 = k /\ k \in 1 .. Len(zips)
          BY <2>1, <2>11, <3>2
        <4> HIDE DEF k, i, Z
        <4>2. LastOf(zips) = zips[Len(zips)]
          BY <4>1 DEF LastOf
        <4>3. Before(Z, i) = Z[k]
          BY <4>1 DEF Before
        <4> QED
          BY <2>11, <4>1, <4>2, <4>3 DEF k, Z
      <3> QED
        BY <3>1, <3>2
    <2>13. LastOf(zips) \in 0 .. MaxZip /\ MaxZip \in Nat
      BY <2>11, LastIn, FormatAssumption
    <2>14. Z[i] \in 0 .. MaxZip
      BY <2>2, <2>11
    <2> DEFINE z == Z[i]
               w == LastOf(zips)
    <2>15. x = z - w
      BY <2>12
    <2>16. w + x = z /\ z <= MaxZip /\ w + 0 <= MaxZip
      <3> HIDE DEF x, z, w
      <3> QED
        BY <2>13, <2>14, <2>15 DEF z, w
    <2> QED
      BY <2>2, <2>9, <2>10, <2>16
  <1>2. ASSUME pc = "zips", k < n PROVE NextZip(u) <= MaxZip
    <2>1. u = [v |-> x, pos |-> r, err |-> FALSE] => u.v = x
      OBVIOUS
    <2> HIDE DEF u, x, r
    <2> QED
      BY <1>1, <1>2, <2>1 DEF NextZip
  <1>3. ~RejectZip
    <2>1. SUFFICES ASSUME RejectZip PROVE FALSE
      OBVIOUS
    <2>2. /\ pc = "zips" /\ k < n /\ NextZip(u) > MaxZip
      BY <2>1 DEF RejectZip
    <2>3. NextZip(u) <= MaxZip
      BY <1>2, <2>2
    <2>4. NextZip(u) \in Nat /\ MaxZip \in Nat
      <3>1. Reads(Cursor, u)
        BY StandingCursor, Uvarint32Reads DEF Inside, IInv
      <3>2. LastOf(zips) \in 0 .. MaxZip /\ MaxZip \in Nat
        BY LastIn, FormatAssumption DEF IInv, ZipsBuilt
      <3> HIDE DEF u
      <3> QED
        BY <3>1, <3>2 DEF Reads, Inside, NextZip
    <2> HIDE DEF u
    <2> QED
      BY <2>2, <2>3, <2>4
  <1>4. ASSUME ReadZip
        PROVE  /\ k \in 0 .. Len(d.records) - 1
               /\ \/ Short(d, t) /\ err'
                  \/ zips' = Append(zips, Z[i]) /\ pos' = r /\ ~err'
    <2>1. /\ pc = "zips" /\ k < n
          /\ zips' = Append(zips, LastOf(zips) + u.v)
          /\ pos' = u.pos /\ err' = u.err
      BY <1>4 DEF ReadZip, NextZip, Advance
    <2>2. u = [v |-> x, pos |-> r, err |-> FALSE] =>
             u.v = x /\ u.pos = r /\ ~u.err
      OBVIOUS
    <2> HIDE DEF u, x, r, Z, i
    <2> QED
      BY <1>1, <2>1, <2>2
  <1> QED
    BY <1>3, <1>4

-----------------------------------------------------------------------------
(* Delta columns. *)

(* A field of a record is within the range its column is read with.        *)
LEMMA FieldInColumn ==
    ASSUME NEW d, NEW t, Wrote(d, t), IInv, OnTrack(d, t),
           NEW c \in DeltaColumns, NEW i \in 1 .. Len(d.records),
           c = column, pc = "delta"
    PROVE  FieldOf(d, t, c)[i] \in Nat /\ FieldOf(d, t, c)[i] <= MaxOf(c)
  <1> DEFINE x == FieldOf(d, t, c)[i]
  <1>1. c \in DeltaColumns \cup SparseColumns
    OBVIOUS
  <1>2. /\ x \in 0 .. MaxUint32
        /\ c = "city" => x \in 0 .. MaxUint16
        /\ c # "city" => x \in 0 .. Len(t) - 1
    BY <1>1, FieldWrote
  <1>3. numStrings = Len(t) /\ Len(t) \in Nat
    BY TableWrote DEF OnTrack, SizesKept
  <1>4. MaxUint16 \in Nat /\ MaxUint32 \in Nat
    BY FormatAssumption
  <1> HIDE DEF x
  <1>5. x \in Nat /\ x <= MaxOf(c)
    BY <1>2, <1>3, <1>4 DEF MaxOf
  <1> QED
    BY <1>5 DEF x

(* The next field of a delta column that is read is the next that was      *)
(* written.                                                                *)
LEMMA DeltaGot ==
    ASSUME NEW d, NEW t, Wrote(d, t), Follows(d, t), IInv, OnTrack(d, t),
           ReadDelta, NEW c, c = column
    PROVE  LET k == Len(columns[c])
               f == FieldOf(d, t, c)
           IN  /\ c \in DeltaColumns /\ k \in 0 .. Len(d.records) - 1
               /\ \/ Short(d, t) /\ err'
                  \/ /\ columns' = [columns EXCEPT ![c] = Append(columns[c], f[k + 1])]
                     /\ pos' = Here(d, t, PartOf[c], <<>>, DeltaRows(f), k + 1)
                     /\ ~err'
  <1> DEFINE k == Len(columns[c])
             i == k + 1
             f == FieldOf(d, t, c)
             w == Before(f, i)
             y == f[i]
             x == y - w
             delta == ReadVarint(Cursor)
             rows == DeltaRows(f)
             s == rows[i]
             r == Here(d, t, PartOf[c], <<>>, rows, i)
             m == Len(d.records)
  <1>1. /\ pc = "delta" /\ k < n /\ c \in DeltaColumns
    BY DEF ReadDelta, IInv, AtColumn
  <1>2. /\ delta.err \/ ~InField(delta.v) =>
             err' = TRUE
        /\ ~(delta.err \/ ~InField(delta.v)) =>
             /\ columns' = [columns EXCEPT ![c] =
                              Append(columns[c], LastOf(columns[c]) + delta.v)]
             /\ pos' = delta.pos /\ err' = delta.err
    <2>1. CASE delta.err \/ ~InField(delta.v)
      BY <2>1 DEF ReadDelta, Advance, Failed
    <2>2. CASE ~(delta.err \/ ~InField(delta.v))
      BY <2>2 DEF ReadDelta, Advance
    <2> QED
      BY <2>1, <2>2
  <1>3. /\ n = m /\ m \in Nat /\ k \in Nat
        /\ columns[c] \in Seq(Nat)
        /\ \A j \in 1 .. k : columns[c][j] = f[j]
    <2>1. n = m /\ m \in Nat
      BY <1>1, WroteRecords DEF OnTrack, SizesKept
    <2>2. columns \in [DeltaColumns -> Seq(Nat)]
      BY DEF IInv, ColumnsBuilt
    <2>3. columns[c] \in Seq(Nat)
      BY <1>1, <2>2
    <2>4. \A j \in 1 .. k : columns[c][j] = f[j]
      BY <1>1 DEF OnTrack, RowsKept
    <2> QED
      BY <2>1, <2>3, <2>4
  <1>4. k \in 0 .. m - 1 /\ i \in 1 .. m
    <2> HIDE DEF k, m
    <2> QED
      BY <1>1, <1>3
  <1>5. /\ f \in [1 .. m -> 0 .. MaxUint32]
        /\ c \in DeltaColumns \cup SparseColumns
    BY <1>1, FieldWrote
  <1>6. /\ x \in Int /\ Zig(x) < VarintLimit /\ w \in 0 .. MaxUint32
        /\ s = VarintBytes(x)
        /\ rows \in Seq(Seq(Byte)) /\ Len(rows) = m
    <2> HIDE DEF m, f, i
    <2>1. m \in Nat /\ i \in 1 .. m /\ f \in [1 .. m -> 0 .. MaxUint32]
      BY <1>3, <1>4, <1>5
    <2>2. /\ x \in Int /\ Zig(x) < VarintLimit /\ w \in 0 .. MaxUint32
          /\ s = VarintBytes(x)
      BY <2>1, DeltaRow
    <2>3. rows \in Seq(Seq(Byte)) /\ Len(rows) = m
      BY <2>1, DeltaRowsAre
    <2> QED
      BY <2>2, <2>3
  <1>7. pos = Here(d, t, PartOf[c], <<>>, rows, k)
    BY <1>1 DEF OnTrack, Stands
  <1>8. Laid(d, t, PartOf[c], <<>>, rows)
    BY <1>1, AllLaid
  <1>9. k \in 0 .. Len(rows) /\ k # Len(rows) /\ Len(rows) \in Nat
    <2> HIDE DEF rows, k
    <2> QED
      BY <1>3, <1>4, <1>6
  <1>10. /\ Cursor.pos = pos /\ Cursor.pos \in Nat /\ ~Cursor.err /\ pos \in Nat
         /\ Continues(payload, pos, s) /\ Len(payload) \in Nat
         /\ r = pos + Len(s) /\ r \in Nat /\ r <= Len(Marshal(d, t))
         /\ Len(Marshal(d, t)) \in Nat
    <2> DEFINE p == PartOf[c]
    <2> HIDE DEF rows, k, p
    <2> QED
      BY <1>7, <1>8, <1>9, RowAt DEF p
  <1>11. Gets(delta, pos, s, x)
    <2> HIDE DEF x, s
    <2>1. Continues(payload, Cursor.pos, VarintBytes(x))
      BY <1>6, <1>10
    <2> QED
      BY <1>6, <1>10, <2>1, VarintGets
  <1>12. \/ Short(d, t) /\ delta.err
         \/ delta = [v |-> x, pos |-> r, err |-> FALSE]
    <2> HIDE DEF delta, s, r, x
    <2> QED
      BY <1>10, <1>11, RowFound
  <1>13. LastOf(columns[c]) = w
    <2>1. CASE k = 0
      <3>1. columns[c] = <<>> /\ i = 1
        BY <1>3, <2>1, EmptySeq
      <3> QED
        BY <3>1 DEF LastOf, Before
    <2>2. CASE k # 0
      <3>1. columns[c] # <<>> /\ i # 1 /\ i - 1 = k /\ k \in 1 .. k
        BY <1>3, <2>2
      <3>2. LastOf(columns[c]) = columns[c][k]
        BY <3>1 DEF LastOf
      <3> HIDE DEF k, i, f
      <3>3. Before(f, i) = f[k]
        BY <3>1 DEF Before
      <3> QED
        BY <1>3, <3>1, <3>2, <3>3
    <2> QED
      BY <2>1, <2>2
  <1>14. y \in Nat /\ y <= MaxOf(c)
    BY <1>1, <1>4, FieldInColumn
  <1>15. InField(x) /\ w + x = y
    <2>1. /\ InField(x) <=> x >= -w /\ x <= MaxOf(c) - w
      BY <1>13 DEF InField
    <2>2. MaxOf(c) \in Int /\ w \in Nat
      BY <1>6, TableWrote, FormatAssumption, SMTT(60)
         DEF MaxOf, IInv, CountsBounded
    <2>3. x = y - w
      OBVIOUS
    <2> DEFINE mx == MaxOf(c)
    <2> HIDE DEF x, y, w, mx
    <2> QED
      BY <1>14, <2>1, <2>2, <2>3 DEF mx
  <1>16. \/ Short(d, t) /\ err'
         \/ /\ columns' = [columns EXCEPT ![c] = Append(columns[c], y)]
            /\ pos' = r /\ ~err'
    <2>1. delta = [v |-> x, pos |-> r, err |-> FALSE] =>
             delta.v = x /\ delta.pos = r /\ ~delta.err
      OBVIOUS
    <2> HIDE DEF delta, x, r, y, w
    <2>2. CASE delta.v = x /\ delta.pos = r /\ ~delta.err
      <3>1. LastOf(columns[c]) + delta.v = y
        BY <1>13, <1>15, <2>2
      <3> QED
        BY <1>2, <1>15, <2>2, <3>1
    <2> QED
      BY <1>2, <1>12, <2>1, <2>2
  <1> QED
    BY <1>1, <1>4, <1>16

(* A part ends where the next one starts. *)
LEMMA DeltaEnds ==
    ASSUME NEW d, NEW t, Wrote(d, t), Follows(d, t), IInv, OnTrack(d, t),
           EndDelta, NEW c, c = column
    PROVE  /\ c \in DeltaColumns /\ Len(columns[c]) = n
           /\ pos = Start(d, t)[PartOf[c]]
  <1>1. pc = "delta" /\ c \in DeltaColumns /\ Len(columns[c]) = n
    BY DEF EndDelta, OnTrack, IInv, AtColumn
  <1>2. n = Len(d.records)
    BY <1>1 DEF OnTrack, SizesKept
  <1>3. pos = Here(d, t, PartOf[c], <<>>, DeltaRows(FieldOf(d, t, c)), n)
    BY <1>1 DEF OnTrack, Stands
  <1>4. Len(DeltaRows(FieldOf(d, t, c))) = n
    BY <1>1, <1>2, ColumnBytes
  <1>5. Laid(d, t, PartOf[c], <<>>, DeltaRows(FieldOf(d, t, c)))
    BY <1>1, AllLaid
  <1> QED
    BY <1>1, <1>3, <1>4, <1>5 DEF Laid

-----------------------------------------------------------------------------
(* Notes columns: their counts. *)

(* Fewer bytes are left than the flags take. *)
Starved ==
    /\ pc \in {"sparse", "values", "flags"}
    /\ Len(payload) - pos < n - Len(flags)

(* What the decoder finds at the head of a notes column: the number of its *)
(* values.                                                                 *)
LEMMA SparseFound ==
    ASSUME NEW d, NEW t, Wrote(d, t), Follows(d, t), IInv, OnTrack(d, t),
           pc = "sparse", NEW c, c = column
    PROVE  LET u == ReadUvarint(Cursor)
               f == FieldOf(d, t, c)
               q == Here(d, t, PartOf[c], CountBytes(d, t, c), SparseRows(f), 0)
           IN  /\ c \in SparseColumns /\ n = Len(d.records) /\ n \in Nat
               /\ \/ Short(d, t) /\ u.err
                  \/ /\ u = [v |-> ValueCount(f), pos |-> q, err |-> FALSE]
                     /\ ValueCount(f) \in 0 .. n
                     /\ q \in Nat /\ q + n <= Len(Marshal(d, t))
  <1> DEFINE u == ReadUvarint(Cursor)
             f == FieldOf(d, t, c)
             x == ValueCount(f)
             head == CountBytes(d, t, c)
             rows == SparseRows(f)
             p == PartOf[c]
             q == Here(d, t, p, head, rows, 0)
             lF == Len(Marshal(d, t))
  <1>1. c \in SparseColumns /\ n = Len(d.records) /\ n \in Nat
    BY WroteRecords DEF IInv, AtColumn, OnTrack, SizesKept
  <1>2. /\ x \in 0 .. n /\ head \in Seq(Byte) /\ rows \in Seq(Seq(Byte))
        /\ Len(rows) = n /\ head = UvarintBytes(x)
    BY <1>1, ColumnBytes DEF CountBytes
  <1>3. n < VarintLimit /\ VarintLimit \in Nat
    BY <1>1, WroteRecords, FormatAssumption
  <1>4. x \in 0 .. VarintLimit - 1
    <2> HIDE DEF x
    <2> QED
      BY <1>1, <1>2, <1>3
  <1>5. Laid(d, t, p, head, rows)
    BY <1>1, AllLaid DEF CountBytes
  <1>6. Cursor.pos = pos /\ ~Cursor.err /\ pos = Start(d, t)[p - 1]
    BY TrackCursor DEF OnTrack, Stands
  <1>7. /\ pos \in Nat /\ Continues(payload, pos, head)
        /\ pos + Len(head) <= lF /\ q = pos + Len(head) /\ q \in Nat
    <2>1. 0 \in 0 .. Len(rows)
      BY <1>1, <1>2
    <2> HIDE DEF p, head, rows
    <2> QED
      BY <1>5, <1>6, <2>1 DEF Laid
  <1>8. \/ Short(d, t) /\ u.err
        \/ u = [v |-> x, pos |-> q, err |-> FALSE]
    <2>1. /\ Cursor.pos \in Nat /\ Continues(payload, Cursor.pos, UvarintBytes(x))
          /\ Cursor.pos + Len(UvarintBytes(x)) <= Len(Marshal(d, t))
          /\ Cursor.pos + Len(UvarintBytes(x)) = q
      BY <1>2, <1>6, <1>7
    <2> HIDE DEF x, q
    <2> QED
      BY <1>4, <1>6, <2>1, NumberFound
  <1>9. q + n <= lF
    <2>1. q <= Start(d, t)[p]
      <3>1. 0 \in 0 .. Len(rows) /\ Len(rows) \in 0 .. Len(rows)
        BY <1>1, <1>2
      <3>2. Here(d, t, p, head, rows, n) = Start(d, t)[p]
        <4> HIDE DEF p, head, rows
        <4> QED
          BY <1>2, <1>5 DEF Laid
      <3>3. Offsets(rows)[0] <= Offsets(rows)[Len(rows)]
            /\ Offsets(rows)[0] \in Nat /\ Offsets(rows)[Len(rows)] \in Nat
        <4> HIDE DEF rows
        <4> QED
          BY <1>2, <3>1, OffsetsGrow, OffsetsAre
      <3>4. Start(d, t)[p - 1] \in Nat /\ Len(head) \in Nat
        BY <1>5 DEF Laid
      <3> DEFINE a == Start(d, t)[p - 1] + Len(head)
                 o == Offsets(rows)[0]
                 z == Offsets(rows)[n]
      <3>5. q = a + o /\ Start(d, t)[p] = a + z /\ o <= z /\ a \in Nat
            /\ o \in Nat /\ z \in Nat
        BY <1>2, <3>2, <3>3, <3>4 DEF Here
      <3> HIDE DEF a, o, z, q, p
      <3> QED
        BY <3>5
    <2>2. Start(d, t)[p] <= Start(d, t)[14] /\ Start(d, t)[p] \in Nat
      <3>1. Parts(d, t) \in Seq(Seq(Byte)) /\ Len(Parts(d, t)) = 15
        BY PartsAre
      <3>2. p \in 0 .. 15 /\ 14 \in p .. 15 /\ p \in 1 .. 15
        BY <1>1 DEF PartOf, SparseColumns
      <3> HIDE DEF p
      <3>3. Start(d, t)[p] <= Start(d, t)[14]
        BY <3>1, <3>2, OffsetsGrow DEF Start
      <3> QED
        BY <3>2, <3>3, PartsStand
    <2>3. /\ Parts(d, t)[15] = FlagsOf(d) /\ 15 \in 1 .. 15 /\ 15 - 1 = 14
      BY DEF Parts
    <2>4. /\ Start(d, t)[15] = Start(d, t)[14] + Len(Parts(d, t)[15])
          /\ Start(d, t)[15] <= Len(Marshal(d, t))
          /\ Start(d, t)[14] \in Nat
      BY <2>3, PartContinues
    <2>5. Len(Parts(d, t)[15]) = n
      BY <1>1, <2>3, FlagsWrote
    <2>6. lF \in Nat /\ Start(d, t)[15] \in Nat
      <3>1. 15 \in 0 .. 15
        OBVIOUS
      <3> QED
        BY <3>1, PartsStand
    <2> DEFINE a == Start(d, t)[p]
               b == Start(d, t)[14]
               e == Start(d, t)[15]
    <2>7. q <= a /\ a <= b /\ e = b + n /\ e <= lF /\ a \in Nat /\ b \in Nat
          /\ e \in Nat /\ q \in Nat /\ n \in Nat /\ lF \in Nat
      BY <1>1, <1>7, <2>1, <2>2, <2>4, <2>5, <2>6
    <2> HIDE DEF a, b, e, q, lF
    <2>8. q + n <= lF
      BY <2>7
    <2> QED
      BY <2>8
  <1> QED
    BY <1>1, <1>2, <1>7, <1>8, <1>9

(* A notes column is skipped only if the payload was cut off.              *)
LEMMA SparseGot ==
    ASSUME NEW d, NEW t, Wrote(d, t), Follows(d, t), IInv, OnTrack(d, t),
           DecodeStep, NEW c, c = column
    PROVE  /\ SkipSparse => Short(d, t) /\ (err' \/ Starved')
           /\ ~FailSparse
           /\ ReadSparse =>
                 /\ values' = ValueCount(FieldOf(d, t, c)) /\ ~err'
                 /\ previous' = -1
                 /\ pos' = Here(d, t, PartOf[c], CountBytes(d, t, c),
                                SparseRows(FieldOf(d, t, c)), 0)
  <1> DEFINE u == ReadUvarint(Cursor)
             x == ValueCount(FieldOf(d, t, c))
             q == Here(d, t, PartOf[c], CountBytes(d, t, c),
                       SparseRows(FieldOf(d, t, c)), 0)
             lF == Len(Marshal(d, t))
             lp == Len(payload)
  <1>1. ASSUME pc = "sparse"
        PROVE  /\ n \in Nat /\ c \in SparseColumns
               /\ \/ Short(d, t) /\ u.err
                  \/ /\ u.v = x /\ u.pos = q /\ ~u.err
                     /\ x \in 0 .. n /\ q \in Nat /\ q + n <= lF
    <2>1. /\ c \in SparseColumns /\ n \in Nat
          /\ \/ Short(d, t) /\ u.err
             \/ /\ u = [v |-> x, pos |-> q, err |-> FALSE]
                /\ x \in 0 .. n /\ q \in Nat /\ q + n <= lF
      BY <1>1, SparseFound
    <2>2. u = [v |-> x, pos |-> q, err |-> FALSE] =>
             u.v = x /\ u.pos = q /\ ~u.err
      OBVIOUS
    <2> HIDE DEF u, x, q, lF
    <2> QED
      BY <2>1, <2>2
  <1>2. lp \in Nat /\ lF \in Nat /\ (Short(d, t) <=> lp < lF)
    BY PartsStand DEF Follows, Short
  <1> HIDE DEF u, x, q
  <1>3. ASSUME SkipSparse PROVE Short(d, t) /\ (err' \/ Starved')
    <2>1. pc = "sparse" /\ (u.err \/ u.v > lp - u.pos)
          /\ pos' = u.pos /\ err' = u.err /\ Leave
      BY <1>3 DEF SkipSparse, Refused, TooMany, Advance, u
    <2>2. CASE u.err
      BY <1>1, <2>1, <2>2
    <2>3. CASE ~u.err
      <3>1. /\ x > lp - q /\ x \in 0 .. n /\ q \in Nat /\ q + n <= lF
            /\ n \in Nat /\ c \in SparseColumns /\ pos' = q
        BY <1>1, <2>1, <2>3
      <3>2. lp < lF /\ lp - q < n
        <4> HIDE DEF lp, lF
        <4> QED
          BY <1>2, <3>1
      <3>3. Short(d, t)
        BY <1>2, <3>2
      <3>4. UNCHANGED <<n, flags, file>>
        BY <1>3 DEF SkipSparse, DecodeStep, sizes, store
      <3>5. flags = <<>>
        BY <2>1 DEF OnTrack, RowsKept
      <3>6. pc' \in {"sparse", "values", "flags"}
        BY <2>1, <3>1, LeaveTo
           DEF NextColumn, SparseColumns, DeltaColumns
      <3>7. lp' = lp /\ Len(flags') = 0 /\ n' = n
        BY <3>4, <3>5 DEF payload
      <3>8. (lp' - pos') < (n' - Len(flags'))
        <4> DEFINE lp1 == lp'
                   lf1 == Len(flags')
        <4>1. lp1 = lp /\ lf1 = 0 /\ n' = n /\ pos' = q
          BY <3>1, <3>7
        <4> HIDE DEF lp, lp1, lf1
        <4>2. (lp1 - pos') < (n' - lf1)
          BY <1>2, <3>1, <3>2, <4>1
        <4> QED
          BY <4>2 DEF lp1, lf1
      <3>9. Starved'
        BY <3>6, <3>8 DEF Starved
      <3> QED
        BY <3>3, <3>9
    <2> QED
      BY <2>2, <2>3
  <1>4. ASSUME FailSparse PROVE FALSE
    <2>1. pc = "sparse" /\ ~u.err /\ u.v > n
      BY <1>4 DEF FailSparse, Refused, u
    <2> QED
      BY <1>1, <2>1
  <1>5. ASSUME ReadSparse
        PROVE  values' = x /\ ~err' /\ previous' = -1 /\ pos' = q
    <2>1. /\ pc = "sparse" /\ ~u.err /\ values' = u.v /\ previous' = -1
          /\ pos' = u.pos /\ err' = u.err
      BY <1>5 DEF ReadSparse, Refused, Advance, u
    <2> QED
      BY <1>1, <2>1
  <1> QED
    BY <1>3, <1>4, <1>5 DEF x, q

-----------------------------------------------------------------------------
(* Notes columns: their values. *)

(* The records with a note are finitely many, and those before a record    *)
(* are the bits set before it.                                             *)
LEMMA NotedFinite ==
    ASSUME n \in Nat, NEW s
    PROVE  /\ Noted(s) \in SUBSET Nat /\ Noted(s) \subseteq 0 .. n - 1
           /\ IsFiniteSet(Noted(s))
           /\ \A i \in 0 .. n - 1 :
                 SetBefore(s.present, i) = {j \in Noted(s) : j < i}
  <1>1. Noted(s) \subseteq 0 .. n - 1
    BY DEF Noted
  <1>2. 0 \in Int /\ n - 1 \in Int
    OBVIOUS
  <1>3. IsFiniteSet(0 .. n - 1)
    BY <1>2, FS_Interval
  <1>4. IsFiniteSet(Noted(s))
    BY <1>1, <1>3, FS_Subset
  <1>5. ASSUME NEW i \in 0 .. n - 1
        PROVE  SetBefore(s.present, i) = {j \in Noted(s) : j < i}
    <2>1. \A j : HasNote(s, j) <=> IsSet(s.present, j)
      BY DEF HasNote, IsSet
    <2> QED
      BY <2>1 DEF SetBefore, Noted
  <1> QED
    BY <1>1, <1>4, <1>5

(* As long as a value is left fewer ids than values have been read, and as *)
(* many when none is.                                                      *)
LEMMA NotedCount ==
    ASSUME n \in Nat, NEW s, Filled(s), NEW f, DOMAIN f = 1 .. n,
           NEW m \in 0 .. n, Matches(s, f, m)
    PROVE  /\ (\E j \in m + 1 .. n : f[j] # 0) => Len(s.ids) < ValueCount(f)
           /\ (\A j \in m + 1 .. n : f[j] = 0) =>
                 Len(s.ids) = ValueCount(f) /\ Matches(s, f, n)
  <1> DEFINE A == Noted(s)
             B == {j \in 1 .. m : f[j] # 0}
             C == {j \in 1 .. n : f[j] # 0}
             g == [i \in A |-> i + 1]
  <1>1. A = {i \in 0 .. m - 1 : f[i + 1] # 0} /\ IsFiniteSet(A)
    BY NotedFinite DEF Matches
  <1>2. Cardinality(B) = Cardinality(A) /\ IsFiniteSet(B)
    <2>1. g \in Bijection(A, B)
      <3>1. \A i \in A : i + 1 \in B /\ i \in Int
        BY <1>1
      <3>2. \A j \in B : j - 1 \in A /\ (j - 1) + 1 = j
        BY <1>1
      <3> HIDE DEF A, B
      <3>3. g \in Injection(A, B)
        BY <3>1 DEF Injection, IsInjective
      <3>4. g \in Surjection(A, B)
        BY <3>1, <3>2 DEF Surjection
      <3> QED
        BY <3>3, <3>4 DEF Bijection
    <2>2. ExistsBijection(A, B)
      <3> HIDE DEF g, A, B
      <3> QED
        BY <2>1 DEF ExistsBijection
    <2> HIDE DEF A, B
    <2> QED
      BY <1>1, <2>2, FS_Bijection
  <1>3. IsFiniteSet(C) /\ ValueCount(f) = Cardinality(C)
    <2>1. C \subseteq 1 .. n
      OBVIOUS
    <2>2. 1 \in Int /\ n \in Int
      OBVIOUS
    <2>3. IsFiniteSet(1 .. n)
      BY <2>2, FS_Interval
    <2>4. IsFiniteSet(C)
      BY <2>1, <2>3, FS_Subset
    <2> QED
      BY <2>4 DEF ValueCount
  <1>4. B \subseteq C
    OBVIOUS
  <1>5. Cardinality(A) = Len(s.ids)
    BY DEF Filled
  <1>6. Cardinality(B) <= Cardinality(C) /\ (Cardinality(C) = Cardinality(B) => C = B)
    <2> HIDE DEF B, C
    <2> QED
      BY <1>3, <1>4, FS_Subset
  <1>7. Cardinality(B) \in Nat /\ Cardinality(C) \in Nat
    <2> HIDE DEF B, C
    <2> QED
      BY <1>2, <1>3, FS_CardinalityType
  <1>8. ASSUME NEW j \in m + 1 .. n, f[j] # 0
        PROVE  Len(s.ids) < ValueCount(f)
    <2>1. j \in C /\ j \notin B
      BY <1>8
    <2> HIDE DEF A, B, C
    <2> QED
      BY <1>2, <1>3, <1>5, <1>6, <1>7, <2>1
  <1>9. ASSUME \A j \in m + 1 .. n : f[j] = 0
        PROVE  Len(s.ids) = ValueCount(f) /\ Matches(s, f, n)
    <2>1. C \subseteq B
      BY <1>9
    <2>2. C = B
      BY <1>4, <2>1
    <2>3. Len(s.ids) = ValueCount(f)
      <3> HIDE DEF A, B, C
      <3> QED
        BY <1>2, <1>3, <1>5, <2>2
    <2>4. A = {i \in 0 .. n - 1 : f[i + 1] # 0}
      BY <1>1, <1>9
    <2> QED
      BY <2>3, <2>4 DEF Matches
  <1> QED
    BY <1>8, <1>9

(* The next value of a column is the last of its values so far. *)
LEMMA MatchesValue ==
    ASSUME n \in Nat, numStrings \in Nat, NEW s, Filled(s), NEW f,
           NEW m \in 0 .. n, Matches(s, f, m),
           NEW k \in m + 1 .. n, f[k] \in 1 .. numStrings - 1,
           \A j \in m + 1 .. k - 1 : f[j] = 0,
           NEW t, t.ids = Append(s.ids, f[k]),
           t.present = SetBit(s.present, k - 1)
    PROVE  Matches(t, f, k)
  <1> DEFINE p == k - 1
             A == Noted(s)
             B == Noted(t)
             id == f[k]
  <1>1. p \in 0 .. n - 1 /\ m <= p /\ p + 1 = k /\ k \in 1 .. n /\ m \in Nat
    OBVIOUS
  <1>2. A = {i \in 0 .. m - 1 : f[i + 1] # 0}
    BY DEF Matches
  <1>3. \A i \in A : i < p
    BY <1>1, <1>2
  <1>4. Filled(t) /\ B = A \cup {p}
    <2>1. t.ids = Append(s.ids, id) /\ t.present = SetBit(s.present, p)
          /\ id \in 1 .. numStrings - 1
      OBVIOUS
    <2> HIDE DEF p, id
    <2> QED
      BY <1>1, <1>3, <2>1, FilledByValue
  <1>5. B = {i \in 0 .. k - 1 : f[i + 1] # 0}
    <2>1. \A i \in m .. p - 1 : f[i + 1] = 0
      <3> TAKE i \in m .. p - 1
      <3>1. i + 1 \in m + 1 .. k - 1
        BY <1>1
      <3> QED
        BY <3>1
    <2>2. f[p + 1] # 0
      BY <1>1
    <2>3. ASSUME NEW i \in B PROVE i \in 0 .. k - 1 /\ f[i + 1] # 0
      <3>1. i \in A \/ i = p
        BY <1>4, <2>3
      <3> HIDE DEF B
      <3>2. ASSUME i \in A PROVE i \in 0 .. k - 1 /\ f[i + 1] # 0
        BY <1>1, <1>2, <3>2
      <3> QED
        BY <1>1, <2>2, <3>1, <3>2
    <2>4. ASSUME NEW i \in 0 .. k - 1, f[i + 1] # 0 PROVE i \in B
      <3>1. i \in 0 .. m - 1 \/ i \in m .. p - 1 \/ i = p
        BY <1>1
      <3>2. i \in A \/ i = p
        BY <1>2, <2>1, <2>4, <3>1
      <3> QED
        BY <1>4, <3>2
    <2> HIDE DEF B
    <2> QED
      BY <2>3, <2>4
  <1>6. /\ A \in SUBSET Nat /\ IsFiniteSet(A)
        /\ s.ids \in Seq(1 .. numStrings - 1) /\ Cardinality(A) = Len(s.ids)
    BY NotedFinite DEF Filled
  <1>7. /\ \A i \in 0 .. n - 1 : SetBefore(t.present, i) = {j \in B : j < i}
        /\ \A i \in 0 .. n - 1 : SetBefore(s.present, i) = {j \in A : j < i}
    BY NotedFinite
  <1>8. ASSUME NEW i \in B
        PROVE  t.ids[Cardinality(SetBefore(t.present, i)) + 1] = f[i + 1]
    <2>1. CASE i \in A
      <3>1. i \in 0 .. n - 1 /\ i < p
        BY <1>1, <1>2, <1>3, <2>1
      <3> HIDE DEF A, B, p
      <3>2. {j \in B : j < i} = {j \in A : j < i}
        <4>1. ~(p < i)
          BY <1>1, <3>1
        <4> QED
          BY <1>4, <4>1
      <3>3. Cardinality({j \in A : j < i}) \in 0 .. Cardinality(A) - 1
        BY <1>6, <2>1, RankBound
      <3>4. s.ids[Cardinality(SetBefore(s.present, i)) + 1] = f[i + 1]
        BY <2>1 DEF Matches, A
      <3> DEFINE r == Cardinality({j \in A : j < i})
      <3>5. /\ r \in 0 .. Len(s.ids) - 1
            /\ Cardinality(SetBefore(t.present, i)) = r
            /\ Cardinality(SetBefore(s.present, i)) = r
        BY <1>6, <1>7, <3>1, <3>2, <3>3
      <3> HIDE DEF r
      <3>6. r + 1 \in 1 .. Len(s.ids)
        BY <1>6, <3>5, SMTT(60)
      <3>7. Append(s.ids, id)[r + 1] = s.ids[r + 1]
        BY <1>6, <3>6
      <3> QED
        BY <3>4, <3>5, <3>7
    <2>2. CASE i = p
      <3>1. {j \in B : j < p} = A
        <4> HIDE DEF A, B, p
        <4>1. ~(p < p)
          BY <1>1
        <4> QED
          BY <1>3, <1>4, <4>1
      <3>2. Cardinality(SetBefore(t.present, i)) = Len(s.ids)
        <4> HIDE DEF A, B, p
        <4> QED
          BY <1>1, <1>6, <1>7, <2>2, <3>1
      <3>3. Append(s.ids, id)[Len(s.ids) + 1] = id
        BY <1>6
      <3> QED
        BY <1>1, <2>2, <3>2, <3>3
    <2>3. i \in A \/ i = p
      BY <1>4, <1>8
    <2> QED
      BY <2>1, <2>2, <2>3
  <1> QED
    BY <1>5, <1>8 DEF Matches

(* A column that was just allocated matches no record yet.                 *)
LEMMA MatchesNone ==
    ASSUME n \in Nat, numStrings \in Nat, NEW s, s.ids = <<>>,
           s.present = [w \in 1 .. Words |-> {}], NEW f
    PROVE  Matches(s, f, 0)
  <1>1. Noted(s) = {}
    BY FilledByNone
  <1>2. 0 .. 0 - 1 = {}
    OBVIOUS
  <1> QED
    BY <1>1, <1>2 DEF Matches

(* What a column matches depends on its bits and ids only.                 *)
LEMMA MatchesSame ==
    ASSUME NEW s, NEW t, t.present = s.present, t.ids = s.ids, NEW f, NEW m,
           Matches(s, f, m)
    PROVE  Matches(t, f, m)
  BY DEF Matches, Noted, HasNote

(* Whether a column has a value left, and the next one. *)
LEMMA NextValue ==
    ASSUME NEW d, NEW t, Wrote(d, t), Follows(d, t), IInv, OnTrack(d, t),
           pc = "values", NEW c, c = column
    PROVE  LET f == FieldOf(d, t, c)
               b == previous + 1
           IN  /\ c \in SparseColumns /\ n = Len(d.records) /\ n \in Nat
               /\ b \in 0 .. n /\ previous \in Int
               /\ Filled(notes[c]) /\ Matches(notes[c], f, b)
               /\ b # 0 => f[b] # 0
               /\ f \in [1 .. n -> 0 .. MaxUint32]
               /\ values = ValueCount(f)
               /\ \/ /\ \A j \in b + 1 .. n : f[j] = 0
                     /\ Len(notes[c].ids) = values
                     /\ Matches(notes[c], f, n)
                  \/ \E m \in b + 1 .. n :
                        /\ f[m] # 0
                        /\ \A j \in b + 1 .. m - 1 : f[j] = 0
                        /\ Len(notes[c].ids) < values
  <1> DEFINE f == FieldOf(d, t, c)
             b == previous + 1
             s == notes[c]
             S == {j \in b + 1 .. n : f[j] # 0}
  <1>1. c \in SparseColumns /\ n = Len(d.records) /\ n \in Nat
    BY WroteRecords DEF IInv, AtColumn, OnTrack, SizesKept
  <1>2. Filled(s) /\ previous \in -1 .. n - 1
    BY DEF OnTrack, IInv, NotesBuilt
  <1>3. b \in 0 .. n /\ previous \in Int
    BY <1>1, <1>2
  <1>4. Matches(s, f, b) /\ (b # 0 => f[b] # 0) /\ values = ValueCount(f)
    BY DEF OnTrack, NotesKept, SizesKept
  <1>5. f \in [1 .. n -> 0 .. MaxUint32] /\ DOMAIN f = 1 .. n
    BY <1>1, FieldWrote
  <1> HIDE DEF f, s, b
  <1>6. /\ (\E j \in b + 1 .. n : f[j] # 0) => Len(s.ids) < values
        /\ (\A j \in b + 1 .. n : f[j] = 0) =>
              Len(s.ids) = values /\ Matches(s, f, n)
    BY <1>1, <1>2, <1>3, <1>4, <1>5, NotedCount
  <1>7. ASSUME S # {}
        PROVE  \E m \in b + 1 .. n :
                  /\ f[m] # 0
                  /\ \A j \in b + 1 .. m - 1 : f[j] = 0
                  /\ Len(s.ids) < values
    <2>1. S \in SUBSET Nat
      BY <1>1, <1>3
    <2>2. Min(S) \in S /\ \A y \in S : Min(S) <= y
      BY <1>7, <2>1, LeastOf
    <2> DEFINE m == Min(S)
    <2>3. m \in b + 1 .. n /\ f[m] # 0
      BY <2>2
    <2>4. \A j \in b + 1 .. m - 1 : f[j] = 0
      <3> TAKE j \in b + 1 .. m - 1
      <3> HIDE DEF m
      <3>1. j \in b + 1 .. n /\ ~(m <= j)
        BY <1>1, <1>3, <2>3
      <3> QED
        BY <2>2, <3>1 DEF m
    <2>5. Len(s.ids) < values
      BY <1>6, <2>3
    <2> HIDE DEF m
    <2> QED
      BY <2>3, <2>4, <2>5
  <1>8. ASSUME S = {}
        PROVE  /\ \A j \in b + 1 .. n : f[j] = 0
               /\ Len(s.ids) = values
               /\ Matches(s, f, n)
    <2>1. \A j \in b + 1 .. n : f[j] = 0
      BY <1>8
    <2> QED
      BY <1>6, <2>1
  <1>9. S = {} \/ S # {}
    OBVIOUS
  <1> HIDE DEF S
  <1> QED
    BY <1>1, <1>2, <1>3, <1>4, <1>5, <1>7, <1>8, <1>9 DEF f, b, s

(* The records without a value take no bytes. *)
LEMMA ValueSkips ==
    ASSUME NEW d, NEW t, Wrote(d, t), Follows(d, t), NEW c \in SparseColumns,
           n = Len(d.records),
           NEW b \in 0 .. n, NEW e \in b .. n,
           \A j \in b + 1 .. e : FieldOf(d, t, c)[j] = 0
    PROVE  LET h(k) == Here(d, t, PartOf[c], CountBytes(d, t, c),
                            SparseRows(FieldOf(d, t, c)), k)
           IN  h(e) = h(b)
  <1> DEFINE f == FieldOf(d, t, c)
             rows == SparseRows(f)
  <1>1. n \in Nat /\ n < VarintLimit /\ f \in [1 .. n -> 0 .. MaxUint32]
    BY WroteRecords, FieldWrote
  <1>2. rows \in Seq(Seq(Byte)) /\ Len(rows) = n
    BY ColumnBytes
  <1>3. ASSUME NEW j \in b + 1 .. e PROVE rows[j] = <<>>
    <2>1. j \in 1 .. n /\ f[j] = 0
      BY <1>1
    <2> HIDE DEF f
    <2> QED
      BY <1>1, <2>1, SparseRow
  <1>4. Offsets(rows)[e] = Offsets(rows)[b]
    <2> HIDE DEF rows
    <2>1. b \in 0 .. Len(rows) /\ e \in b .. Len(rows)
      BY <1>2
    <2> QED
      BY <1>2, <1>3, <2>1, RowsSkipped
  <1> QED
    BY <1>4 DEF Here

(* What the decoder finds at the next value: the gap to its record and its *)
(* id.                                                                     *)
LEMMA ValueFound ==
    ASSUME NEW d, NEW t, Wrote(d, t), Follows(d, t), IInv, OnTrack(d, t),
           pc = "values", NEW c, c = column,
           NEW m \in previous + 2 .. n, FieldOf(d, t, c)[m] # 0,
           \A j \in previous + 2 .. m - 1 : FieldOf(d, t, c)[j] = 0
    PROVE  \/ Short(d, t) /\ ~ValueOK
           \/ /\ ValueOK /\ ValueRecord = m - 1
              /\ FieldOf(d, t, c)[m] \in 1 .. numStrings - 1
              /\ ValueId.v = FieldOf(d, t, c)[m] /\ ~ValueId.err
              /\ ValueId.pos = Here(d, t, PartOf[c], CountBytes(d, t, c),
                                    SparseRows(FieldOf(d, t, c)), m)
  <1> DEFINE f == FieldOf(d, t, c)
             b == previous + 1
             p == PartOf[c]
             head == CountBytes(d, t, c)
             rows == SparseRows(f)
             x == Gap(f, m)
             y == f[m]
             s1 == UvarintBytes(x)
             s2 == UvarintBytes(y)
             row == rows[m]
             r == Here(d, t, p, head, rows, m)
             lF == Len(Marshal(d, t))
             k == m - 1
  <1>1. /\ c \in SparseColumns /\ n = Len(d.records) /\ n \in Nat
        /\ b \in 0 .. n /\ previous \in Int /\ (b # 0 => f[b] # 0)
        /\ f \in [1 .. n -> 0 .. MaxUint32]
    BY NextValue
  <1>2. m \in 1 .. n /\ k \in 0 .. n /\ k # n /\ b \in 0 .. k /\ k \in b .. n
        /\ k + 1 = m /\ m \in Nat
    BY <1>1
  <1>3. \A j \in b + 1 .. k : f[j] = 0
    <2>1. b + 1 = previous + 2
      BY <1>1
    <2> QED
      BY <2>1
  <1>4. n < VarintLimit
    BY <1>1, WroteRecords
  <1>5. x = m - b - 1 /\ x \in 0 .. m - 1
    <2> HIDE DEF b, f
    <2>1. /\ x \in 0 .. m - 1
          /\ \A e \in 0 .. m - 1 :
                /\ e # 0 => f[e] # 0
                /\ \A j \in e + 1 .. m - 1 : f[j] = 0
                => x = m - e - 1
      BY <1>1, <1>2, GapIs
    <2>2. b \in 0 .. m - 1 /\ \A j \in b + 1 .. m - 1 : f[j] = 0
      BY <1>2, <1>3
    <2> HIDE DEF x
    <2> QED
      BY <1>1, <2>1, <2>2
  <1>6. /\ y # 0 /\ row = s1 \o s2
        /\ x \in 0 .. VarintLimit - 1 /\ y \in 0 .. MaxUint32
        /\ s1 \in Seq(Byte) /\ Len(s1) \in Nat /\ s2 \in Seq(Byte)
        /\ Len(s2) \in Nat /\ Len(row) = Len(s1) + Len(s2)
    <2>1. f[m] # 0
      OBVIOUS
    <2> HIDE DEF f
    <2>2. n \in Nat /\ n < VarintLimit /\ f \in [1 .. n -> 0 .. MaxUint32]
          /\ m \in 1 .. n
      BY <1>1, <1>2, <1>4
    <2> HIDE DEF b, p, head, r, lF, k
    <2>4. f[m] # 0 => row = s1 \o s2
      BY <2>2, SparseRow, ZenonT(60)
    <2>5. x \in 0 .. VarintLimit - 1 /\ y \in 0 .. MaxUint32
      BY <2>2, SparseRow
    <2>6. s1 \in Seq(Byte) /\ Len(s1) \in Nat \ {0}
      BY <2>2, SparseRow
    <2>7. s2 \in Seq(Byte) /\ Len(s2) \in Nat \ {0}
      BY <2>2, SparseRow
    <2>8. f[m] # 0 => Len(row) = Len(s1) + Len(s2)
      BY <2>2, SparseRow, ZenonT(60)
    <2>3. /\ f[m] # 0 => row = s1 \o s2
          /\ x \in 0 .. VarintLimit - 1 /\ y \in 0 .. MaxUint32
          /\ s1 \in Seq(Byte) /\ Len(s1) \in Nat \ {0} /\ s2 \in Seq(Byte)
          /\ Len(s2) \in Nat \ {0}
          /\ f[m] # 0 => Len(row) = Len(s1) + Len(s2)
      BY <2>4, <2>5, <2>6, <2>7, <2>8
    <2> QED
      BY <2>1, <2>3
  <1>7. Laid(d, t, p, head, rows) /\ rows \in Seq(Seq(Byte)) /\ Len(rows) = n
    BY <1>1, AllLaid, ColumnBytes DEF CountBytes
  <1>8. pos = Here(d, t, p, head, rows, k)
    <2>1. pos = Here(d, t, p, head, rows, b)
      BY DEF OnTrack, Stands
    <2>2. Here(d, t, p, head, rows, k) = Here(d, t, p, head, rows, b)
      <3> HIDE DEF b, k, p
      <3> QED
        BY <1>1, <1>2, <1>3, ValueSkips DEF p
    <2> QED
      BY <2>1, <2>2
  <1>9. /\ Cursor.pos = pos /\ Cursor.pos \in Nat /\ ~Cursor.err /\ pos \in Nat
        /\ Continues(payload, pos, row) /\ Len(payload) \in Nat
        /\ r = pos + Len(row) /\ r \in Nat /\ r <= lF /\ lF \in Nat
    <2>1. k \in 0 .. Len(rows) /\ k # Len(rows) /\ Len(rows) \in Nat
      BY <1>1, <1>2, <1>7
    <2> HIDE DEF rows, k, p, head
    <2>2. /\ Cursor.pos = pos /\ Cursor.pos \in Nat /\ ~Cursor.err
          /\ Continues(payload, Cursor.pos, rows[k + 1])
          /\ Here(d, t, p, head, rows, k + 1) = pos + Len(rows[k + 1])
          /\ Here(d, t, p, head, rows, k + 1) \in Nat
          /\ Here(d, t, p, head, rows, k + 1) <= Len(Marshal(d, t))
          /\ Len(payload) \in Nat /\ Len(Marshal(d, t)) \in Nat
      BY <1>7, <1>8, <2>1, RowAt
    <2> QED
      BY <1>2, <2>2
  <1>10. Continues(payload, pos, s1) /\ Continues(payload, pos + Len(s1), s2)
    <2> HIDE DEF s1, s2, row
    <2>1. Continues(payload, pos, s1 \o s2)
      BY <1>6, <1>9
    <2> QED
      BY <1>6, <1>9, <2>1, ContinuesConcat
  <1> DEFINE q == pos + Len(s1)
  <1>11. q \in Nat /\ q <= lF /\ r = q + Len(s2)
    <2> HIDE DEF s1, s2, row, r, lF
    <2> QED
      BY <1>6, <1>9
  <1>12. \/ Short(d, t) /\ ValueGap.err
         \/ ValueGap = [v |-> x, pos |-> q, err |-> FALSE]
    <2>1. Gets(ValueGap, pos, s1, x)
      <3>1. Continues(payload, Cursor.pos, UvarintBytes(x))
        BY <1>9, <1>10
      <3>2. x <= n
        <4>1. x \in 0 .. m - 1 /\ m \in 1 .. n /\ n \in Nat
          BY <1>1, <1>2, <1>5
        <4> HIDE DEF x
        <4> QED
          BY <4>1
      <3> HIDE DEF x
      <3>3. Gets(ReadBounded(Cursor, n), Cursor.pos, UvarintBytes(x), x)
        BY <1>1, <1>6, <1>9, <3>1, <3>2, BoundedGets
      <3> QED
        BY <1>9, <3>3 DEF ValueGap
    <2> HIDE DEF s1, x
    <2>2. q = pos + Len(s1)
      OBVIOUS
    <2> HIDE DEF q
    <2> QED
      BY <1>9, <1>11, <2>1, <2>2, RowFound
  <1>13. CASE Short(d, t) /\ ValueGap.err
    BY <1>13 DEF ValueOK
  <1>14. CASE ValueGap = [v |-> x, pos |-> q, err |-> FALSE]
    <2>1. ValueGap.v = x /\ ValueGap.pos = q /\ ~ValueGap.err
      BY <1>14
    <2>2. Gets(ValueId, q, s2, y)
      <3>1. Continues(payload, ValueGap.pos, UvarintBytes(y)) /\ ValueGap.pos \in Nat
        BY <1>10, <1>11, <2>1
      <3> HIDE DEF y, q
      <3> QED
        BY <1>6, <1>9, <2>1, <3>1, Uvarint32Gets DEF ValueId
    <2>3. \/ Short(d, t) /\ ValueId.err
          \/ ValueId = [v |-> y, pos |-> r, err |-> FALSE]
      <3> HIDE DEF y, q, r, s2
      <3> QED
        BY <1>9, <1>11, <2>2, RowFound
    <2>4. CASE Short(d, t) /\ ValueId.err
      BY <2>4 DEF ValueOK
    <2>5. CASE ValueId = [v |-> y, pos |-> r, err |-> FALSE]
      <3>1. ValueId.v = y /\ ValueId.pos = r /\ ~ValueId.err
        BY <2>5
      <3>2. ValueRecord = m - 1 /\ ValueRecord < n
        <4>1. ValueRecord = b + x
          BY <2>1 DEF ValueRecord
        <4> HIDE DEF x, b
        <4> QED
          BY <1>1, <1>2, <1>5, <4>1
      <3>3. y \in 1 .. numStrings - 1
        <4>1. c \in DeltaColumns \cup SparseColumns /\ c # "city"
          BY <1>1 DEF SparseColumns
        <4>2. f[m] \in 0 .. Len(t) - 1
          BY <1>1, <1>2, <4>1, FieldWrote
        <4>3. numStrings = Len(t) /\ Len(t) \in Nat
          BY TableWrote DEF OnTrack, SizesKept
        <4> HIDE DEF f
        <4> QED
          BY <1>6, <4>2, <4>3
      <3>4. ValueOK
        BY <2>1, <3>1, <3>2, <3>3 DEF ValueOK
      <3> QED
        BY <3>1, <3>2, <3>3, <3>4
    <2> QED
      BY <2>3, <2>4, <2>5
  <1> QED
    BY <1>12, <1>13, <1>14

(* The next value that is read is the next that was written, at its        *)
(* record.                                                                 *)
LEMMA ValueGot ==
    ASSUME NEW d, NEW t, Wrote(d, t), Follows(d, t), IInv, OnTrack(d, t),
           NEW c, c = column
    PROVE  LET f == FieldOf(d, t, c)
               h(k) == Here(d, t, PartOf[c], CountBytes(d, t, c), SparseRows(f), k)
           IN  /\ ReadValue =>
                     \E m \in previous + 2 .. n :
                        /\ f[m] \in 1 .. numStrings - 1
                        /\ \A j \in previous + 2 .. m - 1 : f[j] = 0
                        /\ ValueRecord = m - 1 /\ ValueId.v = f[m]
                        /\ pos' = h(m) /\ ~err'
               /\ FailValue => Short(d, t) /\ err'
               /\ EndValues =>
                     /\ Matches(notes[c], f, n)
                     /\ pos = Start(d, t)[PartOf[c]]
  <1> DEFINE f == FieldOf(d, t, c)
             h(k) == Here(d, t, PartOf[c], CountBytes(d, t, c), SparseRows(f), k)
             b == previous + 1
             s == notes[c]
             Next1(m) == /\ f[m] # 0
                         /\ \A j \in b + 1 .. m - 1 : f[j] = 0
                         /\ Len(s.ids) < values
  <1>1. ASSUME pc = "values"
        PROVE  /\ previous \in Int /\ b + 1 = previous + 2 /\ Len(s.ids) \in Nat
               /\ \/ /\ \A j \in b + 1 .. n : f[j] = 0
                     /\ Len(s.ids) = values
                     /\ Matches(s, f, n)
                  \/ \E m \in b + 1 .. n : Next1(m)
    <2>1. /\ previous \in Int /\ Filled(s)
          /\ \/ /\ \A j \in b + 1 .. n : f[j] = 0
                /\ Len(s.ids) = values
                /\ Matches(s, f, n)
             \/ \E m \in b + 1 .. n : Next1(m)
      BY <1>1, NextValue
    <2>2. s.ids \in Seq(1 .. numStrings - 1)
      BY <2>1 DEF Filled
    <2>3. b + 1 = previous + 2
      BY <2>1
    <2> HIDE DEF f, Next1, b, s
    <2> QED
      BY <2>1, <2>2, <2>3
  <1>2. ASSUME pc = "values", NEW m \in b + 1 .. n, Next1(m)
        PROVE  /\ m \in previous + 2 .. n
               /\ \A j \in previous + 2 .. m - 1 : f[j] = 0
               /\ \/ Short(d, t) /\ ~ValueOK
                  \/ /\ ValueOK /\ ValueRecord = m - 1
                     /\ f[m] \in 1 .. numStrings - 1
                     /\ ValueId.v = f[m] /\ ~ValueId.err
                     /\ ValueId.pos = h(m)
    <2>1. m \in previous + 2 .. n
      BY <1>1, <1>2
    <2>2. \A j \in previous + 2 .. m - 1 : f[j] = 0
      BY <1>1, <1>2
    <2>3. f[m] # 0
      BY <1>2
    <2> QED
      BY <1>2, <2>1, <2>2, <2>3, ValueFound
  <1>3. ASSUME ReadValue
        PROVE  \E m \in previous + 2 .. n :
                  /\ f[m] \in 1 .. numStrings - 1
                  /\ \A j \in previous + 2 .. m - 1 : f[j] = 0
                  /\ ValueRecord = m - 1 /\ ValueId.v = f[m]
                  /\ pos' = h(m) /\ ~err'
    <2>1. /\ pc = "values" /\ Len(s.ids) < values /\ ValueOK
          /\ pos' = ValueId.pos /\ err' = ValueId.err
      BY <1>3 DEF ReadValue, Advance
    <2>2. PICK m \in b + 1 .. n : Next1(m)
      <3>1. ~(Len(s.ids) = values)
        <4>1. Len(s.ids) \in Nat
          BY <1>1, <2>1
        <4> QED
          BY <2>1, <4>1
      <3> HIDE DEF Next1, f, s, b
      <3> QED
        BY <1>1, <2>1, <3>1
    <2> HIDE DEF f, h
    <2>3. /\ m \in previous + 2 .. n
          /\ \A j \in previous + 2 .. m - 1 : f[j] = 0
          /\ ValueRecord = m - 1 /\ f[m] \in 1 .. numStrings - 1
          /\ ValueId.v = f[m] /\ ~ValueId.err /\ ValueId.pos = h(m)
      BY <1>2, <2>1, <2>2
    <2> HIDE DEF Next1
    <2> QED
      BY <2>1, <2>3
  <1>4. ASSUME FailValue PROVE Short(d, t) /\ err'
    <2>1. /\ pc = "values" /\ Len(s.ids) < values /\ ~ValueOK /\ err'
      BY <1>4 DEF FailValue, Advance, Failed
    <2>2. PICK m \in b + 1 .. n : Next1(m)
      <3>1. ~(Len(s.ids) = values)
        <4>1. Len(s.ids) \in Nat
          BY <1>1, <2>1
        <4> QED
          BY <2>1, <4>1
      <3> HIDE DEF Next1, f, s, b
      <3> QED
        BY <1>1, <2>1, <3>1
    <2> HIDE DEF f, h
    <2> QED
      BY <1>2, <2>1, <2>2
  <1>5. ASSUME EndValues
        PROVE  Matches(s, f, n) /\ pos = Start(d, t)[PartOf[c]]
    <2>1. pc = "values" /\ Len(s.ids) = values
      BY <1>5 DEF EndValues
    <2>2. \A m \in b + 1 .. n : ~Next1(m)
      <3>1. ~(Len(s.ids) < values)
        <4>1. Len(s.ids) \in Nat
          BY <1>1, <2>1
        <4> QED
          BY <2>1, <4>1
      <3> QED
        BY <3>1
    <2>3. Matches(s, f, n) /\ \A j \in b + 1 .. n : f[j] = 0
      <3> HIDE DEF Next1, f, s, b
      <3> QED
        BY <1>1, <2>1, <2>2
    <2>4. /\ c \in SparseColumns /\ n = Len(d.records) /\ n \in Nat
          /\ b \in 0 .. n
      BY <2>1, NextValue
    <2>5. pos = h(b)
      BY <2>1 DEF OnTrack, Stands
    <2>6. h(n) = h(b)
      <3>1. n \in b .. n
        BY <2>4
      <3> HIDE DEF b
      <3> QED
        BY <2>3, <2>4, <3>1, ValueSkips
    <2>7. h(n) = Start(d, t)[PartOf[c]]
      <3>1. /\ Laid(d, t, PartOf[c], CountBytes(d, t, c), SparseRows(f))
            /\ Len(SparseRows(f)) = n
        BY <2>4, AllLaid, ColumnBytes DEF CountBytes
      <3> QED
        BY <3>1 DEF Laid
    <2> QED
      BY <2>3, <2>5, <2>6, <2>7
  <1> QED
    BY <1>3, <1>4, <1>5

-----------------------------------------------------------------------------
(* The flags, and the end of the payload. *)

(* Where the flags stand, at the end of the payload.                       *)
LEMMA FlagsStand ==
    ASSUME NEW d, NEW t, Wrote(d, t), Follows(d, t)
    PROVE  /\ Start(d, t)[14] \in Nat
           /\ Continues(payload, Start(d, t)[14], FlagsOf(d))
           /\ Start(d, t)[15] = Start(d, t)[14] + Len(d.records)
           /\ Len(Marshal(d, t)) = Start(d, t)[15] /\ Len(Marshal(d, t)) \in Nat
           /\ Len(FlagsOf(d)) = Len(d.records) /\ Len(d.records) \in Nat
           /\ FlagsOf(d) \in Seq(Byte)
           /\ Len(payload) \in Nat
  <1>1. Parts(d, t)[15] = FlagsOf(d) /\ 15 \in 1 .. 15 /\ 15 - 1 = 14
    BY DEF Parts
  <1>2. /\ Start(d, t)[14] \in Nat
        /\ Continues(payload, Start(d, t)[14], Parts(d, t)[15])
        /\ Start(d, t)[15] = Start(d, t)[14] + Len(Parts(d, t)[15])
    BY <1>1, PartContinues
  <1>3. FlagsOf(d) \in Seq(Byte) /\ Len(FlagsOf(d)) = Len(d.records)
        /\ Len(d.records) \in Nat
    BY FlagsWrote, WroteRecords
  <1>4. Len(Marshal(d, t)) = Start(d, t)[15] /\ Len(Marshal(d, t)) \in Nat
    BY PartsStand
  <1> QED
    BY <1>1, <1>2, <1>3, <1>4 DEF Follows

(* The next flags that are read are the next that were written.            *)
LEMMA FlagsGot ==
    ASSUME NEW d, NEW t, Wrote(d, t), Follows(d, t), IInv, OnTrack(d, t), ReadFlags
    PROVE  LET k == Len(flags)
           IN  /\ k \in 0 .. Len(d.records) - 1 /\ n = Len(d.records)
               /\ \/ Short(d, t) /\ err'
                  \/ /\ flags' = Append(flags, FlagsOf(d)[k + 1])
                     /\ pos' = Start(d, t)[14] + (k + 1)
                     /\ ~err'
  <1> DEFINE k == Len(flags)
             b == FlagsOf(d)[k + 1]
             c == ReadByte(Cursor)
             a == Start(d, t)[14]
             m == Len(d.records)
             lF == Len(Marshal(d, t))
  <1>1. /\ pc = "flags" /\ k < n
        /\ flags' = Append(flags, c.v) /\ pos' = c.pos /\ err' = c.err
    BY DEF ReadFlags, Advance
  <1>2. n = m /\ pos = a + k /\ \A i \in 1 .. k : flags[i] = FlagsOf(d)[i]
    BY <1>1 DEF OnTrack, SizesKept, Stands, RowsKept
  <1>3. /\ a \in Nat /\ m \in Nat /\ lF = a + m
        /\ Continues(payload, a, FlagsOf(d)) /\ Len(FlagsOf(d)) = m
        /\ Len(payload) \in Nat
    BY FlagsStand
  <1>4. Cursor.pos = pos /\ ~Cursor.err /\ pos \in Nat
    BY TrackCursor
  <1>5. k \in 0 .. m - 1
    <2>1. k \in Int /\ k >= 0
      BY <1>2, <1>3, <1>4 
    <2> HIDE DEF k, m
    <2> QED
      BY <1>1, <1>2, <1>3, <2>1
  <1>6. Continues(payload, pos, <<b>>)
    <2>1. k + 1 \in 1 .. Len(FlagsOf(d)) /\ pos + 1 = a + (k + 1)
      <3> HIDE DEF a, k, m
      <3> QED
        BY <1>2, <1>3, <1>5
    <2>2. pos + 1 <= Len(payload) => payload[pos + 1] = b
      BY <1>3, <2>1 DEF Continues
    <2> HIDE DEF b
    <2>3. Len(<<b>>) = 1 /\ <<b>>[1] = b
      OBVIOUS
    <2>4. ASSUME NEW i \in 1 .. Len(<<b>>), pos + i <= Len(payload)
          PROVE  payload[pos + i] = <<b>>[i]
      <3>1. i = 1
        BY <2>3, <2>4
      <3> QED
        BY <2>2, <2>3, <2>4, <3>1
    <2> QED
      BY <2>4 DEF Continues
  <1>7. Gets(c, pos, <<b>>, b)
    <2> HIDE DEF b
    <2>1. Continues(payload, Cursor.pos, <<b>>) /\ Cursor.pos \in Nat
      BY <1>4, <1>6
    <2> QED
      BY <1>3, <1>4, <2>1, ByteGets
  <1> DEFINE r == a + (k + 1)
  <1>8. /\ r \in Nat /\ r = pos + Len(<<b>>) /\ r <= lF /\ lF \in Nat
    <2>1. Len(<<b>>) = 1
      OBVIOUS
    <2> HIDE DEF b, a, k, m, lF
    <2> QED
      BY <1>2, <1>3, <1>5, <2>1
  <1>9. \/ Short(d, t) /\ c.err
        \/ c = [v |-> b, pos |-> r, err |-> FALSE]
    <2>1. /\ Len(Marshal(d, t)) \in Nat /\ r <= Len(Marshal(d, t))
          /\ r \in Nat /\ r = pos + Len(<<b>>)
          /\ Len(payload) \in Nat /\ pos \in Nat
      BY <1>3, <1>4, <1>8
    <2>2. Gets(c, pos, <<b>>, b)
      BY <1>7
    <2> HIDE DEF b, c, r, lF
    <2>3. \/ Short(d, t) /\ c.err
          \/ c = [v |-> b, pos |-> r, err |-> FALSE] /\ r <= Len(payload)
      BY <2>1, <2>2 DEF Gets, Short
    <2> QED
      BY <2>3
  <1>10. \/ Short(d, t) /\ err'
         \/ flags' = Append(flags, b) /\ pos' = r /\ ~err'
    <2> HIDE DEF b, c, r
    <2> QED
      BY <1>1, <1>9
  <1> QED
    BY <1>2, <1>5, <1>10

(* What was read on the track passes the check. *)
LEMMA TrackChecks ==
    ASSUME NEW d, NEW t, Wrote(d, t), Follows(d, t), IInv, OnTrack(d, t),
           pc = "flags"
    PROVE  Check
  <1>1. /\ n = Len(d.records) /\ n \in Nat /\ numStrings = Len(t)
        /\ Len(cities) = Len(d.cities) /\ Len(t) \in Nat
    BY WroteRecords, TableWrote
       DEF OnTrack, SizesKept, NamesKept, Reading
  <1>2. column = "flags" /\ Len(prefs) = PrefectureCount
    BY DEF IInv, AtColumn, NamesBuilt, ReadPast, Reading
  <1>3. \A c \in DeltaColumns : Len(columns[c]) = n
    BY <1>2 DEF IInv, ColumnsBuilt, ReadPast, Reading, ColumnsBefore, OnTrack
  <1>4. ASSUME NEW c \in DeltaColumns, NEW i \in 1 .. n
        PROVE  /\ c = "city" => columns[c][i] < Len(cities)
               /\ c # "city" => columns[c][i] < numStrings
    <2> DEFINE f == FieldOf(d, t, c)
    <2>1. columns[c][i] = f[i]
      BY <1>3 DEF OnTrack, RowsKept
    <2>2. c \in DeltaColumns \cup SparseColumns /\ i \in 1 .. Len(d.records)
      BY <1>1
    <2>3. /\ c = "city" => f[i] = d.records[i].city
          /\ c # "city" => f[i] \in 0 .. Len(t) - 1
      BY <2>2, FieldWrote
    <2>4. d.records[i].city < Len(d.cities)
      BY <2>2, WroteRecords
    <2> HIDE DEF f
    <2> QED
      BY <1>1, <2>1, <2>3, <2>4
  <1>5. ASSUME NEW ref, ref.kanji \in 0 .. Len(t) - 1,
               ref.kana \in 0 .. Len(t) - 1, ref.romaji \in 0 .. Len(t) - 1
        PROVE  RefOK(ref)
    BY <1>1, <1>5 DEF RefOK
  <1>6. ASSUME NEW i \in DOMAIN cities
        PROVE  RefOK(cities[i].name) /\ cities[i].pref < PrefectureCount
    <2>1. i \in 1 .. Len(cities)
      BY DEF IInv, NamesBuilt
    <2>2. cities[i] = CityRef(d, t, i)
      BY <2>1 DEF OnTrack, NamesKept
    <2>3. i \in 1 .. Len(d.cities) /\ i \in DOMAIN d.cities
      BY <1>1, <2>1, WroteCities
    <2> DEFINE ref == Ref(t, d.cities[i])
    <2>4. /\ ref.kanji \in 0 .. Len(t) - 1 /\ ref.kana \in 0 .. Len(t) - 1
          /\ ref.romaji \in 0 .. Len(t) - 1
      BY <2>3, RefsWrote
    <2>5. d.cities[i].pref \in 0 .. PrefectureCount - 1 /\ PrefectureCount \in Nat
      BY <2>3, WroteCities, FormatAssumption
    <2>6. cities[i].name = ref /\ cities[i].pref = d.cities[i].pref
      BY <2>2 DEF CityRef
    <2> HIDE DEF ref
    <2> QED
      BY <1>5, <2>4, <2>5, <2>6
  <1>7. ASSUME NEW i \in DOMAIN prefs PROVE RefOK(prefs[i])
    <2>1. i \in 1 .. Len(prefs)
      BY DEF IInv, NamesBuilt
    <2>2. prefs[i] = Ref(t, d.prefectures[i])
      BY <2>1 DEF OnTrack, NamesKept
    <2>3. i \in DOMAIN d.prefectures
      <3>1. d \in Dataset
        BY DEF Wrote
      <3>2. DOMAIN d.prefectures = 1 .. PrefectureCount
        BY <3>1, PartsOfDataset
      <3> QED
        BY <1>2, <2>1, <3>2
    <2> DEFINE ref == Ref(t, d.prefectures[i])
    <2>4. /\ ref.kanji \in 0 .. Len(t) - 1 /\ ref.kana \in 0 .. Len(t) - 1
          /\ ref.romaji \in 0 .. Len(t) - 1
      BY <2>3, RefsWrote
    <2>5. prefs[i] = ref
      BY <2>2
    <2> HIDE DEF ref
    <2> QED
      BY <1>5, <2>4, <2>5
  <1>8. /\ "city" \in DeltaColumns /\ "kanji" \in DeltaColumns
        /\ "kana" \in DeltaColumns /\ "romaji" \in DeltaColumns
    BY DEF DeltaColumns
  <1>9. ASSUME NEW i \in 1 .. n
        PROVE  /\ columns.kanji[i] < numStrings
               /\ columns.kana[i] < numStrings
               /\ columns.romaji[i] < numStrings
               /\ columns.city[i] < Len(cities)
    BY <1>4, <1>8
  <1> QED
    BY <1>6, <1>7, <1>9 DEF Check

(* On the track, the store is accepted if the payload ends where the       *)
(* written one does, and refused only if it goes on.                       *)
LEMMA EndGot ==
    ASSUME NEW d, NEW t, Wrote(d, t), Follows(d, t), IInv, OnTrack(d, t)
    PROVE  /\ Accept => pos = Start(d, t)[15] /\ Len(payload) = Len(Marshal(d, t))
           /\ RejectStore => Len(payload) > Len(Marshal(d, t))
  <1>1. ASSUME pc = "flags", Len(flags) = n
        PROVE  pos = Len(Marshal(d, t)) /\ pos = Start(d, t)[15]
    <2>1. pos = Start(d, t)[14] + n /\ n = Len(d.records)
      BY <1>1 DEF OnTrack, Stands, SizesKept
    <2> QED
      BY <2>1, FlagsStand
  <1>2. ASSUME Accept
        PROVE  pos = Start(d, t)[15] /\ Len(payload) = Len(Marshal(d, t))
    BY <1>1, <1>2 DEF Accept, Acceptable, Consumed
  <1>3. ASSUME RejectStore PROVE Len(payload) > Len(Marshal(d, t))
    <2>1. pc = "flags" /\ Len(flags) = n /\ ~Acceptable
      BY <1>3 DEF RejectStore
    <2>2. pos # Len(payload)
      BY <2>1, TrackChecks DEF Acceptable, Consumed, OnTrack
    <2>3. pos \in Nat /\ pos <= Len(payload) /\ Len(payload) \in Nat
      BY TrackCursor
    <2>4. pos = Len(Marshal(d, t))
      BY <1>1, <2>1
    <2> QED
      BY <2>2, <2>3, <2>4
  <1> QED
    BY <1>2, <1>3

(* The header of a file with a good one is refused only for the size of    *)
(* its payload.                                                            *)
LEMMA HeaderGot ==
    ASSUME NEW d, NEW t, Wrote(d, t), Follows(d, t),
           file.header = "good", file.inflates, RejectHeader
    PROVE  Len(payload) > Len(Marshal(d, t))
  <1>1. ~(Len(payload) <= MaxPayload)
    BY DEF RejectHeader, HeaderOK
  <1>2. Len(Marshal(d, t)) <= MaxPayload
    BY DEF Wrote, Fits
  <1>3. Len(payload) \in Nat /\ Len(Marshal(d, t)) \in Nat /\ MaxPayload \in Nat
    BY PartsStand, FormatAssumption DEF Follows
  <1> QED
    BY <1>1, <1>2, <1>3

-----------------------------------------------------------------------------
(* A step on the track. *)

(* A payload that is cut off is on its way to be refused, and one that goes *)
(* on has been.                                                            *)
Lost(d, t) == Short(d, t) /\ (err \/ result = "rejected" \/ Starved)

Longer(d, t) == Len(payload) > Len(Marshal(d, t)) /\ result = "rejected"

(* What each action reads when nothing is missing. *)
Tracked(d, t) ==
    /\ ~err' /\ result' # "rejected"
    /\ ReadDates => updated' = d.updated /\ pos' = Start(d, t)[2]
    /\ ReadTable =>
          /\ numStrings' = Len(t) /\ blobLen' = BlobLen(t)
          /\ pos' = Start(d, t)[2] + Len(TableHead(t))
    /\ ReadString =>
          LET i == Len(strOff) + 1
          IN  /\ i \in 1 .. Len(t)
              /\ blob' = blob \o t[i] /\ strOff' = Append(strOff, Len(blob))
              /\ pos' = Here(d, t, 3, TableHead(t), FrontRows(t), i)
    /\ ReadPrefecture =>
          LET k == Len(prefs)
          IN  /\ k \in 0 .. PrefectureCount - 1
              /\ prefs' = Append(prefs, Ref(t, d.prefectures[k + 1]))
              /\ pos' = Here(d, t, 4, <<>>, PrefRows(d, t), k + 1)
    /\ ReadCityCount =>
          /\ numCities' = Len(d.cities)
          /\ pos' = Here(d, t, 6, <<>>, CityRows(d, t), 0)
    /\ ReadCity =>
          LET k == Len(cities)
          IN  /\ k \in 0 .. Len(d.cities) - 1
              /\ cities' = Append(cities, CityRef(d, t, k + 1))
              /\ pos' = Here(d, t, 6, <<>>, CityRows(d, t), k + 1)
    /\ ReadRecordCount =>
          /\ n' = Len(d.records)
          /\ pos' = Here(d, t, 8, <<>>, ZipRows(ZipsOf(d)), 0)
    /\ ReadZip =>
          LET k == Len(zips)
          IN  /\ k \in 0 .. Len(d.records) - 1
              /\ zips' = Append(zips, ZipsOf(d)[k + 1])
              /\ pos' = Here(d, t, 8, <<>>, ZipRows(ZipsOf(d)), k + 1)
    /\ ReadFlags =>
          LET k == Len(flags)
          IN  /\ k \in 0 .. Len(d.records) - 1 /\ n = Len(d.records)
              /\ flags' = Append(flags, FlagsOf(d)[k + 1])
              /\ pos' = Start(d, t)[14] + (k + 1)
    /\ Accept => pos = Start(d, t)[15]

(* The same for the columns. *)
TrackedIn(d, t, c) ==
    LET f == FieldOf(d, t, c)
        delta(k) == Here(d, t, PartOf[c], <<>>, DeltaRows(f), k)
        sparse(k) == Here(d, t, PartOf[c], CountBytes(d, t, c), SparseRows(f), k)
    IN  /\ ReadDelta =>
              LET k == Len(columns[c])
              IN  /\ c \in DeltaColumns /\ k \in 0 .. Len(d.records) - 1
                  /\ columns' = [columns EXCEPT ![c] = Append(columns[c], f[k + 1])]
                  /\ pos' = delta(k + 1)
        /\ EndDelta => /\ c \in DeltaColumns /\ Len(columns[c]) = n
                       /\ pos = Start(d, t)[PartOf[c]]
        /\ ~SkipSparse /\ ~FailSparse /\ ~FailValue
        /\ ReadSparse => values' = ValueCount(f) /\ previous' = -1 /\ pos' = sparse(0)
        /\ ReadValue =>
              \E m \in previous + 2 .. n :
                 /\ f[m] \in 1 .. numStrings - 1
                 /\ \A j \in previous + 2 .. m - 1 : f[j] = 0
                 /\ ValueRecord = m - 1 /\ ValueId.v = f[m]
                 /\ pos' = sparse(m)
        /\ EndValues => Matches(notes[c], f, n) /\ pos = Start(d, t)[PartOf[c]]

(* The file does not change while it is read.                              *)
LEMMA ShortKept ==
    ASSUME NEW d, NEW t, DecodeStep
    PROVE  /\ Short(d, t)' <=> Short(d, t)
           /\ payload' = payload /\ file' = file
  BY DEF Short, DecodeStep, payload

(* Who latches an error or rejects. *)
LEMMA WhoFails ==
    ASSUME DecodeStep, ~err, result # "rejected"
    PROVE  /\ err' => \/ ReadDates \/ ReadTable \/ ReadString \/ ReadPrefecture
                      \/ ReadCityCount \/ ReadCity \/ ReadRecordCount \/ ReadZip
                      \/ ReadDelta \/ SkipSparse \/ FailSparse \/ ReadSparse
                      \/ ReadValue \/ FailValue \/ ReadFlags
           /\ result' = "rejected" =>
                \/ RejectHeader \/ RejectTable \/ RejectString \/ RejectStrings
                \/ RejectCityCount \/ RejectRecordCount \/ RejectZip
                \/ RejectStore
  <1> USE DEF Reject, Goto
  <1>1. CASE ReadHeader \/ RejectHeader \/ ReadDates \/ ReadTable \/ RejectTable
    BY <1>1 DEF ReadHeader, RejectHeader, ReadDates, ReadTable, RejectTable
  <1>4. CASE ReadString \/ RejectString \/ EndStrings \/ RejectStrings
    <2>1. /\ ReadString => result' = result
          /\ EndStrings => err' = err /\ result' = result
          /\ RejectString => err' = err
          /\ RejectStrings => err' = err
      BY DEF ReadString, RejectString, EndStrings, RejectStrings
    <2> QED
      BY <1>4, <2>1
  <1>2. CASE ReadPrefecture \/ ReadCityCount \/ RejectCityCount \/ ReadCity
             \/ ReadRecordCount \/ RejectRecordCount \/ ReadZip \/ RejectZip
             \/ EndZips
    BY <1>2 DEF ReadPrefecture, ReadCityCount, RejectCityCount, ReadCity,
       ReadRecordCount, RejectRecordCount, ReadZip, RejectZip, EndZips
  <1>3. CASE ReadDelta \/ EndDelta \/ SkipSparse \/ FailSparse \/ ReadSparse
             \/ ReadValue \/ FailValue \/ EndValues \/ ReadFlags \/ Accept
             \/ RejectStore
    <2>1. Leave => result' = result
      BY DEF Leave
    <2> QED
      BY <1>3, <2>1 DEF ReadDelta, EndDelta, SkipSparse, FailSparse, ReadSparse,
       ReadValue, FailValue, EndValues, ReadFlags, Accept, RejectStore
  <1> QED
    BY <1>1, <1>2, <1>3, <1>4 DEF DecodeStep, ReadStep

(* A step that does not lead off the track reads what was written.         *)
LEMMA TrackedStep ==
    ASSUME NEW d, NEW t, Wrote(d, t), Follows(d, t), IInv, OnTrack(d, t),
           DecodeStep, pc = "header" => file.header = "good" /\ file.inflates,
           ~Lost(d, t)', ~Longer(d, t)'
    PROVE  Tracked(d, t) /\ TrackedIn(d, t, column)
  <1>1. ~err /\ result # "rejected"
    BY DEF OnTrack
  <1>2. ~(Short(d, t) /\ (err' \/ result' = "rejected" \/ Starved'))
    BY ShortKept DEF Lost
  <1>3. ~(Len(payload) > Len(Marshal(d, t)) /\ result' = "rejected")
    BY ShortKept DEF Longer
  <1> DEFINE Rejects == result' = "rejected"
  <1>4. /\ ~RejectTable /\ ~RejectString /\ ~RejectStrings /\ ~RejectCityCount
        /\ ~RejectRecordCount /\ ~RejectZip
    <2>1. /\ RejectTable => Short(d, t) /\ Rejects
      BY TableGot DEF RejectTable, Reject
    <2>2. /\ RejectString => Short(d, t) /\ Rejects
          /\ ~RejectStrings
      BY StringGot DEF RejectString, Reject
    <2>3. RejectCityCount => Short(d, t) /\ Rejects
      BY CityCountGot DEF RejectCityCount, Reject
    <2>4. RejectRecordCount => Short(d, t) /\ Rejects
      BY RecordCountGot DEF RejectRecordCount, Reject
    <2>5. ~RejectZip
      BY ZipGot
    <2> QED
      BY <1>2, <2>1, <2>2, <2>3, <2>4, <2>5
  <1>5. ~RejectHeader
    <2>1. ASSUME RejectHeader PROVE Len(payload) > Len(Marshal(d, t)) /\ Rejects
      <3>1. pc = "header" /\ Rejects
        BY <2>1 DEF RejectHeader, Reject
      <3> QED
        BY <2>1, <3>1, HeaderGot
    <2> QED
      BY <1>3, <2>1
  <1>6. ~RejectStore
    <2>1. RejectStore => Len(payload) > Len(Marshal(d, t)) /\ Rejects
      BY EndGot DEF RejectStore, Reject
    <2> QED
      BY <1>3, <2>1
  <1>7. result' # "rejected"
    BY <1>1, <1>4, <1>5, <1>6, WhoFails
  <1>8. ~SkipSparse /\ ~FailSparse /\ ~FailValue
    <2>1. SkipSparse => Short(d, t) /\ (err' \/ Starved')
      BY SparseGot
    <2>2. ~FailSparse
      BY SparseGot
    <2>3. FailValue => Short(d, t) /\ err'
      BY ValueGot
    <2> QED
      BY <1>2, <2>1, <2>2, <2>3
  <1>9. ~(Short(d, t) /\ err')
    BY <1>2
  <1>10. /\ ReadDates => updated' = d.updated /\ pos' = Start(d, t)[2] /\ ~err'
    BY <1>9, DatesGot
  <1>11. ReadTable => /\ numStrings' = Len(t) /\ blobLen' = BlobLen(t) /\ ~err'
                      /\ pos' = Start(d, t)[2] + Len(TableHead(t))
    BY TableGot
  <1>12. ReadString =>
          LET i == Len(strOff) + 1
          IN  /\ i \in 1 .. Len(t)
              /\ blob' = blob \o t[i] /\ strOff' = Append(strOff, Len(blob))
              /\ pos' = Here(d, t, 3, TableHead(t), FrontRows(t), i)
              /\ ~err'
    BY StringGot
  <1>13. ReadPrefecture =>
          LET k == Len(prefs)
          IN  /\ k \in 0 .. PrefectureCount - 1
              /\ prefs' = Append(prefs, Ref(t, d.prefectures[k + 1]))
              /\ pos' = Here(d, t, 4, <<>>, PrefRows(d, t), k + 1)
              /\ ~err'
    BY <1>9, PrefectureGot
  <1>14. ReadCityCount =>
          /\ numCities' = Len(d.cities) /\ ~err'
          /\ pos' = Here(d, t, 6, <<>>, CityRows(d, t), 0)
    BY CityCountGot
  <1>15. ReadCity =>
          LET k == Len(cities)
          IN  /\ k \in 0 .. Len(d.cities) - 1
              /\ cities' = Append(cities, CityRef(d, t, k + 1))
              /\ pos' = Here(d, t, 6, <<>>, CityRows(d, t), k + 1)
              /\ ~err'
    BY <1>9, CityGot
  <1>16. ReadRecordCount =>
          /\ n' = Len(d.records) /\ ~err'
          /\ pos' = Here(d, t, 8, <<>>, ZipRows(ZipsOf(d)), 0)
    BY RecordCountGot
  <1>17. ReadZip =>
          LET k == Len(zips)
          IN  /\ k \in 0 .. Len(d.records) - 1
              /\ zips' = Append(zips, ZipsOf(d)[k + 1])
              /\ pos' = Here(d, t, 8, <<>>, ZipRows(ZipsOf(d)), k + 1)
              /\ ~err'
    BY <1>9, ZipGot
  <1>18. ReadFlags =>
          LET k == Len(flags)
          IN  /\ k \in 0 .. Len(d.records) - 1 /\ n = Len(d.records)
              /\ flags' = Append(flags, FlagsOf(d)[k + 1])
              /\ pos' = Start(d, t)[14] + (k + 1)
              /\ ~err'
    BY <1>9, FlagsGot
  <1>19. Accept => pos = Start(d, t)[15]
    BY EndGot
  <1> DEFINE c == column
             f == FieldOf(d, t, c)
             delta(k) == Here(d, t, PartOf[c], <<>>, DeltaRows(f), k)
             sparse(k) == Here(d, t, PartOf[c], CountBytes(d, t, c), SparseRows(f), k)
  <1>20. ReadDelta =>
              LET k == Len(columns[c])
              IN  /\ c \in DeltaColumns /\ k \in 0 .. Len(d.records) - 1
                  /\ columns' = [columns EXCEPT ![c] = Append(columns[c], f[k + 1])]
                  /\ pos' = delta(k + 1)
                  /\ ~err'
    BY <1>9, DeltaGot
  <1>21. EndDelta => /\ c \in DeltaColumns /\ Len(columns[c]) = n
                     /\ pos = Start(d, t)[PartOf[c]]
    BY DeltaEnds
  <1>22. ReadSparse => /\ values' = ValueCount(f) /\ previous' = -1
                       /\ pos' = sparse(0) /\ ~err'
    BY SparseGot
  <1>23. ReadValue =>
              \E m \in previous + 2 .. n :
                 /\ f[m] \in 1 .. numStrings - 1
                 /\ \A j \in previous + 2 .. m - 1 : f[j] = 0
                 /\ ValueRecord = m - 1 /\ ValueId.v = f[m]
                 /\ pos' = sparse(m) /\ ~err'
    BY ValueGot
  <1>24. EndValues => Matches(notes[c], f, n) /\ pos = Start(d, t)[PartOf[c]]
    BY ValueGot
  <1>25. ~err'
    <2>1. ReadValue => ~err'
      <3> HIDE DEF f, sparse, c
      <3> QED
        BY <1>23
    <2>2. ReadDelta => ~err'
      BY <1>20
    <2>3. /\ ReadString => ~err'
          /\ ReadPrefecture => ~err'
          /\ ReadCity => ~err'
          /\ ReadZip => ~err'
          /\ ReadFlags => ~err'
      BY <1>12, <1>13, <1>15, <1>17, <1>18
    <2>4. /\ ReadDates => ~err'
          /\ ReadTable => ~err'
          /\ ReadCityCount => ~err'
          /\ ReadRecordCount => ~err'
          /\ ReadSparse => ~err'
      BY <1>10, <1>11, <1>14, <1>16, <1>22
    <2> QED
      BY <1>1, <1>8, <2>1, <2>2, <2>3, <2>4, WhoFails
  <1>26. Tracked(d, t)
    BY <1>7, <1>10, <1>11, <1>12, <1>13, <1>14, <1>15, <1>16, <1>17, <1>18,
       <1>19, <1>25 DEF Tracked
  <1>27. ReadValue =>
              \E m \in previous + 2 .. n :
                 /\ f[m] \in 1 .. numStrings - 1
                 /\ \A j \in previous + 2 .. m - 1 : f[j] = 0
                 /\ ValueRecord = m - 1 /\ ValueId.v = f[m]
                 /\ pos' = sparse(m)
    <2> HIDE DEF f, sparse, c
    <2> QED
      BY <1>23
  <1>28. TrackedIn(d, t, c)
    BY <1>8, <1>20, <1>21, <1>22, <1>24, <1>27, Zenon DEF TrackedIn
  <1> QED
    BY <1>26, <1>28

-----------------------------------------------------------------------------
(* What is kept on the track: the place. *)

(* The actions of a step on the track. *)
LEMMA WhoTracks ==
    ASSUME NEW d, NEW t, DecodeStep, Tracked(d, t), TrackedIn(d, t, column)
    PROVE  \/ ReadHeader \/ ReadDates \/ ReadTable \/ ReadString \/ EndStrings
           \/ ReadPrefecture \/ ReadCityCount \/ ReadCity \/ ReadRecordCount
           \/ ReadZip \/ EndZips \/ ReadDelta \/ EndDelta \/ ReadSparse
           \/ ReadValue \/ EndValues \/ ReadFlags \/ Accept
  <1>1. result' # "rejected"
    BY DEF Tracked
  <1>2. ~SkipSparse /\ ~FailSparse /\ ~FailValue
    BY Zenon DEF TrackedIn
  <1>3. /\ ~RejectHeader /\ ~RejectTable /\ ~RejectString /\ ~RejectStrings
        /\ ~RejectCityCount /\ ~RejectRecordCount /\ ~RejectZip /\ ~RejectStore
    BY <1>1 DEF RejectHeader, RejectTable, RejectString, RejectStrings,
       RejectCityCount, RejectRecordCount, RejectZip, RejectStore, Reject
  <1> QED
    BY <1>2, <1>3 DEF DecodeStep, ReadStep

(* Where the rows of a part begin and end. *)
LEMMA RowsEnd ==
    ASSUME NEW d, NEW t, Wrote(d, t), Follows(d, t)
    PROVE  /\ Here(d, t, 3, TableHead(t), FrontRows(t), 0) =
                Start(d, t)[2] + Len(TableHead(t))
           /\ Here(d, t, 3, TableHead(t), FrontRows(t), Len(t)) = Start(d, t)[3]
           /\ Here(d, t, 4, <<>>, PrefRows(d, t), 0) = Start(d, t)[3]
           /\ Here(d, t, 8, <<>>, ZipRows(ZipsOf(d)), Len(d.records)) = Start(d, t)[8]
           /\ \A c \in DeltaColumns :
                 Here(d, t, PartOf[c], <<>>, DeltaRows(FieldOf(d, t, c)), 0) =
                   Start(d, t)[PartOf[c] - 1]
  <1>1. /\ Here(d, t, 3, TableHead(t), FrontRows(t), 0) =
             Start(d, t)[3 - 1] + Len(TableHead(t))
        /\ Here(d, t, 3, TableHead(t), FrontRows(t), Len(FrontRows(t))) = Start(d, t)[3]
    BY AllLaid DEF Laid
  <1>2. Len(FrontRows(t)) = Len(t)
    BY FrontRowsAre
  <1>3. Len(<<>>) = 0
    OBVIOUS
  <1>4. /\ Here(d, t, 4, <<>>, PrefRows(d, t), 0) = Start(d, t)[4 - 1] + Len(<<>>)
        /\ Start(d, t)[4 - 1] \in Nat
    BY AllLaid DEF Laid
  <1>5. /\ Here(d, t, 8, <<>>, ZipRows(ZipsOf(d)), Len(ZipRows(ZipsOf(d)))) =
             Start(d, t)[8]
        /\ Len(ZipRows(ZipsOf(d))) = Len(d.records)
    BY AllLaid, ZipRowsAre DEF Laid
  <1>6. ASSUME NEW c \in DeltaColumns
        PROVE  Here(d, t, PartOf[c], <<>>, DeltaRows(FieldOf(d, t, c)), 0) =
                 Start(d, t)[PartOf[c] - 1]
    <2> DEFINE a == Start(d, t)[PartOf[c] - 1]
               h == Here(d, t, PartOf[c], <<>>, DeltaRows(FieldOf(d, t, c)), 0)
    <2>1. Laid(d, t, PartOf[c], <<>>, DeltaRows(FieldOf(d, t, c)))
      BY AllLaid
    <2>2. a \in Nat /\ h = a + Len(<<>>)
      BY <2>1 DEF Laid
    <2> HIDE DEF a, h
    <2>3. h = a
      BY <1>3, <2>2
    <2> QED
      BY <2>3 DEF a, h
  <1>7. 3 - 1 = 2 /\ 4 - 1 = 3
    OBVIOUS
  <1>8. Here(d, t, 4, <<>>, PrefRows(d, t), 0) = Start(d, t)[3]
    BY <1>3, <1>4, <1>7
  <1> QED
    BY <1>1, <1>2, <1>5, <1>6, <1>7, <1>8

(* The column after a column, and the part that holds it.                  *)
LEMMA PartAfter ==
    ASSUME NEW c \in DeltaColumns \cup SparseColumns
    PROVE  /\ PartOf[NextColumn[c]] - 1 = PartOf[c]
           /\ PartOf["flags"] = 15 /\ PartOf["city"] = 9
           /\ NextColumn[c] \notin ColumnsBefore[c] \cup {c}
           /\ c \in SparseColumns => NextColumn[c] \notin DeltaColumns
           /\ NextColumn[c] \in DeltaColumns \cup SparseColumns \cup {"flags"}
           /\ NextColumn[c] = "flags" => PartOf[c] = 14
  BY DEF PartOf, NextColumn, ColumnsBefore, DeltaColumns, SparseColumns

(* The next column begins where this one ends. *)
LEMMA LeaveStands ==
    ASSUME NEW d, NEW t, Wrote(d, t), Follows(d, t), Leave,
           column \in DeltaColumns \cup SparseColumns, pos' = pos,
           pos = Start(d, t)[PartOf[column]], flags' = <<>>,
           column' \in DeltaColumns => columns'[column'] = <<>>
    PROVE  Stands(d, t)'
  <1>1. PICK c : c = column
    OBVIOUS
  <1>2. PICK e : e = column'
    OBVIOUS
  <1> DEFINE q == Start(d, t)[PartOf[c]]
  <1>3. /\ e = NextColumn[c] /\ PartOf[e] - 1 = PartOf[c]
        /\ e = "flags" => PartOf[c] = 14
    BY <1>1, <1>2, PartAfter, LeaveTo
  <1>4. q \in Nat
    <2>1. PartOf[c] \in 0 .. 15
      BY <1>1 DEF PartOf, DeltaColumns, SparseColumns
    <2> QED
      BY <2>1, PartsStand
  <1>5. pos' = q /\ Start(d, t)[PartOf[e] - 1] = q
    BY <1>1, <1>3
  <1> HIDE DEF q
  <1>6. CASE e \in DeltaColumns /\ pc' = "delta"
    <2>1. Here(d, t, PartOf[e], <<>>, DeltaRows(FieldOf(d, t, e)), 0) = q
      BY <1>5, <1>6, RowsEnd
    <2>2. Len(columns'[column']) = 0
      BY <1>2, <1>6
    <2>3. pos' = Here(d, t, PartOf[column'], <<>>,
                      DeltaRows(FieldOf(d, t, column')), Len(columns'[column']))
      BY <1>2, <1>5, <2>1, <2>2
    <2> QED
      BY <1>6, <2>3 DEF Stands
  <1>7. CASE pc' = "sparse"
    BY <1>2, <1>5, <1>7 DEF Stands
  <1>8. CASE e = "flags" /\ pc' = "flags"
    <2>1. Len(flags') = 0
      OBVIOUS
    <2>2. q = Start(d, t)[14]
      BY <1>3, <1>8 DEF q
    <2> DEFINE a == Start(d, t)[14]
    <2> HIDE DEF a
    <2>3. pos' = a + Len(flags')
      BY <1>4, <1>5, <2>1, <2>2 DEF a
    <2> QED
      BY <1>8, <2>3 DEF Stands, a
  <1> QED
    BY <1>2, <1>6, <1>7, <1>8, LeaveTo

(* It ends where the next row or the next part was written.                *)
LEMMA StandsStep ==
    ASSUME NEW d, NEW t, Wrote(d, t), Follows(d, t), IInv, OnTrack(d, t),
           DecodeStep, Tracked(d, t), TrackedIn(d, t, column)
    PROVE  Stands(d, t)'
  <1> USE DEF Goto
  <1>1. CASE ReadHeader
    <2>1. pc' = "dates" /\ pos' = 0
      BY <1>1 DEF ReadHeader, OnTrack, Stands
    <2> QED
      BY <2>1 DEF Stands
  <1>2. CASE ReadDates
    <2>1. pc' = "table" /\ pos' = Start(d, t)[2]
      BY <1>2 DEF ReadDates, Tracked
    <2> QED
      BY <2>1 DEF Stands
  <1>3. CASE ReadTable
    <2>1. pc' = "strings" /\ strOff' = <<>>
      BY <1>3 DEF ReadTable, store, IInv, TableBuilt
    <2>2. pos' = Here(d, t, 3, TableHead(t), FrontRows(t), 0)
      BY <1>3, RowsEnd DEF Tracked
    <2>3. Len(strOff') = 0
      BY <2>1
    <2> QED
      BY <2>1, <2>2, <2>3 DEF Stands
  <1>4. CASE ReadString
    <2>1. pc' = "strings"
      BY <1>4 DEF ReadString
    <2>2. /\ strOff' = Append(strOff, Len(blob))
          /\ pos' = Here(d, t, 3, TableHead(t), FrontRows(t), Len(strOff) + 1)
      BY <1>4 DEF Tracked
    <2>3. Len(strOff') = Len(strOff) + 1
      BY <2>2 DEF IInv, TableBuilt
    <2> QED
      BY <2>1, <2>2, <2>3 DEF Stands
  <1>5. CASE EndStrings
    <2>1. pc' = "prefs" /\ pos' = pos /\ prefs' = prefs
          /\ pc = "strings" /\ Len(strOff) = numStrings
      BY <1>5 DEF EndStrings
    <2>2. pos = Here(d, t, 3, TableHead(t), FrontRows(t), Len(t)) /\ prefs = <<>>
      BY <2>1 DEF OnTrack, Stands, SizesKept, NamesKept
    <2>3. Len(prefs') = 0
      BY <2>1, <2>2
    <2>4. pos' = Here(d, t, 4, <<>>, PrefRows(d, t), 0)
      BY <2>1, <2>2, RowsEnd
    <2> QED
      BY <2>1, <2>3, <2>4 DEF Stands
  <1>6. CASE ReadPrefecture
    <2>1. pc' = "prefs"
      BY <1>6 DEF ReadPrefecture
    <2>2. /\ prefs' = Append(prefs, Ref(t, d.prefectures[Len(prefs) + 1]))
          /\ pos' = Here(d, t, 4, <<>>, PrefRows(d, t), Len(prefs) + 1)
      BY <1>6 DEF Tracked
    <2>3. Len(prefs') = Len(prefs) + 1
      BY <2>2 DEF IInv, NamesBuilt
    <2> QED
      BY <2>1, <2>2, <2>3 DEF Stands
  <1>7. CASE ReadCityCount
    <2>1. pc' = "cities" /\ cities' = <<>>
      BY <1>7 DEF ReadCityCount, store, OnTrack, NamesKept
    <2>2. pos' = Here(d, t, 6, <<>>, CityRows(d, t), 0)
      BY <1>7 DEF Tracked
    <2>3. Len(cities') = 0
      BY <2>1
    <2> QED
      BY <2>1, <2>2, <2>3 DEF Stands
  <1>8. CASE ReadCity
    <2>1. pc' = "cities"
      BY <1>8 DEF ReadCity
    <2>2. /\ cities' = Append(cities, CityRef(d, t, Len(cities) + 1))
          /\ pos' = Here(d, t, 6, <<>>, CityRows(d, t), Len(cities) + 1)
      BY <1>8 DEF Tracked
    <2>3. Len(cities') = Len(cities) + 1
      BY <2>2 DEF IInv, NamesBuilt
    <2> QED
      BY <2>1, <2>2, <2>3 DEF Stands
  <1>9. CASE ReadRecordCount
    <2>1. pc' = "zips" /\ zips' = zips /\ pc = "cities"
      BY <1>9 DEF ReadRecordCount, store
    <2>2. pos' = Here(d, t, 8, <<>>, ZipRows(ZipsOf(d)), 0)
      BY <1>9 DEF Tracked
    <2>3. zips = <<>>
      BY <2>1 DEF IInv, ZipsBuilt, Reading
    <2>4. Len(zips') = 0
      BY <2>1, <2>3
    <2> QED
      BY <2>1, <2>2, <2>4 DEF Stands
  <1>10. CASE ReadZip
    <2>1. pc' = "zips"
      BY <1>10 DEF ReadZip
    <2>2. /\ zips' = Append(zips, ZipsOf(d)[Len(zips) + 1])
          /\ pos' = Here(d, t, 8, <<>>, ZipRows(ZipsOf(d)), Len(zips) + 1)
      BY <1>10 DEF Tracked
    <2>3. Len(zips') = Len(zips) + 1
      BY <2>2 DEF IInv, ZipsBuilt
    <2> QED
      BY <2>1, <2>2, <2>3 DEF Stands
  <1>11. CASE EndZips
    <2>1. /\ pc' = "delta" /\ pos' = pos /\ column' = column /\ columns' = columns
          /\ pc = "zips" /\ Len(zips) = n
      BY <1>11 DEF EndZips, store
    <2>2. column = "city" /\ columns["city"] = <<>>
      BY <2>1 DEF IInv, AtColumn, OnTrack, RowsKept, Reading, DeltaColumns
    <2>3. pos = Here(d, t, 8, <<>>, ZipRows(ZipsOf(d)), Len(d.records))
      BY <2>1 DEF OnTrack, Stands, SizesKept
    <2>4. pos = Here(d, t, PartOf["city"], <<>>, DeltaRows(FieldOf(d, t, "city")), 0)
      <3>1. "city" \in DeltaColumns /\ PartOf["city"] - 1 = 8
        BY DEF DeltaColumns, PartOf
      <3> QED
        BY <2>3, <3>1, RowsEnd
    <2>5. Len(columns'[column']) = 0 /\ column' = "city"
      BY <2>1, <2>2
    <2> QED
      BY <2>1, <2>4, <2>5 DEF Stands
  <1>12. CASE ReadDelta
    <2>1. PICK c : c = column
      OBVIOUS
    <2>2. pc' = "delta" /\ column' = c
      BY <1>12, <2>1 DEF ReadDelta
    <2> DEFINE k == Len(columns[c])
               f == FieldOf(d, t, c)
    <2>3. /\ c \in DeltaColumns
          /\ columns' = [columns EXCEPT ![c] = Append(columns[c], f[k + 1])]
          /\ pos' = Here(d, t, PartOf[c], <<>>, DeltaRows(f), k + 1)
      BY <1>12, <2>1 DEF TrackedIn
    <2>4. columns \in [DeltaColumns -> Seq(Nat)]
      BY DEF IInv, ColumnsBuilt
    <2> HIDE DEF f
    <2>5. Len(columns'[c]) = k + 1
      BY <2>3, <2>4
    <2> QED
      BY <2>2, <2>3, <2>5 DEF Stands, f
  <1>13. CASE EndDelta
    <2>1. /\ Leave /\ pos' = pos /\ pc = "delta" /\ flags' = flags
          /\ columns' = columns
      BY <1>13 DEF EndDelta, store
    <2>2. column \in DeltaColumns /\ pos = Start(d, t)[PartOf[column]]
      BY <1>13, Zenon DEF TrackedIn
    <2>3. flags' = <<>>
      BY <2>1 DEF OnTrack, RowsKept
    <2>4. column' \in DeltaColumns => columns'[column'] = <<>>
      <3>1. column' = NextColumn[column] /\ pc \in Reading
        BY <2>1 DEF Leave, Reading
      <3>2. \A c \in DeltaColumns \ (ColumnsBefore[column] \cup {column}) :
               columns[c] = <<>>
        BY <3>1 DEF OnTrack, RowsKept
      <3> QED
        BY <2>1, <2>2, <3>1, <3>2, PartAfter
    <2> QED
      BY <2>1, <2>2, <2>3, <2>4, LeaveStands
  <1>14. CASE ReadSparse
    <2>1. PICK c : c = column
      OBVIOUS
    <2>2. pc' = "values" /\ column' = c
      BY <1>14, <2>1 DEF ReadSparse
    <2>3. /\ previous' = -1
          /\ pos' = Here(d, t, PartOf[c], CountBytes(d, t, c),
                         SparseRows(FieldOf(d, t, c)), 0)
      BY <1>14, <2>1, Zenon DEF TrackedIn
    <2>4. previous' + 1 = 0
      BY <2>3
    <2> QED
      BY <2>2, <2>3, <2>4 DEF Stands
  <1>15. CASE ReadValue
    <2>1. PICK c : c = column
      OBVIOUS
    <2>2. pc' = "values" /\ column' = c /\ previous' = ValueRecord
      BY <1>15, <2>1 DEF ReadValue
    <2>3. PICK m \in previous + 2 .. n :
             /\ ValueRecord = m - 1
             /\ pos' = Here(d, t, PartOf[c], CountBytes(d, t, c),
                            SparseRows(FieldOf(d, t, c)), m)
      BY <1>15, <2>1, Zenon DEF TrackedIn
    <2>4. m \in Int
      OBVIOUS
    <2>5. previous' + 1 = m
      BY <2>2, <2>3, <2>4
    <2> QED
      BY <2>2, <2>3, <2>5 DEF Stands
  <1>16. CASE EndValues
    <2>1. Leave /\ pos' = pos /\ pc = "values" /\ flags' = flags
      BY <1>16 DEF EndValues
    <2>2. column \in SparseColumns
      BY <2>1 DEF IInv, AtColumn
    <2>3. pos = Start(d, t)[PartOf[column]]
      BY <1>16, Zenon DEF TrackedIn
    <2>4. flags' = <<>>
      BY <2>1 DEF OnTrack, RowsKept
    <2>5. column' \notin DeltaColumns
      BY <2>1, <2>2, PartAfter DEF Leave
    <2> QED
      BY <2>1, <2>2, <2>3, <2>4, <2>5, LeaveStands
  <1>17. CASE ReadFlags
    <2>1. pc' = "flags"
      BY <1>17 DEF ReadFlags
    <2> DEFINE k == Len(flags)
    <2>2. /\ flags' = Append(flags, FlagsOf(d)[k + 1]) /\ k \in 0 .. Len(d.records) - 1
          /\ pos' = Start(d, t)[14] + (k + 1)
      BY <1>17 DEF Tracked
    <2>3. Len(flags') = k + 1
      BY <2>2 
    <2> QED
      BY <2>1, <2>2, <2>3 DEF Stands
  <1>18. CASE Accept
    <2>1. pc' = "done" /\ pos' = Start(d, t)[15]
      BY <1>18 DEF Accept, Tracked
    <2> QED
      BY <2>1 DEF Stands
  <1> QED
    BY <1>1, <1>2, <1>3, <1>4, <1>5, <1>6, <1>7, <1>8, <1>9, <1>10, <1>11, <1>12,
       <1>13, <1>14, <1>15, <1>16, <1>17, <1>18, WhoTracks

-----------------------------------------------------------------------------
(* What is kept on the track: the counts, the table and the names. *)

(* The rest of what each step leaves as it was.                            *)
LEMMA WhatElseMoves ==
    ASSUME NEW d, NEW t, DecodeStep, Tracked(d, t), TrackedIn(d, t, column)
    PROVE  /\ ReadDates \/ updated' = updated
           /\ ReadSparse \/ values' = values
           /\ ReadSparse \/ ReadValue \/ previous' = previous
           /\ ReadFlags \/ flags' = flags
  <1> USE DEF sizes, store
  <1>1. CASE ReadHeader \/ ReadDates \/ ReadTable \/ ReadString \/ EndStrings
             \/ ReadPrefecture
    BY <1>1 DEF ReadHeader, ReadDates, ReadTable, ReadString, EndStrings,
       ReadPrefecture
  <1>2. CASE ReadCityCount \/ ReadCity \/ ReadRecordCount \/ ReadZip \/ EndZips
    BY <1>2 DEF ReadCityCount, ReadCity, ReadRecordCount, ReadZip, EndZips
  <1>3. CASE ReadDelta \/ EndDelta \/ ReadSparse \/ ReadValue
    BY <1>3 DEF ReadDelta, EndDelta, ReadSparse, ReadValue
  <1>4. CASE EndValues \/ ReadFlags \/ Accept
    BY <1>4 DEF EndValues, ReadFlags, Accept
  <1> QED
    BY <1>1, <1>2, <1>3, <1>4, WhoTracks

(* Each part is entered from the one before it. *)
LEMMA WhereFrom ==
    ASSUME NEW d, NEW t, DecodeStep, Tracked(d, t), TrackedIn(d, t, column), AtColumn
    PROVE  /\ pc' \notin {"header", "dates"} =>
                 ReadDates \/ pc \notin {"header", "dates"}
           /\ pc' \notin {"header", "dates", "table"} =>
                 ReadTable \/ pc \notin {"header", "dates", "table"}
           /\ pc' \notin {"header", "dates", "table", "strings"} =>
                 EndStrings \/ pc \notin {"header", "dates", "table", "strings"}
           /\ pc' \notin {"header", "dates", "table", "strings", "prefs"} =>
                 \/ ReadCityCount
                 \/ pc \notin {"header", "dates", "table", "strings", "prefs"}
           /\ pc' \in {"zips", "done"} \cup Reading =>
                 ReadRecordCount \/ pc = "zips" \/ pc \in Reading
           /\ pc' \in {"zips", "done"} \cup Reading <=>
                 pc' \notin {"header", "dates", "table", "strings", "prefs", "cities"}
           /\ pc' \in Reading \cup {"done"} => EndZips \/ pc \in Reading
           /\ pc' = "values" => ReadSparse \/ ReadValue
           /\ pc' = "delta" => EndZips \/ ReadDelta \/ EndDelta
           /\ pc' = "flags" => EndDelta \/ EndValues \/ ReadFlags
           /\ pc' = "done" => Accept
  <1> USE DEF Goto, Reading
  <1>1. CASE ReadHeader \/ ReadDates \/ ReadTable \/ ReadString \/ EndStrings
             \/ ReadPrefecture
    BY <1>1 DEF ReadHeader, ReadDates, ReadTable, ReadString, EndStrings,
       ReadPrefecture
  <1>2. CASE ReadCityCount \/ ReadCity \/ ReadRecordCount \/ ReadZip \/ EndZips
    BY <1>2 DEF ReadCityCount, ReadCity, ReadRecordCount, ReadZip, EndZips
  <1>3. CASE ReadDelta \/ ReadSparse \/ ReadValue \/ ReadFlags \/ Accept
    BY <1>3 DEF ReadDelta, ReadSparse, ReadValue, ReadFlags, Accept
  <1>4. CASE EndDelta \/ EndValues
    <2>1. /\ Leave /\ pc \in {"delta", "values"}
          /\ pc = "values" => EndValues
          /\ pc = "delta" => EndDelta
      BY <1>4 DEF EndDelta, EndValues
    <2>2. pc' \in {"delta", "sparse", "flags"} /\ pc' # "done"
      BY <2>1, LeaveTo DEF AtColumn
    <2>3. pc = "values" => pc' # "delta"
      BY <2>1, LeaveTo, PartAfter DEF AtColumn
    <2> QED
      BY <2>1, <2>2, <2>3
  <1> QED
    BY <1>1, <1>2, <1>3, <1>4, WhoTracks

(* The counts that have been read stay those that were written.            *)
LEMMA SizesStep ==
    ASSUME NEW d, NEW t, IInv, OnTrack(d, t), DecodeStep,
           Tracked(d, t), TrackedIn(d, t, column)
    PROVE  SizesKept(d, t)'
  <1>1. SizesKept(d, t) /\ AtColumn
    BY DEF OnTrack, IInv
  <1>2. pc' \notin {"header", "dates"} => updated' = d.updated
    <2>1. CASE ReadDates
      BY <2>1 DEF Tracked
    <2> QED
      BY <1>1, <2>1, WhereFrom, WhatElseMoves DEF SizesKept
  <1>3. pc' \notin {"header", "dates", "table"} =>
          numStrings' = Len(t) /\ blobLen' = BlobLen(t)
    <2>1. CASE ReadTable
      BY <2>1 DEF Tracked
    <2> QED
      BY <1>1, <2>1, WhereFrom, WhatMoves DEF SizesKept
  <1>4. pc' \notin {"header", "dates", "table", "strings", "prefs"} =>
          numCities' = Len(d.cities)
    <2>1. CASE ReadCityCount
      BY <2>1 DEF Tracked
    <2> QED
      BY <1>1, <2>1, WhereFrom, WhatMoves DEF SizesKept
  <1>5. pc' \notin {"header", "dates", "table", "strings", "prefs", "cities"} =>
          n' = Len(d.records)
    <2>1. CASE ReadRecordCount
      BY <2>1 DEF Tracked
    <2>2. pc = "zips" \/ pc \in Reading => n = Len(d.records)
      BY <1>1 DEF SizesKept, Reading
    <2> QED
      BY <1>1, <2>1, <2>2, WhereFrom, WhatMoves
  <1>6. pc' = "values" => values' = ValueCount(FieldOf(d, t, column'))
    <2>1. CASE ReadSparse
      <3>1. column' = column
        BY <2>1 DEF ReadSparse
      <3>2. values' = ValueCount(FieldOf(d, t, column))
        BY <2>1, Zenon DEF TrackedIn
      <3> QED
        BY <3>1, <3>2
    <2>2. CASE ReadValue
      BY <1>1, <2>2 DEF ReadValue, SizesKept
    <2> QED
      BY <1>1, <2>1, <2>2, WhereFrom
  <1> QED
    BY <1>2, <1>3, <1>4, <1>5, <1>6 DEF SizesKept

(* A sequence goes on as before when more is appended to it.               *)
LEMMA ContinuesMore ==
    ASSUME NEW T, NEW a \in Seq(T), NEW b \in Seq(T), NEW p \in Nat,
           NEW s \in Seq(T), p + Len(s) <= Len(a), Continues(a, p, s)
    PROVE  Continues(a \o b, p, s)
  <1> SUFFICES ASSUME NEW i \in 1 .. Len(s), p + i <= Len(a \o b)
               PROVE  (a \o b)[p + i] = s[i]
    BY DEF Continues
  <1>1. Len(a) \in Nat /\ Len(s) \in Nat
    OBVIOUS
  <1>2. p + i \in 1 .. Len(a)
    BY <1>1
  <1>3. a[p + i] = s[i]
    BY <1>2 DEF Continues
  <1> QED
    BY <1>2, <1>3, ConcatProperties

(* And then with what was appended.                                        *)
LEMMA ContinuesNew ==
    ASSUME NEW T, NEW a \in Seq(T), NEW b \in Seq(T)
    PROVE  Continues(a \o b, Len(a), b)
  <1> SUFFICES ASSUME NEW i \in 1 .. Len(b)
               PROVE  (a \o b)[Len(a) + i] = b[i]
    BY DEF Continues
  <1>1. Len(a) \in Nat /\ Len(b) \in Nat
    OBVIOUS
  <1> DEFINE j == Len(a) + i
  <1>2. j \in 1 .. Len(a) + Len(b) /\ j > Len(a) /\ j - Len(a) = i
    BY <1>1
  <1> HIDE DEF j
  <1>3. (a \o b)[j] = b[j - Len(a)]
    BY <1>2, ConcatProperties
  <1> QED
    BY <1>2, <1>3 DEF j

(* The table that has been built stays a beginning of the one that was     *)
(* written.                                                                *)
LEMMA TableKeptStep ==
    ASSUME NEW d, NEW t, Wrote(d, t), Follows(d, t), IInv, OnTrack(d, t),
           DecodeStep, Tracked(d, t), TrackedIn(d, t, column)
    PROVE  TableKept(d, t)'
  <1> DEFINE off == Offsets(t)
             k == Len(strOff)
  <1>1. /\ \A i \in 1 .. k : strOff[i] = off[i - 1]
        /\ \A i \in 1 .. k : i <= Len(t) => Continues(blob, off[i - 1], t[i])
        /\ pc = "strings" => Len(blob) = off[k]
        /\ pc \notin {"header", "dates", "table", "strings"} => Len(blob) = BlobLen(t)
    BY DEF OnTrack, TableKept
  <1>2. /\ off \in [0 .. Len(t) -> Nat] /\ off[0] = 0 /\ off[Len(t)] = BlobLen(t)
        /\ Len(t) \in Nat
        /\ \A i \in 1 .. Len(t) : t[i] \in Seq(Byte) /\ off[i] = off[i - 1] + Len(t[i])
        /\ t \in Seq(Seq(Byte))
    BY BlobWrote
  <1>3. strOff \in Seq(0 .. Len(blob)) /\ k \in Nat /\ blob \in Seq(Byte)
        /\ Len(blob) \in Nat
    BY DEF IInv, TableBuilt
  <1>4. ASSUME strOff' = Append(strOff, Len(blob)), Len(blob) = off[k]
        PROVE  /\ Len(strOff') = k + 1 /\ k + 1 \in Nat
               /\ \A i \in 1 .. Len(strOff') : strOff'[i] = off[i - 1]
    <2> DEFINE b == Len(blob)
               S == 0 .. b
               r == Append(strOff, b)
    <2>1. strOff \in Seq(S) /\ b \in S
      BY <1>3
    <2>2. b = off[k] /\ strOff' = r
      BY <1>4
    <2> HIDE DEF S, b
    <2>3. Len(r) = k + 1 /\ \A i \in 1 .. k : r[i] = strOff[i]
      BY <2>1
    <2>4. r[k + 1] = b
      BY <2>1
    <2> HIDE DEF r
    <2>5. ASSUME NEW i \in 1 .. k + 1 PROVE r[i] = off[i - 1]
      <3>1. CASE i \in 1 .. k
        BY <1>1, <2>3, <3>1
      <3>2. CASE i = k + 1
        <4>1. i - 1 = k
          BY <1>3, <3>2
        <4> QED
          BY <2>2, <2>4, <3>2, <4>1
      <3> QED
        BY <1>3, <3>1, <3>2
    <2> QED
      BY <1>3, <2>2, <2>3, <2>5
  <1>5. CASE ReadString
    <2>1. /\ k + 1 \in 1 .. Len(t)
          /\ blob' = blob \o t[k + 1] /\ strOff' = Append(strOff, Len(blob))
      BY <1>5 DEF Tracked
    <2>2. pc = "strings" /\ pc' = "strings"
      BY <1>5 DEF ReadString, Goto
    <2>3. Len(blob) = off[k]
      BY <1>1, <2>2
    <2>4. /\ Len(strOff') = k + 1 /\ k + 1 \in Nat
          /\ \A i \in 1 .. Len(strOff') : strOff'[i] = off[i - 1]
      BY <1>4, <2>1, <2>3
    <2> DEFINE w == t[k + 1]
    <2>5. w \in Seq(Byte) /\ off[k + 1] = off[k] + Len(w) /\ off[k] \in Nat
          /\ Len(w) \in Nat
      <3>1. (k + 1) - 1 = k /\ k \in 0 .. Len(t)
        BY <1>2, <1>3, <2>1
      <3>2. w \in Seq(Byte) /\ off[k + 1] = off[(k + 1) - 1] + Len(w)
        BY <1>2, <2>1
      <3> HIDE DEF w
      <3> QED
        BY <1>2, <3>1, <3>2
    <2> HIDE DEF w
    <2>6. blob' = blob \o w
      BY <2>1 DEF w
    <2>7. Len(blob') = off[k + 1]
      BY <1>3, <2>3, <2>5, <2>6, ConcatProperties
    <2>8. ASSUME NEW i \in 1 .. k + 1, i <= Len(t)
          PROVE  Continues(blob', off[i - 1], t[i])
      <3>1. CASE i \in 1 .. k
        <4>1. Continues(blob, off[i - 1], t[i])
          BY <1>1, <2>8, <3>1
        <4>2. t[i] \in Seq(Byte) /\ off[i] = off[i - 1] + Len(t[i])
          BY <1>2, <1>3, <2>8, <3>1
        <4>3. i \in 0 .. Len(t) /\ k \in i .. Len(t) /\ i - 1 \in 0 .. Len(t)
          BY <1>2, <1>3, <2>1, <3>1, SMTT(60)
        <4>4. off[i] <= off[k]
          BY <1>2, <4>3, OffsetsGrow
        <4>5. off[i - 1] \in Nat
          BY <1>2, <4>3
        <4> DEFINE p == off[i - 1]
                   s == t[i]
        <4>6. p + Len(s) <= Len(blob)
          BY <2>3, <4>2, <4>4
        <4>7. p \in Nat /\ s \in Seq(Byte) /\ Continues(blob, p, s)
          BY <4>1, <4>2, <4>5
        <4> HIDE DEF p, s
        <4>8. Continues(blob \o w, p, s)
          BY <1>3, <2>5, <4>6, <4>7, ContinuesMore
        <4> QED
          BY <2>6, <4>8 DEF p, s
      <3>2. CASE i = k + 1
        <4>1. Continues(blob \o w, Len(blob), w)
          BY <1>3, <2>5, ContinuesNew
        <4>2. i - 1 = k
          BY <1>3, <3>2
        <4> QED
          BY <2>3, <2>6, <3>2, <4>1, <4>2 DEF w
      <3> QED
        BY <1>3, <3>1, <3>2
    <2> HIDE DEF off
    <2> QED
      BY <2>2, <2>4, <2>7, <2>8 DEF TableKept, off
  <1>6. CASE EndStrings
    <2>1. /\ pc = "strings" /\ pc' = "prefs" /\ blob' = blob
          /\ strOff' = Append(strOff, Len(blob)) /\ k = numStrings
      BY <1>6 DEF EndStrings, Goto
    <2>2. Len(blob) = off[k] /\ k = Len(t)
      BY <1>1, <2>1 DEF OnTrack, SizesKept
    <2>3. /\ Len(strOff') = k + 1
          /\ \A i \in 1 .. Len(strOff') : strOff'[i] = off[i - 1]
      BY <1>4, <2>1, <2>2
    <2>4. ASSUME NEW i \in 1 .. k + 1, i <= Len(t)
          PROVE  Continues(blob', off[i - 1], t[i])
      BY <1>1, <1>3, <2>1, <2>2, <2>4
    <2>5. Len(blob') = BlobLen(t)
      BY <1>2, <2>1, <2>2
    <2> HIDE DEF off
    <2> QED
      BY <2>1, <2>3, <2>4, <2>5 DEF TableKept, off
  <1>7. CASE ~ReadString /\ ~EndStrings
    <2>1. blob' = blob /\ strOff' = strOff
      BY <1>7, WhatMoves
    <2>2. pc' = "strings" => Len(blob') = off[Len(strOff')]
      <3>1. SUFFICES ASSUME pc' = "strings" PROVE Len(blob') = off[Len(strOff')]
        OBVIOUS
      <3>2. ReadTable
        BY <1>7, <3>1, WhereTo DEF IInv
      <3>3. blob = <<>> /\ strOff = <<>>
        BY <3>2 DEF ReadTable, IInv, TableBuilt
      <3>4. Len(blob') = 0 /\ Len(strOff') = 0
        BY <2>1, <3>3
      <3> QED
        BY <1>2, <3>4
    <2>3. pc' \notin {"header", "dates", "table", "strings"} => Len(blob') = BlobLen(t)
      BY <1>1, <1>7, <2>1, WhereFrom DEF IInv
    <2> HIDE DEF off
    <2> QED
      BY <1>1, <2>1, <2>2, <2>3 DEF TableKept, off
  <1> QED
    BY <1>5, <1>6, <1>7

(* So do the prefectures and the cities.                                   *)
LEMMA NamesKeptStep ==
    ASSUME NEW d, NEW t, Wrote(d, t), Follows(d, t), IInv, OnTrack(d, t),
           DecodeStep, Tracked(d, t), TrackedIn(d, t, column)
    PROVE  NamesKept(d, t)'
  <1>1. /\ \A i \in 1 .. Len(prefs) : prefs[i] = Ref(t, d.prefectures[i])
        /\ pc \in {"header", "dates", "table", "strings"} => prefs = <<>>
        /\ \A i \in 1 .. Len(cities) : cities[i] = CityRef(d, t, i)
        /\ pc \in {"header", "dates", "table", "strings", "prefs"} => cities = <<>>
        /\ pc = "cities" => Len(cities) <= Len(d.cities)
        /\ pc \in {"zips", "done"} \cup Reading => Len(cities) = Len(d.cities)
    BY DEF OnTrack, NamesKept
  <1>2. prefs \in Seq(NameRefs) /\ cities \in Seq([jis : Nat, pref : Nat, name : NameRefs])
        /\ AtColumn
    BY DEF IInv, NamesBuilt
  <1>3. Len(prefs) \in Nat /\ Len(cities) \in Nat /\ Len(d.cities) \in Nat
    BY <1>2, WroteCities
  <1>4. \A i \in 1 .. Len(prefs') : prefs'[i] = Ref(t, d.prefectures[i])
    <2>1. CASE ReadPrefecture
      <3> DEFINE ref(i) == Ref(t, d.prefectures[i])
      <3>1. prefs' = Append(prefs, ref(Len(prefs) + 1))
        BY <2>1 DEF Tracked
      <3>2. \A i \in 1 .. Len(prefs) : prefs[i] = ref(i)
        BY <1>1
      <3> HIDE DEF ref
      <3>3. \A i \in 1 .. Len(prefs') : prefs'[i] = ref(i)
        BY <1>2, <1>3, <3>1, <3>2
      <3> QED
        BY <3>3 DEF ref
    <2> QED
      BY <1>1, <2>1, WhatMoves
  <1>5. \A i \in 1 .. Len(cities') : cities'[i] = CityRef(d, t, i)
    <2>1. CASE ReadCity
      <3>1. cities' = Append(cities, CityRef(d, t, Len(cities) + 1))
        BY <2>1 DEF Tracked
      <3> QED
        BY <1>1, <1>2, <1>3, <3>1, SMTT(60)
    <2> QED
      BY <1>1, <2>1, WhatMoves
  <1>6. pc' \in {"header", "dates", "table", "strings"} => prefs' = <<>>
    <2>1. pc' \in {"header", "dates", "table", "strings"} =>
             pc \in {"header", "dates", "table", "strings"}
      BY <1>2, WhereTo DEF ReadTable, ReadString
    <2>2. ReadPrefecture => pc = "prefs"
      BY DEF ReadPrefecture
    <2> QED
      BY <1>1, <2>1, <2>2, WhatMoves
  <1>7. pc' \in {"header", "dates", "table", "strings", "prefs"} => cities' = <<>>
    <2>1. pc' \in {"header", "dates", "table", "strings", "prefs"} =>
             pc \in {"header", "dates", "table", "strings", "prefs"}
      BY <1>2, WhereTo DEF ReadTable, ReadString, EndStrings, ReadPrefecture
    <2>2. ReadCity => pc = "cities"
      BY DEF ReadCity
    <2> QED
      BY <1>1, <2>1, <2>2, WhatMoves
  <1>8. pc' = "cities" => Len(cities') <= Len(d.cities)
    <2>1. CASE ReadCityCount
      <3>1. cities' = <<>>
        BY <1>1, <2>1 DEF ReadCityCount, store
      <3> QED
        BY <1>3, <3>1
    <2>2. CASE ReadCity
      <3>1. /\ cities' = Append(cities, CityRef(d, t, Len(cities) + 1))
            /\ Len(cities) \in 0 .. Len(d.cities) - 1
        BY <2>2 DEF Tracked
      <3> QED
        BY <1>2, <1>3, <3>1
    <2> QED
      BY <1>2, <2>1, <2>2, WhereTo
  <1>9. pc' \in {"zips", "done"} \cup Reading => Len(cities') = Len(d.cities)
    <2>1. CASE ReadRecordCount
      <3>1. cities' = cities /\ Len(cities) = numCities /\ pc = "cities"
        BY <2>1 DEF ReadRecordCount, store
      <3> QED
        BY <3>1 DEF OnTrack, SizesKept
    <2>2. CASE ~ReadRecordCount
      <3>1. pc' \in {"zips", "done"} \cup Reading => pc = "zips" \/ pc \in Reading
        BY <1>2, <2>2, WhereFrom
      <3>2. ReadCity => pc = "cities"
        BY DEF ReadCity
      <3> QED
        BY <1>1, <3>1, <3>2, WhatMoves DEF Reading
    <2> QED
      BY <2>1, <2>2
  <1> QED
    BY <1>4, <1>5, <1>6, <1>7, <1>8, <1>9 DEF NamesKept

-----------------------------------------------------------------------------
(* What is kept on the track: the records. *)

(* So do the zip codes, the delta columns and the flags.                   *)
LEMMA RowsKeptStep ==
    ASSUME NEW d, NEW t, Wrote(d, t), Follows(d, t), IInv, OnTrack(d, t),
           DecodeStep, Tracked(d, t), TrackedIn(d, t, column)
    PROVE  RowsKept(d, t)'
  <1>1. /\ \A i \in 1 .. Len(zips) : zips[i] = ZipsOf(d)[i]
        /\ \A c \in DeltaColumns : \A i \in 1 .. Len(columns[c]) :
              columns[c][i] = FieldOf(d, t, c)[i]
        /\ pc \notin Reading \cup {"done"} => \A c \in DeltaColumns : columns[c] = <<>>
        /\ pc \in Reading =>
              \A c \in DeltaColumns \ (ColumnsBefore[column] \cup {column}) :
                 columns[c] = <<>>
        /\ pc = "delta" => Len(columns[column]) <= n
        /\ \A i \in 1 .. Len(flags) : flags[i] = FlagsOf(d)[i]
        /\ pc \notin {"flags", "done"} => flags = <<>>
        /\ pc = "flags" => Len(flags) <= n
    BY DEF OnTrack, RowsKept
  <1>2. zips \in Seq(0 .. MaxZip) /\ columns \in [DeltaColumns -> Seq(Nat)]
        /\ AtColumn /\ n \in Nat
    BY DEF IInv, ZipsBuilt, ColumnsBuilt, CountsBounded
  <1>3. pc \notin {"header", "dates", "table", "strings", "prefs", "cities"} =>
           n = Len(d.records)
    BY DEF OnTrack, SizesKept
  <1>4. Len(d.records) \in Nat
    BY WroteRecords
  <1>5. \A i \in 1 .. Len(zips') : zips'[i] = ZipsOf(d)[i]
    <2>1. CASE ReadZip
      <3> DEFINE f == ZipsOf(d)
      <3>1. zips' = Append(zips, f[Len(zips) + 1])
        BY <2>1 DEF Tracked
      <3>2. \A i \in 1 .. Len(zips) : zips[i] = f[i]
        BY <1>1
      <3> HIDE DEF f
      <3>3. \A i \in 1 .. Len(zips') : zips'[i] = f[i]
        BY <1>2, <3>1, <3>2
      <3> QED
        BY <3>3 DEF f
    <2> QED
      BY <1>1, <2>1, WhatMoves
  <1> DEFINE e == column
             k == Len(columns[e])
             f == FieldOf(d, t, e)
  <1>6. ASSUME ReadDelta
        PROVE  /\ e \in DeltaColumns /\ k \in 0 .. Len(d.records) - 1
               /\ columns' = [columns EXCEPT ![e] = Append(columns[e], f[k + 1])]
               /\ pc = "delta" /\ pc' = "delta" /\ column' = e /\ n' = n
    <2>1. pc = "delta" /\ pc' = "delta" /\ column' = e /\ n' = n
      BY <1>6 DEF ReadDelta, Goto, sizes
    <2>2. /\ e \in DeltaColumns /\ k \in 0 .. Len(d.records) - 1
          /\ columns' = [columns EXCEPT ![e] = Append(columns[e], f[k + 1])]
      BY <1>6, Zenon DEF TrackedIn
    <2> QED
      BY <2>1, <2>2
  <1>7. \A c \in DeltaColumns : \A i \in 1 .. Len(columns'[c]) :
           columns'[c][i] = FieldOf(d, t, c)[i]
    <2>1. CASE ReadDelta
      <3> TAKE c \in DeltaColumns
      <3>1. CASE c = e
        <4> DEFINE s == columns[e]
        <4>1. columns'[c] = Append(s, f[Len(s) + 1]) /\ s \in Seq(Nat)
          BY <1>2, <1>6, <2>1, <3>1
        <4>2. \A i \in 1 .. Len(s) : s[i] = f[i]
          BY <1>1, <1>6, <2>1
        <4>3. f = FieldOf(d, t, c)
          BY <3>1
        <4> HIDE DEF f, s
        <4>4. \A i \in 1 .. Len(columns'[c]) : columns'[c][i] = f[i]
          BY <4>1, <4>2
        <4> QED
          BY <4>3, <4>4
      <3>2. CASE c # e
        <4>1. columns'[c] = columns[c]
          BY <1>2, <1>6, <2>1, <3>2
        <4> QED
          BY <1>1, <4>1
      <3> QED
        BY <3>1, <3>2
    <2> QED
      BY <1>1, <2>1, WhatMoves
  <1>8. pc' \notin Reading \cup {"done"} => \A c \in DeltaColumns : columns'[c] = <<>>
    <2>1. pc' \notin Reading \cup {"done"} => pc \notin Reading \cup {"done"}
      BY <1>2, WhereTo
    <2>2. ReadDelta => pc \in Reading
      BY DEF ReadDelta, Reading
    <2> QED
      BY <1>1, <2>1, <2>2, WhatMoves
  <1>9. ASSUME EndZips
        PROVE  /\ pc' = "delta" /\ column' = "city" /\ columns' = columns /\ n' = n
               /\ \A c \in DeltaColumns : columns[c] = <<>>
    <2>1. /\ pc' = "delta" /\ column' = column /\ columns' = columns /\ pc = "zips"
          /\ n' = n
      BY <1>9 DEF EndZips, Goto, store, sizes
    <2> QED
      BY <1>1, <1>2, <2>1 DEF AtColumn, Reading
  <1>10. pc' \in Reading =>
            \A c \in DeltaColumns \ (ColumnsBefore[column'] \cup {column'}) :
               columns'[c] = <<>>
    <2> SUFFICES ASSUME pc' \in Reading,
                        NEW c \in DeltaColumns \ (ColumnsBefore[column'] \cup {column'})
                 PROVE  columns'[c] = <<>>
      OBVIOUS
    <2>1. CASE EndZips
      BY <1>9, <2>1
    <2>2. CASE ~EndZips
      <3>1. pc \in Reading
        BY <1>2, <2>2, WhereFrom
      <3>2. CASE ReadDelta
        <4>1. c # e /\ c \in DeltaColumns \ (ColumnsBefore[e] \cup {e})
          BY <1>6, <3>2
        <4>2. columns'[c] = columns[c]
          BY <1>2, <1>6, <3>2, <4>1
        <4> QED
          BY <1>1, <3>1, <4>1, <4>2
      <3>3. CASE ~ReadDelta
        <4>1. columns' = columns
          BY <3>3, WhatMoves
        <4>2. c \in DeltaColumns \ (ColumnsBefore[e] \cup {e})
          <5>1. CASE column' = e
            BY <5>1
          <5>2. CASE Leave /\ e \in DeltaColumns \cup SparseColumns
            <6>1. column' = NextColumn[e]
              BY <5>2 DEF Leave
            <6>2. e \in DeltaColumns \cup SparseColumns
              BY <5>2
            <6>3. (ColumnsBefore[e] \cup {e}) \cap DeltaColumns
                     \subseteq ColumnsBefore[NextColumn[e]]
              BY <6>2 DEF ColumnsBefore, NextColumn, DeltaColumns, SparseColumns
            <6> QED
              BY <6>1, <6>3
          <5> QED
            BY <1>2, <5>1, <5>2, ColumnMoves
        <4> QED
          BY <1>1, <3>1, <4>1, <4>2
      <3> QED
        BY <3>2, <3>3
    <2> QED
      BY <2>1, <2>2
  <1>11. pc' = "delta" => Len(columns'[column']) <= n'
    <2>1. CASE EndZips
      <3>1. columns'[column'] = <<>> /\ n' = n
        BY <1>9, <2>1 DEF DeltaColumns
      <3> QED
        BY <1>2, <3>1
    <2>2. CASE ReadDelta
      <3>1. n' = n /\ n = Len(d.records) /\ column' = e
        BY <1>3, <1>6, <2>2
      <3>2. columns'[e] = Append(columns[e], f[k + 1]) /\ columns[e] \in Seq(Nat)
        BY <1>2, <1>6, <2>2
      <3>3. Len(columns'[e]) = k + 1
        <4> HIDE DEF f
        <4> QED
          BY <3>2
      <3>4. k \in 0 .. Len(d.records) - 1
        BY <1>6, <2>2
      <3> HIDE DEF k
      <3> QED
        BY <1>4, <3>1, <3>3, <3>4
    <2>3. CASE EndDelta
      <3>1. /\ Leave /\ pc = "delta" /\ columns' = columns /\ n' = n
            /\ e \in DeltaColumns
        BY <1>2, <2>3 DEF EndDelta, store, sizes, AtColumn
      <3>2. pc' = "delta" => column' \in DeltaColumns
        BY <3>1, LeaveTo
      <3>3. column' = NextColumn[e]
        BY <3>1 DEF Leave
      <3>4. pc' = "delta" => columns'[column'] = <<>>
        BY <1>1, <3>1, <3>2, <3>3, PartAfter DEF Reading
      <3> QED
        BY <1>2, <3>1, <3>4
    <2> QED
      BY <1>2, <2>1, <2>2, <2>3, WhereFrom
  <1> DEFINE g == FlagsOf(d)
  <1>12. ASSUME ReadFlags
         PROVE  /\ flags' = Append(flags, g[Len(flags) + 1]) /\ pc' = "flags"
                /\ Len(flags) \in 0 .. Len(d.records) - 1 /\ n = Len(d.records)
                /\ n' = n
    <2>1. pc' = "flags" /\ n' = n
      BY <1>12 DEF ReadFlags, Goto, sizes
    <2> QED
      BY <1>12, <2>1 DEF Tracked
  <1>13. \A i \in 1 .. Len(flags') : flags'[i] = FlagsOf(d)[i]
    <2>1. CASE ReadFlags
      <3>1. /\ flags' = Append(flags, g[Len(flags) + 1]) /\ Len(flags) \in Nat
            /\ \A i \in 1 .. Len(flags) : flags[i] = g[i]
        BY <1>1, <1>12, <2>1
      <3> HIDE DEF g
      <3>2. \A i \in 1 .. Len(flags') : flags'[i] = g[i]
        BY <3>1
      <3> QED
        BY <3>2 DEF g
    <2> QED
      BY <1>1, <2>1, WhatElseMoves
  <1>14. pc' \notin {"flags", "done"} => flags' = <<>>
    <2>1. pc' \notin {"flags", "done"} => ~ReadFlags
      BY <1>12
    <2>2. pc = "flags" => ReadFlags \/ Accept
      BY WhoTracks DEF ReadHeader, ReadDates, ReadTable, ReadString, EndStrings,
         ReadPrefecture, ReadCityCount, ReadCity, ReadRecordCount, ReadZip,
         EndZips, ReadDelta, EndDelta, ReadSparse, ReadValue, EndValues
    <2>3. Accept => pc' = "done"
      BY DEF Accept
    <2>4. pc # "done"
      BY <1>2, WhereTo
    <2> QED
      BY <1>1, <2>1, <2>2, <2>3, <2>4, WhatElseMoves
  <1>15. pc' = "flags" => Len(flags') <= n'
    <2>1. CASE ReadFlags
      <3>1. Len(flags') = Len(flags) + 1
        <4> HIDE DEF g
        <4> QED
          BY <1>12, <2>1
      <3> QED
        BY <1>4, <1>12, <2>1, <3>1
    <2>2. CASE EndDelta \/ EndValues
      <3>1. pc \in Reading /\ pc # "flags" /\ flags' = flags /\ n' = n
        BY <2>2 DEF EndDelta, EndValues, store, sizes, Reading
      <3>2. flags' = <<>>
        BY <1>1, <3>1 DEF Reading
      <3> QED
        BY <1>2, <3>1, <3>2
    <2> QED
      BY <1>2, <2>1, <2>2, WhereFrom
  <1> HIDE DEF e, k, f, g
  <1> QED
    BY <1>5, <1>7, <1>8, <1>10, <1>11, <1>13, <1>14, <1>15 DEF RowsKept

(* A notes column that is complete stays as it is.                         *)
LEMMA NoteStays ==
    ASSUME n' = n, numStrings' = numStrings, NEW c, NEW s, s = notes'[c], NEW f,
           Ranked(s), Matches(s, f, n)
    PROVE  Ranked(notes[c])' /\ Matches(notes[c], f, n)'
  <1>1. Ranked(notes[c])'
    BY DEF Ranked, Filled, Noted, HasNote, Words
  <1>2. Matches(notes[c], f, n)'
    BY DEF Matches, Noted, HasNote
  <1> QED
    BY <1>1, <1>2

(* The notes columns that have been left match the dataset, and the one    *)
(* being read does up to its last value.                                   *)
LEMMA NotesKeptStep ==
    ASSUME NEW d, NEW t, Wrote(d, t), Follows(d, t), IInv, OnTrack(d, t),
           DecodeStep, Tracked(d, t), TrackedIn(d, t, column)
    PROVE  NotesKept(d, t)'
  <1> DEFINE F(c) == FieldOf(d, t, c)
  <1>1. /\ NotesBuilt /\ AtColumn /\ CountsBounded /\ Standing
        /\ n \in Nat /\ numStrings \in Nat /\ ~err
    BY DEF IInv, CountsBounded, OnTrack
  <1>2. /\ pc = "values" => /\ Matches(notes[column], F(column), previous + 1)
                            /\ Filled(notes[column])
                            /\ previous \in -1 .. n - 1
        /\ pc \in Reading \cup {"done"} =>
             \A c \in NotesBefore[column] :
                Ranked(notes[c]) /\ Matches(notes[c], F(c), n)
    BY <1>1 DEF OnTrack, NotesKept, NotesBuilt
  <1>3. PICK e : e = column
    OBVIOUS
  <1>4. PICK s : s = notes'[e]
    OBVIOUS
  <1>5. pc' = "values" =>
          /\ Matches(notes[column], FieldOf(d, t, column), previous + 1)'
          /\ previous' + 1 # 0 => FieldOf(d, t, column')[previous' + 1] # 0
    <2>1. CASE ReadSparse
      <3>1. /\ column' = e /\ previous' = -1 /\ n' = n
            /\ s.present = [w \in 1 .. Words |-> {}] /\ s.ids = <<>>
        BY <1>1, <1>3, <1>4, <2>1, NotesMove DEF ReadSparse, ReadValue, EndValues
      <3>2. Matches(s, F(e), 0)
        <4> HIDE DEF F
        <4> QED
          BY <1>1, <3>1, MatchesNone
      <3>3. previous' + 1 = 0
        BY <3>1
      <3>4. Matches(notes[column], FieldOf(d, t, column), previous + 1)'
        BY <1>4, <3>1, <3>2, <3>3 DEF Matches, Noted, HasNote
      <3> QED
        BY <3>3, <3>4
    <2>2. CASE ReadValue
      <3>1. /\ column' = e /\ previous' = ValueRecord /\ pc = "values"
        BY <1>3, <2>2 DEF ReadValue
      <3>2. /\ n' = n /\ s.present = SetBit(notes[e].present, ValueRecord)
            /\ s.ids = Append(notes[e].ids, ValueId.v)
        BY <1>1, <1>3, <1>4, <2>2, NotesMove DEF ReadSparse, ReadValue, EndValues
      <3>3. PICK m \in previous + 2 .. n :
                 /\ F(e)[m] \in 1 .. numStrings - 1
                 /\ \A j \in previous + 2 .. m - 1 : F(e)[j] = 0
                 /\ ValueRecord = m - 1 /\ ValueId.v = F(e)[m]
        BY <1>3, <2>2, Zenon DEF TrackedIn
      <3>4. Matches(notes[e], F(e), previous + 1) /\ Filled(notes[e])
            /\ previous \in -1 .. n - 1
        BY <1>2, <1>3, <3>1
      <3> DEFINE b == previous + 1
                 f == F(e)
                 r == notes[e]
      <3>5. /\ b \in 0 .. n /\ previous + 2 = b + 1 /\ m \in Int
        BY <1>1, <3>4
      <3>6. /\ m \in b + 1 .. n /\ f[m] \in 1 .. numStrings - 1
            /\ \A j \in b + 1 .. m - 1 : f[j] = 0
            /\ s.ids = Append(r.ids, f[m]) /\ s.present = SetBit(r.present, m - 1)
            /\ Matches(r, f, b) /\ Filled(r)
        BY <3>2, <3>3, <3>4, <3>5
      <3> HIDE DEF b, r
      <3>7. Matches(s, f, m)
        <4> HIDE DEF f, F
        <4> QED
          BY <1>1, <3>5, <3>6, MatchesValue
      <3>8. previous' + 1 = m
        BY <3>1, <3>3, <3>5
      <3>9. f[m] # 0
        BY <3>6
      <3>10. FieldOf(d, t, column') = f
        BY <3>1
      <3> HIDE DEF F, f
      <3>11. Matches(notes[column], FieldOf(d, t, column), previous + 1)'
        BY <1>4, <3>1, <3>2, <3>7, <3>8, <3>10 DEF Matches, Noted, HasNote
      <3> QED
        BY <3>8, <3>9, <3>10, <3>11
    <2> QED
      BY <1>1, <2>1, <2>2, WhereFrom
  <1>6. ASSUME pc \in Reading, NEW c \in NotesBefore[e], c \in SparseColumns \ {e}
        PROVE  Ranked(notes[c])' /\ Matches(notes[c], F(c), n)'
    <2>1. notes'[c] = notes[c]
      BY <1>1, <1>3, <1>6, NotesMove
    <2>2. n' = n /\ numStrings' = numStrings
      BY <1>6, WhatMoves DEF ReadTable, ReadRecordCount, Reading
    <2>3. Ranked(notes[c]) /\ Matches(notes[c], F(c), n)
      BY <1>2, <1>3, <1>6
    <2>4. PICK r : r = notes[c]
      OBVIOUS
    <2> HIDE DEF F
    <2> QED
      BY <2>1, <2>2, <2>3, <2>4, NoteStays
  <1>7. ASSUME NEW c \in DeltaColumns \cup SparseColumns \cup {"flags"}
        PROVE  NotesBefore[c] \subseteq SparseColumns \ {c}
    BY <1>7 DEF NotesBefore, DeltaColumns, SparseColumns
  <1>8. column \in DeltaColumns \cup SparseColumns \cup {"flags"}
    BY <1>1, ColumnNames DEF AtColumn
  <1>9. pc' \in Reading \cup {"done"} =>
           \A c \in NotesBefore[column'] :
              Ranked(notes[c])' /\ Matches(notes[c], FieldOf(d, t, c), n)'
    <2> SUFFICES ASSUME pc' \in Reading \cup {"done"}, NEW c \in NotesBefore[column']
                 PROVE  Ranked(notes[c])' /\ Matches(notes[c], F(c), n)'
      OBVIOUS
    <2>1. CASE EndZips
      <3>1. column' = "city"
        BY <1>1, <2>1 DEF EndZips, AtColumn, Reading
      <3> QED
        BY <3>1 DEF NotesBefore
    <2>2. CASE ~EndZips /\ column' = e
      <3>1. pc \in Reading
        BY <1>1, <2>2, WhereFrom
      <3>2. c \in NotesBefore[e] /\ c \in SparseColumns \ {e}
        BY <1>3, <1>7, <1>8, <2>2
      <3> HIDE DEF F
      <3> QED
        BY <1>6, <3>1, <3>2
    <2>3. CASE ~EndZips /\ Leave /\ e \in DeltaColumns
      <3>1. column' = NextColumn[e]
        BY <1>3, <2>3 DEF Leave
      <3>2. NotesBefore[NextColumn[e]] = {}
        BY <2>3 DEF NotesBefore, NextColumn, DeltaColumns
      <3> QED
        BY <3>1, <3>2
    <2>4. CASE ~EndZips /\ Leave /\ e \in SparseColumns
      <3>1. pc \in Reading /\ column' = NextColumn[e]
        BY <1>1, <1>3, <2>4, WhereFrom DEF Leave
      <3>2. NotesBefore[NextColumn[e]] = NotesBefore[e] \cup {e}
        BY <2>4 DEF NotesBefore, NextColumn, SparseColumns
      <3>3. CASE c = e
        <4>1. EndValues
          <5>1. pc' \notin {"values", "delta", "done"} \/ Accept
            BY <1>3, <2>4, LeaveTo, PartAfter DEF SparseColumns
          <5>2. ~ReadSparse /\ ~ReadValue
            BY <1>3, <2>4, <5>1 DEF ReadSparse, ReadValue, Goto, Accept
          <5>3. pc \in {"sparse", "values"}
            <6>1. ~EndDelta /\ ~ReadFlags /\ ~Accept /\ ~ReadDelta
              BY <1>1, <1>3, <2>4 DEF EndDelta, ReadFlags, Accept, ReadDelta,
                 AtColumn, DeltaColumns, SparseColumns
            <6> QED
              BY <1>1, <1>3, <2>4, <3>1, <6>1, WhoTracks DEF ReadHeader, ReadDates,
                 ReadTable, ReadString, EndStrings, ReadPrefecture, ReadCityCount,
                 ReadCity, ReadRecordCount, ReadZip, ReadSparse, ReadValue,
                 EndValues, Reading
          <5> QED
            BY <5>2, <5>3, WhoTracks DEF ReadHeader, ReadDates, ReadTable,
               ReadString, EndStrings, ReadPrefecture, ReadCityCount, ReadCity,
               ReadRecordCount, ReadZip, EndZips, ReadDelta, EndDelta, ReadFlags,
               Accept
        <4>2. pc = "values" /\ Matches(notes[e], F(e), n)
          BY <1>3, <4>1, Zenon DEF TrackedIn, EndValues
        <4>3. Filled(notes[e])
          BY <1>2, <1>3, <4>2
        <4>4. /\ n' = n /\ numStrings' = numStrings
              /\ s.present = notes[e].present /\ s.ids = notes[e].ids
              /\ s.rank = Ranks(notes[e].present)
          BY <1>1, <1>3, <1>4, <4>1, <4>2, NotesMove DEF ReadSparse, ReadValue, EndValues
        <4>5. PICK r : r = notes[e]
          OBVIOUS
        <4>6. Ranked(s)
          BY <4>3, <4>4 DEF Ranked, Filled, Noted, HasNote
        <4>7. Matches(s, F(e), n)
          <5> HIDE DEF F
          <5> QED
            BY <4>2, <4>4, MatchesSame
        <4> HIDE DEF F
        <4> QED
          BY <1>4, <3>3, <4>4, <4>6, <4>7, NoteStays
      <3>4. CASE c # e
        <4>1. c \in NotesBefore[e] /\ c \in SparseColumns \ {e}
          BY <1>3, <1>7, <1>8, <3>1, <3>2, <3>4
        <4> HIDE DEF F
        <4> QED
          BY <1>6, <3>1, <4>1
      <3> QED
        BY <3>3, <3>4
    <2> HIDE DEF F
    <2> QED
      BY <1>1, <1>3, <2>1, <2>2, <2>3, <2>4, ColumnMoves
  <1> QED
    BY <1>5, <1>9 DEF NotesKept

-----------------------------------------------------------------------------
(* Staying on the track, or leaving it for good. *)

(* Each step stays on the track, or leaves it for a payload that was cut   *)
(* off or one that goes on.                                                *)
LEMMA TrackStep ==
    ASSUME NEW d, NEW t, Wrote(d, t), Follows(d, t), IInv, OnTrack(d, t), DecodeStep,
           pc = "header" => file.header = "good" /\ file.inflates
    PROVE  OnTrack(d, t)' \/ Lost(d, t)' \/ Longer(d, t)'
  <1> SUFFICES ASSUME ~Lost(d, t)', ~Longer(d, t)' PROVE OnTrack(d, t)'
    OBVIOUS
  <1>1. Tracked(d, t) /\ TrackedIn(d, t, column)
    BY TrackedStep
  <1>2. ~err' /\ result' # "rejected"
    BY <1>1 DEF Tracked
  <1>3. Stands(d, t)'
    BY <1>1, StandsStep
  <1>4. SizesKept(d, t)'
    BY <1>1, SizesStep
  <1>5. TableKept(d, t)'
    BY <1>1, TableKeptStep
  <1>6. NamesKept(d, t)'
    BY <1>1, NamesKeptStep
  <1>7. RowsKept(d, t)'
    BY <1>1, RowsKeptStep
  <1>8. NotesKept(d, t)'
    BY <1>1, NotesKeptStep
  <1> QED
    BY <1>2, <1>3, <1>4, <1>5, <1>6, <1>7, <1>8 DEF OnTrack

(* Once too little is left for the flags, too little is left for them. *)
LEMMA StarvedStep ==
    ASSUME IInv, DecoderTypeOK, DecodeStep, Starved
    PROVE  err' \/ result' = "rejected" \/ Starved'
  <1>1. /\ pos \in Nat /\ n \in Nat /\ Len(flags) \in Nat /\ Len(payload) \in Nat
        /\ pos <= Len(payload) /\ Standing /\ blobLen \in Nat /\ AtColumn
    BY StandingCursor DEF IInv, Standing, CountsBounded, DecoderTypeOK
  <1>2. pc \in {"sparse", "values", "flags"} /\ Len(payload) - pos < n - Len(flags)
    BY DEF Starved
  <1>3. payload' = payload
    BY DEF DecodeStep, payload
  <1>4. CASE ReadFlags
    <2> DEFINE c == ReadByte(Cursor)
    <2>1. /\ flags' = Append(flags, c.v) /\ pos' = c.pos /\ err' = c.err
          /\ pc' = "flags" /\ n' = n
      BY <1>4 DEF ReadFlags, Advance, Goto, sizes
    <2>2. Len(flags') = Len(flags) + 1
      <3>1. flags \in Seq(Byte)
        BY DEF DecoderTypeOK
      <3> HIDE DEF c
      <3> QED
        BY <2>1, <3>1
    <2>3. c.err \/ c.pos = pos + 1
      BY StandingCursor, <1>1 DEF ReadByte, Failed, Cursor
    <2> HIDE DEF c
    <2>4. ~err' => Len(payload') - pos' < n' - Len(flags')
      BY <1>1, <1>2, <1>3, <2>1, <2>2, <2>3
    <2> QED
      BY <2>1, <2>4 DEF Starved
  <1>5. ~Accept
    BY <1>1, <1>2 DEF Accept
  <1>6. CASE RejectStore
    BY <1>6 DEF RejectStore, Reject
  <1>7. CASE SkipSparse \/ FailSparse \/ ReadSparse \/ ReadValue \/ FailValue
             \/ EndValues
    <2>1. n' = n /\ flags' = flags
      BY <1>7 DEF SkipSparse, FailSparse, ReadSparse, ReadValue, FailValue,
         EndValues, sizes, store
    <2>2. pc' \in {"sparse", "values", "flags"}
      <3>1. pc \in {"sparse", "values"}
        BY <1>7 DEF SkipSparse, FailSparse, ReadSparse, ReadValue, FailValue,
           EndValues
      <3>2. column \in SparseColumns
        BY <1>1, <3>1 DEF AtColumn
      <3>3. Leave \/ pc' = "values"
        BY <1>7 DEF SkipSparse, FailSparse, ReadSparse, ReadValue, FailValue,
           EndValues, Goto
      <3> QED
        BY <3>2, <3>3, LeaveTo, PartAfter
    <2>3. pos' \in Nat /\ pos <= pos'
      BY <1>1, StepForward
    <2>4. Len(payload') - pos' < n' - Len(flags')
      BY <1>1, <1>2, <1>3, <2>1, <2>3
    <2> QED
      BY <2>2, <2>4 DEF Starved
  <1>8. CASE pc = "done" \/ ~(ReadFlags \/ RejectStore \/ SkipSparse \/ FailSparse
              \/ ReadSparse \/ ReadValue \/ FailValue \/ EndValues)
    <2>1. pc \notin {"sparse", "values", "flags"}
      BY <1>5, <1>8 DEF DecodeStep, ReadStep, ReadHeader, RejectHeader, ReadDates,
         ReadTable, RejectTable, ReadString, RejectString, EndStrings,
         RejectStrings, ReadPrefecture, ReadCityCount, RejectCityCount,
         ReadCity, ReadRecordCount, RejectRecordCount, ReadZip, RejectZip,
         EndZips, ReadDelta, EndDelta
    <2> QED
      BY <1>2, <2>1
  <1> QED
    BY <1>4, <1>6, <1>7, <1>8

(* A payload that was cut off is on its way to be refused from there on.   *)
LEMMA LostStep ==
    ASSUME NEW d, NEW t, IInv, DecoderTypeOK, Returned, DecodeStep,
           Lost(d, t)
    PROVE  Lost(d, t)'
  <1>1. Short(d, t)' /\ Short(d, t)
    BY ShortKept DEF Lost
  <1>2. result # "rejected"
    BY WhereTo DEF IInv, Returned
  <1>3. err => err'
    BY StepForward DEF IInv, CountsBounded
  <1>4. Starved => err' \/ result' = "rejected" \/ Starved'
    BY StarvedStep
  <1> QED
    BY <1>1, <1>2, <1>3, <1>4 DEF Lost

(* One that goes on has been refused.                                      *)
LEMMA LongerStep ==
    ASSUME NEW d, NEW t, IInv, Returned, DecodeStep, Longer(d, t)
    PROVE  Longer(d, t)'
  <1>1. result = "rejected"
    BY DEF Longer
  <1>2. pc = "done"
    BY <1>1 DEF Returned
  <1> QED
    BY <1>2, WhereTo DEF IInv

(* A payload that is cut off, or goes on, is not accepted. *)
LEMMA LostMeans ==
    ASSUME NEW d, NEW t, IInv, Lost(d, t) \/ Longer(d, t)
    PROVE  result # "accepted"
  BY DEF Lost, Longer, IInv, Standing, Starved

(* A decoder that starts on a file is on the track. *)
LEMMA TrackInit ==
    ASSUME NEW d, NEW t, Fresh
    PROVE  OnTrack(d, t)
  <1> USE DEF Fresh
  <1>1. ~err /\ result # "rejected" /\ pc = "header"
    OBVIOUS
  <1>2. Stands(d, t)
    BY DEF Stands
  <1>3. SizesKept(d, t)
    BY DEF SizesKept
  <1>4. TableKept(d, t)
    BY DEF TableKept
  <1>5. NamesKept(d, t)
    BY DEF NamesKept, Reading
  <1>6. RowsKept(d, t)
    BY DEF RowsKept, Reading
  <1>7. NotesKept(d, t)
    BY DEF NotesKept, Reading
  <1> QED
    BY <1>1, <1>2, <1>3, <1>4, <1>5, <1>6, <1>7 DEF OnTrack

-----------------------------------------------------------------------------
(* What a store that was accepted on the track answers.                    *)

(* A string of the store is the string of the table it was written from.   *)
LEMMA StrIs ==
    ASSUME NEW d, NEW t, Wrote(d, t), IInv, OnTrack(d, t), result = "accepted",
           NEW id \in 0 .. Len(t) - 1
    PROVE  Str(id) = t[id + 1]
  <1> DEFINE off == Offsets(t)
             a == off[id]
             b == off[id + 1]
             s == t[id + 1]
  <1>1. pc = "done" /\ numStrings = Len(t) /\ Len(blob) = BlobLen(t)
        /\ Len(strOff) = numStrings + 1 /\ blob \in Seq(Byte)
    BY DEF IInv, Standing, OnTrack, SizesKept, TableKept, TableBuilt, ReadPast
  <1>2. /\ id + 1 \in 1 .. Len(t) /\ id + 1 \in 1 .. Len(strOff)
        /\ id + 2 \in 1 .. Len(strOff) /\ id + 1 <= Len(t)
        /\ (id + 1) - 1 = id /\ (id + 2) - 1 = id + 1 /\ id \in 0 .. Len(t)
    BY <1>1, TableWrote
  <1>3. strOff[id + 1] = a /\ strOff[id + 2] = b /\ Continues(blob, a, s)
    BY <1>2 DEF OnTrack, TableKept
  <1>4. /\ s \in Seq(Byte) /\ b = off[(id + 1) - 1] + Len(s)
        /\ b <= BlobLen(t) /\ off \in [0 .. Len(t) -> Nat]
    BY <1>2, BlobWrote
  <1>5. a \in Nat /\ b = a + Len(s) /\ b <= Len(blob) /\ Len(s) \in Nat
        /\ Len(blob) \in Nat
    BY <1>1, <1>2, <1>4
  <1>6. Str(id) = SubSeq(blob, a + 1, b)
    BY <1>3 DEF Str
  <1> HIDE DEF a, b, s
  <1> DEFINE r == SubSeq(blob, a + 1, b)
  <1>7. /\ r \in Seq(Byte) /\ Len(r) = Len(s)
        /\ \A i \in 1 .. Len(s) : r[i] = blob[a + i]
    BY <1>1, <1>5, SubSeqProperties
  <1>8. \A i \in 1 .. Len(s) : blob[a + i] = s[i]
    BY <1>3, <1>5 DEF Continues
  <1> HIDE DEF r
  <1>9. r = s
    <2>1. \A i \in 1 .. Len(s) : r[i] = s[i]
      BY <1>7, <1>8
    <2> QED
      BY <1>4, <1>7, <2>1, SeqEqual
  <1> QED
    BY <1>6, <1>9 DEF r, s

(* A name of the store is the name its reference was made from.            *)
LEMMA NameIs ==
    ASSUME NEW d, NEW t, Wrote(d, t), IInv, OnTrack(d, t), result = "accepted",
           NEW list, NEW i \in DOMAIN list,
           \/ list = d.prefectures \/ list = d.cities \/ list = d.records
    PROVE  Name(Ref(t, list[i])) =
             [kanji |-> list[i].kanji, kana |-> list[i].kana,
              romaji |-> list[i].romaji]
  <1> DEFINE ref == Ref(t, list[i])
  <1>1. /\ ref.kanji \in 0 .. Len(t) - 1 /\ t[ref.kanji + 1] = list[i].kanji
        /\ ref.kana \in 0 .. Len(t) - 1 /\ t[ref.kana + 1] = list[i].kana
        /\ ref.romaji \in 0 .. Len(t) - 1 /\ t[ref.romaji + 1] = list[i].romaji
    BY RefsWrote
  <1> HIDE DEF ref
  <1>2. /\ Str(ref.kanji) = list[i].kanji /\ Str(ref.kana) = list[i].kana
        /\ Str(ref.romaji) = list[i].romaji
    BY <1>1, StrIs
  <1>3. Name(ref) = [kanji |-> list[i].kanji, kana |-> list[i].kana,
                     romaji |-> list[i].romaji]
    BY <1>2 DEF Name
  <1> QED
    BY <1>3 DEF ref

(* A note is found by its record, and a record without one has id 0.       *)
LEMMA NoteIs ==
    ASSUME NEW d, NEW t, Wrote(d, t), IInv, OnTrack(d, t), result = "accepted",
           NEW c \in SparseColumns, NEW i \in 0 .. n - 1
    PROVE  NoteId(notes[c], i) = FieldOf(d, t, c)[i + 1]
  <1> DEFINE s == notes[c]
             f == FieldOf(d, t, c)
  <1>1. pc = "done" /\ column = "flags" /\ n \in Nat
    BY DEF IInv, Standing, AtColumn, CountsBounded
  <1>2. Ranked(s) /\ Matches(s, f, n)
    BY <1>1 DEF OnTrack, NotesKept, NotesBefore
  <1> HIDE DEF s, f
  <1>3. s.present \in Bitmaps(Words) /\ s.rank = Ranks(s.present)
    BY <1>2 DEF Ranked, Filled, Bitmaps
  <1>4. /\ HasNote(s, i) <=> IsSet(s.present, i)
        /\ NoteIndex(s, i) = Cardinality(SetBefore(s.present, i)) + 1
    BY <1>1, <1>3, NoteIndexIs
  <1>5. HasNote(s, i) <=> f[i + 1] # 0
    <2>1. HasNote(s, i) <=> i \in Noted(s)
      BY DEF Noted
    <2>2. Noted(s) = {j \in 0 .. n - 1 : f[j + 1] # 0}
      BY <1>2 DEF Matches
    <2> QED
      BY <2>1, <2>2
  <1>6. ASSUME HasNote(s, i) PROVE s.ids[NoteIndex(s, i)] = f[i + 1]
    <2>1. i \in Noted(s)
      BY <1>6 DEF Noted
    <2> QED
      BY <1>2, <1>4, <2>1 DEF Matches
  <1>7. NoteId(s, i) = f[i + 1]
    BY <1>5, <1>6 DEF NoteId
  <1> QED
    BY <1>7 DEF s, f

(* What every store has kept once it is accepted.                          *)
LEMMA StoreIs ==
    ASSUME NEW d, NEW t, Wrote(d, t), IInv, OnTrack(d, t), result = "accepted"
    PROVE  /\ updated = d.updated /\ n = Len(d.records) /\ n \in Nat
           /\ numStrings = Len(t)
           /\ DOMAIN prefs = 1 .. PrefectureCount
           /\ \A i \in 1 .. PrefectureCount : prefs[i] = Ref(t, d.prefectures[i])
           /\ DOMAIN cities = 1 .. Len(d.cities)
           /\ \A i \in 1 .. Len(d.cities) : cities[i] = CityRef(d, t, i)
           /\ DOMAIN zips = 1 .. n
           /\ \A i \in 1 .. n : /\ zips[i] = d.records[i].zip
                                /\ flags[i] = d.records[i].flags
                                /\ columns.city[i] = d.records[i].city
           /\ \A i \in 1 .. n : \A c \in {"kanji", "kana", "romaji"} :
                 columns[c][i] = FieldOf(d, t, c)[i]
  <1>1. pc = "done" /\ n \in Nat
    BY DEF IInv, Standing, CountsBounded
  <1>2. updated = d.updated /\ n = Len(d.records) /\ numStrings = Len(t)
    BY <1>1 DEF OnTrack, SizesKept
  <1>3. /\ Len(prefs) = PrefectureCount /\ Len(zips) = n /\ Len(flags) = n
        /\ \A c \in DeltaColumns : Len(columns[c]) = n
    BY IInvChecked DEF CheckedIndices
  <1>4. Len(cities) = Len(d.cities)
    BY <1>1 DEF OnTrack, NamesKept
  <1>5. /\ DOMAIN prefs = 1 .. Len(prefs) /\ DOMAIN cities = 1 .. Len(cities)
        /\ DOMAIN zips = 1 .. Len(zips)
    BY DEF IInv, NamesBuilt, ZipsBuilt
  <1>6. /\ \A i \in 1 .. PrefectureCount : prefs[i] = Ref(t, d.prefectures[i])
        /\ \A i \in 1 .. Len(d.cities) : cities[i] = CityRef(d, t, i)
    BY <1>3, <1>4 DEF OnTrack, NamesKept
  <1>7. \A i \in 1 .. n : zips[i] = ZipsOf(d)[i] /\ flags[i] = FlagsOf(d)[i]
    BY <1>3 DEF OnTrack, RowsKept
  <1>8. \A c \in DeltaColumns : \A i \in 1 .. n : columns[c][i] = FieldOf(d, t, c)[i]
    BY <1>3 DEF OnTrack, RowsKept
  <1>9. \A i \in 1 .. n : zips[i] = d.records[i].zip /\ flags[i] = d.records[i].flags
    BY <1>2, <1>7, ZipsWrote, FlagsWrote
  <1>10. \A i \in 1 .. n : columns.city[i] = d.records[i].city
    <2> TAKE i \in 1 .. n
    <2>1. "city" \in DeltaColumns
      BY DEF DeltaColumns
    <2>2. columns["city"][i] = FieldOf(d, t, "city")[i]
      BY <1>8, <2>1
    <2>3. FieldOf(d, t, "city")[i] = d.records[i].city
      BY <1>2, <2>1, FieldWrote
    <2> QED
      BY <2>2, <2>3
  <1>11. \A i \in 1 .. n : \A c \in {"kanji", "kana", "romaji"} :
            columns[c][i] = FieldOf(d, t, c)[i]
    BY <1>8 DEF DeltaColumns
  <1> QED
    BY <1>1, <1>2, <1>3, <1>4, <1>5, <1>6, <1>9, <1>10, <1>11

-----------------------------------------------------------------------------
(* The answers of the store are those of the dataset.                      *)

Returns(d) ==
    /\ updated = d.updated
    /\ n = Len(d.records)
    /\ Prefectures = d.prefectures
    /\ \A i \in 0 .. n - 1 : At(i) = EntryOf(i)

(* The prefectures come back as they were.                                 *)
LEMMA PrefecturesBack ==
    ASSUME NEW d, NEW t, Wrote(d, t), IInv, OnTrack(d, t), result = "accepted"
    PROVE  Prefectures = d.prefectures
  <1>1. /\ DOMAIN prefs = 1 .. PrefectureCount
        /\ \A i \in 1 .. PrefectureCount : prefs[i] = Ref(t, d.prefectures[i])
    BY StoreIs
  <1>2. /\ d.prefectures \in [1 .. PrefectureCount -> PlaceName]
        /\ DOMAIN d.prefectures = 1 .. PrefectureCount
        /\ \A i \in 1 .. PrefectureCount : d.prefectures[i] \in PlaceName
    BY PartsOfDataset DEF Wrote
  <1>3. ASSUME NEW i \in 1 .. PrefectureCount
        PROVE  Name(prefs[i]) = d.prefectures[i]
    <2> PICK list : list = d.prefectures
      OBVIOUS
    <2>3. i \in DOMAIN list
      BY <1>2
    <2>4. Name(Ref(t, list[i])) =
            [kanji |-> list[i].kanji, kana |-> list[i].kana,
             romaji |-> list[i].romaji]
      BY <2>3, NameIs
    <2>1. Name(prefs[i]) =
            [kanji |-> d.prefectures[i].kanji, kana |-> d.prefectures[i].kana,
             romaji |-> d.prefectures[i].romaji]
      BY <1>1, <2>4
    <2>2. d.prefectures[i] \in PlaceName
      BY <1>2
    <2> QED
      BY <2>1, <2>2 DEF PlaceName
  <1>4. Prefectures = [i \in 1 .. PrefectureCount |-> d.prefectures[i]]
    BY <1>1, <1>3 DEF Prefectures
  <1> QED
    BY <1>2, <1>4

(* Record by record.                                                       *)
LEMMA EntryBack ==
    ASSUME NEW d, d = source, NEW t, Wrote(d, t), IInv, OnTrack(d, t), result = "accepted",
           NEW i \in 0 .. n - 1
    PROVE  At(i) = EntryOf(i)
  <1> DEFINE k == i + 1
             r == d.records[k]
             x == d.cities[r.city + 1]
             name(y) == [kanji |-> y.kanji, kana |-> y.kana, romaji |-> y.romaji]
  <1>1. k \in 1 .. n /\ k \in 1 .. Len(d.records) /\ k \in DOMAIN d.records
        /\ n = Len(d.records) /\ n \in Nat
    BY StoreIs, WroteRecords
  <1> HIDE DEF k
  <1>2. /\ zips[k] = r.zip /\ flags[k] = r.flags /\ columns.city[k] = r.city
        /\ \A c \in {"kanji", "kana", "romaji"} : columns[c][k] = FieldOf(d, t, c)[k]
    BY <1>1, StoreIs
  <1>3. r.city + 1 \in 1 .. Len(d.cities) /\ r.city + 1 \in DOMAIN d.cities
    BY <1>1, WroteRecords, WroteCities
  <1>4. /\ cities[r.city + 1] = CityRef(d, t, r.city + 1)
    BY <1>3, StoreIs
  <1>5. /\ cities[r.city + 1].jis = x.jis /\ cities[r.city + 1].pref = x.pref
        /\ cities[r.city + 1].name = Ref(t, x)
    BY <1>4 DEF CityRef
  <1>6. x.pref + 1 \in 1 .. PrefectureCount
    <2>1. x.pref \in 0 .. PrefectureCount - 1
      BY <1>3, WroteCities
    <2> QED
      BY <2>1, FormatAssumption
  <1>7. Name(prefs[x.pref + 1]) = name(d.prefectures[x.pref + 1])
    <2>1. prefs[x.pref + 1] = Ref(t, d.prefectures[x.pref + 1])
      <3>1. \A l \in 1 .. PrefectureCount : prefs[l] = Ref(t, d.prefectures[l])
        BY StoreIs, ZenonT(60)
      <3> QED
        BY <1>6, <3>1, ZenonT(60)
    <2> PICK list : list = d.prefectures
      OBVIOUS
    <2> PICK j : j = x.pref + 1
      OBVIOUS
    <2>2. j \in DOMAIN list
      BY <1>6, PartsOfDataset DEF Wrote
    <2> HIDE DEF x, r
    <2>3. Name(Ref(t, list[j])) = name(list[j])
      BY <2>2, NameIs
    <2> QED
      BY <2>1, <2>3
  <1>8. Name(Ref(t, x)) = name(x)
    BY <1>3, NameIs
  <1>9. ASSUME NEW c \in {"kanji", "kana", "romaji"}
        PROVE  Str(columns[c][k]) = r[c]
    <2>1. c \in DeltaColumns \cup SparseColumns /\ c # "city"
      BY DEF DeltaColumns
    <2>2. FieldOf(d, t, c)[k] \in 0 .. Len(t) - 1
          /\ t[FieldOf(d, t, c)[k] + 1] = d.records[k][c]
      BY <1>1, <2>1, FieldWrote
    <2>3. columns[c][k] = FieldOf(d, t, c)[k]
      BY <1>2
    <2> QED
      BY <2>2, <2>3, StrIs
  <1>10. ASSUME NEW c \in SparseColumns
         PROVE  Str(NoteId(notes[c], i)) = r[c]
    <2>1. c \in DeltaColumns \cup SparseColumns /\ c # "city"
      BY DEF SparseColumns
    <2>2. FieldOf(d, t, c)[k] \in 0 .. Len(t) - 1
          /\ t[FieldOf(d, t, c)[k] + 1] = d.records[k][c]
      BY <1>1, <2>1, FieldWrote
    <2>3. NoteId(notes[c], i) = FieldOf(d, t, c)[k]
      BY NoteIs DEF k
    <2> QED
      BY <2>2, <2>3, StrIs
  <1>11. /\ Str(columns.kanji[k]) = r.kanji /\ Str(columns.kana[k]) = r.kana
         /\ Str(columns.romaji[k]) = r.romaji
    BY <1>9
  <1>12. /\ Str(NoteId(notes.note, i)) = r.note
         /\ Str(NoteId(notes.noteKana, i)) = r.noteKana
    BY <1>10 DEF SparseColumns
  <1>13. At(i) = [prefecture |-> Name(prefs[x.pref + 1]),
                  city |-> Name(Ref(t, x)),
                  town |-> [kanji |-> Str(columns.kanji[k]),
                            kana |-> Str(columns.kana[k]),
                            romaji |-> Str(columns.romaji[k])],
                  prefIndex |-> x.pref,
                  note |-> Str(NoteId(notes.note, i)),
                  noteKana |-> Str(NoteId(notes.noteKana, i)),
                  zip |-> zips[k], jis |-> x.jis, flags |-> flags[k]]
    BY <1>2, <1>5 DEF At, k
  <1>14. EntryOf(i) = [prefecture |-> name(d.prefectures[x.pref + 1]),
                       city |-> name(x), town |-> name(r), prefIndex |-> x.pref,
                       note |-> r.note, noteKana |-> r.noteKana,
                       zip |-> r.zip, jis |-> x.jis, flags |-> r.flags]
    BY DEF EntryOf, k
  <1> HIDE DEF x, r
  <1> QED
    BY <1>2, <1>7, <1>8, <1>11, <1>12, <1>13, <1>14

(* So does every answer of the store.                                      *)
LEMMA BroughtBack ==
    ASSUME NEW t, Wrote(source, t), IInv, OnTrack(source, t), result = "accepted"
    PROVE  Returns(source)
  <1> PICK d : d = source
    OBVIOUS
  <1>1. Wrote(d, t) /\ OnTrack(d, t)
    OBVIOUS
  <1>2. updated = d.updated /\ n = Len(d.records)
    BY <1>1, StoreIs
  <1>3. Prefectures = d.prefectures
    BY <1>1, PrefecturesBack
  <1>4. \A i \in 0 .. n - 1 : At(i) = EntryOf(i)
    BY <1>1, EntryBack
  <1> QED
    BY <1>2, <1>3, <1>4 DEF Returns

(* Every code of the store is one validate has let through.                *)
LEMMA CodesBack ==
    ASSUME NEW d, NEW t, Wrote(d, t), IInv, OnTrack(d, t), result = "accepted"
    PROVE  CodesFitWidth
  <1>1. \A i \in DOMAIN zips : zips[i] <= MaxZip
    <2> TAKE i \in DOMAIN zips
    <2>1. i \in 1 .. Len(d.records) /\ zips[i] = d.records[i].zip
      BY StoreIs
    <2>2. zips[i] \in 0 .. MaxZip
      BY <2>1, WroteRecords
    <2> QED
      BY <2>2
  <1>2. \A i \in DOMAIN cities : cities[i].jis <= MaxJIS
    <2> TAKE i \in DOMAIN cities
    <2>1. i \in 1 .. Len(d.cities) /\ cities[i] = CityRef(d, t, i)
      BY StoreIs
    <2>2. cities[i].jis = d.cities[i].jis
      BY <2>1 DEF CityRef
    <2> QED
      BY <2>1, <2>2, WroteCities
  <1> QED
    BY <1>1, <1>2 DEF CodesFitWidth

(* The store's strings are those of the table, in its order.               *)
LEMMA TableBack ==
    ASSUME NEW d, NEW t, Wrote(d, t), IInv, OnTrack(d, t), result = "accepted"
    PROVE  /\ Str(0) = <<>>
           /\ \A i \in 1 .. numStrings - 1 : Precedes(Str(i - 1), Str(i))
  <1>1. Lists(t, Strings(d)) /\ Len(t) \in Nat \ {0} /\ numStrings = Len(t)
    BY TableWrote, StoreIs
  <1>2. \A id \in 0 .. Len(t) - 1 : Str(id) = t[id + 1]
    BY StrIs
  <1>3. t[1] = <<>>
    BY <1>1 DEF Lists
  <1>4. \A i, j \in 1 .. Len(t) : i < j => Precedes(t[i], t[j])
    BY <1>1 DEF Lists
  <1>5. Str(0) = <<>>
    <2>1. 0 \in 0 .. Len(t) - 1
      BY <1>1
    <2> QED
      BY <1>2, <1>3, <2>1
  <1>6. ASSUME NEW i \in 1 .. numStrings - 1
        PROVE  Precedes(Str(i - 1), Str(i))
    <2>1. /\ i - 1 \in 0 .. Len(t) - 1 /\ i \in 0 .. Len(t) - 1
          /\ i \in 1 .. Len(t) /\ i + 1 \in 1 .. Len(t) /\ i < i + 1
          /\ (i - 1) + 1 = i
      BY <1>1
    <2>2. Str(i - 1) = t[i] /\ Str(i) = t[i + 1]
      BY <1>2, <2>1
    <2>3. Precedes(t[i], t[i + 1])
      BY <1>4, <2>1
    <2> QED
      BY <2>2, <2>3
  <1> QED
    BY <1>5, <1>6

-----------------------------------------------------------------------------
(* The life of a file: what each damage leaves of what was written, and    *)
(* what the decoder makes of it.                                           *)

Opens(d, t) == file.header = "good" /\ file.inflates /\ Follows(d, t)

Kept(d, t) ==
    /\ damage = "none" => file = EncodedFile(d, t)
    /\ damage = "header" => file.header # "good"
    /\ damage = "stream" => ~file.inflates
    /\ damage = "truncated" => Opens(d, t) /\ Short(d, t)
    /\ damage = "extended" =>
          Opens(d, t) /\ Len(payload) > Len(Marshal(d, t))

Answered(d, t) ==
    /\ damage \in {"none", "truncated", "extended"} =>
          OnTrack(d, t) \/ Lost(d, t) \/ Longer(d, t)
    /\ damage \in {"header", "stream"} => pc = "header" \/ result = "rejected"
    /\ result = "accepted" => Consumed

Stages == {"encode", "marshal", "stored", "decode", "refused"}

Staged ==
    /\ source \in Datasets
    /\ stage \in Stages
    /\ damage \in DamageKinds \cup {"none"}
    /\ stage # "decode" => Fresh
    /\ stage \in {"encode", "marshal", "refused"} => damage = "none"
    /\ stage \in {"encode", "refused"} => tab = <<>>
    /\ stage \in {"marshal", "stored", "decode"} => Wrote(source, tab)
    /\ stage \in {"stored", "decode"} => Kept(source, tab)
    /\ stage = "decode" => Answered(source, tab)

CodecInv == IInv /\ DecoderTypeOK /\ Returned /\ Staged

(* A file that was just written holds what was written.                    *)
LEMMA FileWritten ==
    ASSUME NEW d, NEW t, Wrote(d, t), file = EncodedFile(d, t)
    PROVE  /\ file \in File /\ payload = Marshal(d, t)
           /\ payload \in Seq(Byte) /\ Len(payload) \in Nat
           /\ Len(payload) = Len(Marshal(d, t)) /\ Opens(d, t)
  <1>1. Marshal(d, t) \in Seq(Byte) /\ Len(Marshal(d, t)) \in Nat
    BY PartsStand
  <1>2. file = [header |-> "good", inflates |-> TRUE, payload |-> Marshal(d, t)]
    BY DEF EncodedFile
  <1>3. /\ payload = Marshal(d, t) /\ file.header = "good" /\ file.inflates
        /\ file \in File
    BY <1>1, <1>2 DEF payload, File, Headers
  <1>4. Continues(payload, 0, Marshal(d, t))
    BY <1>1, <1>3 DEF Continues
  <1> QED
    BY <1>1, <1>3, <1>4 DEF Opens, Follows

(* Before Encode begins nothing has been written and nothing read.         *)
LEMMA InitStaged == Init => CodecInv
  <1> SUFFICES ASSUME Init PROVE CodecInv
    OBVIOUS
  <1>1. file \in File
    <2>1. <<>> \in Seq(Byte)
      OBVIOUS
    <2> QED
      BY <2>1 DEF Init, NoFile, File, Headers
  <1>2. IInv /\ DecoderTypeOK /\ Returned
    BY <1>1, InitIInv, InitTypes DEF Init
  <1>3. Staged
    BY DEF Init, Staged, Stages
  <1> QED
    BY <1>2, <1>3 DEF CodecInv

FreshIs ==
    /\ file \in File /\ Fresh => IInv /\ DecoderTypeOK /\ Returned
    /\ \A d, t : Fresh => OnTrack(d, t)

(* A decoder that has not begun is on the track.                           *)
LEMMA AlwaysFresh == FreshIs
  BY InitIInv, InitTypes, TrackInit DEF FreshIs

(* The same of the next state.                                             *)
LEMMA FreshNext == FreshIs'
  BY AlwaysFresh, PTL

(* The encoder's steps leave the decoder where it was.                     *)
LEMMA EncodeStaged ==
    ASSUME CodecInv, EncodeRefuses \/ Intern \/ Write \/ Open
    PROVE  CodecInv'
  <1> PICK d : d = source
    OBVIOUS
  <1>1. d \in Datasets /\ d \in Dataset /\ (Valid(d) => Fits(d))
    BY DatasetsAssumption DEF CodecInv, Staged
  <1>2. UNCHANGED decoderState /\ source' = source /\ damage' = damage
    BY DEF EncodeRefuses, Intern, Write, Open, decoderVars
  <1>3. Fresh /\ Fresh' /\ (damage = "none" \/ Open)
    <2>1. Fresh
      BY DEF CodecInv, Staged, EncodeRefuses, Intern, Write, Open
    <2>2. Fresh'
      BY <1>2, <2>1 DEF Fresh, decoderState, sizes, store
    <2>3. ~Open => damage = "none"
      BY DEF CodecInv, Staged, EncodeRefuses, Intern, Write
    <2> QED
      BY <2>1, <2>2, <2>3
  <1>4. file' \in File
    <2>1. CASE Write
      <3> PICK t : t = tab
        OBVIOUS
      <3>1. Wrote(d, t)
        BY <2>1 DEF CodecInv, Staged, Write
      <3>2. Marshal(d, t) \in Seq(Byte)
        BY <3>1, PartsStand
      <3>3. file' = [header |-> "good", inflates |-> TRUE, payload |-> Marshal(d, t)]
        BY <2>1 DEF Write, EncodedFile
      <3> QED
        BY <3>2, <3>3 DEF File, Headers
    <2>2. CASE ~Write
      <3>1. file' = file
        BY <2>2 DEF EncodeRefuses, Intern, Open, decoderVars
      <3> QED
        BY <3>1 DEF CodecInv, IInv, Standing
    <2> QED
      BY <2>1, <2>2
  <1>5. (IInv /\ DecoderTypeOK /\ Returned)'
    BY <1>3, <1>4, FreshNext DEF FreshIs
  <1>6. Staged'
    <2>1. CASE EncodeRefuses
      BY <1>2, <1>3, <2>1 DEF CodecInv, Staged, Stages, EncodeRefuses, Open
    <2>2. CASE Intern
      <3>1. Wrote(source, tab)'
        BY <1>1, <2>2 DEF Wrote, Intern
      <3> QED
        BY <1>2, <1>3, <2>2, <3>1 DEF CodecInv, Staged, Stages, Intern, Open
    <2>3. CASE Write
      <3>1. Wrote(source, tab)' /\ damage' = "none"
        BY <2>3 DEF CodecInv, Staged, Write, Wrote
      <3>2. Kept(source, tab)'
        BY <2>3, <3>1 DEF Kept, Write
      <3> QED
        BY <1>2, <1>3, <2>3, <3>1, <3>2 DEF CodecInv, Staged, Stages, Write, Open
    <2>4. CASE Open
      <3>1. /\ Wrote(source, tab)' /\ UNCHANGED <<source, tab, damage, file>>
            /\ stage' = "decode" /\ Kept(source, tab)
        BY <2>4 DEF CodecInv, Staged, Open, Wrote, decoderVars
      <3>2. Kept(source, tab)'
        BY <3>1 DEF Kept, Opens, Follows, Short, payload
      <3>3. OnTrack(source, tab)'
        <4> PICK t : t = tab
          OBVIOUS
        <4>1. OnTrack(d, t)'
          BY <1>3, FreshNext DEF FreshIs
        <4> QED
          BY <3>1, <4>1
      <3>4. pc' = "header" /\ result' = "none"
        BY <1>3 DEF Fresh
      <3>5. Answered(source, tab)'
        BY <3>3, <3>4 DEF Answered
      <3> QED
        BY <1>2, <3>1, <3>2, <3>5 DEF CodecInv, Staged, Stages
    <2> QED
      BY <2>1, <2>2, <2>3, <2>4
  <1> QED
    BY <1>5, <1>6 DEF CodecInv

(* A damage leaves a file, and no more of what was written than its kind   *)
(* allows.                                                                 *)
LEMMA DamageStaged ==
    ASSUME CodecInv, BreakHeader \/ BreakStream \/ Truncate \/ Extend \/ Corrupt
    PROVE  CodecInv'
  <1> PICK d : d = source
    OBVIOUS
  <1> PICK t : t = tab
    OBVIOUS
  <1> DEFINE F == Marshal(d, t)
  <1>1. \E kind, f : Damaged(kind, f)
    <2>1. CASE BreakHeader \/ BreakStream
      BY <2>1, Zenon DEF BreakHeader, BreakStream
    <2>2. CASE Truncate \/ Extend
      BY <2>2, Zenon DEF Truncate, Extend
    <2>3. CASE Corrupt
      BY <2>3, Zenon DEF Corrupt
    <2> QED
      BY <2>1, <2>2, <2>3
  <1>2. /\ stage = "stored" /\ damage = "none" /\ damage' \in DamageKinds
        /\ UNCHANGED <<source, tab, stage, decoderState>>
    BY <1>1 DEF Damaged
  <1>3. Wrote(d, t) /\ file = EncodedFile(d, t) /\ Fresh /\ source \in Datasets
    BY <1>2 DEF CodecInv, Staged, Kept
  <1>4. /\ file \in File /\ payload = F /\ payload \in Seq(Byte)
        /\ Len(payload) \in Nat /\ Len(payload) = Len(F)
        /\ Opens(d, t)
    BY <1>3, FileWritten
  <1>5. Fresh'
    BY <1>2, <1>3 DEF Fresh, decoderState, sizes, store
  <1>6. file = [header |-> "good", inflates |-> TRUE, payload |-> F]
    BY <1>3 DEF EncodedFile
  <1> HIDE DEF F
  <1>7. file' \in File /\ Kept(d, t)'
    <2>1. CASE BreakHeader
      <3>1. PICK h \in Headers \ {"good"} : Damaged("header", [file EXCEPT !.header = h])
        BY <2>1 DEF BreakHeader
      <3>2. damage' = "header" /\ file' = [file EXCEPT !.header = h]
        BY <3>1 DEF Damaged
      <3>3. file' = [header |-> h, inflates |-> TRUE, payload |-> F]
        BY <1>6, <3>2
      <3>4. file' \in File /\ file'.header # "good"
        BY <1>4, <3>3 DEF File
      <3> QED
        BY <3>2, <3>4 DEF Kept
    <2>2. CASE BreakStream
      <3>1. damage' = "stream" /\ file' = [file EXCEPT !.inflates = FALSE]
        BY <2>2 DEF BreakStream, Damaged
      <3>2. file' = [header |-> "good", inflates |-> FALSE, payload |-> F]
        BY <1>6, <3>1
      <3>3. file' \in File /\ ~file'.inflates
        BY <1>4, <3>2 DEF File, Headers
      <3> QED
        BY <3>1, <3>3 DEF Kept
    <2>3. CASE Truncate
      <3>1. PICK len \in 0 .. Len(payload) - 1 :
                Damaged("truncated", [file EXCEPT !.payload = SubSeq(@, 1, len)])
        BY <2>3 DEF Truncate
      <3> DEFINE s == SubSeq(payload, 1, len)
      <3>2. damage' = "truncated" /\ file' = [file EXCEPT !.payload = s]
        BY <3>1 DEF Damaged, payload
      <3>3. /\ s \in Seq(Byte) /\ Len(s) = len
            /\ \A i \in 1 .. len : s[i] = payload[i]
        BY <1>4, SubSeqProperties
      <3> HIDE DEF s
      <3>4. file' = [header |-> "good", inflates |-> TRUE, payload |-> s]
        BY <1>6, <3>2
      <3>5. payload' = s /\ file' \in File /\ file'.header = "good" /\ file'.inflates
        BY <3>3, <3>4 DEF payload, File, Headers
      <3>6. Continues(s, 0, F) /\ Len(s) < Len(F) /\ Len(s) \in Nat
        BY <1>4, <3>3 DEF Continues
      <3> QED
        BY <3>2, <3>5, <3>6 DEF Kept, Opens, Follows, Short, F
    <2>4. CASE Extend
      <3>1. PICK b \in Byte :
                Damaged("extended", [file EXCEPT !.payload = Append(@, b)])
        BY <2>4 DEF Extend
      <3> DEFINE s == Append(payload, b)
      <3>2. damage' = "extended" /\ file' = [file EXCEPT !.payload = s]
        BY <3>1 DEF Damaged, payload
      <3>3. /\ s \in Seq(Byte) /\ Len(s) = Len(payload) + 1
            /\ \A i \in 1 .. Len(payload) : s[i] = payload[i]
        BY <1>4
      <3> HIDE DEF s
      <3>4. file' = [header |-> "good", inflates |-> TRUE, payload |-> s]
        BY <1>6, <3>2
      <3>5. payload' = s /\ file' \in File /\ file'.header = "good" /\ file'.inflates
        BY <3>3, <3>4 DEF payload, File, Headers
      <3>6. Continues(s, 0, F) /\ Len(s) > Len(F) /\ Len(s) \in Nat
        BY <1>4, <3>3 DEF Continues
      <3> QED
        BY <3>2, <3>5, <3>6 DEF Kept, Opens, Follows, F
    <2>5. CASE Corrupt
      <3>1. PICK i \in DOMAIN payload, b \in Byte :
                Damaged("corrupted", [file EXCEPT !.payload[i] = b])
        BY <2>5 DEF Corrupt
      <3> DEFINE s == [payload EXCEPT ![i] = b]
      <3>2. damage' = "corrupted" /\ file' = [file EXCEPT !.payload = s]
        BY <3>1 DEF Damaged, payload
      <3>3. s \in Seq(Byte)
        BY <1>4
      <3> HIDE DEF s
      <3>4. file' = [header |-> "good", inflates |-> TRUE, payload |-> s]
        BY <1>6, <3>2
      <3>5. file' \in File
        BY <3>3, <3>4 DEF File, Headers
      <3> QED
        BY <3>2, <3>5 DEF Kept
    <2> QED
      BY <2>1, <2>2, <2>3, <2>4, <2>5
  <1>8. (IInv /\ DecoderTypeOK /\ Returned)'
    BY <1>5, <1>7, FreshNext DEF FreshIs
  <1>9. Kept(source, tab)' /\ Wrote(source, tab)'
    BY <1>2, <1>3, <1>7 DEF Kept, Opens, Follows, Short, Wrote
  <1>10. Staged'
    BY <1>2, <1>3, <1>5, <1>9 DEF Staged, Stages
  <1> QED
    BY <1>8, <1>10 DEF CodecInv

(* Decode, step by step: nothing it reads is forgotten.                    *)
LEMMA DecodeStaged ==
    ASSUME CodecInv, Decode
    PROVE  CodecInv'
  <1> PICK d : d = source
    OBVIOUS
  <1> PICK t : t = tab
    OBVIOUS
  <1>1. /\ stage = "decode" /\ DecodeStep /\ UNCHANGED codecVars
        /\ UNCHANGED <<source, tab, stage, damage>>
    BY DEF Decode, codecVars
  <1>2. /\ IInv /\ DecoderTypeOK /\ Returned /\ Wrote(d, t) /\ Kept(d, t)
        /\ Answered(d, t)
    BY <1>1 DEF CodecInv, Staged
  <1>3. payload' = payload /\ file' = file /\ (Short(d, t)' <=> Short(d, t))
    BY <1>1, ShortKept
  <1>4. IInv'
    BY <1>1, <1>2, NextIInv
  <1>5. DecoderTypeOK' /\ Returned'
    BY <1>1, <1>2, TypeStep
  <1>6. result = "none" /\ pc # "done"
    BY <1>1, <1>2, WhereTo DEF IInv, Returned
  <1>7. Kept(d, t)'
    BY <1>1, <1>2, <1>3 DEF Kept, Opens, Follows
  <1>8. ASSUME damage \in {"none", "truncated", "extended"}
        PROVE  OnTrack(d, t)' \/ Lost(d, t)' \/ Longer(d, t)'
    <2>1. Opens(d, t)
      BY <1>2, <1>8, FileWritten DEF Kept
    <2>2. CASE OnTrack(d, t)
      BY <1>1, <1>2, <2>1, <2>2, TrackStep DEF Opens
    <2>3. CASE Lost(d, t)
      BY <1>1, <1>2, <2>3, LostStep
    <2>4. CASE Longer(d, t)
      BY <1>1, <1>2, <2>4, LongerStep
    <2> QED
      BY <1>2, <1>8, <2>2, <2>3, <2>4 DEF Answered
  <1>9. ASSUME damage \in {"header", "stream"}
        PROVE  result' = "rejected"
    <2>1. pc = "header" /\ ~HeaderOK
      BY <1>2, <1>6, <1>9 DEF Answered, Kept, HeaderOK
    <2>2. RejectHeader
      BY <1>1, <2>1 DEF DecodeStep, ReadStep, ReadHeader, RejectHeader, ReadDates,
         ReadTable, RejectTable, ReadString, RejectString, EndStrings,
         RejectStrings, ReadPrefecture, ReadCityCount, RejectCityCount,
         ReadCity, ReadRecordCount, RejectRecordCount, ReadZip, RejectZip,
         EndZips, ReadDelta, EndDelta, SkipSparse, FailSparse, ReadSparse,
         ReadValue, FailValue, EndValues, ReadFlags, Accept, RejectStore
    <2> QED
      BY <2>2 DEF RejectHeader, Reject
  <1>10. ASSUME result' = "accepted" PROVE Consumed'
    <2>1. Accept
      BY <1>1, <1>2, <1>6, <1>10, WhereTo DEF IInv
    <2> QED
      BY <1>3, <2>1 DEF Accept, Acceptable, Consumed
  <1>11. Answered(d, t)'
    BY <1>1, <1>8, <1>9, <1>10 DEF Answered
  <1>12. Answered(source, tab)' /\ Kept(source, tab)' /\ Wrote(source, tab)'
    <2>1. Wrote(source, tab)'
      BY <1>1, <1>2 DEF Wrote
    <2>2. Kept(source, tab)'
      BY <1>1, <1>7 DEF Kept, Opens, Follows, Short
    <2>3. source' = d /\ tab' = t
      BY <1>1
    <2> QED
      BY <1>11, <2>1, <2>2, <2>3
  <1>13. Staged'
    BY <1>1, <1>12 DEF CodecInv, Staged, Stages
  <1> QED
    BY <1>4, <1>5, <1>13 DEF CodecInv

(* Every step of the life of a file keeps the invariant.                   *)
LEMMA NextStaged == CodecInv /\ [Next]_vars => CodecInv'
  <1> SUFFICES ASSUME CodecInv, [Next]_vars
               PROVE  CodecInv'
    OBVIOUS
  <1>1. CASE EncodeRefuses \/ Intern \/ Write \/ Open
    BY <1>1, EncodeStaged
  <1>2. CASE BreakHeader \/ BreakStream \/ Truncate \/ Extend \/ Corrupt
    BY <1>2, DamageStaged
  <1>3. CASE Decode
    BY <1>3, DecodeStaged
  <1>4. CASE UNCHANGED vars
    <2>1. UNCHANGED <<source, tab, stage, damage, file>> /\ UNCHANGED decoderState
      BY <1>4 DEF vars, codecVars, decoderVars
    <2>2. IInv'
      BY <1>4, NextIInv DEF CodecInv, vars
    <2>3. DecoderTypeOK' /\ Returned'
      BY <2>1 DEF CodecInv, DecoderTypeOK, Returned, decoderState, sizes, store
    <2>4. Staged'
      <3> PICK d : d = source
        OBVIOUS
      <3> PICK t : t = tab
        OBVIOUS
      <3>1. source' = d /\ tab' = t
        BY <2>1
      <3>2. Fresh => Fresh'
        BY <2>1 DEF Fresh, decoderState, sizes, store
      <3>3. Kept(d, t) => Kept(d, t)'
        BY <2>1 DEF Kept, Opens, Follows, Short, payload
      <3>4. Answered(d, t) => Answered(d, t)'
        <4>1. /\ Lost(d, t) => Lost(d, t)'
              /\ Longer(d, t) => Longer(d, t)'
              /\ Consumed => Consumed'
          BY <2>1 DEF Lost, Longer, Short, Starved, Consumed, payload, decoderState,
             sizes, store
        <4>2. Stands(d, t) => Stands(d, t)'
          BY <2>1 DEF Stands, decoderState, sizes, store
        <4>3. SizesKept(d, t) => SizesKept(d, t)'
          BY <2>1 DEF SizesKept, decoderState, sizes, store
        <4>4. TableKept(d, t) => TableKept(d, t)'
          BY <2>1 DEF TableKept, decoderState, sizes, store
        <4>5. NamesKept(d, t) => NamesKept(d, t)'
          BY <2>1 DEF NamesKept, decoderState, sizes, store
        <4>6. RowsKept(d, t) => RowsKept(d, t)'
          BY <2>1 DEF RowsKept, decoderState, sizes, store
        <4>7. NotesKept(d, t) => NotesKept(d, t)'
          <5>1. /\ pc' = pc /\ column' = column /\ notes' = notes /\ n' = n
                /\ numStrings' = numStrings /\ previous' = previous
            BY <2>1 DEF decoderState, sizes, store
          <5>2. \A c : Ranked(notes[c]) => Ranked(notes[c])'
            BY <5>1 DEF Ranked, Filled, Noted, HasNote, Words
          <5>3. \A c, f, m : Matches(notes[c], f, m) => Matches(notes[c], f, m)'
            BY <5>1 DEF Matches, Noted, HasNote
          <5>4. ASSUME NotesKept(d, t), pc = "values"
                PROVE  /\ Matches(notes[column], FieldOf(d, t, column), previous + 1)'
                       /\ (previous + 1 # 0 =>
                            FieldOf(d, t, column)[previous + 1] # 0)'
            <6> PICK c : c = column
              OBVIOUS
            <6> PICK m : m = previous + 1
              OBVIOUS
            <6>1. /\ Matches(notes[c], FieldOf(d, t, c), m)
                  /\ m # 0 => FieldOf(d, t, c)[m] # 0
              BY <5>4 DEF NotesKept
            <6>2. Matches(notes[c], FieldOf(d, t, c), m)'
              BY <5>3, <6>1
            <6>3. column' = c /\ previous' + 1 = m
              BY <5>1
            <6>4. Matches(notes[column], FieldOf(d, t, column), previous + 1)'
              BY <6>2, <6>3
            <6> QED
              BY <6>1, <6>3, <6>4
          <5>5. ASSUME NotesKept(d, t), pc \in Reading \cup {"done"},
                       NEW c \in NotesBefore[column]
                PROVE  (Ranked(notes[c]) /\ Matches(notes[c], FieldOf(d, t, c), n))'
            <6> PICK m : m = n
              OBVIOUS
            <6>1. Ranked(notes[c]) /\ Matches(notes[c], FieldOf(d, t, c), m)
              BY <5>5 DEF NotesKept
            <6>2. Ranked(notes[c])' /\ Matches(notes[c], FieldOf(d, t, c), m)'
              BY <5>2, <5>3, <6>1
            <6>3. n' = m
              BY <5>1
            <6> QED
              BY <6>2, <6>3
          <5> QED
            BY <5>1, <5>4, <5>5 DEF NotesKept
        <4>8. OnTrack(d, t) => OnTrack(d, t)'
          BY <2>1, <4>2, <4>3, <4>4, <4>5, <4>6, <4>7
             DEF OnTrack, decoderState, store
        <4> QED
          BY <2>1, <4>1, <4>8 DEF Answered, decoderState
      <3>5. Wrote(d, t) => Wrote(source, tab)'
        BY <2>1 DEF Wrote
      <3>6. Kept(d, t)' => Kept(source, tab)'
        BY <3>1
      <3>7. Answered(d, t)' => Answered(source, tab)'
        BY <3>1
      <3> QED
        BY <2>1, <3>2, <3>3, <3>4, <3>5, <3>6, <3>7 DEF CodecInv, Staged
    <2> QED
      BY <2>2, <2>3, <2>4 DEF CodecInv
  <1>5. CASE Halt
    BY <1>4, <1>5 DEF Halt
  <1> QED
    BY <1>1, <1>2, <1>3, <1>4, <1>5 DEF Next

-----------------------------------------------------------------------------
(* What the invariant says of the answer.                                  *)

(* A file that was not changed in a byte is accepted on the track only,    *)
(* which leaves no damage.                                                 *)
LEMMA AcceptedOnTrack ==
    ASSUME CodecInv, result = "accepted", damage # "corrupted"
    PROVE  /\ damage = "none" /\ Wrote(source, tab) /\ OnTrack(source, tab)
  <1>1. pc = "done"
    BY DEF CodecInv, IInv, Standing
  <1>2. stage = "decode"
    BY <1>1 DEF CodecInv, Staged, Fresh
  <1> PICK d : d = source
    OBVIOUS
  <1> PICK t : t = tab
    OBVIOUS
  <1>3. Wrote(d, t) /\ Kept(d, t) /\ Answered(d, t) /\ IInv
    BY <1>2 DEF CodecInv, Staged
  <1>4. damage \in {"none", "truncated", "extended"}
    BY <1>1, <1>3, DamageAssumption DEF CodecInv, Staged, Answered
  <1>5. OnTrack(d, t)
    BY <1>3, <1>4, LostMeans DEF Answered
  <1>6. pos = Len(Marshal(d, t)) /\ Len(Marshal(d, t)) \in Nat
    BY <1>1, <1>3, <1>5, PartsStand DEF OnTrack, Stands
  <1>7. pos = Len(payload)
    BY <1>3 DEF Answered, Consumed
  <1>8. damage \notin {"truncated", "extended"}
    BY <1>3, <1>6, <1>7 DEF Kept, Short
  <1> QED
    BY <1>3, <1>4, <1>5, <1>8

(* So the other damages are detected.                                      *)
LEMMA DetectedOf == CodecInv => DamageDetected
  BY AcceptedOnTrack DEF DamageDetected

(* A file that was not damaged is accepted when Decode returns.            *)
LEMMA IntactAccepted ==
    ASSUME CodecInv, pc = "done", damage = "none"
    PROVE  result = "accepted"
  <1>1. stage = "decode"
    BY DEF CodecInv, Staged, Fresh
  <1> PICK d : d = source
    OBVIOUS
  <1> PICK t : t = tab
    OBVIOUS
  <1>2. Wrote(d, t) /\ file = EncodedFile(d, t) /\ Answered(d, t)
    BY <1>1 DEF CodecInv, Staged, Kept
  <1>3. Len(payload) = Len(Marshal(d, t)) /\ Len(payload) \in Nat
    BY <1>2, FileWritten
  <1>4. ~Lost(d, t) /\ ~Longer(d, t)
    BY <1>3 DEF Lost, Longer, Short
  <1>5. OnTrack(d, t)
    BY <1>2, <1>4 DEF Answered
  <1>6. result # "rejected"
    BY <1>5 DEF OnTrack
  <1> QED
    BY <1>6 DEF CodecInv, Returned, DecoderTypeOK

(* At the end of the track the store answers as the dataset would.         *)
LEMMA RoundTripOf == CodecInv => RoundTrip
  <1> SUFFICES ASSUME CodecInv, pc = "done", damage = "none"
               PROVE  /\ result = "accepted"
                      /\ Returns(source)
    BY Zenon DEF RoundTrip, Returns
  <1>1. result = "accepted"
    BY IntactAccepted
  <1>2. IInv /\ Wrote(source, tab) /\ OnTrack(source, tab)
    BY <1>1, AcceptedOnTrack DEF CodecInv
  <1> PICK t : t = tab
    OBVIOUS
  <1> QED
    BY <1>1, <1>2, BroughtBack

(* The codes are those the encoder let through.                            *)
LEMMA CodesOf == CodecInv => WrittenCodesFit
  <1> SUFFICES ASSUME CodecInv, pc = "done", damage = "none"
               PROVE  CodesFitWidth
    BY Zenon DEF WrittenCodesFit
  <1> PICK d : d = source
    OBVIOUS
  <1> PICK t : t = tab
    OBVIOUS
  <1>1. result = "accepted"
    BY IntactAccepted
  <1>2. IInv /\ Wrote(d, t) /\ OnTrack(d, t)
    BY <1>1, AcceptedOnTrack DEF CodecInv
  <1> QED
    BY <1>1, <1>2, CodesBack

(* The table is the one that was interned.                                 *)
LEMMA InternedOf == CodecInv => TableInterned
  <1> SUFFICES ASSUME CodecInv, pc = "done", damage = "none"
               PROVE  /\ Str(0) = <<>>
                      /\ \A i \in 1 .. numStrings - 1 : Precedes(Str(i - 1), Str(i))
    BY Zenon DEF TableInterned
  <1> PICK d : d = source
    OBVIOUS
  <1> PICK t : t = tab
    OBVIOUS
  <1>1. result = "accepted"
    BY IntactAccepted
  <1>2. IInv /\ Wrote(d, t) /\ OnTrack(d, t)
    BY <1>1, AcceptedOnTrack DEF CodecInv
  <1> QED
    BY <1>1, <1>2, TableBack

(* The invariant says more than the types.                                 *)
LEMMA TypeOf == CodecInv => TypeOK
  <1> SUFFICES ASSUME CodecInv PROVE TypeOK
    OBVIOUS
  <1>1. tab \in Seq(Seq(Byte))
    <2>1. CASE stage \in {"encode", "refused"}
      <3>1. tab = <<>>
        BY <2>1 DEF CodecInv, Staged
      <3> QED
        BY <3>1
    <2>2. CASE stage \notin {"encode", "refused"}
      <3> PICK t : t = tab
        OBVIOUS
      <3> PICK d : d = source
        OBVIOUS
      <3>1. Wrote(d, t)
        BY <2>2 DEF CodecInv, Staged, Stages
      <3> QED
        BY <3>1, BlobWrote
    <2> QED
      BY <2>1, <2>2
  <1> QED
    BY <1>1 DEF CodecInv, Staged, Stages, TypeOK, IInv, Standing

(* At every stage of its life a file holds no more and no less of what     *)
(* Encode wrote than its damage left, and the decoder is on the track of   *)
(* the encoder or on its way to refuse the file.                           *)
THEOREM Unbroken == Spec => []CodecInv
  BY InitStaged, NextStaged, PTL DEF Spec

(* The dataset, its table, the file and the decoder's variables keep their *)
(* types from the first step of Encode to the last of Decode.              *)
THEOREM WellTyped == Spec => []TypeOK
  BY Unbroken, TypeOf, PTL

(* Every dataset Encode accepts comes back whole from an undamaged file:   *)
(* the dates, every prefecture, and every field of every record, for any   *)
(* number of records and strings of any length (encode.go:23-26, 142-197,  *)
(* decode.go:110-228).                                                     *)
THEOREM BackWhole == Spec => []RoundTrip
  BY Unbroken, RoundTripOf, PTL

(* Every code Encode let through is read back within the width it is       *)
(* printed in (encode.go:75-78, format.go:56-62).                          *)
THEOREM CodesInWidth == Spec => []WrittenCodesFit
  BY Unbroken, CodesOf, PTL

(* The table that is read back lists each string once, in order, the empty *)
(* one first (encode.go:104-133).                                          *)
THEOREM Interned == Spec => []TableInterned
  BY Unbroken, InternedOf, PTL

(* A file with a wrong header, one that does not inflate, and one that was *)
(* cut or has a byte too many, wherever it was cut and whatever the byte,  *)
(* is never accepted (decode.go:85-108, 218-226).                          *)
THEOREM NeverTaken == Spec => []DamageDetected
  BY Unbroken, DetectedOf, PTL

(* What the decoder guarantees whatever the file holds of the files Encode *)
(* wrote and of what damage made of them (decode.go:59-67, 124-136,        *)
(* 194-205, 230-256).                                                      *)
THEOREM StoredToo ==
    Spec => [](ZipsSorted /\ AllocationsBounded /\ CheckedIndices /\ NotesReadable)
  <1>1. CodecInv => ZipsSorted /\ AllocationsBounded /\ CheckedIndices /\ NotesReadable
    BY IInvBounded, IInvChecked, IInvReadable DEF CodecInv, IInv, ZipsBuilt
  <1> QED
    BY <1>1, Unbroken, PTL

(* An error latched while a file Encode wrote is read is never forgotten,  *)
(* whatever happened to the file (decode.go:218-220, 321-333).             *)
THEOREM LatchedToo == Spec => ErrorIsFinal
  <1>1. CodecInv /\ [Next]_vars => [err => err' /\ result' # "accepted"]_decoderVars
    <2> SUFFICES ASSUME CodecInv, [Next]_vars
                 PROVE  [err => err' /\ result' # "accepted"]_decoderVars
      OBVIOUS
    <2>1. CASE Decode \/ UNCHANGED vars
      <3>1. [DecodeStep]_decoderVars
        BY <2>1 DEF Decode, vars
      <3> QED
        BY <3>1, ErrorStep DEF CodecInv
    <2>2. CASE stage # "decode"
      <3>1. ~err
        BY <2>2 DEF CodecInv, Staged, Fresh
      <3> QED
        BY <3>1
    <2>3. Decode \/ UNCHANGED vars \/ stage # "decode"
      BY DEF Next, EncodeRefuses, Intern, Write, Open, BreakHeader, BreakStream,
         Truncate, Extend, Corrupt, Damaged, Halt
    <2> QED
      BY <2>1, <2>2, <2>3
  <1> QED
    BY <1>1, Unbroken, PTL DEF Spec, ErrorIsFinal

(* Reading a file Encode wrote, damaged or not, comes to an end: each step *)
(* leaves fewer rows or fewer parts (decode.go:110-228).                   *)
THEOREM AdvancesToo == Spec => Advances
  <1>1. CodecInv /\ [Next]_vars => [Fewer]_decoderState
    <2> SUFFICES ASSUME CodecInv, [Next]_vars
                 PROVE  [Fewer]_decoderState
      OBVIOUS
    <2>1. CASE Decode
      BY <2>1, StepFewer DEF CodecInv, Decode
    <2>2. CASE ~Decode
      BY <2>2 DEF Next, EncodeRefuses, Intern, Write, Open, BreakHeader,
         BreakStream, Truncate, Extend, Corrupt, Damaged, Halt, vars, decoderVars
    <2> QED
      BY <2>1, <2>2
  <1> QED
    BY <1>1, Unbroken, PTL DEF Spec, Advances, Fewer
=============================================================================
