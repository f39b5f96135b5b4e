---------------------------- MODULE FormatProofs ----------------------------
(***************************************************************************)
(* The two sides of the format, each for itself.                           *)
(*                                                                         *)
(* First what Decode guarantees of the store it builds, whatever the file: *)
(* of any length, with any bytes, under any limits.  The file is any       *)
(* member of File, where the runs of MCCodec damage a few.                 *)
(*                                                                         *)
(* Then what Encode writes, for every dataset it accepts: varints that are *)
(* read as the numbers they were written for, a table that lists each      *)
(* string once and in order, and a payload that is its parts, and each     *)
(* part its rows, laid end to end.  CodecProofs puts the two together.     *)
(***************************************************************************)
EXTENDS Codec, Foundations

-----------------------------------------------------------------------------
(* The cursor. *)

(* A varint that is found is a number, and lies inside the buffer. *)
LEMMA UvarintInside ==
    ASSUME NEW buf, Len(buf) \in Nat, NEW p \in Nat
    PROVE  /\ UvarintAt(buf, p).v \in Nat
           /\ UvarintAt(buf, p).len \in Nat
           /\ UvarintAt(buf, p).ok => p + UvarintAt(buf, p).len <= Len(buf)
  <1> DEFINE lasts == {k \in 1 .. MaxVarintLen :
                         p + k <= Len(buf) /\ buf[p + k] < VarintBase}
             len == Min(lasts)
             value[k \in 0 .. len] ==
               IF k = 0 THEN 0
               ELSE value[k - 1] * VarintBase
                      + (buf[p + 1 + len - k] % VarintBase)
             v == value[len]
             u == UvarintAt(buf, p)
  <1>1. u = IF lasts # {} /\ v \in 0 .. VarintLimit - 1
            THEN [ok |-> TRUE, v |-> v, len |-> len]
            ELSE [ok |-> FALSE, v |-> 0, len |-> 0]
    BY DEF UvarintAt
  <1>2. lasts # {} => len \in lasts
    <2>1. lasts \subseteq Nat
      OBVIOUS
    <2> QED
      BY <2>1, LeastOf
  <1>3. VarintLimit \in Nat
    BY FormatAssumption
  <1> HIDE DEF v
  <1>4. CASE lasts # {} /\ v \in 0 .. VarintLimit - 1
    BY <1>1, <1>2, <1>3, <1>4
  <1>5. CASE ~(lasts # {} /\ v \in 0 .. VarintLimit - 1)
    BY <1>1, <1>5
  <1> QED
    BY <1>4, <1>5

(* A cursor that has read a number and stands inside the payload. *)
Inside(c) == c.v \in Nat /\ c.pos \in Nat /\ c.pos <= Len(payload)

(* A read that keeps the cursor inside, never back, and keeps its error.   *)
Reads(c, d) ==
    /\ Inside(d)
    /\ c.pos <= d.pos
    /\ c.err => d.err

(* A uvarint.                                                              *)
LEMMA UvarintReads ==
    ASSUME Len(payload) \in Nat, NEW c, c.pos \in Nat, c.pos <= Len(payload)
    PROVE  Reads(c, ReadUvarint(c))
  <1> DEFINE u == UvarintAt(payload, c.pos)
  <1>1. u.v \in Nat /\ u.len \in Nat /\ (u.ok => c.pos + u.len <= Len(payload))
    BY UvarintInside
  <1> HIDE DEF u
  <1>2. ReadUvarint(c) = IF c.err \/ ~u.ok THEN Failed(c)
                         ELSE [v |-> u.v, pos |-> c.pos + u.len, err |-> FALSE]
    BY DEF ReadUvarint, u
  <1> QED
    BY <1>1, <1>2 DEF Failed, Reads, Inside

(* A uvarint within a bound.                                               *)
LEMMA BoundedReads ==
    ASSUME Len(payload) \in Nat, NEW c, c.pos \in Nat, c.pos <= Len(payload),
           NEW max \in Nat
    PROVE  Reads(c, ReadBounded(c, max)) /\ ReadBounded(c, max).v <= max
  <1> DEFINE u == ReadUvarint(c)
  <1>1. Reads(c, u)
    BY UvarintReads
  <1>2. u.err => u.v = 0
    BY DEF ReadUvarint, Failed
  <1> HIDE DEF u
  <1>3. ReadBounded(c, max) = IF ~u.err /\ u.v > max THEN Failed(u) ELSE u
    BY DEF ReadBounded, u
  <1> QED
    BY <1>1, <1>2, <1>3 DEF Failed, Reads, Inside

(* A uvarint of 32 bits.                                                   *)
LEMMA Uvarint32Reads ==
    ASSUME Len(payload) \in Nat, NEW c, c.pos \in Nat, c.pos <= Len(payload)
    PROVE  Reads(c, ReadUvarint32(c))
  BY BoundedReads, FormatAssumption DEF ReadUvarint32

(* A byte.                                                                 *)
LEMMA ByteReads ==
    ASSUME payload \in Seq(Byte), NEW c, c.pos \in Nat, c.pos <= Len(payload)
    PROVE  Reads(c, ReadByte(c))
  <1>1. ASSUME c.pos < Len(payload)
        PROVE  payload[c.pos + 1] \in Nat
    <2>1. c.pos + 1 \in 1 .. Len(payload)
      BY <1>1
    <2>2. payload[c.pos + 1] \in Byte
      BY <2>1
    <2>3. Byte \subseteq Nat
      BY FormatAssumption DEF Byte
    <2> QED
      BY <2>2, <2>3
  <1> QED
    BY <1>1 DEF ReadByte, Failed, Reads, Inside

(* A signed varint. *)
LEMMA VarintReads ==
    ASSUME Len(payload) \in Nat, NEW c, c.pos \in Nat, c.pos <= Len(payload)
    PROVE  LET d == ReadVarint(c)
           IN  /\ d.v \in Int /\ d.pos \in Nat /\ d.pos <= Len(payload)
               /\ c.pos <= d.pos
               /\ c.err => d.err
  <1> DEFINE u == ReadUvarint(c)
  <1>1. Reads(c, u)
    BY UvarintReads
  <1>2. u = [v |-> u.v, pos |-> u.pos, err |-> u.err]
    BY DEF ReadUvarint, Failed
  <1>3. Zag(u.v) \in Int
    BY <1>1 DEF Zag, Reads, Inside
  <1> HIDE DEF u
  <1>4. ReadVarint(c) = [u EXCEPT !.v = Zag(u.v)]
    BY DEF ReadVarint, u
  <1>5. ReadVarint(c) = [v |-> Zag(u.v), pos |-> u.pos, err |-> u.err]
    BY <1>2, <1>4
  <1> QED
    BY <1>1, <1>3, <1>5 DEF Reads, Inside

(* The three references of a name. *)
LEMMA NameRefReads ==
    ASSUME Len(payload) \in Nat, NEW c, c.pos \in Nat, c.pos <= Len(payload)
    PROVE  LET d == ReadNameRef(c)
           IN  /\ d.v \in NameRefs /\ d.pos \in Nat /\ d.pos <= Len(payload)
               /\ c.pos <= d.pos
               /\ c.err => d.err
  <1> DEFINE kanji == ReadUvarint32(c)
             kana == ReadUvarint32(kanji)
             romaji == ReadUvarint32(kana)
  <1>1. Reads(c, kanji)
    BY Uvarint32Reads
  <1>2. Reads(kanji, kana)
    BY <1>1, Uvarint32Reads DEF Reads, Inside
  <1>3. Reads(kana, romaji)
    BY <1>2, Uvarint32Reads DEF Reads, Inside
  <1> HIDE DEF kanji, kana, romaji
  <1>4. ReadNameRef(c) =
          [v |-> [kanji |-> kanji.v, kana |-> kana.v, romaji |-> romaji.v],
           pos |-> romaji.pos, err |-> romaji.err]
    BY DEF ReadNameRef, kanji, kana, romaji
  <1> QED
    BY <1>1, <1>2, <1>3, <1>4 DEF Reads, Inside, NameRefs

(* Bytes of the payload, as many as asked for or none. *)
LEMMA BytesRead ==
    ASSUME payload \in Seq(Byte), NEW c, c.pos \in Nat, c.pos <= Len(payload),
           NEW len \in Nat
    PROVE  LET d == ReadBytes(c, len)
           IN  /\ d.v \in Seq(Byte) /\ Len(d.v) \in {0, len}
               /\ d.pos \in Nat /\ d.pos <= Len(payload)
               /\ c.pos <= d.pos
               /\ c.err => d.err
  <1>1. CASE c.err \/ c.pos + len > Len(payload)
    <2>1. ReadBytes(c, len) = [v |-> <<>>, pos |-> c.pos, err |-> TRUE]
      BY <1>1 DEF ReadBytes, Failed
    <2> QED
      BY <2>1
  <1>2. CASE ~(c.err \/ c.pos + len > Len(payload))
    <2> DEFINE s == SubSeq(payload, c.pos + 1, c.pos + len)
    <2>1. s \in Seq(Byte) /\ Len(s) = len
      BY <1>2, SMTT(60)
    <2> HIDE DEF s
    <2>2. ReadBytes(c, len) = [v |-> s, pos |-> c.pos + len, err |-> FALSE]
      BY <1>2 DEF ReadBytes, s
    <2> QED
      BY <1>2, <2>1, <2>2
  <1> QED
    BY <1>1, <1>2

-----------------------------------------------------------------------------
(* The cursor never leaves the payload, and never forgets an error. *)

(* The cursor of the decoder stands inside the payload.                    *)
LEMMA StandingCursor ==
    ASSUME Standing
    PROVE  /\ payload \in Seq(Byte) /\ Len(payload) \in Nat
           /\ Inside(Cursor) /\ Cursor.pos = pos /\ Cursor.err = err
  BY DEF Standing, File, payload, Cursor, Inside

(* The head of the string table.                                           *)
LEMMA TableReads ==
    ASSUME Standing
    PROVE  /\ Reads(Cursor, TableStrings)
           /\ Reads(TableStrings, TableBlob) /\ TableBlob.v <= MaxPayload
  <1>1. Reads(Cursor, TableStrings)
    BY StandingCursor, UvarintReads DEF TableStrings, Inside
  <1> QED
    BY <1>1, StandingCursor, BoundedReads, FormatAssumption
       DEF TableBlob, Reads, Inside

(* A string of the table.                                                  *)
LEMMA StringReads ==
    ASSUME Standing, blobLen \in Nat
    PROVE  /\ Reads(Cursor, Prefix) /\ Prefix.v <= blobLen
           /\ Reads(Prefix, Suffix)
           /\ LET d == ReadBytes(Suffix, Suffix.v)
              IN  /\ d.v \in Seq(Byte) /\ Len(d.v) \in {0, Suffix.v}
                  /\ d.pos \in Nat /\ d.pos <= Len(payload) /\ pos <= d.pos
                  /\ err => d.err
  <1>1. Reads(Cursor, Prefix) /\ Prefix.v <= blobLen
    BY StandingCursor, BoundedReads DEF Prefix, Inside
  <1>2. Reads(Prefix, Suffix)
    BY <1>1, StandingCursor, UvarintReads DEF Suffix, Reads, Inside
  <1> DEFINE d == ReadBytes(Suffix, Suffix.v)
  <1>3. /\ d.v \in Seq(Byte) /\ Len(d.v) \in {0, Suffix.v}
        /\ d.pos \in Nat /\ d.pos <= Len(payload)
        /\ Suffix.pos <= d.pos
        /\ Suffix.err => d.err
    BY <1>2, StandingCursor, BytesRead DEF Reads, Inside
  <1> HIDE DEF d
  <1>4. pos <= d.pos /\ (err => d.err)
    BY <1>1, <1>2, <1>3, StandingCursor DEF Reads, Inside, Standing
  <1> QED
    BY <1>1, <1>2, <1>3, <1>4 DEF d

(* A value of a notes column.                                              *)
LEMMA ValueReads ==
    ASSUME Standing, n \in Nat
    PROVE  /\ Reads(Cursor, ValueGap) /\ ValueGap.v <= n
           /\ Reads(ValueGap, ValueId)
  <1>1. Reads(Cursor, ValueGap) /\ ValueGap.v <= n
    BY StandingCursor, BoundedReads DEF ValueGap, Inside
  <1> QED
    BY <1>1, StandingCursor, Uvarint32Reads DEF ValueId, Reads, Inside

(* One row further, or as far: the counts only have to be numbers. *)
LEMMA StepForward ==
    ASSUME Standing, blobLen \in Nat, n \in Nat, DecodeStep
    PROVE  /\ pos' \in Nat /\ pos' <= Len(payload) /\ pos <= pos'
           /\ err => err'
  <1> DEFINE Forward == /\ pos' \in Nat /\ pos' <= Len(payload) /\ pos <= pos'
                        /\ err => err'
  <1>1. ASSUME NEW c, Reads(Cursor, c), Advance(c) PROVE Forward
    BY <1>1, StandingCursor DEF Reads, Inside, Advance
  <1>2. ASSUME UNCHANGED <<pos, err>> PROVE Forward
    BY <1>2 DEF Standing, File, payload
  <1>3. CASE ReadDates
    <2> DEFINE kenAll == ReadVarint(Cursor)
               rome == ReadVarint(kenAll)
    <2>1. kenAll.pos \in Nat /\ kenAll.pos <= Len(payload) /\ pos <= kenAll.pos
          /\ (err => kenAll.err)
      BY StandingCursor, VarintReads DEF Inside
    <2>2. rome.pos \in Nat /\ rome.pos <= Len(payload) /\ kenAll.pos <= rome.pos
          /\ (kenAll.err => rome.err)
      BY <2>1, StandingCursor, VarintReads
    <2>3. pos' = rome.pos /\ err' = rome.err
      BY <1>3 DEF ReadDates, Advance
    <2> HIDE DEF kenAll, rome
    <2> QED
      BY <2>1, <2>2, <2>3 DEF Standing
  <1>4. CASE ReadTable
    <2>1. Reads(Cursor, TableBlob)
      BY TableReads DEF Reads, Inside, Cursor, Standing
    <2> QED
      BY <1>1, <1>4, <2>1 DEF ReadTable
  <1>5. CASE ReadString
    <2>1. Advance(ReadBytes(Suffix, Suffix.v))
      BY <1>5 DEF ReadString
    <2> QED
      BY <2>1, StringReads DEF Advance
  <1>6. CASE ReadPrefecture
    <2>1. Advance(ReadNameRef(Cursor))
      BY <1>6 DEF ReadPrefecture
    <2> QED
      BY <2>1, StandingCursor, NameRefReads DEF Advance, Inside
  <1>7. ASSUME Advance(ReadUvarint(Cursor)) \/ Advance(Failed(ReadUvarint(Cursor)))
        PROVE  Forward
    <2>1. Reads(Cursor, ReadUvarint(Cursor))
      BY StandingCursor, UvarintReads DEF Inside
    <2>2. Reads(Cursor, Failed(ReadUvarint(Cursor)))
      BY <2>1 DEF Reads, Inside, Failed
    <2> QED
      BY <1>1, <1>7, <2>1, <2>2
  <1>8. CASE ReadCity
    <2> DEFINE jis == ReadUvarint32(Cursor)
               pref == ReadByte(jis)
               name == ReadNameRef(pref)
    <2>1. Reads(Cursor, jis)
      BY StandingCursor, Uvarint32Reads DEF Inside
    <2>2. Reads(jis, pref)
      BY <2>1, StandingCursor, ByteReads DEF Reads, Inside
    <2>3. name.pos \in Nat /\ name.pos <= Len(payload) /\ pref.pos <= name.pos
          /\ (pref.err => name.err)
      BY <2>2, StandingCursor, NameRefReads DEF Reads, Inside
    <2>4. pos' = name.pos /\ err' = name.err
      BY <1>8 DEF ReadCity, Advance
    <2> HIDE DEF jis, pref, name
    <2> QED
      BY <2>1, <2>2, <2>3, <2>4, StandingCursor DEF Reads, Inside, Standing
  <1>9. CASE ReadZip
    <2>1. Advance(ReadUvarint32(Cursor))
      BY <1>9 DEF ReadZip
    <2> QED
      BY <1>1, <2>1, StandingCursor, Uvarint32Reads DEF Inside
  <1>10. CASE ReadDelta
    <2> DEFINE delta == ReadVarint(Cursor)
    <2>1. delta.pos \in Nat /\ delta.pos <= Len(payload) /\ pos <= delta.pos
          /\ (err => delta.err)
      BY StandingCursor, VarintReads DEF Inside
    <2>2. Advance(delta) \/ Advance(Failed(delta))
      BY <1>10 DEF ReadDelta
    <2> HIDE DEF delta
    <2> QED
      BY <2>1, <2>2 DEF Advance, Failed
  <1>11. ASSUME Advance(ValueId) \/ Advance(Failed(ValueId)) PROVE Forward
    <2>1. Reads(Cursor, ValueId) /\ Reads(Cursor, Failed(ValueId))
      BY ValueReads DEF Reads, Inside, Failed, Cursor, Standing
    <2> QED
      BY <1>1, <1>11, <2>1
  <1>12. CASE ReadFlags
    <2>1. Advance(ReadByte(Cursor))
      BY <1>12 DEF ReadFlags
    <2> QED
      BY <1>1, <2>1, StandingCursor, ByteReads DEF Inside
  <1>13. CASE ReadHeader \/ RejectHeader \/ RejectTable \/ RejectString
              \/ EndStrings \/ RejectStrings \/ RejectCityCount
              \/ RejectRecordCount \/ RejectZip \/ EndZips \/ EndDelta
              \/ EndValues \/ Accept \/ RejectStore
    BY <1>2, <1>13 DEF ReadHeader, RejectHeader, RejectTable, RejectString,
       EndStrings, RejectStrings, RejectCityCount, RejectRecordCount,
       RejectZip, EndZips, EndDelta, EndValues, Accept, RejectStore, Reject
  <1>14. CASE ReadCityCount \/ ReadRecordCount \/ SkipSparse \/ FailSparse
              \/ ReadSparse
    BY <1>7, <1>14 DEF ReadCityCount, ReadRecordCount, SkipSparse, FailSparse,
       ReadSparse
  <1>15. CASE ReadValue \/ FailValue
    BY <1>11, <1>15 DEF ReadValue, FailValue
  <1> QED
    BY <1>3, <1>4, <1>5, <1>6, <1>8, <1>9, <1>10, <1>12, <1>13, <1>14, <1>15
       DEF DecodeStep, ReadStep

-----------------------------------------------------------------------------
(* Each part of the store is written by one part of unmarshal. *)
LEMMA WhatMoves ==
    ASSUME DecodeStep
    PROVE  /\ ReadTable \/ UNCHANGED <<numStrings, blobLen>>
           /\ ReadString \/ EndStrings \/ UNCHANGED <<blob, strOff>>
           /\ ReadPrefecture \/ UNCHANGED prefs
           /\ ReadCityCount \/ UNCHANGED numCities
           /\ ReadCity \/ UNCHANGED cities
           /\ ReadRecordCount \/ UNCHANGED n
           /\ ReadZip \/ UNCHANGED zips
           /\ ReadDelta \/ UNCHANGED columns
           /\ ReadSparse \/ ReadValue \/ EndValues \/ UNCHANGED notes
           /\ UNCHANGED file
  <1> USE DEF Reject, sizes, store, table
  <1>1. CASE ReadHeader \/ RejectHeader \/ ReadDates \/ ReadTable \/ RejectTable
             \/ ReadString \/ RejectString \/ EndStrings \/ RejectStrings
    BY <1>1 DEF ReadHeader, RejectHeader, ReadDates, ReadTable, RejectTable,
       ReadString, RejectString, EndStrings, RejectStrings, DecodeStep
  <1>2. CASE ReadPrefecture \/ ReadCityCount \/ RejectCityCount \/ ReadCity
             \/ ReadRecordCount \/ RejectRecordCount \/ ReadZip \/ RejectZip
             \/ EndZips
    BY <1>2 DEF ReadPrefecture, ReadCityCount, RejectCityCount, ReadCity,
       ReadRecordCount, RejectRecordCount, ReadZip, RejectZip, EndZips,
       DecodeStep
  <1>3. CASE ReadDelta \/ EndDelta \/ SkipSparse \/ FailSparse \/ ReadSparse
             \/ ReadValue \/ FailValue \/ EndValues \/ ReadFlags \/ Accept
             \/ RejectStore
    BY <1>3 DEF ReadDelta, EndDelta, SkipSparse, FailSparse, ReadSparse,
       ReadValue, FailValue, EndValues, ReadFlags, Accept, RejectStore,
       DecodeStep
  <1> QED
    BY <1>1, <1>2, <1>3 DEF DecodeStep, ReadStep

(* The columns, by name.                                                   *)
LEMMA ColumnNames ==
    DOMAIN ColumnsBefore = DeltaColumns \cup SparseColumns \cup {"flags"}
  BY DEF ColumnsBefore, DeltaColumns, SparseColumns

(* From a column to the next, and to the part that reads it. *)
LEMMA LeaveTo ==
    ASSUME Leave, column \in DeltaColumns \cup SparseColumns
    PROVE  /\ result' = result /\ column' = NextColumn[column]
           /\ \/ column' \in DeltaColumns /\ pc' = "delta"
              \/ column' \in SparseColumns /\ pc' = "sparse"
              \/ column' = "flags" /\ pc' = "flags"
  <1>1. column' = NextColumn[column] /\ result' = result
    BY DEF Leave, Goto
  <1>2. column' \in DeltaColumns \cup SparseColumns \cup {"flags"}
    BY <1>1 DEF NextColumn, DeltaColumns, SparseColumns
  <1>3. pc' = CASE column' \in DeltaColumns -> "delta"
                [] column' \in SparseColumns -> "sparse"
                [] column' = "flags" -> "flags"
    BY DEF Leave, Goto
  <1>4. CASE column' \in DeltaColumns
    <2>1. column' \notin SparseColumns /\ column' # "flags"
      BY <1>4 DEF DeltaColumns, SparseColumns
    <2> QED
      BY <1>1, <1>3, <1>4, <2>1
  <1>5. CASE column' \in SparseColumns
    <2>1. column' \notin DeltaColumns /\ column' # "flags"
      BY <1>5 DEF DeltaColumns, SparseColumns
    <2> QED
      BY <1>1, <1>3, <1>5, <2>1
  <1>6. CASE column' = "flags"
    <2>1. column' \notin DeltaColumns /\ column' \notin SparseColumns
      BY <1>6 DEF DeltaColumns, SparseColumns
    <2> QED
      BY <1>1, <1>3, <1>6, <2>1
  <1> QED
    BY <1>2, <1>4, <1>5, <1>6

(* Where each step goes, and which one accepts.                            *)
LEMMA WhereTo ==
    ASSUME AtColumn, DecodeStep
    PROVE  /\ pc # "done"
           /\ pc' \in {"header", "dates", "table"} => pc \in {"header", "dates"}
           /\ pc' = "strings" => ReadTable \/ ReadString
           /\ pc' = "prefs" => EndStrings \/ ReadPrefecture
           /\ pc' = "cities" => ReadCityCount \/ ReadCity
           /\ pc' = "zips" => ReadRecordCount \/ ReadZip
           /\ pc' \in Reading => pc \in Reading \/ EndZips
           /\ pc \in Reading => pc' \in Reading \cup {"done"}
           /\ pc = "zips" => ReadZip \/ pc' \in {"delta", "done"}
           /\ result' = "accepted" => Accept \/ result = "accepted"
  <1> USE DEF Reject, Goto, Reading
  <1>1. CASE ReadHeader \/ RejectHeader \/ ReadDates \/ ReadTable \/ RejectTable
             \/ ReadString \/ RejectString \/ EndStrings \/ RejectStrings
    BY <1>1 DEF ReadHeader, RejectHeader, ReadDates, ReadTable, RejectTable,
       ReadString, RejectString, EndStrings, RejectStrings
  <1>2. CASE ReadPrefecture \/ ReadCityCount \/ RejectCityCount \/ ReadCity
             \/ ReadRecordCount \/ RejectRecordCount \/ ReadZip \/ RejectZip
             \/ EndZips
    BY <1>2 DEF ReadPrefecture, ReadCityCount, RejectCityCount, ReadCity,
       ReadRecordCount, RejectRecordCount, ReadZip, RejectZip, EndZips
  <1>3. CASE ReadDelta \/ EndDelta \/ SkipSparse \/ FailSparse \/ ReadSparse
             \/ ReadValue \/ FailValue \/ EndValues \/ ReadFlags \/ Accept
             \/ RejectStore
    <2>1. pc \in Reading /\ (Accept \/ result' # "accepted" \/ result' = result)
      BY <1>3 DEF Leave, ReadDelta, EndDelta, SkipSparse, FailSparse, ReadSparse,
         ReadValue, FailValue, EndValues, ReadFlags, Accept, RejectStore
    <2>2. ASSUME Leave, pc \in {"delta", "sparse", "values"}
          PROVE  pc' \in Reading
      BY <2>2, LeaveTo DEF AtColumn
    <2>3. pc' \in Reading \cup {"done"}
      BY <1>3, <2>2 DEF ReadDelta, EndDelta, SkipSparse, FailSparse, ReadSparse,
         ReadValue, FailValue, EndValues, ReadFlags, Accept, RejectStore
    <2> QED
      BY <2>1, <2>3
  <1> QED
    BY <1>1, <1>2, <1>3 DEF DecodeStep, ReadStep

-----------------------------------------------------------------------------
(* Each part of the invariant, over one row. *)

(* A count is bounded by the payload when it is read.                      *)
LEMMA CountsStep ==
    ASSUME IInv, DecodeStep
    PROVE  CountsBounded'
  <1>1. Standing /\ CountsBounded /\ payload' = payload /\ Len(payload) \in Nat
    BY WhatMoves, StandingCursor DEF IInv, payload
  <1>2. ASSUME ~Refused(ReadUvarint(Cursor))
        PROVE  /\ ReadUvarint(Cursor).v \in Nat
               /\ ReadUvarint(Cursor).v <= Len(payload)
    <2>1. Reads(Cursor, ReadUvarint(Cursor))
      BY <1>1, StandingCursor, UvarintReads DEF Inside
    <2> QED
      BY <1>1, <1>2, <2>1 DEF Refused, TooMany, Reads, Inside
  <1>3. /\ {numStrings', blobLen'} \subseteq Nat
        /\ numStrings' <= blobLen' + 1
        /\ numStrings' <= Len(payload)
        /\ blobLen' <= MaxPayload
    <2>1. CASE ReadTable
      <3>1. TableOK /\ numStrings' = TableStrings.v /\ blobLen' = TableBlob.v
        BY <2>1 DEF ReadTable
      <3>2. Reads(Cursor, TableStrings) /\ Reads(TableStrings, TableBlob)
            /\ TableBlob.v <= MaxPayload
        BY <1>1, TableReads
      <3>3. TableStrings.v <= Len(payload) /\ TableStrings.v <= TableBlob.v + 1
        BY <1>1, <3>1, <3>2 DEF TableOK, Refused, TooMany, Reads, Inside
      <3> QED
        BY <3>1, <3>2, <3>3 DEF Reads, Inside
    <2>2. CASE UNCHANGED <<numStrings, blobLen>>
      BY <1>1, <2>2 DEF CountsBounded
    <2> QED
      BY <2>1, <2>2, WhatMoves
  <1>4. numCities' \in Nat /\ numCities' <= Len(payload)
    BY <1>1, <1>2, WhatMoves DEF CountsBounded, ReadCityCount
  <1>5. n' \in Nat /\ n' <= Len(payload)
    BY <1>1, <1>2, WhatMoves DEF CountsBounded, ReadRecordCount
  <1> QED
    BY <1>1, <1>3, <1>4, <1>5 DEF CountsBounded

(* Three sequences appended to one another.                                *)
LEMMA ConcatTwice ==
    ASSUME NEW S, NEW s \in Seq(S), NEW t \in Seq(S), NEW u \in Seq(S)
    PROVE  /\ s \o t \o u \in Seq(S)
           /\ Len(s \o t \o u) = Len(s) + Len(t) + Len(u)
  <1>1. s \o t \in Seq(S) /\ Len(s \o t) = Len(s) + Len(t)
    OBVIOUS
  <1> QED
    BY <1>1

(* A string is appended to the blob: its shared prefix, and its own bytes. *)
LEMMA StringStep ==
    ASSUME IInv, ReadString
    PROVE  /\ blob' \in Seq(Byte) /\ Len(blob) <= Len(blob')
           /\ Len(blob') <= blobLen
           /\ strOff' = Append(strOff, Len(blob))
           /\ Len(strOff) < numStrings /\ pc' = "strings"
  <1> DEFINE bytes == ReadBytes(Suffix, Suffix.v)
             shared == SubSeq(PreviousString, 1, Prefix.v)
             own == bytes.v
  <1>1. /\ Standing /\ {numStrings, blobLen} \subseteq Nat
        /\ blob \in Seq(Byte) /\ strOff \in Seq(0 .. Len(blob))
    BY DEF IInv, CountsBounded, TableBuilt
  <1>2. /\ StringOK /\ strOff' = Append(strOff, Len(blob))
        /\ blob' = blob \o shared \o own
        /\ Len(strOff) < numStrings /\ pc' = "strings"
    BY DEF ReadString, Goto
  <1>3. PreviousString \in Seq(Byte)
    <2>1. CASE strOff = <<>>
      BY <2>1 DEF PreviousString
    <2>2. CASE strOff # <<>>
      <3>1. strOff[Len(strOff)] \in 0 .. Len(blob)
        BY <1>1, <2>2
      <3> QED
        BY <1>1, <2>2, <3>1 DEF PreviousString
    <2> QED
      BY <2>1, <2>2
  <1>4. /\ Prefix.v \in Nat /\ Suffix.v \in Nat
        /\ own \in Seq(Byte) /\ Len(own) \in {0, Suffix.v}
    BY <1>1, StringReads DEF Reads, Inside
  <1>5. shared \in Seq(Byte) /\ Len(shared) = Prefix.v
    <2>1. Prefix.v <= Len(PreviousString)
      BY <1>2 DEF StringOK
    <2> QED
      BY <1>3, <1>4, <2>1
  <1>6. Len(blob) + Prefix.v + Suffix.v <= blobLen
    BY <1>2 DEF StringOK
  <1> HIDE DEF bytes, shared, own
  <1>7. /\ blob' \in Seq(Byte)
        /\ Len(blob') = Len(blob) + Len(shared) + Len(own)
    <2>1. /\ blob \o shared \o own \in Seq(Byte)
          /\ Len(blob \o shared \o own) = Len(blob) + Len(shared) + Len(own)
      <3>1. blob \in Seq(Byte) /\ shared \in Seq(Byte) /\ own \in Seq(Byte)
        BY <1>1, <1>4, <1>5
      <3>2. \A s, t, u \in Seq(Byte) :
               /\ s \o t \o u \in Seq(Byte)
               /\ Len(s \o t \o u) = Len(s) + Len(t) + Len(u)
        BY ConcatTwice
      <3> QED
        BY <3>1, <3>2, Zenon
    <2> QED
      BY <1>2, <2>1
  <1>8. Len(blob) \in Nat /\ blobLen \in Nat
    BY <1>1
  <1>9. Len(blob) <= Len(blob') /\ Len(blob') <= blobLen
    <2>1. CASE Len(own) = 0
      BY <1>4, <1>5, <1>6, <1>7, <1>8, <2>1
    <2>2. CASE Len(own) = Suffix.v
      BY <1>4, <1>5, <1>6, <1>7, <1>8, <2>2
    <2> QED
      BY <1>4, <2>1, <2>2
  <1> QED
    BY <1>2, <1>7, <1>9

(* The offsets stay in order when the next one is appended. *)
LEMMA OffsetsStep ==
    ASSUME IInv, strOff' = Append(strOff, Len(blob)), NEW b \in Nat,
           Len(blob) <= b
    PROVE  /\ strOff' \in Seq(0 .. b)
           /\ Len(strOff') = Len(strOff) + 1
           /\ \A i \in 1 .. Len(strOff') - 1 : strOff'[i] <= strOff'[i + 1]
  <1>1. blob \in Seq(Byte) /\ strOff \in Seq(0 .. Len(blob))
        /\ \A i \in 1 .. Len(strOff) - 1 : strOff[i] <= strOff[i + 1]
    BY DEF IInv, TableBuilt
  <1>2. Len(blob) \in 0 .. b
    BY <1>1
  <1>3. strOff \in Seq(0 .. b)
    BY <1>1, <1>2
  <1>4. strOff' \in Seq(0 .. b) /\ Len(strOff') = Len(strOff) + 1
    BY <1>2, <1>3
  <1>5. ASSUME NEW i \in 1 .. Len(strOff) PROVE strOff'[i] <= strOff'[i + 1]
    <2>1. CASE i = Len(strOff)
      BY <1>1, <1>2, <2>1
    <2>2. CASE i # Len(strOff)
      BY <1>1, <2>2
    <2> QED
      BY <2>1, <2>2
  <1> QED
    BY <1>1, <1>4, <1>5

(* The table that is built is in order, and as long as what was read of    *)
(* it.                                                                     *)
LEMMA TableStep ==
    ASSUME IInv, DecodeStep
    PROVE  TableBuilt'
  <1>1. TableBuilt /\ AtColumn /\ CountsBounded
    BY DEF IInv
  <1>2. CASE ReadString
    <2>1. /\ blob' \in Seq(Byte) /\ Len(blob') \in Nat /\ Len(blob) <= Len(blob')
          /\ Len(blob') <= blobLen
          /\ strOff' = Append(strOff, Len(blob))
          /\ Len(strOff) < numStrings /\ pc' = "strings"
      BY <1>2, StringStep
    <2>2. /\ strOff' \in Seq(0 .. Len(blob'))
          /\ Len(strOff') = Len(strOff) + 1
          /\ \A i \in 1 .. Len(strOff') - 1 : strOff'[i] <= strOff'[i + 1]
      BY <2>1, OffsetsStep
    <2>3. UNCHANGED <<numStrings, blobLen, result>> /\ result # "accepted"
      BY <1>2 DEF ReadString, Goto, sizes, IInv, Standing
    <2>4. Len(strOff') <= numStrings
      BY <1>1, <2>1, <2>2 DEF TableBuilt, CountsBounded
    <2> QED
      BY <2>1, <2>2, <2>3, <2>4 DEF TableBuilt, ReadPast, Reading
  <1>3. CASE EndStrings
    <2>1. /\ blob' = blob /\ strOff' = Append(strOff, Len(blob))
          /\ Len(strOff) = numStrings /\ pc' = "prefs"
          /\ UNCHANGED <<numStrings, blobLen>>
      BY <1>3 DEF EndStrings, Goto, sizes
    <2>2. Len(blob) \in Nat
      BY <1>1 DEF TableBuilt
    <2>3. /\ strOff' \in Seq(0 .. Len(blob))
          /\ Len(strOff') = Len(strOff) + 1
          /\ \A i \in 1 .. Len(strOff') - 1 : strOff'[i] <= strOff'[i + 1]
      BY <2>1, <2>2, OffsetsStep
    <2> QED
      BY <1>1, <2>1, <2>3 DEF TableBuilt, ReadPast
  <1>4. CASE ReadTable
    <2>1. /\ UNCHANGED <<blob, strOff, result>> /\ pc' = "strings" /\ pc = "table"
          /\ numStrings' \in Nat /\ blobLen' \in Nat /\ result # "accepted"
      BY <1>4, CountsStep DEF ReadTable, Goto, store, CountsBounded, IInv, Standing
    <2>2. blob' = <<>> /\ strOff' = <<>>
      BY <1>1, <2>1 DEF TableBuilt
    <2>3. Len(blob') = 0 /\ Len(strOff') = 0
      BY <2>2
    <2>4. Len(blob') <= blobLen' /\ Len(strOff') <= numStrings'
      BY <2>1, <2>3
    <2>5. blob' \in Seq(Byte) /\ strOff' \in Seq(0 .. Len(blob'))
      BY <2>2
    <2>6. \A i \in 1 .. Len(strOff') - 1 : strOff'[i] <= strOff'[i + 1]
      BY <2>3
    <2>7. ~ReadPast({"prefs", "cities", "zips"})'
      BY <2>1 DEF ReadPast, Reading
    <2> QED
      BY <2>1, <2>4, <2>5, <2>6, <2>7 DEF TableBuilt
  <1>5. CASE UNCHANGED <<numStrings, blobLen, blob, strOff>>
             /\ ~ReadString /\ ~EndStrings /\ ~ReadTable
    <2>1. pc' \in {"header", "dates", "table"} => pc \in {"header", "dates"}
      BY <1>1, WhereTo
    <2>2. pc' # "strings"
      BY <1>1, <1>5, WhereTo
    <2>3. ReadPast({"prefs", "cities", "zips"})' => ReadPast({"prefs", "cities", "zips"})
      BY <1>1, <1>5, WhereTo DEF ReadPast, ReadPrefecture, ReadCityCount, ReadCity,
         ReadRecordCount, ReadZip, EndZips, Accept, Reading
    <2> QED
      BY <1>1, <1>5, <2>1, <2>2, <2>3 DEF TableBuilt
  <1> QED
    BY <1>2, <1>3, <1>4, <1>5, WhatMoves

(* So are the prefectures and the cities.                                  *)
LEMMA NamesStep ==
    ASSUME IInv, DecodeStep
    PROVE  NamesBuilt'
  <1>1. NamesBuilt /\ AtColumn /\ Standing /\ PrefectureCount \in Nat
    BY FormatAssumption DEF IInv
  <1>2. prefs' \in Seq(NameRefs) /\ Len(prefs') <= PrefectureCount
    <2>1. CASE ReadPrefecture
      <3>1. ReadNameRef(Cursor).v \in NameRefs
        BY <1>1, StandingCursor, NameRefReads DEF Inside
      <3>2. prefs' = Append(prefs, ReadNameRef(Cursor).v)
            /\ Len(prefs) < PrefectureCount
        BY <2>1 DEF ReadPrefecture
      <3> QED
        BY <1>1, <3>1, <3>2 DEF NamesBuilt
    <2>2. CASE UNCHANGED prefs
      BY <1>1, <2>2 DEF NamesBuilt
    <2> QED
      BY <2>1, <2>2, WhatMoves
  <1>3. cities' \in Seq([jis : Nat, pref : Nat, name : NameRefs])
    <2>1. CASE ReadCity
      <3> DEFINE jis == ReadUvarint32(Cursor)
                 pref == ReadByte(jis)
                 name == ReadNameRef(pref)
      <3>1. Reads(Cursor, jis)
        BY <1>1, StandingCursor, Uvarint32Reads DEF Inside
      <3>2. Reads(jis, pref)
        BY <1>1, <3>1, StandingCursor, ByteReads DEF Reads, Inside
      <3>3. name.v \in NameRefs
        BY <1>1, <3>2, StandingCursor, NameRefReads DEF Reads, Inside
      <3>4. cities' = Append(cities, [jis |-> jis.v, pref |-> pref.v,
                                      name |-> name.v])
        BY <2>1 DEF ReadCity
      <3> HIDE DEF jis, pref, name
      <3>5. [jis |-> jis.v, pref |-> pref.v, name |-> name.v]
               \in [jis : Nat, pref : Nat, name : NameRefs]
        BY <3>1, <3>2, <3>3 DEF Reads, Inside
      <3> QED
        BY <1>1, <3>4, <3>5 DEF NamesBuilt
    <2>2. CASE UNCHANGED cities
      BY <1>1, <2>2 DEF NamesBuilt
    <2> QED
      BY <2>1, <2>2, WhatMoves
  <1>4. ASSUME ReadPast({"cities", "zips"})' PROVE Len(prefs') = PrefectureCount
    <2>1. CASE ReadPrefecture
      BY <1>1, <1>4, <2>1 DEF ReadPrefecture, Goto, ReadPast, Reading, Standing
    <2>2. CASE UNCHANGED prefs /\ ~ReadPrefecture
      <3>1. ReadPast({"cities", "zips"}) \/ ReadCityCount
        BY <1>1, <1>4, WhereTo DEF ReadPast, ReadCity, ReadRecordCount,
           ReadZip, EndZips, Accept, Reading
      <3> QED
        BY <1>1, <2>2, <3>1 DEF NamesBuilt, ReadCityCount
    <2> QED
      BY <2>1, <2>2, WhatMoves
  <1> QED
    BY <1>2, <1>3, <1>4 DEF NamesBuilt

Sorted(s) == \A i, j \in 1 .. Len(s) : i <= j => s[i] <= s[j]

(* A sorted sequence stays sorted when nothing less is appended.           *)
LEMMA SortedAppend ==
    ASSUME NEW max \in Nat, NEW s \in Seq(0 .. max), Sorted(s),
           NEW z \in 0 .. max, LastOf(s) <= z
    PROVE  /\ Append(s, z) \in Seq(0 .. max)
           /\ Len(Append(s, z)) = Len(s) + 1
           /\ Sorted(Append(s, z))
  <1> DEFINE t == Append(s, z)
  <1>1. t \in Seq(0 .. max) /\ Len(t) = Len(s) + 1 /\ Len(s) \in Nat
    OBVIOUS
  <1>2. \A k \in 1 .. Len(s) : t[k] = s[k] /\ s[k] \in 0 .. max
    OBVIOUS
  <1>3. t[Len(s) + 1] = z
    OBVIOUS
  <1>4. ASSUME NEW k \in 1 .. Len(s) PROVE s[k] <= z
    <2>1. Len(s) \in 1 .. Len(s) /\ k <= Len(s) /\ s # <<>>
      BY <1>1, <1>4
    <2>2. s[k] <= s[Len(s)] /\ LastOf(s) = s[Len(s)]
      BY <2>1 DEF Sorted, LastOf
    <2>3. s[k] \in Nat /\ s[Len(s)] \in Nat
      BY <1>2, <2>1
    <2> QED
      BY <2>2, <2>3
  <1> HIDE DEF t
  <1>5. ASSUME NEW i \in 1 .. Len(t), NEW j \in 1 .. Len(t), i <= j
        PROVE  t[i] <= t[j]
    <2>1. CASE j <= Len(s)
      <3>1. i \in 1 .. Len(s) /\ j \in 1 .. Len(s)
        BY <1>1, <1>5, <2>1
      <3> QED
        BY <1>2, <1>5, <3>1 DEF Sorted
    <2>2. CASE j = Len(s) + 1 /\ i <= Len(s)
      <3>1. i \in 1 .. Len(s)
        BY <1>1, <1>5, <2>2
      <3> QED
        BY <1>2, <1>3, <1>4, <2>2, <3>1
    <2>3. CASE j = Len(s) + 1 /\ i = Len(s) + 1
      BY <1>3, <2>3
    <2> QED
      BY <1>1, <1>5, <2>1, <2>2, <2>3
  <1>6. Sorted(t)
    BY <1>5 DEF Sorted
  <1> QED
    BY <1>1, <1>6 DEF t

(* The elements of a sequence.                                             *)
LEMMA Elements ==
    \A T : \A s \in Seq(T) :
        DOMAIN s = 1 .. Len(s) /\ \A i \in DOMAIN s : s[i] \in T
  OBVIOUS

(* The property, in the form the proof uses.                               *)
LEMMA ZipsSortedMeans ==
    ASSUME zips \in Seq(0 .. MaxZip)
    PROVE  ZipsSorted <=> Sorted(zips)
  <1>1. DOMAIN zips = 1 .. Len(zips)
        /\ \A i \in DOMAIN zips : zips[i] \in 0 .. MaxZip
    BY Elements
  <1> QED
    BY <1>1, Zenon DEF ZipsSorted, Sorted

(* The last element is one of the elements, or none.                       *)
LEMMA LastIn ==
    ASSUME NEW max \in Nat, NEW s \in Seq(0 .. max)
    PROVE  LastOf(s) \in 0 .. max
  BY DEF LastOf

(* A zip code is the one before it and a difference that is not negative. *)
LEMMA ZipsStep ==
    ASSUME IInv, DecodeStep
    PROVE  ZipsBuilt'
  <1>1. ZipsBuilt /\ AtColumn /\ Standing /\ CountsBounded /\ MaxZip \in Nat
    BY FormatAssumption DEF IInv
  <1>2. CASE ReadZip
    <2> DEFINE c == ReadUvarint32(Cursor)
               z == NextZip(c)
    <2>1. c.v \in Nat
      BY <1>1, StandingCursor, Uvarint32Reads DEF Inside, Reads
    <2>2. /\ zips' = Append(zips, z) /\ z <= MaxZip
          /\ Len(zips) < n /\ n' = n /\ pc' = "zips" /\ pc = "zips"
          /\ result' = result
      BY <1>2 DEF ReadZip, Goto, sizes
    <2>3. zips \in Seq(0 .. MaxZip) /\ Sorted(zips)
      BY <1>1, ZipsSortedMeans DEF ZipsBuilt
    <2> HIDE DEF c
    <2>4. LastOf(zips) \in 0 .. MaxZip
      BY <1>1, <2>3, LastIn
    <2>5. z \in 0 .. MaxZip /\ LastOf(zips) <= z
      BY <1>1, <2>1, <2>2, <2>4 DEF NextZip
    <2> HIDE DEF z
    <2>6. /\ zips' \in Seq(0 .. MaxZip) /\ Len(zips') = Len(zips) + 1
          /\ Sorted(zips')
      BY <1>1, <2>2, <2>3, <2>5, SortedAppend
    <2>7. Len(zips') <= n
      BY <1>1, <2>2, <2>3, <2>6 DEF CountsBounded
    <2>8. ZipsSorted'
      <3>1. /\ DOMAIN zips' = 1 .. Len(zips')
            /\ \A i \in DOMAIN zips' : zips'[i] \in 0 .. MaxZip
        BY <2>6, Elements
      <3> QED
        BY <2>6, <3>1, Zenon DEF ZipsSorted, Sorted
    <2>9. ~ReadPast({})'
      BY <1>1, <2>2 DEF ReadPast, Reading, Standing
    <2> QED
      BY <2>2, <2>6, <2>7, <2>8, <2>9 DEF ZipsBuilt
  <1>3. CASE UNCHANGED zips /\ ~ReadZip
    <2>1. ZipsSorted'
      BY <1>1, <1>3 DEF ZipsBuilt, ZipsSorted
    <2>2. CASE ReadRecordCount
      <3>1. pc = "cities" /\ pc' = "zips" /\ result' = result
        BY <2>2 DEF ReadRecordCount, Goto
      <3>2. zips' = <<>> /\ Len(zips') <= n'
        BY <1>1, <1>3, <3>1, CountsStep DEF ZipsBuilt, CountsBounded, Reading
      <3> QED
        BY <1>1, <2>1, <3>1, <3>2 DEF ZipsBuilt, ReadPast, Reading, Standing
    <2>3. CASE ~ReadRecordCount
      <3>1. n' = n /\ pc' # "zips"
        BY <1>1, <1>3, <2>3, WhatMoves, WhereTo
      <3>2. ReadPast({})' => Len(zips) = n
        <4>1. ReadPast({})' => ReadPast({}) \/ EndZips
          BY <1>1, WhereTo DEF ReadPast, Accept, Reading
        <4> QED
          BY <1>1, <4>1 DEF ZipsBuilt, EndZips
      <3>3. pc' \notin {"zips", "done"} \cup Reading
               => pc \notin {"zips", "done"} \cup Reading
        BY <1>1, <1>3, WhereTo DEF Reading
      <3> QED
        BY <1>1, <1>3, <2>1, <3>1, <3>2, <3>3 DEF ZipsBuilt
    <2> QED
      BY <2>2, <2>3
  <1> QED
    BY <1>2, <1>3, WhatMoves

(* Which steps leave a column. *)
LEMMA ColumnMoves ==
    ASSUME AtColumn, DecodeStep
    PROVE  \/ /\ Leave /\ column \in DeltaColumns \cup SparseColumns
              /\ column \in DeltaColumns => EndDelta
              /\ pc \in {"delta", "sparse", "values"}
           \/ /\ column' = column
              /\ \/ pc' = pc \/ pc' = "done"
                 \/ pc = "sparse" /\ pc' = "values"
                 \/ pc' = "delta" /\ EndZips
                 \/ pc \notin Reading /\ pc' \notin Reading \cup {"done"}
  <1> USE DEF Reject, Goto, Reading, DecodeStep
  <1>1. CASE ReadHeader \/ RejectHeader \/ ReadDates \/ ReadTable \/ RejectTable
             \/ ReadString \/ RejectString \/ EndStrings \/ RejectStrings
    BY <1>1 DEF ReadHeader, RejectHeader, ReadDates, ReadTable, RejectTable,
       ReadString, RejectString, EndStrings, RejectStrings
  <1>2. CASE ReadPrefecture \/ ReadCityCount \/ RejectCityCount \/ ReadCity
             \/ ReadRecordCount \/ RejectRecordCount \/ ReadZip \/ RejectZip
             \/ EndZips
    BY <1>2 DEF ReadPrefecture, ReadCityCount, RejectCityCount, ReadCity,
       ReadRecordCount, RejectRecordCount, ReadZip, RejectZip, EndZips
  <1>3. CASE ReadDelta \/ ReadSparse \/ ReadValue \/ ReadFlags \/ Accept
             \/ RejectStore
    BY <1>3 DEF ReadDelta, ReadSparse, ReadValue, ReadFlags, Accept, RejectStore
  <1>4. CASE EndDelta
    BY <1>4 DEF EndDelta, AtColumn
  <1>5. CASE SkipSparse \/ FailSparse \/ FailValue \/ EndValues
    <2>1. Leave /\ pc \in {"sparse", "values"}
      BY <1>5 DEF SkipSparse, FailSparse, FailValue, EndValues
    <2>2. column \in SparseColumns /\ column \notin DeltaColumns
      BY <2>1 DEF AtColumn, SparseColumns, DeltaColumns
    <2> QED
      BY <2>1, <2>2
  <1> QED
    BY <1>1, <1>2, <1>3, <1>4, <1>5 DEF ReadStep

(* The decoder stands on the column after those it has left.               *)
LEMMA AtColumnStep ==
    ASSUME IInv, DecodeStep
    PROVE  AtColumn'
  <1>1. AtColumn /\ Standing /\ pc # "done" /\ result # "accepted"
    BY WhereTo DEF IInv, Standing
  <1>2. CASE Leave /\ column \in DeltaColumns \cup SparseColumns
    <2>1. /\ result' = result
          /\ \/ column' \in DeltaColumns /\ pc' = "delta"
             \/ column' \in SparseColumns /\ pc' = "sparse"
             \/ column' = "flags" /\ pc' = "flags"
      BY <1>2, LeaveTo
    <2> QED
      BY <1>1, <2>1, ColumnNames DEF AtColumn, Reading
  <1>3. CASE /\ column' = column
             /\ \/ pc' = pc \/ pc' = "done"
                \/ pc = "sparse" /\ pc' = "values"
                \/ pc' = "delta" /\ EndZips
                \/ pc \notin Reading /\ pc' \notin Reading \cup {"done"}
    <2>1. column' \in DOMAIN ColumnsBefore
      BY <1>1, <1>3 DEF AtColumn
    <2>2. result' = "accepted" => pc = "flags"
      BY <1>1, WhereTo DEF Accept
    <2>3. pc' = "delta" /\ EndZips => column \in DeltaColumns
      BY <1>1 DEF EndZips, AtColumn, DeltaColumns, Reading
    <2> QED
      BY <1>1, <1>3, <2>1, <2>2, <2>3 DEF AtColumn, Reading
  <1> QED
    BY <1>1, <1>2, <1>3, ColumnMoves

(* A value of a column is the one before it and a difference that keeps it *)
(* in its field; a column is complete when it is left without an error.    *)
LEMMA ColumnsStep ==
    ASSUME IInv, DecodeStep
    PROVE  ColumnsBuilt'
  <1>1. /\ AtColumn /\ Standing /\ ColumnsBuilt /\ CountsBounded
        /\ pc # "done" /\ result # "accepted"
    BY WhereTo DEF IInv, Standing
  <1>2. err => err'
    BY <1>1, StepForward DEF CountsBounded
  <1>3. CASE ReadDelta
    <2> DEFINE delta == ReadVarint(Cursor)
               old == columns[column]
    <2>1. column \in DeltaColumns /\ pc = "delta" /\ ~err /\ n' = n
          /\ column' = column /\ pc' = "delta" /\ result' = result
      BY <1>1, <1>3 DEF ReadDelta, AtColumn, Goto, sizes
    <2>2. delta.v \in Int
      BY <1>1, StandingCursor, VarintReads DEF Inside
    <2>3. old \in Seq(Nat) /\ LastOf(old) \in Nat
      <3>1. old \in Seq(Nat)
        BY <1>1, <2>1 DEF ColumnsBuilt
      <3> QED
        BY <3>1 DEF LastOf
    <2>4. \/ UNCHANGED columns
          \/ /\ delta.v >= -LastOf(old)
             /\ columns' = [columns EXCEPT ![column] =
                              Append(old, LastOf(old) + delta.v)]
      BY <1>1, <1>3, <2>1 DEF ReadDelta, InField, ColumnsBuilt
    <2> HIDE DEF delta, old
    <2>5. columns' \in [DeltaColumns -> Seq(Nat)]
      <3>1. delta.v >= -LastOf(old) => LastOf(old) + delta.v \in Nat
        BY <2>2, <2>3
      <3>2. delta.v >= -LastOf(old)
               => Append(old, LastOf(old) + delta.v) \in Seq(Nat)
        BY <2>3, <3>1
      <3> QED
        BY <1>1, <2>4, <3>2 DEF ColumnsBuilt
    <2>6. ASSUME NEW c \in ColumnsBefore[column] PROVE columns'[c] = columns[c]
      <3>1. c \in DeltaColumns /\ c # column
        BY <2>1, <2>6 DEF ColumnsBefore, DeltaColumns
      <3> QED
        BY <1>1, <2>4, <3>1 DEF ColumnsBuilt
    <2> QED
      BY <1>1, <2>1, <2>5, <2>6 DEF ColumnsBuilt, ReadPast, Reading
  <1>4. CASE UNCHANGED columns /\ ~ReadDelta
    <2>1. ASSUME ~err', ReadPast({})', NEW c \in ColumnsBefore[column']
          PROVE  Len(columns[c]) = n'
      <3>1. ~err /\ (pc \in Reading \/ EndZips)
        BY <1>1, <1>2, <2>1, WhereTo DEF ReadPast, Accept, Reading
      <3>2. n' = n
        BY <3>1, WhatMoves DEF Reading, EndZips, ReadRecordCount
      <3>3. CASE EndZips
        <4>1. column' = "city"
          BY <1>1, <3>3 DEF EndZips, AtColumn, Reading
        <4> QED
          BY <2>1, <4>1 DEF ColumnsBefore
      <3>4. CASE pc \in Reading /\ column' = column
        BY <1>1, <2>1, <3>1, <3>2, <3>4 DEF ColumnsBuilt, ReadPast
      <3>5. CASE /\ pc \in Reading /\ Leave
                 /\ column \in DeltaColumns \cup SparseColumns
                 /\ column \in DeltaColumns => EndDelta
        <4>1. column' = NextColumn[column]
          BY <3>5, LeaveTo
        <4>2. c \in ColumnsBefore[column] \/ (c = column /\ column \in DeltaColumns)
          BY <2>1, <3>5, <4>1
             DEF ColumnsBefore, NextColumn, DeltaColumns, SparseColumns
        <4>3. column \in DeltaColumns => Len(columns[column]) = n
          BY <3>1, <3>5 DEF EndDelta
        <4> QED
          BY <1>1, <3>1, <3>2, <3>5, <4>2, <4>3 DEF ColumnsBuilt, ReadPast
      <3> QED
        BY <1>1, <3>1, <3>3, <3>4, <3>5, ColumnMoves
    <2> QED
      BY <1>1, <1>4, <2>1 DEF ColumnsBuilt
  <1> QED
    BY <1>3, <1>4, WhatMoves

(* The cursor stays inside, and what is accepted was checked.              *)
LEMMA StandingStep ==
    ASSUME IInv, DecodeStep
    PROVE  Standing'
  <1>1. Standing /\ AtColumn /\ CountsBounded
    BY DEF IInv
  <1>2. file' = file /\ payload' = payload
    BY WhatMoves DEF payload
  <1>3. pos' \in Nat /\ pos' <= Len(payload)
    BY <1>1, StepForward DEF CountsBounded
  <1>4. ASSUME result' = "accepted"
        PROVE  pc' = "done" /\ ~err' /\ (Len(flags) = n)' /\ Check'
    <2>1. Accept
      BY <1>1, <1>4, WhereTo DEF Standing
    <2>2. /\ pc' = "done" /\ ~err /\ Len(flags) = n /\ Check
          /\ UNCHANGED <<err, numStrings, n, prefs, cities, flags, columns>>
      BY <2>1 DEF Accept, Acceptable, sizes, store
    <2> QED
      BY <2>2 DEF Check, RefOK
  <1> QED
    BY <1>1, <1>2, <1>3, <1>4 DEF Standing

-----------------------------------------------------------------------------
(* The bits of a notes column, and how many are set before one. *)

Bitmaps(m) == [1 .. m -> SUBSET (0 .. WordBits - 1)]

IsSet(present, j) == (j % WordBits) \in present[j \div WordBits + 1]

SetBefore(present, k) == {j \in 0 .. k - 1 : IsSet(present, j)}

(* A bitmap as a sequence of words.                                        *)
LEMMA BitmapIs ==
    ASSUME NEW m \in Nat, NEW present \in Bitmaps(m)
    PROVE  present \in Seq(SUBSET (0 .. WordBits - 1)) /\ Len(present) = m
  <1>1. present \in Seq(SUBSET (0 .. WordBits - 1))
    BY IsASeq DEF Bitmaps
  <1>2. DOMAIN present = 1 .. m
    BY DEF Bitmaps
  <1> QED
    BY <1>1, <1>2, LenProperties

(* The recursion of Ranks has a solution. *)
LEMMA RanksIs ==
    ASSUME NEW m \in Nat, NEW present \in Bitmaps(m)
    PROVE  LET rank == Ranks(present)
           IN  /\ rank \in [1 .. m -> Nat]
               /\ m > 0 => rank[1] = 0
               /\ \A w \in 2 .. m :
                     rank[w] = rank[w - 1] + Cardinality(present[w - 1])
  <1>0. Len(present) = m
    BY BitmapIs
  <1>1. \A w \in 1 .. m : Cardinality(present[w]) \in Nat
    <2> SUFFICES ASSUME NEW w \in 1 .. m PROVE Cardinality(present[w]) \in Nat
      OBVIOUS
    <2>1. present[w] \in SUBSET (0 .. WordBits - 1)
      BY DEF Bitmaps
    <2>2. IsFiniteSet(0 .. WordBits - 1)
      BY FormatAssumption, FS_Interval
    <2>3. IsFiniteSet(present[w])
      BY <2>1, <2>2, FS_Subset
    <2> QED
      BY <2>3, FS_CardinalityType
  <1> DEFINE step == [w \in 2 .. m |->
                        [x \in Nat |-> x + Cardinality(present[w - 1])]]
  <1>2. step \in StepsFromOne(Nat, m)
    <2>1. \A w \in 2 .. m : w - 1 \in 1 .. m
      OBVIOUS
    <2> QED
      BY <1>1, <2>1 DEF StepsFromOne
  <1>3. \A w \in 2 .. m : \A x \in Nat :
            step[w][x] = x + Cardinality(present[w - 1])
    OBVIOUS
  <1> HIDE DEF step
  <1>3a. PICK f : ComputedFromOne(f, Nat, 0, m, step)
    BY <1>2, RecursionFromOne
  <1>4. /\ f \in [1 .. m -> Nat]
        /\ m > 0 => f[1] = 0
        /\ \A w \in 2 .. m : f[w] = step[w][f[w - 1]]
    BY <1>3a DEF ComputedFromOne
  <1>5. \A w \in 2 .. m : f[w] = f[w - 1] + Cardinality(present[w - 1])
    <2>1. \A w \in 2 .. m : w - 1 \in 1 .. m
      OBVIOUS
    <2>2. \A w \in 2 .. m : f[w - 1] \in Nat
      BY <1>4, <2>1
    <2> QED
      BY <1>3, <1>4, <2>2
  <1>6. f = [w \in 1 .. m |->
               IF w = 1 THEN 0 ELSE f[w - 1] + Cardinality(present[w - 1])]
    BY <1>4, <1>5
  <1> DEFINE rank == CHOOSE rank : rank =
                       [w \in 1 .. m |->
                          IF w = 1 THEN 0
                          ELSE rank[w - 1] + Cardinality(present[w - 1])]
  <1>7. rank = [w \in 1 .. m |->
                  IF w = 1 THEN 0 ELSE rank[w - 1] + Cardinality(present[w - 1])]
    BY <1>6, Zenon
  <1>8. Ranks(present) = rank
    BY <1>0 DEF Ranks
  <1> HIDE DEF rank
  <1>9. /\ m > 0 => rank[1] = 0
        /\ \A w \in 2 .. m : rank[w] = rank[w - 1] + Cardinality(present[w - 1])
    <2>1. ASSUME NEW w \in 2 .. m
          PROVE  rank[w] = rank[w - 1] + Cardinality(present[w - 1])
      <3>1. w \in 1 .. m /\ w # 1
        OBVIOUS
      <3> QED
        BY <1>7, <3>1
    <2> QED
      BY <1>7, <2>1
  <1>10. \A w \in 1 .. m : rank[w] = f[w]
    <2>1. m > 0 => rank[1] = f[1]
      BY <1>4, <1>9
    <2>2. \A w \in 2 .. m : rank[w - 1] = f[w - 1] => rank[w] = f[w]
      BY <1>5, <1>9
    <2> QED
      BY <2>1, <2>2, AgreementFromOne
  <1>11. rank \in [1 .. m -> Nat]
    BY <1>4, <1>7, <1>10
  <1> QED
    BY <1>8, <1>9, <1>11

(* The bits before a place in a word are those of the words before it, and *)
(* its own lower ones.                                                     *)
LEMMA WithinWord ==
    ASSUME NEW m \in Nat, NEW present \in Bitmaps(m),
           NEW q \in 0 .. m - 1, NEW r \in 0 .. WordBits
    PROVE  /\ IsFiniteSet(SetBefore(present, q * WordBits + r))
           /\ Cardinality(SetBefore(present, q * WordBits + r)) =
                Cardinality(SetBefore(present, q * WordBits))
                  + Cardinality({b \in present[q + 1] : b < r})
  <1>0. WordBits \in Nat \ {0} /\ q \in Nat /\ q * WordBits \in Nat /\ r \in Nat
    BY FormatAssumption, Multiples
  <1> DEFINE base == q * WordBits
             A == SetBefore(present, base)
             B == {b \in present[q + 1] : b < r}
             C == {j \in base .. base + r - 1 : IsSet(present, j)}
             f == [b \in B |-> base + b]
  <1>1. \A b \in present[q + 1] : b \in 0 .. WordBits - 1
    BY <1>0 DEF Bitmaps
  <1>2. \A b \in 0 .. WordBits - 1 :
            base + b \in Nat /\ (IsSet(present, base + b) <=> b \in present[q + 1])
    <2> SUFFICES ASSUME NEW b \in 0 .. WordBits - 1
                 PROVE  base + b \in Nat
                        /\ (IsSet(present, base + b) <=> b \in present[q + 1])
      OBVIOUS
    <2>1. base + b \in Nat /\ (base + b) \div WordBits = q /\ (base + b) % WordBits = b
      BY <1>0, QuotientAndRemainder
    <2> QED
      BY <2>1 DEF IsSet
  <1>3. base \in Nat
    BY <1>0
  <1> HIDE DEF base
  <1>4. f \in [B -> C]
    <2> SUFFICES ASSUME NEW b \in B PROVE base + b \in C
      OBVIOUS
    <2>1. b \in 0 .. WordBits - 1 /\ b < r
      BY <1>1
    <2> QED
      BY <1>0, <1>2, <1>3, <2>1
  <1>5. \A b, c \in B : f[b] = f[c] => b = c
    BY <1>1, <1>3
  <1>6. \A j \in C : \E b \in B : f[b] = j
    <2> SUFFICES ASSUME NEW j \in C PROVE \E b \in B : base + b = j
      OBVIOUS
    <2>1. j - base \in 0 .. WordBits - 1 /\ j - base < r /\ base + (j - base) = j
      BY <1>0, <1>3
    <2>2. j - base \in present[q + 1]
      BY <1>2, <2>1
    <2> QED
      BY <2>1, <2>2
  <1>7. IsFiniteSet(A) /\ IsFiniteSet(B)
    <2>1. IsFiniteSet(0 .. base - 1) /\ IsFiniteSet(0 .. WordBits - 1)
      BY <1>0, <1>3, FS_Interval
    <2>2. A \subseteq 0 .. base - 1 /\ B \subseteq 0 .. WordBits - 1
      BY <1>1 DEF SetBefore
    <2> HIDE DEF A, B
    <2> QED
      BY <2>1, <2>2, FS_Subset
  <1>8. SetBefore(present, base + r) = A \cup C /\ A \cap C = {}
    <2>1. \A j : j \in 0 .. (base + r) - 1 <=>
                   j \in 0 .. base - 1 \/ j \in base .. base + r - 1
      BY <1>0, <1>3
    <2>2. \A j : ~(j \in 0 .. base - 1 /\ j \in base .. base + r - 1)
      BY <1>3
    <2>3. \A j : j \in SetBefore(present, base + r) <=>
                  j \in 0 .. (base + r) - 1 /\ IsSet(present, j)
      BY Zenon DEF SetBefore
    <2>4. \A j : j \in A <=> j \in 0 .. base - 1 /\ IsSet(present, j)
      BY Zenon DEF SetBefore
    <2>5. \A j : j \in C <=> j \in base .. base + r - 1 /\ IsSet(present, j)
      OBVIOUS
    <2> HIDE DEF A, C
    <2>6. \A j : j \in SetBefore(present, base + r) <=> j \in A \cup C
      BY <2>1, <2>3, <2>4, <2>5, Zenon
    <2>7. \A j : ~(j \in A /\ j \in C)
      BY <2>2, <2>4, <2>5, Zenon
    <2> QED
      BY <2>6, <2>7, Zenon
  <1> HIDE DEF A, B, C, f
  <1>9. f \in Bijection(B, C)
    BY <1>4, <1>5, <1>6 DEF Bijection, Injection, IsInjective, Surjection
  <1>10. IsFiniteSet(C) /\ Cardinality(C) = Cardinality(B)
    BY <1>7, <1>9, FS_Bijection DEF ExistsBijection
  <1>11. /\ IsFiniteSet(A \cup C)
         /\ Cardinality(A \cup C) =
              Cardinality(A) + Cardinality(C) - Cardinality(A \cap C)
    BY <1>7, <1>10, FS_Union
  <1>12. Cardinality(A \cap C) = 0 /\ Cardinality(A) \in Nat /\ Cardinality(C) \in Nat
    BY <1>7, <1>8, <1>10, FS_EmptySet, FS_CardinalityType
  <1>13. /\ IsFiniteSet(SetBefore(present, base + r))
         /\ Cardinality(SetBefore(present, base + r)) = Cardinality(A) + Cardinality(B)
    <2>1. SetBefore(present, base + r) = A \cup C
      BY <1>8
    <2>2. Cardinality(A \cup C) = Cardinality(A) + Cardinality(B)
      BY <1>10, <1>11, <1>12
    <2> QED
      BY <1>11, <2>1, <2>2, Zenon
  <1> QED
    BY <1>13 DEF A, B, base

(* The rank of a word is what is set before it. *)
LEMMA RankIs ==
    ASSUME NEW m \in Nat, NEW present \in Bitmaps(m)
    PROVE  \A w \in 1 .. m : Ranks(present)[w] =
                               Cardinality(SetBefore(present, (w - 1) * WordBits))
  <1> DEFINE rank == Ranks(present)
             g == [w \in 1 .. m |-> Cardinality(SetBefore(present, (w - 1) * WordBits))]
  <1>1. /\ m > 0 => rank[1] = 0
        /\ \A w \in 2 .. m : rank[w] = rank[w - 1] + Cardinality(present[w - 1])
    BY RanksIs
  <1>2. m > 0 => g[1] = 0
    <2>1. (1 - 1) * WordBits = 0
      BY FormatAssumption
    <2>2. SetBefore(present, 0) = {}
      BY DEF SetBefore
    <2>3. Cardinality(SetBefore(present, 0)) = 0
      BY <2>2, FS_EmptySet
    <2> QED
      BY <2>1, <2>3
  <1>3. ASSUME NEW w \in 2 .. m
        PROVE  g[w] = g[w - 1] + Cardinality(present[w - 1])
    <2>1. /\ w - 2 \in 0 .. m - 1 /\ w - 2 \in Nat /\ WordBits \in Nat
          /\ WordBits \in 0 .. WordBits /\ (w - 2) + 1 = w - 1
          /\ (w - 1) - 1 = w - 2 /\ w - 1 \in 1 .. m
      BY FormatAssumption
    <2>2. (w - 1) * WordBits = (w - 2) * WordBits + WordBits
      BY <2>1
    <2>3. {b \in present[w - 1] : b < WordBits} = present[w - 1]
      <3>1. present[w - 1] \subseteq 0 .. WordBits - 1
        BY <2>1 DEF Bitmaps
      <3> QED
        BY <2>1, <3>1
    <2>4. Cardinality(SetBefore(present, (w - 2) * WordBits + WordBits)) =
            Cardinality(SetBefore(present, (w - 2) * WordBits))
              + Cardinality({b \in present[w - 1] : b < WordBits})
      BY <2>1, WithinWord
    <2>5. /\ g[w] = Cardinality(SetBefore(present, (w - 1) * WordBits))
          /\ g[w - 1] = Cardinality(SetBefore(present, (w - 2) * WordBits))
      BY <2>1
    <2> HIDE DEF g
    <2> QED
      BY <2>2, <2>3, <2>4, <2>5, Zenon
  <1> HIDE DEF rank
  <1>4. \A w \in 1 .. m : rank[w] = g[w]
    <2>1. m > 0 => rank[1] = g[1]
      BY <1>1, <1>2
    <2>2. \A w \in 2 .. m : rank[w - 1] = g[w - 1] => rank[w] = g[w]
      BY <1>1, <1>3
    <2> HIDE DEF g
    <2> QED
      BY <2>1, <2>2, AgreementFromOne
  <1> QED
    BY <1>4 DEF rank

(* The words of a column hold a bit for every record. *)
LEMMA WordOf ==
    ASSUME n \in Nat, NEW i \in 0 .. n - 1
    PROVE  /\ Words \in Nat
           /\ i \div WordBits \in 0 .. Words - 1
           /\ i % WordBits \in 0 .. WordBits - 1
           /\ i = (i \div WordBits) * WordBits + (i % WordBits)
  <1>0. WordBits \in Nat \ {0} /\ i \in Nat
    BY FormatAssumption
  <1> DEFINE x == n + WordBits - 1
             q == i \div WordBits
  <1>1. x \in Nat
    BY <1>0
  <1>2. /\ q \in Nat /\ i % WordBits \in 0 .. WordBits - 1
        /\ i = q * WordBits + (i % WordBits)
    BY <1>0, Division
  <1>3. /\ Words \in Nat /\ x % WordBits \in 0 .. WordBits - 1
        /\ x = Words * WordBits + (x % WordBits)
    BY <1>0, <1>1, Division DEF Words
  <1> HIDE DEF q
  <1>4. q < Words
    <2> SUFFICES ASSUME Words <= q PROVE FALSE
      BY <1>2, <1>3
    <2>1. Words * WordBits <= q * WordBits /\ q * WordBits \in Nat
          /\ Words * WordBits \in Nat
      BY <1>0, <1>2, <1>3, Multiples
    <2>2. q * WordBits <= i /\ x < Words * WordBits + WordBits
      BY <1>0, <1>2, <1>3, <2>1
    <2> QED
      BY <1>0, <2>1, <2>2
  <1> QED
    BY <1>2, <1>3, <1>4 DEF q

(* A value is found at the place it has among the values. *)
LEMMA NoteIndexIs ==
    ASSUME n \in Nat, NEW s, s.present \in Bitmaps(Words),
           s.rank = Ranks(s.present), NEW i \in 0 .. n - 1
    PROVE  /\ HasNote(s, i) <=> IsSet(s.present, i)
           /\ NoteIndex(s, i) = Cardinality(SetBefore(s.present, i)) + 1
  <1> DEFINE q == i \div WordBits
             r == i % WordBits
  <1>1. /\ Words \in Nat /\ q \in 0 .. Words - 1 /\ r \in 0 .. WordBits - 1
        /\ i = q * WordBits + r
    BY WordOf
  <1>2. NoteIndex(s, i) =
          Ranks(s.present)[q + 1] + Cardinality({b \in s.present[q + 1] : b < r}) + 1
    BY DEF NoteIndex
  <1> HIDE DEF q, r
  <1>3. q + 1 \in 1 .. Words /\ (q + 1) - 1 = q /\ r \in 0 .. WordBits
    BY <1>1, FormatAssumption
  <1>4. Ranks(s.present)[q + 1] = Cardinality(SetBefore(s.present, q * WordBits))
    BY <1>1, <1>3, RankIs
  <1>5. Cardinality(SetBefore(s.present, q * WordBits + r)) =
          Cardinality(SetBefore(s.present, q * WordBits))
            + Cardinality({b \in s.present[q + 1] : b < r})
    BY <1>1, <1>3, WithinWord
  <1> QED
    BY <1>1, <1>2, <1>4, <1>5 DEF HasNote, IsSet

(* A column that is filled has a value wherever a bit is set. *)
LEMMA FilledIsReadable ==
    ASSUME n \in Nat, NEW s, Ranked(s),
           0 < numStrings, numStrings \in Nat, NEW i \in 0 .. n - 1
    PROVE  NoteReadable(s, i)
  <1>1. s.present \in Bitmaps(Words)
    BY DEF Ranked, Filled, Bitmaps
  <1>2. /\ HasNote(s, i) <=> IsSet(s.present, i)
        /\ NoteIndex(s, i) = Cardinality(SetBefore(s.present, i)) + 1
    BY <1>1, NoteIndexIs DEF Ranked
  <1>3. i \div WordBits + 1 \in DOMAIN s.present
    BY WordOf, <1>1 DEF Bitmaps
  <1>4. ASSUME HasNote(s, i)
        PROVE  NoteIndex(s, i) \in DOMAIN s.ids /\ NoteId(s, i) < numStrings
    <2> DEFINE A == SetBefore(s.present, i)
               B == Noted(s)
    <2>1. A \cup {i} \subseteq B /\ i \notin A
      <3>1. \A j \in 0 .. n - 1 : HasNote(s, j) <=> IsSet(s.present, j)
        BY DEF HasNote, IsSet
      <3>2. A \subseteq B
        BY <3>1 DEF SetBefore, Noted
      <3>3. i \in B /\ i \notin A
        BY <1>4 DEF SetBefore, Noted
      <3> QED
        BY <3>2, <3>3
    <2>2. IsFiniteSet(B)
      <3>1. B \subseteq 0 .. n - 1
        BY DEF Noted
      <3>2. IsFiniteSet(0 .. n - 1)
        BY FS_Interval
      <3> HIDE DEF B
      <3> QED
        BY <3>1, <3>2, FS_Subset
    <2>3. Cardinality(B) = Len(s.ids) /\ s.ids \in Seq(1 .. numStrings - 1)
      BY DEF Ranked, Filled
    <2> HIDE DEF A, B
    <2>4. IsFiniteSet(A) /\ IsFiniteSet(A \cup {i})
          /\ Cardinality(A \cup {i}) <= Cardinality(B)
      BY <2>1, <2>2, FS_Subset
    <2>5. Cardinality(A \cup {i}) = Cardinality(A) + 1 /\ Cardinality(A) \in Nat
      BY <2>1, <2>4, FS_AddElement, FS_CardinalityType
    <2>6. NoteIndex(s, i) \in 1 .. Len(s.ids)
      BY <1>2, <2>3, <2>4, <2>5 DEF A
    <2>7. s.ids[NoteIndex(s, i)] \in 1 .. numStrings - 1
      BY <2>3, <2>6
    <2> QED
      BY <1>4, <2>3, <2>6, <2>7 DEF NoteId
  <1>5. ~HasNote(s, i) => NoteId(s, i) < numStrings
    BY DEF NoteId
  <1> QED
    BY <1>3, <1>4, <1>5 DEF NoteReadable

(* A value sets the bit of its record, which no value before it has set.   *)
LEMMA FilledByValue ==
    ASSUME n \in Nat, numStrings \in Nat, NEW s, Filled(s),
           NEW p \in 0 .. n - 1, \A i \in Noted(s) : i < p,
           NEW id \in 1 .. numStrings - 1,
           NEW t, t.ids = Append(s.ids, id),
           t.present = SetBit(s.present, p)
    PROVE  /\ Filled(t)
           /\ Noted(t) = Noted(s) \cup {p}
  <1> DEFINE q == p \div WordBits
             r == p % WordBits
  <1>1. /\ Words \in Nat /\ q \in 0 .. Words - 1 /\ r \in 0 .. WordBits - 1
        /\ p = q * WordBits + r
    BY WordOf
  <1>2. /\ s.present \in [1 .. Words -> SUBSET (0 .. WordBits - 1)]
        /\ s.ids \in Seq(1 .. numStrings - 1)
        /\ Cardinality(Noted(s)) = Len(s.ids)
    BY DEF Filled
  <1>3. t.present = [s.present EXCEPT ![q + 1] = @ \cup {r}]
    BY DEF SetBit
  <1> HIDE DEF q, r
  <1>4. q + 1 \in 1 .. Words
    BY <1>1
  <1>5. /\ t.present \in [1 .. Words -> SUBSET (0 .. WordBits - 1)]
        /\ t.present[q + 1] = s.present[q + 1] \cup {r}
        /\ \A w \in 1 .. Words : w # q + 1 => t.present[w] = s.present[w]
    <2> DEFINE old == s.present
               new == t.present
    <2>1. /\ old \in [1 .. Words -> SUBSET (0 .. WordBits - 1)]
          /\ new = [old EXCEPT ![q + 1] = @ \cup {r}]
      BY <1>2, <1>3
    <2> HIDE DEF old, new
    <2>2. old[q + 1] \cup {r} \in SUBSET (0 .. WordBits - 1)
      BY <1>1, <1>4, <2>1
    <2>3. /\ new \in [1 .. Words -> SUBSET (0 .. WordBits - 1)]
          /\ new[q + 1] = old[q + 1] \cup {r}
          /\ \A w \in 1 .. Words : w # q + 1 => new[w] = old[w]
      BY <1>4, <2>1, <2>2
    <2> QED
      BY <2>3 DEF old, new
  <1>6. ASSUME NEW i \in 0 .. n - 1
        PROVE  HasNote(t, i) <=> HasNote(s, i) \/ i = p
    <2> DEFINE qi == i \div WordBits
               ri == i % WordBits
    <2>1. /\ qi \in 0 .. Words - 1 /\ ri \in 0 .. WordBits - 1
          /\ i = qi * WordBits + ri
      BY WordOf
    <2>2. /\ HasNote(t, i) <=> ri \in t.present[qi + 1]
          /\ HasNote(s, i) <=> ri \in s.present[qi + 1]
      BY DEF HasNote
    <2>3. i = p => qi = q /\ ri = r
      BY DEF q, r
    <2> HIDE DEF qi, ri
    <2>4. CASE qi = q
      <3>1. i = p <=> ri = r
        BY <1>1, <2>1, <2>3, <2>4
      <3> QED
        BY <1>5, <2>2, <2>4, <3>1
    <2>5. CASE qi # q
      <3>1. qi + 1 \in 1 .. Words /\ qi + 1 # q + 1
        BY <1>1, <2>1, <2>5
      <3> QED
        BY <1>5, <2>2, <2>3, <2>5, <3>1
    <2> QED
      BY <2>4, <2>5
  <1>7. Noted(t) = Noted(s) \cup {p} /\ p \notin Noted(s)
    BY <1>6 DEF Noted
  <1>8. IsFiniteSet(Noted(s))
    <2>1. Noted(s) \subseteq 0 .. n - 1
      BY DEF Noted
    <2>2. 0 \in Int /\ n - 1 \in Int
      OBVIOUS
    <2>3. IsFiniteSet(0 .. n - 1)
      BY <2>2, FS_Interval
    <2> QED
      BY <2>1, <2>3, FS_Subset
  <1>9. Cardinality(Noted(t)) = Cardinality(Noted(s)) + 1
    BY <1>7, <1>8, FS_AddElement
  <1>10. t.ids \in Seq(1 .. numStrings - 1) /\ Len(t.ids) = Len(s.ids) + 1
    BY <1>2
  <1> QED
    BY <1>2, <1>5, <1>7, <1>9, <1>10 DEF Filled

(* A column without values has no bit set. *)
LEMMA FilledByNone ==
    ASSUME n \in Nat, numStrings \in Nat, NEW s, s.ids = <<>>,
           s.present = [w \in 1 .. Words |-> {}]
    PROVE  Filled(s) /\ Noted(s) = {}
  <1>1. Noted(s) = {}
    <2>1. ASSUME NEW i \in 0 .. n - 1 PROVE ~HasNote(s, i)
      <3>1. i \div WordBits + 1 \in 1 .. Words
        BY WordOf
      <3> QED
        BY <3>1 DEF HasNote
    <2> QED
      BY <2>1 DEF Noted
  <1>2. Cardinality(Noted(s)) = Len(s.ids)
    BY <1>1, FS_EmptySet
  <1>3. s.present \in [1 .. Words -> SUBSET (0 .. WordBits - 1)]
    OBVIOUS
  <1> QED
    BY <1>1, <1>2, <1>3 DEF Filled

Column == [present : Seq(SUBSET (0 .. WordBits - 1)),
           rank : Seq(Nat), ids : Seq(Nat)]

(* What one step makes of the notes columns. *)
LEMMA NotesMove ==
    ASSUME NotesBuilt, DecodeStep, AtColumn, CountsBounded, Standing
    PROVE  \/ UNCHANGED notes /\ ~ReadSparse /\ ~ReadValue /\ ~EndValues
           \/ /\ column \in SparseColumns /\ pc \in {"sparse", "values"}
              /\ UNCHANGED <<n, numStrings>>
              /\ notes' \in [SparseColumns -> Column]
              /\ \A c \in SparseColumns \ {column} : notes'[c] = notes[c]
              /\ \/ /\ ReadSparse
                    /\ notes'[column].present = [w \in 1 .. Words |-> {}]
                    /\ notes'[column].ids = <<>>
                 \/ /\ ReadValue
                    /\ notes'[column].present =
                         SetBit(notes[column].present, ValueRecord)
                    /\ notes'[column].ids = Append(notes[column].ids, ValueId.v)
                 \/ /\ EndValues
                    /\ notes'[column].present = notes[column].present
                    /\ notes'[column].ids = notes[column].ids
                    /\ notes'[column].rank = Ranks(notes[column].present)
  <1>1. notes \in [SparseColumns -> Column]
    BY DEF NotesBuilt, Column
  <1>2. CASE ReadSparse
    <2>1. column \in SparseColumns /\ pc = "sparse" /\ UNCHANGED <<n, numStrings>>
      BY <1>2 DEF ReadSparse, AtColumn
    <2> DEFINE s == [present |-> [w \in 1 .. Words |-> {}],
                     rank |-> [w \in 1 .. Words |-> 0], ids |-> <<>>]
    <2>2. notes' = [notes EXCEPT ![column] = s]
      BY <1>2 DEF ReadSparse
    <2>3. s \in Column
      <3>1. Words \in Nat
        <4>1. n + (WordBits - 1) \in Nat /\ WordBits \in Nat \ {0}
          BY FormatAssumption, SMTT(60) DEF CountsBounded
        <4> QED
          BY <4>1, Division DEF Words
      <3>2. [w \in 1 .. Words |-> {}] \in Seq(SUBSET (0 .. WordBits - 1))
        BY <3>1, IsASeq
      <3>3. [w \in 1 .. Words |-> 0] \in Seq(Nat)
        BY <3>1, IsASeq
      <3> QED
        BY <3>2, <3>3 DEF Column
    <2>4. s.present = [w \in 1 .. Words |-> {}] /\ s.ids = <<>>
      OBVIOUS
    <2> HIDE DEF s
    <2>5. notes' \in [SparseColumns -> Column] /\ notes'[column] = s
          /\ \A c \in SparseColumns \ {column} : notes'[c] = notes[c]
      BY <1>1, <2>1, <2>2, <2>3
    <2> QED
      BY <1>2, <2>1, <2>4, <2>5
  <1>3. CASE ReadValue
    <2>1. /\ column \in SparseColumns /\ pc = "values"
          /\ UNCHANGED <<n, numStrings>> /\ ValueOK
      BY <1>3 DEF ReadValue, AtColumn
    <2> DEFINE s == notes[column]
               bits == SetBit(s.present, ValueRecord)
               ids == Append(s.ids, ValueId.v)
               t == [present |-> bits, rank |-> s.rank, ids |-> ids]
    <2>2. s \in Column
      BY <1>1, <2>1
    <2>3. bits \in Seq(SUBSET (0 .. WordBits - 1)) /\ ids \in Seq(Nat)
      <3>1. ValueGap.v \in Nat /\ ValueId.v \in Nat /\ ~err
        BY <2>1, StandingCursor, ValueReads
           DEF CountsBounded, ValueOK, Reads, Inside
      <3>2. ValueRecord \in Nat
        BY <2>1, <3>1, SMTT(60) DEF ValueRecord, NotesBuilt, CountsBounded
      <3>3. ValueRecord % WordBits \in 0 .. WordBits - 1
        BY <3>2, Division, FormatAssumption
      <3>4. s.present \in Seq(SUBSET (0 .. WordBits - 1)) /\ s.ids \in Seq(Nat)
        BY <2>2 DEF Column
      <3> DEFINE T == SUBSET (0 .. WordBits - 1)
                 old == s.present
                 w == ValueRecord \div WordBits + 1
                 b == ValueRecord % WordBits
      <3>5. old \in [1 .. Len(old) -> T] /\ Len(old) \in Nat
        BY <3>4, Elements
      <3>6. \A u \in T : u \cup {b} \in T
        BY <3>3
      <3>7. bits = [old EXCEPT ![w] = @ \cup {b}]
        BY DEF SetBit
      <3> HIDE DEF old, w, b, T, bits
      <3>8. bits \in [1 .. Len(old) -> T]
        BY <3>5, <3>6, <3>7
      <3>9. bits \in Seq(T)
        BY <3>5, <3>8, IsASeq
      <3> QED
        BY <3>1, <3>4, <3>9 DEF T
    <2>4. notes' = [notes EXCEPT ![column] = t]
      BY <1>1, <1>3, <2>1 DEF ReadValue
    <2>5. t \in Column /\ t.present = bits /\ t.ids = ids
      <3> HIDE DEF bits, ids
      <3> QED
        BY <2>2, <2>3 DEF Column
    <2> HIDE DEF t
    <2>6. notes' \in [SparseColumns -> Column] /\ notes'[column] = t
          /\ \A c \in SparseColumns \ {column} : notes'[c] = notes[c]
      BY <1>1, <2>1, <2>4, <2>5
    <2> QED
      BY <1>3, <2>1, <2>5, <2>6
  <1>4. CASE EndValues
    <2>1. column \in SparseColumns /\ pc = "values" /\ UNCHANGED <<n, numStrings>>
      BY <1>4 DEF EndValues, AtColumn, sizes
    <2> DEFINE s == notes[column]
               t == [present |-> s.present, rank |-> Ranks(s.present),
                     ids |-> s.ids]
    <2>2. s \in Column
      BY <1>1, <2>1
    <2>3. notes' = [notes EXCEPT ![column] = t]
      <3>1. notes' = [notes EXCEPT ![column] =
                        [s EXCEPT !.rank = Ranks(s.present)]]
        BY <1>1, <1>4, <2>1 DEF EndValues
      <3>2. [s EXCEPT !.rank = Ranks(s.present)] = t
        BY <2>2 DEF Column
      <3> QED
        BY <3>1, <3>2
    <2>4. t \in Column
      <3>1. s.present \in Seq(SUBSET (0 .. WordBits - 1))
        BY <2>2 DEF Column
      <3>2. Len(s.present) \in Nat /\ s.present \in Bitmaps(Len(s.present))
        BY <3>1, Elements DEF Bitmaps
      <3>3. Ranks(s.present) \in [1 .. Len(s.present) -> Nat]
        BY <3>2, RanksIs
      <3>4. Ranks(s.present) \in Seq(Nat)
        BY <3>2, <3>3, IsASeq
      <3> QED
        BY <2>2, <3>4 DEF Column
    <2>5. t.present = s.present /\ t.ids = s.ids /\ t.rank = Ranks(s.present)
      OBVIOUS
    <2> HIDE DEF t
    <2>6. notes' \in [SparseColumns -> Column] /\ notes'[column] = t
          /\ \A c \in SparseColumns \ {column} : notes'[c] = notes[c]
      BY <1>1, <2>1, <2>3, <2>4
    <2> QED
      BY <1>4, <2>1, <2>5, <2>6
  <1> QED
    BY <1>2, <1>3, <1>4, WhatMoves

(* A notes column is filled as long as it is read without an error, and    *)
(* stays as it is once it has been read.                                   *)
LEMMA NotesStep ==
    ASSUME IInv, DecodeStep
    PROVE  NotesBuilt'
  <1>1. /\ NotesBuilt /\ AtColumn /\ CountsBounded /\ Standing
        /\ n \in Nat /\ numStrings \in Nat /\ pc # "done"
    BY WhereTo DEF IInv, CountsBounded
  <1>2. err => err'
    BY <1>1, StepForward DEF CountsBounded
  <1> DEFINE s == notes[column]
             t == notes'[column]
  <1>3. CASE UNCHANGED notes /\ ~ReadSparse /\ ~ReadValue /\ ~EndValues
    <2>1. pc' \notin Reading \cup {"done"} => pc \notin Reading \cup {"done"}
      BY <1>1, WhereTo
    <2>2. pc = "values" => FailValue
      BY <1>3 DEF DecodeStep, ReadStep, ReadHeader, RejectHeader, ReadDates,
         ReadTable, RejectTable, ReadString, RejectString, EndStrings,
         RejectStrings, ReadPrefecture, ReadCityCount, RejectCityCount,
         ReadCity, ReadRecordCount, RejectRecordCount, ReadZip, RejectZip,
         EndZips, ReadDelta, EndDelta, SkipSparse, FailSparse, ReadFlags,
         Accept, RejectStore
    <2>3. pc' # "values"
      <3>1. pc = "values" => Leave /\ column \in SparseColumns
        BY <1>1, <2>2 DEF FailValue, AtColumn
      <3>2. pc' = "values" => pc = "values" \/ pc = "sparse"
        BY <1>1, ColumnMoves, LeaveTo DEF Reading
      <3>3. pc = "sparse" => SkipSparse \/ FailSparse
        BY <1>3 DEF DecodeStep, ReadStep, ReadHeader, RejectHeader, ReadDates,
           ReadTable, RejectTable, ReadString, RejectString, EndStrings,
           RejectStrings, ReadPrefecture, ReadCityCount, RejectCityCount,
           ReadCity, ReadRecordCount, RejectRecordCount, ReadZip, RejectZip,
           EndZips, ReadDelta, EndDelta, FailValue, ReadFlags, Accept,
           RejectStore
      <3>4. pc = "sparse" => Leave /\ column \in SparseColumns
        BY <1>1, <3>3 DEF SkipSparse, FailSparse, AtColumn
      <3>5. Leave /\ column \in SparseColumns => pc' # "values"
        BY LeaveTo
      <3> QED
        BY <3>1, <3>2, <3>4, <3>5
    <2>4. ASSUME ~err', NEW c \in SparseColumns, notes[c] # NoValues
          PROVE  Ranked(notes[c])'
      <3>1. ~err /\ pc \in Reading
        BY <1>1, <1>2, <2>4 DEF NotesBuilt
      <3>2. UNCHANGED <<n, numStrings>>
        BY <3>1, WhatMoves DEF ReadTable, ReadRecordCount, Reading
      <3>3. pc # "values"
        BY <2>2, <2>4 DEF FailValue, Advance, Failed
      <3>4. Ranked(notes[c])
        BY <1>1, <2>4, <3>1, <3>3 DEF NotesBuilt
      <3> QED
        BY <1>3, <3>2, <3>4 DEF Ranked, Filled, Noted, HasNote, Words
    <2> QED
      BY <1>1, <1>3, <2>1, <2>3, <2>4 DEF NotesBuilt
  <1> DEFINE Others == /\ notes' \in [SparseColumns -> Column]
                       /\ pc' \in Reading
                       /\ \A c \in SparseColumns \ {column} :
                             ~err' /\ notes'[c] # NoValues => Ranked(notes[c])'
  <1>4. ASSUME column \in SparseColumns, UNCHANGED <<n, numStrings>>,
               notes' \in [SparseColumns -> Column],
               \A c \in SparseColumns \ {column} : notes'[c] = notes[c],
               ReadSparse \/ ReadValue \/ EndValues
        PROVE  Others
    <2>1. pc' \in Reading
      BY <1>4, LeaveTo DEF ReadSparse, ReadValue, EndValues, Goto, Reading
    <2>2. ASSUME ~err', NEW c \in SparseColumns \ {column}, notes[c] # NoValues
          PROVE  Ranked(notes[c])'
      <3>1. Ranked(notes[c])
        BY <1>1, <1>2, <2>2 DEF NotesBuilt
      <3> QED
        BY <1>4, <3>1 DEF Ranked, Filled, Noted, HasNote, Words
    <2> QED
      BY <1>4, <2>1, <2>2
  <1>5. ASSUME Others, column' = column, pc' = "values",
               ~err' => /\ Filled(notes[column])' /\ previous' \in -1 .. n' - 1
                        /\ (\A i \in Noted(notes[column]) : i <= previous)'
        PROVE  NotesBuilt'
    BY <1>5 DEF NotesBuilt, Column
  <1>6. CASE ReadSparse /\ t.present = [w \in 1 .. Words |-> {}] /\ t.ids = <<>>
             /\ UNCHANGED <<n, numStrings>> /\ Others
    <2>1. Filled(t) /\ Noted(t) = {}
      BY <1>1, <1>6, FilledByNone
    <2>2. column' = column /\ pc' = "values" /\ previous' = -1
      BY <1>6 DEF ReadSparse, Goto
    <2>3. Filled(notes[column])' /\ Noted(notes[column])' = {}
      BY <1>6, <2>1, <2>2 DEF Filled, Noted, HasNote, Words
    <2>4. -1 \in -1 .. n - 1
      BY <1>1
    <2> HIDE DEF Others
    <2> QED
      BY <1>5, <1>6, <2>2, <2>3, <2>4
  <1>7. CASE /\ ReadValue
             /\ t.present = SetBit(s.present, ValueRecord)
             /\ t.ids = Append(s.ids, ValueId.v)
             /\ UNCHANGED <<n, numStrings>> /\ Others
    <2>1. /\ column' = column /\ pc' = "values" /\ previous' = ValueRecord
          /\ ValueOK /\ pc = "values"
      BY <1>7 DEF ReadValue, Goto
    <2>2. ASSUME ~err
          PROVE  /\ Filled(t) /\ ValueRecord \in 0 .. n - 1
                 /\ \A i \in Noted(t) : i <= ValueRecord
      <3>1. /\ Filled(s) /\ previous \in -1 .. n - 1
            /\ \A i \in Noted(s) : i <= previous
        BY <1>1, <2>1, <2>2 DEF NotesBuilt
      <3>2. ValueGap.v \in Nat /\ ValueRecord < n /\ ValueId.v \in 1 .. numStrings - 1
        BY <1>1, <2>1, ValueReads DEF ValueOK, Reads, Inside
      <3>3. ValueRecord \in 0 .. n - 1 /\ previous < ValueRecord
        BY <1>1, <3>1, <3>2 DEF ValueRecord
      <3>4. Noted(s) \subseteq 0 .. n - 1
        BY DEF Noted
      <3>5. \A i \in Noted(s) : i < ValueRecord
        BY <1>1, <3>1, <3>3, <3>4
      <3>6. Filled(t) /\ Noted(t) = Noted(s) \cup {ValueRecord}
        BY <1>1, <1>7, <3>1, <3>2, <3>3, <3>5, FilledByValue
      <3>7. \A i \in Noted(t) : i <= ValueRecord
        BY <3>3, <3>4, <3>5, <3>6
      <3> QED
        BY <3>3, <3>6, <3>7
    <2>3. ASSUME ~err
          PROVE  /\ Filled(notes[column])' /\ previous' \in -1 .. n' - 1
                 /\ (\A i \in Noted(notes[column]) : i <= previous)'
      <3>1. Filled(notes[column])'
        BY <1>7, <2>1, <2>2, <2>3 DEF Filled, Noted, HasNote, Words
      <3>2. Noted(notes[column])' = Noted(t)
        BY <1>7, <2>1 DEF Noted, HasNote
      <3>3. previous' \in -1 .. n' - 1
        BY <1>1, <1>7, <2>1, <2>2, <2>3
      <3> QED
        BY <2>1, <2>2, <2>3, <3>1, <3>2, <3>3
    <2> HIDE DEF Others
    <2> QED
      BY <1>2, <1>5, <1>7, <2>1, <2>3
  <1>8. CASE /\ EndValues /\ t.present = s.present /\ t.ids = s.ids
             /\ t.rank = Ranks(s.present)
             /\ UNCHANGED <<n, numStrings>> /\ Others
    <2>1. pc = "values" /\ err' = err /\ Leave /\ column \in SparseColumns
      BY <1>1, <1>8 DEF EndValues, AtColumn
    <2>2. pc' # "values"
      BY <2>1, LeaveTo
    <2>3. ASSUME ~err', NEW c \in SparseColumns, c = column
          PROVE  Ranked(notes[c])'
      <3>1. Filled(s)
        BY <1>1, <2>1, <2>3 DEF NotesBuilt
      <3>2. notes'[c] = t
        BY <2>3
      <3> HIDE DEF t
      <3> QED
        BY <1>8, <3>1, <3>2 DEF Ranked, Filled, Noted, HasNote, Words
    <2> QED
      BY <1>8, <2>2, <2>3 DEF NotesBuilt, Column
  <1>9. \/ UNCHANGED notes /\ ~ReadSparse /\ ~ReadValue /\ ~EndValues
        \/ /\ UNCHANGED <<n, numStrings>> /\ Others
           /\ \/ /\ ReadSparse /\ t.present = [w \in 1 .. Words |-> {}]
                 /\ t.ids = <<>>
              \/ /\ ReadValue /\ t.present = SetBit(s.present, ValueRecord)
                 /\ t.ids = Append(s.ids, ValueId.v)
              \/ /\ EndValues /\ t.present = s.present /\ t.ids = s.ids
                 /\ t.rank = Ranks(s.present)
    BY <1>1, <1>4, NotesMove
  <1> QED
    BY <1>3, <1>6, <1>7, <1>8, <1>9

-----------------------------------------------------------------------------
(* An empty store and a cursor at the start of any file. *)
LEMMA InitIInv == file \in File /\ Fresh => IInv
  <1> SUFFICES ASSUME file \in File, Fresh PROVE IInv
    OBVIOUS
  <1> USE FormatAssumption DEF Fresh
  <1>1. Standing
    BY DEF Standing, File, payload
  <1>2. CountsBounded
    <2>1. Len(payload) \in Nat
      BY DEF File, payload
    <2> QED
      BY <2>1 DEF CountsBounded
  <1>3. TableBuilt
    BY DEF TableBuilt, ReadPast, Reading
  <1>4. NamesBuilt
    BY DEF NamesBuilt, ReadPast, Reading
  <1>5. ZipsBuilt
    BY DEF ZipsBuilt, ZipsSorted, ReadPast, Reading
  <1>6. AtColumn
    BY DEF AtColumn, ColumnsBefore, Reading
  <1>7. ColumnsBuilt
    BY DEF ColumnsBuilt, ReadPast, Reading
  <1>8. NotesBuilt
    <2>1. <<>> \in Seq(SUBSET (0 .. WordBits - 1)) /\ <<>> \in Seq(Nat)
      OBVIOUS
    <2>2. NoValues \in Column
      BY <2>1 DEF NoValues, Column
    <2> QED
      BY <2>2 DEF NotesBuilt, Column, Reading
  <1> QED
    BY <1>1, <1>2, <1>3, <1>4, <1>5, <1>6, <1>7, <1>8 DEF IInv

(* Every row keeps the invariant. *)
LEMMA NextIInv == IInv /\ [DecodeStep]_decoderVars => IInv'
  <1>1. ASSUME IInv, DecodeStep PROVE IInv'
    BY <1>1, StandingStep, CountsStep, TableStep, NamesStep, ZipsStep,
       AtColumnStep, ColumnsStep, NotesStep DEF IInv
  <1>2. ASSUME IInv, UNCHANGED decoderVars PROVE IInv'
    <2>1. UNCHANGED <<file, pos, err, pc, column, numStrings, blobLen,
                      numCities, n, values, previous, updated, blob, strOff,
                      prefs, cities, zips, flags, columns, notes, result>>
      BY <1>2 DEF decoderVars, decoderState, sizes, store
    <2>2. Standing'
      BY <1>2, <2>1 DEF IInv, Standing, payload, Check, RefOK
    <2>3. CountsBounded' /\ TableBuilt'
      BY <1>2, <2>1 DEF IInv, CountsBounded, TableBuilt, payload, ReadPast
    <2>4. NamesBuilt' /\ ZipsBuilt'
      BY <1>2, <2>1 DEF IInv, NamesBuilt, ZipsBuilt, ZipsSorted, ReadPast
    <2>5. AtColumn' /\ ColumnsBuilt'
      BY <1>2, <2>1 DEF IInv, AtColumn, ColumnsBuilt, ReadPast
    <2>6. NotesBuilt'
      BY <1>2, <2>1
         DEF IInv, NotesBuilt, Ranked, Filled, Noted, HasNote, Words, Reading
    <2> QED
      BY <2>2, <2>3, <2>4, <2>5, <2>6 DEF IInv
  <1> QED
    BY <1>1, <1>2

-----------------------------------------------------------------------------
(* What the invariant says of the properties. *)

(* The counts, as the property states them.                                *)
LEMMA IInvBounded == IInv => AllocationsBounded
  BY DEF IInv, CountsBounded, TableBuilt, AllocationsBounded

(* What was checked at the end, with what was built on the way.            *)
LEMMA IInvChecked == IInv => CheckedIndices
  <1> SUFFICES ASSUME IInv, result = "accepted"
               PROVE  /\ Len(zips) = n /\ Len(flags) = n
                      /\ \A c \in DeltaColumns : Len(columns[c]) = n
                      /\ Len(strOff) = numStrings + 1
                      /\ \A i \in 1 .. numStrings : strOff[i] <= strOff[i + 1]
                      /\ strOff[numStrings + 1] <= Len(blob)
                      /\ Len(prefs) = PrefectureCount
                      /\ \A i \in 1 .. n :
                            /\ columns.city[i] \in 0 .. Len(cities) - 1
                            /\ \A c \in DeltaColumns \ {"city"} :
                                  columns[c][i] \in 0 .. numStrings - 1
                      /\ \A i \in DOMAIN cities :
                            /\ RefOK(cities[i].name)
                            /\ cities[i].pref \in 0 .. PrefectureCount - 1
                      /\ \A i \in DOMAIN prefs : RefOK(prefs[i])
    BY DEF CheckedIndices
  <1>1. Check /\ ~err /\ Len(flags) = n /\ column = "flags"
        /\ {numStrings, n} \subseteq Nat
    BY DEF IInv, Standing, AtColumn, CountsBounded
  <1>2. Len(zips) = n /\ Len(prefs) = PrefectureCount
    BY DEF IInv, ZipsBuilt, NamesBuilt, ReadPast
  <1>3. columns \in [DeltaColumns -> Seq(Nat)]
        /\ \A c \in DeltaColumns : Len(columns[c]) = n
    BY <1>1 DEF IInv, ColumnsBuilt, ReadPast, ColumnsBefore
  <1>4. /\ Len(strOff) = numStrings + 1
        /\ \A i \in 1 .. numStrings : strOff[i] <= strOff[i + 1]
        /\ strOff[numStrings + 1] <= Len(blob)
    <2>1. /\ Len(strOff) = numStrings + 1 /\ strOff \in Seq(0 .. Len(blob))
          /\ Len(blob) \in Nat
          /\ \A i \in 1 .. Len(strOff) - 1 : strOff[i] <= strOff[i + 1]
      BY DEF IInv, TableBuilt, ReadPast
    <2>2. strOff[numStrings + 1] \in 0 .. Len(blob)
      BY <1>1, <2>1
    <2> QED
      BY <1>1, <2>1, <2>2
  <1>5. ASSUME NEW i \in 1 .. n
        PROVE  /\ columns.city[i] \in 0 .. Len(cities) - 1
               /\ \A c \in DeltaColumns \ {"city"} :
                     columns[c][i] \in 0 .. numStrings - 1
    <2>1. \A c \in DeltaColumns : columns[c][i] \in Nat
      BY <1>3, <1>5
    <2>2. Len(cities) \in Nat /\ columns.city[i] < Len(cities)
      BY <1>1, <1>5 DEF Check, IInv, NamesBuilt
    <2>3. \A c \in DeltaColumns \ {"city"} : columns[c][i] < numStrings
      BY <1>1, <1>5 DEF Check, DeltaColumns
    <2>4. "city" \in DeltaColumns
      BY DEF DeltaColumns
    <2> QED
      BY <1>1, <2>1, <2>2, <2>3, <2>4
  <1>6. ASSUME NEW i \in DOMAIN cities
        PROVE  /\ RefOK(cities[i].name)
               /\ cities[i].pref \in 0 .. PrefectureCount - 1
    <2>1. cities[i] \in [jis : Nat, pref : Nat, name : NameRefs]
      BY <1>6, Elements DEF IInv, NamesBuilt
    <2>2. RefOK(cities[i].name) /\ cities[i].pref < PrefectureCount
      BY <1>1, <1>6 DEF Check
    <2> QED
      BY <2>1, <2>2, FormatAssumption
  <1>7. \A i \in DOMAIN prefs : RefOK(prefs[i])
    BY <1>1 DEF Check
  <1> QED
    BY <1>1, <1>2, <1>3, <1>4, <1>5, <1>6, <1>7

(* A record of an accepted store has a town, so the string table is not    *)
(* empty and id 0, which means no note, is inside it.                      *)
LEMMA IInvReadable == IInv => NotesReadable
  <1> SUFFICES ASSUME IInv, result = "accepted", NEW c \in SparseColumns,
                      notes[c] # NoValues, NEW i \in 0 .. n - 1
               PROVE  NoteReadable(notes[c], i)
    BY DEF NotesReadable
  <1>1. /\ ~err /\ pc = "done" /\ Check /\ column = "flags"
        /\ n \in Nat /\ numStrings \in Nat
    BY DEF IInv, Standing, AtColumn, CountsBounded
  <1>2. Ranked(notes[c])
    BY <1>1 DEF IInv, NotesBuilt
  <1>3. 0 < numStrings
    <2>1. columns \in [DeltaColumns -> Seq(Nat)] /\ Len(columns.kanji) = n
      BY <1>1 DEF IInv, ColumnsBuilt, ReadPast, ColumnsBefore, DeltaColumns
    <2>2. 1 \in 1 .. n
      BY <1>1
    <2>3. columns.kanji[1] \in Nat
      BY <2>1, <2>2 DEF DeltaColumns
    <2>4. columns.kanji[1] < numStrings
      BY <1>1, <2>2 DEF Check
    <2> QED
      BY <1>1, <2>3, <2>4
  <1> QED
    BY <1>1, <1>2, <1>3, FilledIsReadable

(* A latched error stays, and only a cursor without one is accepted. *)
LEMMA ErrorStep ==
    IInv /\ [DecodeStep]_decoderVars =>
        [err => err' /\ result' # "accepted"]_decoderVars
  <1> SUFFICES ASSUME IInv, DecodeStep, err
               PROVE  err' /\ result' # "accepted"
    OBVIOUS
  <1>1. Standing /\ AtColumn /\ CountsBounded
    BY DEF IInv
  <1>2. err'
    BY <1>1, StepForward DEF CountsBounded
  <1>3. result' # "accepted"
    BY <1>1, WhereTo DEF Accept, Acceptable, Standing
  <1> QED
    BY <1>2, <1>3

-----------------------------------------------------------------------------
(* Whatever the payload, the decoder has built at every step as many       *)
(* strings, names and rows as it has read, and stands on the column after  *)
(* those it has finished (decode.go:110-228).                              *)
THEOREM Inductive == DecodeSpec => []IInv
  BY InitIInv, NextIInv, PTL DEF DecodeSpec

(* Whatever the payload, the zip codes Range searches are sorted and of at *)
(* most seven digits (decode.go:194-205).                                  *)
THEOREM SortedByConstruction == DecodeSpec => []ZipsSorted
  <1>1. IInv => ZipsSorted
    BY DEF IInv, ZipsBuilt
  <1> QED
    BY InitIInv, NextIInv, <1>1, PTL DEF DecodeSpec

(* Whatever the payload, no count the decoder allocates for exceeds what   *)
(* the payload can hold or the limit on the blob (decode.go:124-136,       *)
(* 387-390).                                                               *)
THEOREM Allocations == DecodeSpec => []AllocationsBounded
  BY InitIInv, NextIInv, IInvBounded, PTL DEF DecodeSpec

(* Whatever the payload, every index of an accepted store but those of the *)
(* notes is inside its table (decode.go:230-256).                          *)
THEOREM IndicesChecked == DecodeSpec => []CheckedIndices
  BY InitIInv, NextIInv, IInvChecked, PTL DEF DecodeSpec

(* Whatever the payload, a notes column of an accepted store that was      *)
(* allocated answers for every record: the rank of a set bit is the place  *)
(* of its value, inside ids, and names a string (decode.go:59-67).         *)
THEOREM NotesAnswer == DecodeSpec => []NotesReadable
  BY InitIInv, NextIInv, IInvReadable, PTL DEF DecodeSpec

(* Whatever the payload, a cursor error is never forgotten, and never ends *)
(* in an accepted store (decode.go:218-220, 321-333).                      *)
THEOREM LatchedError == DecodeSpec => ErrorIsFinal
  BY InitIInv, NextIInv, ErrorStep, PTL DEF DecodeSpec, ErrorIsFinal

-----------------------------------------------------------------------------
(* The types of what the invariant leaves open. *)

(* Every read says whether it failed.                                      *)
LEMMA ErrorsKnown ==
    ASSUME NEW c
    PROVE  /\ ReadUvarint(c).err \in BOOLEAN
           /\ ReadVarint(c).err \in BOOLEAN
           /\ ReadByte(c).err \in BOOLEAN
           /\ ReadByte(c).v \in {0, payload[c.pos + 1]}
           /\ \A len : ReadBytes(c, len).err \in BOOLEAN
           /\ \A max : ReadBounded(c, max).err \in BOOLEAN
           /\ ReadUvarint32(c).err \in BOOLEAN
           /\ ReadNameRef(c).err \in BOOLEAN
  <1>1. \A e : ReadUvarint(e).err \in BOOLEAN
    BY DEF ReadUvarint, Failed
  <1>2. ReadVarint(c).err \in BOOLEAN
    <2> DEFINE u == ReadUvarint(c)
    <2>1. u = [v |-> u.v, pos |-> u.pos, err |-> u.err]
      BY DEF ReadUvarint, Failed
    <2>2. u.err \in BOOLEAN
      BY <1>1
    <2> HIDE DEF u
    <2>3. [u EXCEPT !.v = Zag(u.v)].err \in BOOLEAN
      BY <2>1, <2>2
    <2> QED
      BY <2>3 DEF ReadVarint, u
  <1>3. /\ ReadByte(c).err \in BOOLEAN
        /\ ReadByte(c).v \in {0, payload[c.pos + 1]}
    BY DEF ReadByte, Failed
  <1>4. \A len : ReadBytes(c, len).err \in BOOLEAN
    BY DEF ReadBytes, Failed
  <1>5. \A e, max : ReadBounded(e, max).err \in BOOLEAN
    <2> TAKE e, max
    <2> DEFINE u == ReadUvarint(e)
    <2>1. u.err \in BOOLEAN
      BY <1>1
    <2> HIDE DEF u
    <2>2. (IF ~u.err /\ u.v > max THEN Failed(u) ELSE u).err \in BOOLEAN
      BY <2>1 DEF Failed
    <2> QED
      BY <2>2 DEF ReadBounded, u
  <1>6. \A e : ReadUvarint32(e).err \in BOOLEAN
    BY <1>5 DEF ReadUvarint32
  <1>7. ReadNameRef(c).err \in BOOLEAN
    BY <1>6 DEF ReadNameRef
  <1> QED
    BY <1>1, <1>2, <1>3, <1>4, <1>5, <1>6, <1>7

(* Decode has returned exactly when it stands at its end. *)
Returned == result # "none" <=> pc = "done"

Phases == {"header", "dates", "table", "strings", "prefs", "cities",
           "zips", "delta", "sparse", "values", "flags", "done"}

(* An error is there or not.                                               *)
LEMMA ErrStep ==
    ASSUME err \in BOOLEAN, DecodeStep
    PROVE  err' \in BOOLEAN
  <1>1. CASE ReadDates \/ ReadPrefecture \/ ReadCity \/ ReadZip \/ ReadFlags
             \/ ReadCityCount \/ ReadRecordCount \/ SkipSparse \/ ReadSparse
    BY <1>1, ErrorsKnown DEF ReadDates, ReadPrefecture, ReadCity, ReadZip, ReadFlags,
       ReadCityCount, ReadRecordCount, SkipSparse, ReadSparse, Advance
  <1>2. CASE ReadTable \/ ReadString
    BY <1>2, ErrorsKnown DEF ReadTable, ReadString, Advance, TableBlob
  <1>3. CASE FailSparse \/ FailValue \/ ReadValue
    BY <1>3, ErrorsKnown DEF FailSparse, FailValue, ReadValue, Advance, Failed, ValueId
  <1>4. CASE ReadDelta
    <2> DEFINE delta == ReadVarint(Cursor)
    <2>1. delta.err \in BOOLEAN /\ Failed(delta).err \in BOOLEAN
      BY ErrorsKnown DEF Failed
    <2>2. err' = delta.err \/ err' = Failed(delta).err
      BY <1>4 DEF ReadDelta, Advance
    <2> HIDE DEF delta
    <2> QED
      BY <2>1, <2>2
  <1>5. CASE ReadHeader \/ RejectHeader \/ RejectTable \/ RejectString
              \/ EndStrings \/ RejectStrings \/ RejectCityCount
              \/ RejectRecordCount \/ RejectZip \/ EndZips \/ EndDelta
              \/ EndValues \/ Accept \/ RejectStore
    BY <1>5 DEF ReadHeader, RejectHeader, RejectTable, RejectString,
       EndStrings, RejectStrings, RejectCityCount, RejectRecordCount,
       RejectZip, EndZips, EndDelta, EndValues, Accept, RejectStore, Reject
  <1> QED
    BY <1>1, <1>2, <1>3, <1>4, <1>5 DEF DecodeStep, ReadStep

(* The decoder is at a part of unmarshal, and has a result when it has     *)
(* returned.                                                               *)
LEMMA WhereStep ==
    ASSUME AtColumn, pc \in Phases, Returned,
           result \in {"none", "accepted", "rejected"}, DecodeStep
    PROVE  /\ pc' \in Phases /\ Returned'
           /\ result' \in {"none", "accepted", "rejected"}
  <1> USE DEF Phases, Returned, Goto, Reject
  <1>1. CASE ReadHeader \/ RejectHeader \/ ReadDates \/ ReadTable \/ RejectTable
    BY <1>1 DEF ReadHeader, RejectHeader, ReadDates, ReadTable, RejectTable
  <1>2. CASE ReadString \/ RejectString \/ EndStrings \/ RejectStrings
    BY <1>2 DEF ReadString, RejectString, EndStrings, RejectStrings
  <1>3. CASE ReadPrefecture \/ ReadCityCount \/ RejectCityCount \/ ReadCity
             \/ ReadRecordCount \/ RejectRecordCount
    BY <1>3 DEF ReadPrefecture, ReadCityCount, RejectCityCount, ReadCity,
       ReadRecordCount, RejectRecordCount
  <1>4. CASE ReadZip \/ RejectZip \/ EndZips \/ ReadDelta \/ ReadSparse \/ ReadValue
             \/ ReadFlags \/ Accept \/ RejectStore
    BY <1>4 DEF ReadZip, RejectZip, EndZips, ReadDelta, ReadSparse, ReadValue,
       ReadFlags, Accept, RejectStore
  <1>5. CASE EndDelta \/ SkipSparse \/ FailSparse \/ FailValue \/ EndValues
    <2>1. Leave /\ column \in DeltaColumns \cup SparseColumns /\ pc # "done"
      BY <1>5 DEF EndDelta, SkipSparse, FailSparse, FailValue, EndValues, AtColumn
    <2>2. result' = result /\ pc' \in {"delta", "sparse", "flags"}
      BY <2>1, LeaveTo
    <2> QED
      BY <2>1, <2>2
  <1> QED
    BY <1>1, <1>2, <1>3, <1>4, <1>5 DEF DecodeStep, ReadStep

(* The counts and rows that no other part bounds. *)
LEMMA RestStep ==
    ASSUME IInv, flags \in Seq(Byte), values \in Nat, previous \in Nat \cup {-1},
           updated \in [kenAll : Int, rome : Int], DecodeStep
    PROVE  /\ flags' \in Seq(Byte) /\ values' \in Nat
           /\ previous' \in Nat \cup {-1}
           /\ updated' \in [kenAll : Int, rome : Int]
  <1>0. /\ Inside(Cursor) /\ payload \in Seq(Byte) /\ Len(payload) \in Nat
        /\ n \in Nat /\ Standing
    BY StandingCursor DEF IInv, CountsBounded
  <1>1. ReadFlags => flags' \in Seq(Byte)
    <2> SUFFICES ASSUME ReadFlags PROVE flags' \in Seq(Byte)
      OBVIOUS
    <2> DEFINE b == ReadByte(Cursor).v
    <2>1. flags' = Append(flags, b)
      BY DEF ReadFlags
    <2>2. 0 \in Byte
      BY FormatAssumption DEF Byte
    <2>3. b \in Byte
      <3>1. CASE Cursor.err \/ Cursor.pos >= Len(payload)
        BY <2>2, <3>1 DEF ReadByte, Failed
      <3>2. CASE ~(Cursor.err \/ Cursor.pos >= Len(payload))
        <4>1. Cursor.pos + 1 \in 1 .. Len(payload)
          BY <1>0, <3>2 DEF Inside
        <4>2. payload[Cursor.pos + 1] \in Byte
          BY <1>0, <4>1
        <4> QED
          BY <3>2, <4>2 DEF ReadByte
      <3> QED
        BY <3>1, <3>2
    <2> HIDE DEF b
    <2> QED
      BY <2>1, <2>3
  <1>2. ReadSparse => values' \in Nat /\ previous' = -1
    BY <1>0, UvarintReads DEF ReadSparse, Inside, Reads
  <1>3. ReadValue => previous' \in Nat
    <2> SUFFICES ASSUME ReadValue PROVE previous' \in Nat
      OBVIOUS
    <2>1. previous' = previous + 1 + ValueGap.v
      BY DEF ReadValue, ValueRecord
    <2>2. ValueGap.v \in Nat
      BY <1>0, ValueReads DEF Reads, Inside
    <2> QED
      BY <2>1, <2>2
  <1>4. ReadDates => updated' \in [kenAll : Int, rome : Int]
    <2> SUFFICES ASSUME ReadDates PROVE updated' \in [kenAll : Int, rome : Int]
      OBVIOUS
    <2> DEFINE kenAll == ReadVarint(Cursor)
               rome == ReadVarint(kenAll)
    <2>1. kenAll.v \in Int /\ kenAll.pos \in Nat /\ kenAll.pos <= Len(payload)
      BY <1>0, VarintReads DEF Inside
    <2>2. rome.v \in Int
      BY <1>0, <2>1, VarintReads
    <2>3. updated' = [kenAll |-> kenAll.v, rome |-> rome.v]
      BY DEF ReadDates
    <2> HIDE DEF kenAll, rome
    <2> QED
      BY <2>1, <2>2, <2>3
  <1>5. /\ ReadFlags \/ flags' = flags
        /\ ReadSparse \/ values' = values
        /\ ReadSparse \/ ReadValue \/ previous' = previous
        /\ ReadDates \/ updated' = updated
    <2> USE DEF sizes, store, Reject
    <2>1. CASE ReadHeader \/ RejectHeader \/ ReadDates \/ ReadTable \/ RejectTable
               \/ ReadString \/ RejectString \/ EndStrings \/ RejectStrings
      BY <2>1 DEF ReadHeader, RejectHeader, ReadDates, ReadTable, RejectTable,
         ReadString, RejectString, EndStrings, RejectStrings
    <2>2. CASE ReadPrefecture \/ ReadCityCount \/ RejectCityCount \/ ReadCity
               \/ ReadRecordCount \/ RejectRecordCount \/ ReadZip \/ RejectZip
               \/ EndZips
      BY <2>2 DEF ReadPrefecture, ReadCityCount, RejectCityCount, ReadCity,
         ReadRecordCount, RejectRecordCount, ReadZip, RejectZip, EndZips
    <2>3. CASE ReadDelta \/ EndDelta \/ SkipSparse \/ FailSparse \/ ReadSparse
               \/ ReadValue \/ FailValue \/ EndValues \/ ReadFlags \/ Accept
               \/ RejectStore
      BY <2>3 DEF ReadDelta, EndDelta, SkipSparse, FailSparse, ReadSparse,
         ReadValue, FailValue, EndValues, ReadFlags, Accept, RejectStore
    <2> QED
      BY <2>1, <2>2, <2>3 DEF DecodeStep, ReadStep
  <1> QED
    BY <1>1, <1>2, <1>3, <1>4, <1>5

(* Each step keeps the types.                                              *)
LEMMA TypeStep ==
    ASSUME IInv, DecoderTypeOK, Returned, DecodeStep
    PROVE  DecoderTypeOK' /\ Returned'
  <1>1. IInv'
    BY NextIInv
  <1>2. /\ err' \in BOOLEAN
        /\ pc' \in Phases /\ Returned' /\ result' \in {"none", "accepted", "rejected"}
    BY ErrStep, WhereStep DEF DecoderTypeOK, IInv, Phases
  <1>3. /\ flags' \in Seq(Byte) /\ values' \in Nat
        /\ previous' \in Nat \cup {-1}
        /\ updated' \in [kenAll : Int, rome : Int]
    BY RestStep DEF DecoderTypeOK
  <1>4. /\ pos' \in Nat
        /\ numStrings' \in Nat /\ blobLen' \in Nat /\ numCities' \in Nat /\ n' \in Nat
    BY <1>1 DEF IInv, Standing, CountsBounded
  <1>5. blob' \in Seq(Byte) /\ strOff' \in Seq(Nat)
    <2>1. blob' \in Seq(Byte) /\ strOff' \in Seq(0 .. Len(blob'))
      BY <1>1 DEF IInv, TableBuilt
    <2> QED
      BY <2>1
  <1>6. /\ prefs' \in Seq(NameRefs)
        /\ cities' \in Seq([jis : Nat, pref : Nat, name : NameRefs])
        /\ zips' \in Seq(0 .. MaxZip)
        /\ columns' \in [DeltaColumns -> Seq(Nat)]
        /\ notes' \in [SparseColumns ->
                    [present : Seq(SUBSET (0 .. WordBits - 1)),
                     rank : Seq(Nat), ids : Seq(Nat)]]
    BY <1>1 DEF IInv, NamesBuilt, ZipsBuilt, ColumnsBuilt, NotesBuilt
  <1>7. column' \in DeltaColumns \cup SparseColumns \cup {"flags"}
    BY <1>1, ColumnNames DEF IInv, AtColumn
  <1> QED
    BY <1>2, <1>3, <1>4, <1>5, <1>6, <1>7 DEF DecoderTypeOK, Phases

(* A decoder that has not begun is well typed.                             *)
LEMMA InitTypes == file \in File /\ Fresh => DecoderTypeOK /\ Returned
  <1> SUFFICES ASSUME file \in File, Fresh PROVE DecoderTypeOK /\ Returned
    OBVIOUS
  <1>1. Returned
    BY DEF Returned, Fresh
  <1>2. IInv
    BY InitIInv
  <1>3. /\ zips \in Seq(0 .. MaxZip) /\ columns \in [DeltaColumns -> Seq(Nat)]
        /\ notes \in [SparseColumns ->
                    [present : Seq(SUBSET (0 .. WordBits - 1)),
                     rank : Seq(Nat), ids : Seq(Nat)]]
    BY <1>2 DEF IInv, ZipsBuilt, ColumnsBuilt, NotesBuilt
  <1>4. column \in DeltaColumns \cup SparseColumns \cup {"flags"}
    BY DEF Fresh, DeltaColumns
  <1>5. /\ pos \in Nat /\ err \in BOOLEAN /\ pc \in Phases
        /\ numStrings \in Nat /\ blobLen \in Nat /\ numCities \in Nat
        /\ n \in Nat /\ values \in Nat
        /\ result \in {"none", "accepted", "rejected"}
    BY DEF Fresh, Phases
  <1>7. previous \in Nat \cup {-1}
    BY DEF Fresh
  <1>8. updated \in [kenAll : Int, rome : Int]
    BY DEF Fresh
  <1>6. /\ blob \in Seq(Byte) /\ strOff \in Seq(Nat) /\ prefs \in Seq(NameRefs)
        /\ cities \in Seq([jis : Nat, pref : Nat, name : NameRefs])
        /\ flags \in Seq(Byte)
    BY DEF Fresh
  <1> QED
    BY <1>1, <1>3, <1>4, <1>5, <1>6, <1>7, <1>8 DEF DecoderTypeOK, Phases

-----------------------------------------------------------------------------
(* How far the decoder is from its return. *)

(* Each column is nearer to the last part than the one before it. *)
ColumnsLeft ==
    [city |-> 6, kanji |-> 5, kana |-> 4, romaji |-> 3, note |-> 2,
     noteKana |-> 1, flags |-> 0]

(* The next column leaves fewer after it.                                  *)
LEMMA FewerColumns ==
    /\ \A c \in DeltaColumns \cup SparseColumns \cup {"flags"} :
          ColumnsLeft[c] \in 0 .. 6
    /\ \A c \in DeltaColumns \cup SparseColumns :
          ColumnsLeft[NextColumn[c]] < ColumnsLeft[c]
  BY DEF ColumnsLeft, DeltaColumns, SparseColumns, NextColumn

(* What is left at each part of unmarshal. *)
LeftHere ==
    /\ pc = "header" => PhasesLeft = 13
    /\ pc = "dates" => PhasesLeft = 12
    /\ pc = "table" => PhasesLeft = 11
    /\ pc = "strings" => PhasesLeft = 10 /\ RowsLeft = numStrings - Len(strOff)
    /\ pc = "prefs" => PhasesLeft = 9 /\ RowsLeft = PrefectureCount - Len(prefs)
    /\ pc = "cities" => PhasesLeft = 8 /\ RowsLeft = numCities - Len(cities)
    /\ pc = "zips" => PhasesLeft = 7 /\ RowsLeft = n - Len(zips)
    /\ pc = "done" => PhasesLeft = -1
    /\ pc \in Reading => PhasesLeft = ColumnsLeft[column]
    /\ pc = "delta" =>
          RowsLeft = n - Len(columns[column]) + (IF err THEN 0 ELSE 1)
    /\ pc = "sparse" => RowsLeft = n + 1
    /\ pc = "values" => RowsLeft = values - Len(notes[column].ids)
    /\ pc = "flags" => RowsLeft = n - Len(flags)

(* The two measures, part by part.                                         *)
LEMMA LeftAlways == LeftHere
  <1>1. /\ pc = "header" => PhasesLeft = 13
        /\ pc = "dates" => PhasesLeft = 12
        /\ pc = "table" => PhasesLeft = 11
        /\ pc = "strings" => PhasesLeft = 10
        /\ pc = "prefs" => PhasesLeft = 9
        /\ pc = "cities" => PhasesLeft = 8
        /\ pc = "zips" => PhasesLeft = 7
        /\ pc = "done" => PhasesLeft = -1
        /\ pc \in Reading => PhasesLeft = ColumnsLeft[column]
    BY DEF PhasesLeft, ColumnsLeft, Reading
  <1>2. /\ pc = "strings" => RowsLeft = numStrings - Len(strOff)
        /\ pc = "prefs" => RowsLeft = PrefectureCount - Len(prefs)
        /\ pc = "cities" => RowsLeft = numCities - Len(cities)
        /\ pc = "zips" => RowsLeft = n - Len(zips)
        /\ pc = "delta" =>
              RowsLeft = n - Len(columns[column]) + (IF err THEN 0 ELSE 1)
        /\ pc = "sparse" => RowsLeft = n + 1
        /\ pc = "values" => RowsLeft = values - Len(notes[column].ids)
        /\ pc = "flags" => RowsLeft = n - Len(flags)
    BY DEF RowsLeft
  <1> QED
    BY <1>1, <1>2 DEF LeftHere

(* The same of the next state.                                             *)
LEMMA LeftNext == LeftHere'
  BY LeftAlways, PTL

(* One row fewer of the part that is read, or a part fewer. *)
Fewer ==
    \/ PhasesLeft' < PhasesLeft
    \/ PhasesLeft' = PhasesLeft /\ 0 <= RowsLeft' /\ RowsLeft' < RowsLeft

(* Before the end there is a part left.                                    *)
LEMMA PhasesRemain ==
    ASSUME IInv, pc \in Phases, pc # "done"
    PROVE  PhasesLeft \in 0 .. 13
  <1>1. column \in DeltaColumns \cup SparseColumns \cup {"flags"}
    BY ColumnNames DEF IInv, AtColumn
  <1>2. ColumnsLeft[column] \in 0 .. 6
    BY <1>1, FewerColumns
  <1> QED
    BY <1>2, LeftAlways DEF LeftHere, Phases, Reading

(* A row that is appended is one fewer to be read. *)
LEMMA RowFewer ==
    ASSUME NEW T, NEW s \in Seq(T), NEW e, NEW m \in Nat, Len(s) < m
    PROVE  /\ Len(Append(s, e)) = Len(s) + 1
           /\ 0 <= m - Len(Append(s, e))
           /\ m - Len(Append(s, e)) < m - Len(s)
  OBVIOUS

(* A return leaves none.                                                   *)
LEMMA PartFewer ==
    ASSUME IInv, pc \in Phases, pc # "done", pc' = "done"
    PROVE  Fewer
  BY PhasesRemain, LeftNext DEF LeftHere, Fewer

(* Leaving a column leaves fewer of them.                                  *)
LEMMA ColumnFewer ==
    ASSUME IInv, pc \in {"delta", "sparse", "values"}, Leave
    PROVE  Fewer
  <1>1. column \in DeltaColumns \cup SparseColumns
    BY DEF IInv, AtColumn
  <1>2. column' = NextColumn[column] /\ pc' \in Reading
    BY <1>1, LeaveTo DEF Reading
  <1>3. ColumnsLeft[NextColumn[column]] < ColumnsLeft[column]
    BY <1>1, FewerColumns
  <1>4. PhasesLeft' = ColumnsLeft[column'] /\ PhasesLeft = ColumnsLeft[column]
    BY <1>2, LeftAlways, LeftNext DEF LeftHere, Reading
  <1> QED
    BY <1>2, <1>3, <1>4 DEF Fewer

(* The steps from a part to the next.                                      *)
LEMMA EarlyFewer ==
    ASSUME IInv, ReadHeader \/ ReadDates \/ ReadTable \/ EndStrings
                 \/ ReadCityCount \/ ReadRecordCount \/ EndZips
    PROVE  Fewer
  <1>1. CASE EndZips
    <2>1. pc = "zips" /\ pc' = "delta" /\ column' = column
      BY <1>1 DEF EndZips, Goto
    <2>2. column \in DeltaColumns \cup SparseColumns \cup {"flags"}
      BY ColumnNames DEF IInv, AtColumn
    <2>3. ColumnsLeft[column] \in 0 .. 6
      BY <2>2, FewerColumns
    <2>4. PhasesLeft = 7 /\ PhasesLeft' = ColumnsLeft[column]
      BY <2>1, LeftAlways, LeftNext DEF LeftHere, Reading
    <2> QED
      BY <2>3, <2>4 DEF Fewer
  <1>2. CASE ReadHeader \/ ReadDates \/ ReadTable
    BY <1>2, LeftAlways, LeftNext
       DEF LeftHere, Fewer, ReadHeader, ReadDates, ReadTable, Goto
  <1>3. CASE EndStrings \/ ReadCityCount \/ ReadRecordCount
    BY <1>3, LeftAlways, LeftNext
       DEF LeftHere, Fewer, EndStrings, ReadCityCount, ReadRecordCount, Goto
  <1> QED
    BY <1>1, <1>2, <1>3

(* The strings, the names and the zip codes, a row at a time.              *)
LEMMA RowsFewer ==
    ASSUME IInv, ReadString \/ ReadPrefecture \/ ReadCity \/ ReadZip
    PROVE  Fewer
  <1>1. {numStrings, numCities, n, PrefectureCount} \subseteq Nat
    BY FormatAssumption DEF IInv, CountsBounded
  <1>2. CASE ReadString
    <2>1. /\ pc = "strings" /\ pc' = "strings" /\ numStrings' = numStrings
          /\ Len(strOff) < numStrings /\ strOff' = Append(strOff, Len(blob))
      BY <1>2 DEF ReadString, Goto, sizes
    <2>2. strOff \in Seq(0 .. Len(blob))
      BY DEF IInv, TableBuilt
    <2>3. RowsLeft = numStrings - Len(strOff) /\ RowsLeft' = numStrings - Len(strOff')
          /\ PhasesLeft = 10 /\ PhasesLeft' = 10
      BY <2>1, LeftAlways, LeftNext DEF LeftHere
    <2> QED
      BY <1>1, <2>1, <2>2, <2>3, RowFewer DEF Fewer
  <1>3. CASE ReadPrefecture
    <2> DEFINE ref == ReadNameRef(Cursor).v
    <2>1. /\ pc = "prefs" /\ pc' = "prefs"
          /\ Len(prefs) < PrefectureCount /\ prefs' = Append(prefs, ref)
      BY <1>3 DEF ReadPrefecture, Goto
    <2> HIDE DEF ref
    <2>2. prefs \in Seq(NameRefs)
      BY DEF IInv, NamesBuilt
    <2>3. /\ RowsLeft = PrefectureCount - Len(prefs)
          /\ RowsLeft' = PrefectureCount - Len(prefs')
          /\ PhasesLeft = 9 /\ PhasesLeft' = 9
      BY <2>1, LeftAlways, LeftNext DEF LeftHere
    <2> QED
      BY <1>1, <2>1, <2>2, <2>3, RowFewer DEF Fewer
  <1>4. CASE ReadCity
    <2>1. /\ pc = "cities" /\ pc' = "cities" /\ numCities' = numCities
          /\ Len(cities) < numCities /\ \E city : cities' = Append(cities, city)
      BY <1>4, Zenon DEF ReadCity, Goto, sizes
    <2> PICK city : cities' = Append(cities, city)
      BY <2>1
    <2>2. cities \in Seq([jis : Nat, pref : Nat, name : NameRefs])
      BY DEF IInv, NamesBuilt
    <2>3. /\ RowsLeft = numCities - Len(cities) /\ RowsLeft' = numCities - Len(cities')
          /\ PhasesLeft = 8 /\ PhasesLeft' = 8
      BY <2>1, LeftAlways, LeftNext DEF LeftHere
    <2> QED
      BY <1>1, <2>1, <2>2, <2>3, RowFewer DEF Fewer
  <1>5. CASE ReadZip
    <2> DEFINE zip == NextZip(ReadUvarint32(Cursor))
    <2>1. /\ pc = "zips" /\ pc' = "zips" /\ n' = n
          /\ Len(zips) < n /\ zips' = Append(zips, zip)
      BY <1>5 DEF ReadZip, Goto, sizes
    <2> HIDE DEF zip
    <2>2. zips \in Seq(0 .. MaxZip)
      BY DEF IInv, ZipsBuilt
    <2>3. /\ RowsLeft = n - Len(zips) /\ RowsLeft' = n - Len(zips')
          /\ PhasesLeft = 7 /\ PhasesLeft' = 7
      BY <2>1, LeftAlways, LeftNext DEF LeftHere
    <2> QED
      BY <1>1, <2>1, <2>2, <2>3, RowFewer DEF Fewer
  <1> QED
    BY <1>2, <1>3, <1>4, <1>5
(* A delta column, a row at a time, or an error that ends it.              *)
LEMMA DeltaFewer ==
    ASSUME IInv, ReadDelta, err \in BOOLEAN
    PROVE  Fewer
  <1> DEFINE delta == ReadVarint(Cursor)
             list == columns[column]
             x == LastOf(list) + delta.v
  <1>1. /\ pc = "delta" /\ pc' = "delta" /\ column' = column /\ n' = n /\ ~err
        /\ Len(list) < n
    BY DEF ReadDelta, Goto, sizes
  <1>2. \/ columns' = columns /\ err'
        \/ columns' = [columns EXCEPT ![column] = Append(@, LastOf(@) + delta.v)]
    BY DEF ReadDelta, Advance, Failed
  <1>3. n \in Nat /\ column \in DeltaColumns /\ columns \in [DeltaColumns -> Seq(Nat)]
    BY <1>1 DEF IInv, CountsBounded, AtColumn, ColumnsBuilt
  <1>4. list \in Seq(Nat)
    BY <1>3
  <1>5. PhasesLeft' = PhasesLeft
    BY <1>1, LeftAlways, LeftNext DEF LeftHere, Reading
  <1>6. /\ RowsLeft = n - Len(list) + 1
        /\ RowsLeft' = n - Len(columns'[column]) + (IF err' THEN 0 ELSE 1)
    BY <1>1, LeftAlways, LeftNext DEF LeftHere
  <1>7. n - Len(list) \in Nat
    BY <1>1, <1>3, <1>4
  <1>8. CASE columns' = columns /\ err'
    <2>1. RowsLeft' = n - Len(list) + 0
      BY <1>6, <1>8
    <2> HIDE DEF list
    <2> QED
      BY <1>5, <1>6, <1>7, <2>1 DEF Fewer
  <1>9. CASE columns' = [columns EXCEPT ![column] = Append(@, LastOf(@) + delta.v)]
    <2> HIDE DEF delta
    <2>1. columns'[column] = Append(list, x)
      BY <1>3, <1>9
    <2> HIDE DEF list, x
    <2> DEFINE left == n - Len(columns'[column])
    <2>2. left \in Nat /\ n - Len(list) = left + 1
      BY <1>1, <1>3, <1>4, <2>1, RowFewer
    <2>3. RowsLeft' = left + 0 \/ RowsLeft' = left + 1
      BY <1>6
    <2> HIDE DEF left
    <2>4. RowsLeft = (left + 1) + 1
      BY <1>6, <2>2
    <2> QED
      BY <1>5, <2>2, <2>3, <2>4 DEF Fewer
  <1> QED
    BY <1>2, <1>8, <1>9

(* A notes column that was allocated has no more values than records.      *)
LEMMA SparseFewer ==
    ASSUME IInv, ReadSparse
    PROVE  Fewer
  <1> DEFINE c == ReadUvarint(Cursor)
  <1>1. /\ pc = "sparse" /\ pc' = "values" /\ column' = column /\ n' = n
        /\ c.v <= n /\ values' = c.v
    BY DEF ReadSparse, Goto
  <1>2. c.v \in Nat
    BY StandingCursor, UvarintReads DEF IInv, Inside, Reads
  <1> HIDE DEF c
  <1>3. /\ n \in Nat /\ column \in SparseColumns
        /\ notes \in [SparseColumns ->
                       [present : Seq(SUBSET (0 .. WordBits - 1)),
                        rank : Seq(Nat), ids : Seq(Nat)]]
    BY <1>1 DEF IInv, CountsBounded, AtColumn, NotesBuilt
  <1>4. notes'[column].ids = <<>>
    BY <1>3 DEF ReadSparse
  <1>5. PhasesLeft' = PhasesLeft
    BY <1>1, LeftAlways, LeftNext DEF LeftHere, Reading
  <1>6. RowsLeft = n + 1 /\ RowsLeft' = values' - Len(notes'[column].ids)
    BY <1>1, LeftAlways, LeftNext DEF LeftHere
  <1>7. RowsLeft' = c.v
    BY <1>1, <1>2, <1>4, <1>6
  <1> QED
    BY <1>1, <1>2, <1>3, <1>5, <1>6, <1>7 DEF Fewer

(* Its values, one at a time.                                              *)
LEMMA ValueFewer ==
    ASSUME IInv, ReadValue, values \in Nat
    PROVE  Fewer
  <1> DEFINE list == notes[column].ids
             x == ValueId.v
  <1>1. /\ pc = "values" /\ pc' = "values" /\ column' = column /\ values' = values
        /\ Len(list) < values
    BY DEF ReadValue, Goto
  <1>2. /\ column \in SparseColumns
        /\ notes \in [SparseColumns ->
                       [present : Seq(SUBSET (0 .. WordBits - 1)),
                        rank : Seq(Nat), ids : Seq(Nat)]]
    BY <1>1 DEF IInv, AtColumn, NotesBuilt
  <1>3. list \in Seq(Nat)
    BY <1>2
  <1>4. notes'[column].ids = Append(list, x)
    BY <1>2 DEF ReadValue
  <1> HIDE DEF x
  <1>5. PhasesLeft' = PhasesLeft
    BY <1>1, LeftAlways, LeftNext DEF LeftHere, Reading
  <1>6. RowsLeft = values - Len(list) /\ RowsLeft' = values - Len(notes'[column].ids)
    BY <1>1, LeftAlways, LeftNext DEF LeftHere
  <1> HIDE DEF list
  <1> QED
    BY <1>1, <1>3, <1>4, <1>5, <1>6, RowFewer DEF Fewer

(* The flags, a record at a time.                                          *)
LEMMA FlagsFewer ==
    ASSUME IInv, ReadFlags, flags \in Seq(Byte)
    PROVE  Fewer
  <1> DEFINE b == ReadByte(Cursor).v
  <1>1. /\ pc = "flags" /\ pc' = "flags" /\ column' = column /\ n' = n
        /\ Len(flags) < n /\ flags' = Append(flags, b)
    BY DEF ReadFlags, Goto, sizes
  <1> HIDE DEF b
  <1>2. n \in Nat
    BY DEF IInv, CountsBounded
  <1>3. PhasesLeft' = PhasesLeft
    BY <1>1, LeftAlways, LeftNext DEF LeftHere, Reading
  <1>4. RowsLeft = n - Len(flags) /\ RowsLeft' = n - Len(flags')
    BY <1>1, LeftAlways, LeftNext DEF LeftHere
  <1> QED
    BY <1>1, <1>2, <1>3, <1>4, RowFewer DEF Fewer

(* Every step.                                                             *)
LEMMA StepFewer ==
    ASSUME IInv, DecoderTypeOK, DecodeStep
    PROVE  Fewer
  <1>1. pc \in Phases /\ err \in BOOLEAN /\ values \in Nat /\ flags \in Seq(Byte)
    BY DEF DecoderTypeOK, Phases
  <1>2. CASE RejectHeader \/ RejectTable \/ RejectString \/ RejectStrings
             \/ RejectCityCount \/ RejectRecordCount \/ RejectZip \/ Accept
             \/ RejectStore
    <2>1. pc # "done" /\ pc' = "done"
      BY <1>2 DEF RejectHeader, RejectTable, RejectString, RejectStrings,
         RejectCityCount, RejectRecordCount, RejectZip, Accept, RejectStore,
         Reject
    <2> QED
      BY <1>1, <2>1, PartFewer
  <1>3. CASE EndDelta \/ SkipSparse \/ FailSparse \/ FailValue \/ EndValues
    <2>1. pc \in {"delta", "sparse", "values"} /\ Leave
      BY <1>3 DEF EndDelta, SkipSparse, FailSparse, FailValue, EndValues
    <2> QED
      BY <2>1, ColumnFewer
  <1> QED
    BY <1>1, <1>2, <1>3, EarlyFewer, RowsFewer, DeltaFewer, SparseFewer,
       ValueFewer, FlagsFewer DEF DecodeStep, ReadStep

(* Whatever the payload, the decoder's variables stay within the Go types  *)
(* they stand for (decode.go:15-67, 110-228).                              *)
THEOREM DecoderTyped == DecodeSpec => []DecoderTypeOK
  <1>1. file \in File /\ Fresh => IInv /\ DecoderTypeOK /\ Returned
    BY InitIInv, InitTypes
  <1>2. IInv /\ DecoderTypeOK /\ Returned /\ [DecodeStep]_decoderVars =>
            (IInv /\ DecoderTypeOK /\ Returned)'
    <2>1. IInv /\ [DecodeStep]_decoderVars => IInv'
      BY NextIInv
    <2>2. CASE UNCHANGED decoderVars
      BY <2>1, <2>2 DEF decoderVars, decoderState, sizes, store, DecoderTypeOK, Returned
    <2>3. CASE DecodeStep
      BY <2>1, <2>3, TypeStep
    <2> QED
      BY <2>2, <2>3
  <1> QED
    BY <1>1, <1>2, PTL DEF DecodeSpec

(* Whatever the payload, every step of the decoder leaves fewer rows to be *)
(* read in the part it is in, or fewer parts: it cannot go on for ever     *)
(* (decode.go:110-228).                                                    *)
THEOREM AlwaysFewer == DecodeSpec => Advances
  <1>1. IInv /\ DecoderTypeOK /\ [DecodeStep]_decoderVars => [Fewer]_decoderState
    <2> SUFFICES ASSUME IInv, DecoderTypeOK, [DecodeStep]_decoderVars
                 PROVE  [Fewer]_decoderState
      OBVIOUS
    <2>1. CASE DecodeStep
      BY <2>1, StepFewer
    <2>2. CASE UNCHANGED decoderVars
      BY <2>2 DEF decoderVars
    <2> QED
      BY <2>1, <2>2
  <1> QED
    BY <1>1, Inductive, DecoderTyped, PTL DEF DecodeSpec, Advances, Fewer

-----------------------------------------------------------------------------
(* The varints that are written. *)

(* The digits of a number: what is left of it after each, and the bytes of *)
(* those up to the last that is not zero.                                  *)
VarintDigits(left, len, x) ==
    /\ len \in 1 .. MaxVarintLen
    /\ left \in [0 .. len -> Nat]
    /\ left[0] = x
    /\ left[len] = 0
    /\ \A k \in 1 .. len : left[k] = left[k - 1] \div VarintBase

DigitBytes(left, len) ==
    [i \in 1 .. len |->
        IF i < len THEN VarintBase + (left[i - 1] % VarintBase)
        ELSE left[i - 1]]

(* The powers of the base that a varint's digits count, up to the longest  *)
(* varint.                                                                 *)
LEMMA PowersOfBase ==
    /\ VarintRange \in Nat
    /\ \E power \in [0 .. MaxVarintLen -> Nat] :
          /\ power[0] = 1
          /\ power[MaxVarintLen] = VarintRange
          /\ \A k \in 1 .. MaxVarintLen : power[k] = power[k - 1] * VarintBase
  <1> DEFINE step == [k \in 1 .. MaxVarintLen |-> [x \in Nat |-> x * VarintBase]]
  <1>0. MaxVarintLen \in Nat /\ VarintBase \in Nat
    BY FormatAssumption
  <1>1. step \in Steps(Nat, MaxVarintLen)
    BY <1>0 DEF Steps
  <1>2. \A k \in 1 .. MaxVarintLen : \A x \in Nat : step[k][x] = x * VarintBase
    OBVIOUS
  <1> HIDE DEF step
  <1>3. PICK f : Computed(f, Nat, 1, MaxVarintLen, step)
    BY <1>0, <1>1, Recursion
  <1>4. /\ f \in [0 .. MaxVarintLen -> Nat]
        /\ f[0] = 1
        /\ \A k \in 1 .. MaxVarintLen : f[k] = step[k][f[k - 1]]
    BY <1>3 DEF Computed
  <1>5. \A k \in 1 .. MaxVarintLen : f[k] = f[k - 1] * VarintBase
    <2>1. \A k \in 1 .. MaxVarintLen : f[k - 1] \in Nat
      BY <1>0, <1>4
    <2> QED
      BY <1>2, <1>4, <2>1
  <1>6. f = [k \in 0 .. MaxVarintLen |->
               IF k = 0 THEN 1 ELSE f[k - 1] * VarintBase]
    BY <1>4, <1>5
  <1> DEFINE power == CHOOSE power : power =
                        [k \in 0 .. MaxVarintLen |->
                           IF k = 0 THEN 1 ELSE power[k - 1] * VarintBase]
  <1>7. power = [k \in 0 .. MaxVarintLen |->
                   IF k = 0 THEN 1 ELSE power[k - 1] * VarintBase]
    BY <1>6, Zenon
  <1>8. VarintRange = power[MaxVarintLen]
    BY DEF VarintRange
  <1> HIDE DEF power
  <1>9. power[0] = 1
        /\ \A k \in 1 .. MaxVarintLen : power[k] = power[k - 1] * VarintBase
    <2>1. ASSUME NEW k \in 1 .. MaxVarintLen
          PROVE  power[k] = power[k - 1] * VarintBase
      <3>1. k \in 0 .. MaxVarintLen /\ k # 0
        OBVIOUS
      <3> QED
        BY <1>7, <3>1
    <2> QED
      BY <1>0, <1>7, <2>1
  <1>10. \A k \in 0 .. MaxVarintLen : power[k] = f[k]
    <2>1. \A k \in 1 .. MaxVarintLen : power[k - 1] = f[k - 1] => power[k] = f[k]
      BY <1>5, <1>9
    <2>2. power[0] = f[0] /\ MaxVarintLen \in Nat
      BY <1>0, <1>4, <1>9
    <2> QED
      BY <2>1, <2>2, Agreement
  <1>11. power \in [0 .. MaxVarintLen -> Nat]
    BY <1>4, <1>7, <1>10
  <1>12. VarintRange \in Nat
    BY <1>0, <1>8, <1>11
  <1> QED
    BY <1>8, <1>9, <1>11, <1>12

(* What is left of a number after as many digits as a varint may have. *)
LEMMA NothingLeft ==
    ASSUME NEW x \in 0 .. VarintLimit - 1, NEW left,
           left \in [0 .. MaxVarintLen -> Nat], left[0] = x,
           \A k \in 1 .. MaxVarintLen : left[k] = left[k - 1] \div VarintBase
    PROVE  left[MaxVarintLen] = 0
  <1>0. /\ MaxVarintLen \in Nat /\ VarintBase \in Nat \ {0}
        /\ VarintLimit <= VarintRange /\ VarintLimit \in Nat
    BY FormatAssumption, VarintAssumption
  <1>1. VarintRange \in Nat
    BY PowersOfBase
  <1>2. PICK power \in [0 .. MaxVarintLen -> Nat] :
          /\ power[0] = 1
          /\ power[MaxVarintLen] = VarintRange
          /\ \A k \in 1 .. MaxVarintLen : power[k] = power[k - 1] * VarintBase
    BY PowersOfBase
  <1> DEFINE S == {k \in 0 .. MaxVarintLen : left[k] < power[MaxVarintLen - k]}
  <1>3. 0 \in S
    BY <1>0, <1>1, <1>2
  <1>4. ASSUME NEW k \in 0 .. MaxVarintLen - 1, k \in S PROVE k + 1 \in S
    <2> DEFINE c == power[MaxVarintLen - (k + 1)]
    <2>1. /\ k + 1 \in 1 .. MaxVarintLen /\ (k + 1) - 1 = k
          /\ MaxVarintLen - k \in 1 .. MaxVarintLen
          /\ (MaxVarintLen - k) - 1 = MaxVarintLen - (k + 1)
          /\ MaxVarintLen - (k + 1) \in 0 .. MaxVarintLen
      BY <1>0
    <2>2. c \in Nat /\ left[k] \in Nat /\ left[k] < c * VarintBase
      BY <1>2, <1>4, <2>1
    <2>3. left[k + 1] = left[k] \div VarintBase
      BY <2>1
    <2> HIDE DEF c
    <2>4. left[k + 1] < c
      BY <1>0, <2>2, <2>3, QuotientBelow
    <2> QED
      BY <2>1, <2>4 DEF c
  <1> HIDE DEF S
  <1>5. MaxVarintLen \in S
    <2>1. 0 .. MaxVarintLen \subseteq S
      BY <1>0, <1>3, <1>4, BoundedInduction
    <2> QED
      BY <1>0, <2>1
  <1>6. left[MaxVarintLen] < power[0] /\ left[MaxVarintLen] \in Nat
    BY <1>0, <1>5 DEF S
  <1> QED
    BY <1>2, <1>6

(* The bytes of a uvarint are the digits of its number, up to the last one *)
(* that is not zero.                                                       *)
LEMMA UvarintIs ==
    ASSUME NEW x \in 0 .. VarintLimit - 1
    PROVE  \E left, len : /\ VarintDigits(left, len, x)
                          /\ UvarintBytes(x) = DigitBytes(left, len)
                          /\ \A k \in 1 .. len - 1 : left[k] # 0
  <1>0. /\ MaxVarintLen \in Nat \ {0} /\ VarintBase \in Nat \ {0}
        /\ VarintLimit \in Nat /\ x \in Nat
    BY FormatAssumption
  <1> DEFINE step == [k \in 1 .. MaxVarintLen |-> [y \in Nat |-> y \div VarintBase]]
  <1>1. step \in Steps(Nat, MaxVarintLen)
    BY <1>0, Division DEF Steps
  <1>2. \A k \in 1 .. MaxVarintLen : \A y \in Nat : step[k][y] = y \div VarintBase
    OBVIOUS
  <1> HIDE DEF step
  <1>3. PICK f : Computed(f, Nat, x, MaxVarintLen, step)
    BY <1>0, <1>1, Recursion
  <1>4. /\ f \in [0 .. MaxVarintLen -> Nat]
        /\ f[0] = x
        /\ \A k \in 1 .. MaxVarintLen : f[k] = step[k][f[k - 1]]
    BY <1>3 DEF Computed
  <1>5. \A k \in 1 .. MaxVarintLen : f[k] = f[k - 1] \div VarintBase
    <2>1. \A k \in 1 .. MaxVarintLen : f[k - 1] \in Nat
      BY <1>0, <1>4
    <2> QED
      BY <1>2, <1>4, <2>1
  <1>6. f = [k \in 0 .. MaxVarintLen |->
               IF k = 0 THEN x ELSE f[k - 1] \div VarintBase]
    BY <1>4, <1>5
  <1> DEFINE left == CHOOSE left : left =
                       [k \in 0 .. MaxVarintLen |->
                          IF k = 0 THEN x ELSE left[k - 1] \div VarintBase]
             zeros == {k \in 1 .. MaxVarintLen : left[k] = 0}
             len == Min(zeros)
  <1>7. left = [k \in 0 .. MaxVarintLen |->
                  IF k = 0 THEN x ELSE left[k - 1] \div VarintBase]
    BY <1>6, Zenon
  <1>8. UvarintBytes(x) = DigitBytes(left, len)
    BY DEF UvarintBytes, DigitBytes
  <1> HIDE DEF left
  <1>9. left[0] = x
        /\ \A k \in 1 .. MaxVarintLen : left[k] = left[k - 1] \div VarintBase
    <2>1. ASSUME NEW k \in 1 .. MaxVarintLen
          PROVE  left[k] = left[k - 1] \div VarintBase
      <3>1. k \in 0 .. MaxVarintLen /\ k # 0
        OBVIOUS
      <3> QED
        BY <1>7, <3>1
    <2> QED
      BY <1>0, <1>7, <2>1
  <1>10. \A k \in 0 .. MaxVarintLen : left[k] = f[k]
    <2>1. \A k \in 1 .. MaxVarintLen : left[k - 1] = f[k - 1] => left[k] = f[k]
      BY <1>5, <1>9
    <2>2. left[0] = f[0] /\ MaxVarintLen \in Nat
      BY <1>0, <1>4, <1>9
    <2> QED
      BY <2>1, <2>2, Agreement
  <1>11. left \in [0 .. MaxVarintLen -> Nat]
    BY <1>4, <1>7, <1>10
  <1>12. left[MaxVarintLen] = 0
    BY <1>9, <1>11, NothingLeft
  <1>13. len \in zeros /\ \A k \in zeros : len <= k
    <2>1. zeros \in SUBSET Nat /\ zeros # {}
      BY <1>0, <1>12
    <2> HIDE DEF zeros
    <2> QED
      BY <2>1, LeastOf
  <1> HIDE DEF len
  <1> DEFINE g == [k \in 0 .. len |-> left[k]]
  <1>14. VarintDigits(g, len, x)
    <2>1. len \in 1 .. MaxVarintLen /\ left[len] = 0
      BY <1>13
    <2>2. \A k \in 0 .. len : k \in 0 .. MaxVarintLen /\ g[k] = left[k]
      BY <1>0, <2>1
    <2>3. g \in [0 .. len -> Nat]
      BY <1>11, <2>2
    <2>4. g[0] = x /\ g[len] = 0
      BY <1>9, <2>1, <2>2
    <2>5. ASSUME NEW k \in 1 .. len PROVE g[k] = g[k - 1] \div VarintBase
      <3>1. k \in 1 .. MaxVarintLen /\ k \in 0 .. len /\ k - 1 \in 0 .. len
        BY <1>0, <2>1
      <3> QED
        BY <1>9, <2>2, <3>1
    <2> HIDE DEF g
    <2> QED
      BY <2>1, <2>3, <2>4, <2>5 DEF VarintDigits
  <1>15. DigitBytes(g, len) = DigitBytes(left, len)
    <2>1. \A i \in 1 .. len : i - 1 \in 0 .. len
      BY <1>13
    <2> QED
      BY <2>1 DEF DigitBytes
  <1>16. \A k \in 1 .. len - 1 : g[k] # 0
    <2>1. ASSUME NEW k \in 1 .. len - 1 PROVE left[k] # 0
      <3>1. k \in 1 .. MaxVarintLen /\ ~(len <= k)
        BY <1>0, <1>13
      <3> QED
        BY <1>13, <3>1
    <2>2. \A k \in 1 .. len - 1 : g[k] = left[k]
      BY <1>13
    <2> QED
      BY <2>1, <2>2
  <1> HIDE DEF g
  <1> QED
    BY <1>8, <1>14, <1>15, <1>16

(* The bytes of a varint are bytes, and the last of them says so. *)
LEMMA UvarintShape ==
    ASSUME NEW x \in 0 .. VarintLimit - 1
    PROVE  LET bytes == UvarintBytes(x)
           IN  /\ bytes \in Seq(Byte)
               /\ Len(bytes) \in 1 .. MaxVarintLen
               /\ \A i \in 1 .. Len(bytes) - 1 : bytes[i] >= VarintBase
               /\ bytes[Len(bytes)] < VarintBase
  <1>0. MaxVarintLen \in Nat \ {0} /\ VarintBase \in Nat \ {0}
    BY FormatAssumption
  <1>1. PICK left, len : /\ VarintDigits(left, len, x)
                         /\ UvarintBytes(x) = DigitBytes(left, len)
    BY UvarintIs
  <1> DEFINE bytes == DigitBytes(left, len)
  <1>2. /\ len \in 1 .. MaxVarintLen
        /\ left \in [0 .. len -> Nat]
        /\ left[len] = 0
        /\ \A k \in 1 .. len : left[k] = left[k - 1] \div VarintBase
    BY <1>1 DEF VarintDigits
  <1>3. ASSUME NEW i \in 1 .. len - 1
        PROVE  bytes[i] \in Byte /\ bytes[i] >= VarintBase
    <2>1. i \in 1 .. len /\ i < len /\ left[i - 1] \in Nat
      BY <1>0, <1>2
    <2>2. left[i - 1] % VarintBase \in 0 .. VarintBase - 1
      BY <1>0, <2>1, Division
    <2>3. bytes[i] = VarintBase + (left[i - 1] % VarintBase)
      BY <2>1 DEF DigitBytes
    <2> QED
      BY <1>0, <2>2, <2>3 DEF Byte
  <1>4. bytes[len] \in Byte /\ bytes[len] < VarintBase
    <2>1. len \in 1 .. len /\ left[len - 1] \in Nat
      BY <1>0, <1>2
    <2>2. bytes[len] = left[len - 1]
      BY <1>0, <1>2, <2>1 DEF DigitBytes
    <2>3. /\ left[len - 1] = (left[len - 1] \div VarintBase) * VarintBase
                               + (left[len - 1] % VarintBase)
          /\ left[len - 1] % VarintBase \in 0 .. VarintBase - 1
      BY <1>0, <2>1, Division
    <2>4. left[len - 1] \div VarintBase = 0
      BY <1>2, <2>1
    <2>5. (left[len - 1] \div VarintBase) * VarintBase = 0
      BY <1>0, <2>4
    <2> HIDE DEF bytes
    <2>6. left[len - 1] \in 0 .. VarintBase - 1
      BY <1>0, <2>1, <2>3, <2>5
    <2> QED
      BY <1>0, <2>2, <2>6 DEF Byte
  <1>5. \A i \in 1 .. len : bytes[i] \in Byte
    <2> HIDE DEF bytes
    <2>1. \A i \in 1 .. len : i \in 1 .. len - 1 \/ i = len
      BY <1>0, <1>2
    <2> QED
      BY <1>3, <1>4, <2>1
  <1>6. bytes \in Seq(Byte) /\ Len(bytes) = len
    <2>1. bytes \in [1 .. len -> Byte]
      BY <1>5 DEF DigitBytes
    <2>2. len \in Nat
      BY <1>0, <1>2
    <2> HIDE DEF bytes
    <2>3. bytes \in Seq(Byte)
      <3>1. bytes = [i \in 1 .. len |-> bytes[i]]
        BY <2>1
      <3>2. [i \in 1 .. len |-> bytes[i]] \in Seq(Byte)
        BY <1>5, <2>2, IsASeq
      <3> QED
        BY <3>1, <3>2
    <2>4. DOMAIN bytes = 1 .. len /\ DOMAIN bytes = 1 .. Len(bytes)
          /\ Len(bytes) \in Nat
      BY <2>1, <2>3, LenProperties
    <2> QED
      BY <2>2, <2>3, <2>4
  <1> HIDE DEF bytes
  <1> QED
    BY <1>1, <1>2, <1>3, <1>4, <1>6 DEF bytes

(* The number that is written is the number that is found. *)
LEMMA UvarintFound ==
    ASSUME NEW buf, Len(buf) \in Nat, NEW p \in Nat,
           NEW x \in 0 .. VarintLimit - 1,
           Continues(buf, p, UvarintBytes(x)),
           p + Len(UvarintBytes(x)) <= Len(buf)
    PROVE  UvarintAt(buf, p) = [ok |-> TRUE, v |-> x,
                                len |-> Len(UvarintBytes(x))]
  <1>0. /\ MaxVarintLen \in Nat \ {0} /\ VarintBase \in Nat \ {0}
        /\ VarintLimit \in Nat
    BY FormatAssumption
  <1>1. PICK left, m : /\ VarintDigits(left, m, x)
                       /\ UvarintBytes(x) = DigitBytes(left, m)
    BY UvarintIs
  <1> DEFINE bytes == UvarintBytes(x)
             lasts == {k \in 1 .. MaxVarintLen :
                         p + k <= Len(buf) /\ buf[p + k] < VarintBase}
             len == Min(lasts)
             value == CHOOSE value : value =
                        [k \in 0 .. len |->
                           IF k = 0 THEN 0
                           ELSE value[k - 1] * VarintBase
                                  + (buf[p + 1 + len - k] % VarintBase)]
  <1>2. UvarintAt(buf, p) =
          IF lasts # {} /\ value[len] \in 0 .. VarintLimit - 1
          THEN [ok |-> TRUE, v |-> value[len], len |-> len]
          ELSE [ok |-> FALSE, v |-> 0, len |-> 0]
    BY DEF UvarintAt
  <1> HIDE DEF value
  <1>3. /\ bytes \in Seq(Byte) /\ Len(bytes) \in 1 .. MaxVarintLen
        /\ \A i \in 1 .. Len(bytes) - 1 : bytes[i] >= VarintBase
        /\ bytes[Len(bytes)] < VarintBase
    BY UvarintShape
  <1>4. /\ m \in 1 .. MaxVarintLen
        /\ left \in [0 .. m -> Nat]
        /\ left[0] = x
        /\ left[m] = 0
        /\ \A k \in 1 .. m : left[k] = left[k - 1] \div VarintBase
    BY <1>1 DEF VarintDigits
  <1>5. Len(bytes) = m
    <2>1. DOMAIN bytes = 1 .. m
      BY <1>1 DEF DigitBytes
    <2> HIDE DEF bytes
    <2>2. DOMAIN bytes = 1 .. Len(bytes)
      BY <1>3, LenProperties
    <2> QED
      BY <1>0, <1>3, <1>4, <2>1, <2>2
  <1>6. \A i \in 1 .. m : p + i <= Len(buf) /\ buf[p + i] = bytes[i]
    <2> HIDE DEF bytes
    <2>1. /\ \A i \in 1 .. Len(bytes) : p + i <= Len(buf) => buf[p + i] = bytes[i]
          /\ p + Len(bytes) <= Len(buf)
      BY DEF Continues, bytes
    <2> QED
      BY <1>0, <1>4, <1>5, <2>1, SMTT(60)
  <1> HIDE DEF bytes
  <1>7. lasts # {} /\ len = m
    <2>1. m \in lasts
      BY <1>0, <1>3, <1>4, <1>5, <1>6
    <2>2. \A k \in lasts : m <= k
      <3> SUFFICES ASSUME NEW k \in lasts, k < m PROVE FALSE
        BY <1>0, <1>4, SMTT(60)
      <3>1. k \in 1 .. Len(bytes) - 1 /\ k \in 1 .. m
        BY <1>0, <1>4, <1>5
      <3>2. buf[p + k] = bytes[k] /\ bytes[k] >= VarintBase
        BY <1>3, <1>6, <3>1
      <3>3. buf[p + k] < VarintBase
        OBVIOUS
      <3>4. bytes[k] \in Nat
        BY <1>0, <1>3, <1>5, <3>1, SMTT(60) DEF Byte
      <3> QED
        BY <1>0, <3>2, <3>3, <3>4
    <2>3. lasts \in SUBSET Nat
      OBVIOUS
    <2> HIDE DEF lasts
    <2>4. len \in lasts /\ \A y \in lasts : len <= y
      BY <2>1, <2>3, LeastOf
    <2>5. m \in Nat /\ len \in Nat
      <3>1. m \in Nat
        BY <1>0, <1>4
      <3> HIDE DEF len
      <3> QED
        BY <2>3, <2>4, <3>1
    <2> HIDE DEF len
    <2> QED
      BY <2>1, <2>2, <2>4, <2>5
  <1> HIDE DEF lasts, len
  <1> DEFINE back == [k \in 0 .. m |-> left[m - k]]
  <1>8. back[0] = 0 /\ back[m] = x /\ back \in [0 .. m -> Nat]
    BY <1>0, <1>4
  <1>9. ASSUME NEW k \in 1 .. m
        PROVE  back[k] = back[k - 1] * VarintBase
                           + (buf[p + 1 + m - k] % VarintBase)
    <2> DEFINE i == (m - k) + 1
    <2>1. /\ i \in 1 .. m /\ p + 1 + m - k = p + i /\ i - 1 = m - k
          /\ k - 1 \in 0 .. m /\ k \in 0 .. m
          /\ m - (k - 1) = i /\ i \in 0 .. m /\ i - 1 \in 0 .. m
      BY <1>0, <1>4
    <2>2. back[k] = left[i - 1] /\ back[k - 1] = left[i]
      BY <2>1
    <2> HIDE DEF i, back
    <2>3. left[i] = left[i - 1] \div VarintBase /\ left[i - 1] \in Nat
      BY <1>4, <2>1
    <2> DEFINE q == left[i - 1] \div VarintBase
               r == left[i - 1] % VarintBase
    <2>4. /\ left[i - 1] = q * VarintBase + r
          /\ r \in 0 .. VarintBase - 1 /\ q \in Nat
      BY <1>0, <2>3, Division
    <2> HIDE DEF q, r
    <2>5. buf[p + i] % VarintBase = r
      <3>1. bytes[i] = IF i < m THEN VarintBase + r ELSE left[i - 1]
        BY <1>1, <2>1 DEF DigitBytes, bytes, r
      <3>2. CASE i < m
        <4>1. bytes[i] = 1 * VarintBase + r
          BY <1>0, <2>4, <3>1, <3>2
        <4>2. (1 * VarintBase + r) % VarintBase = r
          BY <1>0, <2>4, QuotientAndRemainder
        <4> QED
          BY <1>6, <2>1, <4>1, <4>2
      <3>3. CASE ~(i < m)
        <4>1. bytes[i] = left[i - 1]
          BY <3>1, <3>3
        <4> QED
          BY <1>6, <2>1, <4>1 DEF r
      <3> QED
        BY <3>2, <3>3
    <2>6. left[i] = q
      BY <2>3 DEF q
    <2> QED
      BY <2>1, <2>2, <2>4, <2>5, <2>6
  <1>10. back = [k \in 0 .. m |->
                   IF k = 0 THEN 0
                   ELSE back[k - 1] * VarintBase
                          + (buf[p + 1 + m - k] % VarintBase)]
    <2>1. \A k \in 0 .. m : back[k] = IF k = 0 THEN 0
                                   ELSE back[k - 1] * VarintBase
                                          + (buf[p + 1 + m - k] % VarintBase)
      <3>1. \A k \in 0 .. m : k # 0 => k \in 1 .. m
        BY <1>0, <1>4
      <3> HIDE DEF back
      <3> QED
        BY <1>8, <1>9, <3>1
    <2> HIDE DEF back
    <2> QED
      BY <1>8, <2>1
  <1> HIDE DEF back
  <1>11. value = [k \in 0 .. m |->
                    IF k = 0 THEN 0
                    ELSE value[k - 1] * VarintBase
                           + (buf[p + 1 + m - k] % VarintBase)]
    BY <1>7, <1>10, Zenon DEF value
  <1>12. value[m] = back[m]
    <2>1. /\ value[0] = 0
          /\ \A k \in 1 .. m : value[k] = value[k - 1] * VarintBase
                                + (buf[p + 1 + m - k] % VarintBase)
      <3>1. \A k \in 1 .. m : k \in 0 .. m /\ k # 0
        BY <1>0, <1>4
      <3>2. 0 \in 0 .. m
        BY <1>0, <1>4
      <3>3. ASSUME NEW k \in 1 .. m
            PROVE  value[k] = value[k - 1] * VarintBase
                                + (buf[p + 1 + m - k] % VarintBase)
        BY <1>11, <3>1
      <3> QED
        BY <1>11, <3>2, <3>3
    <2>2. \A k \in 1 .. m : value[k - 1] = back[k - 1] => value[k] = back[k]
      BY <1>9, <2>1
    <2>3. value[0] = back[0]
      BY <1>8, <2>1
    <2>6. m \in Nat
      BY <1>0, <1>4
    <2>4. \A k \in 0 .. m : value[k] = back[k]
      <3> DEFINE S == {k \in 0 .. m : value[k] = back[k]}
      <3>1. 0 \in S
        BY <2>3, <2>6
      <3>2. ASSUME NEW k \in 0 .. m - 1, k \in S PROVE k + 1 \in S
        <4>1. k + 1 \in 1 .. m /\ (k + 1) - 1 = k /\ k + 1 \in 0 .. m
          BY <2>6
        <4> QED
          BY <2>2, <3>2, <4>1
      <3> HIDE DEF S
      <3>3. 0 .. m \subseteq S
        BY <2>6, <3>1, <3>2, BoundedInduction
      <3> QED
        BY <3>3 DEF S
    <2>5. m \in 0 .. m
      BY <2>6
    <2> QED
      BY <2>4, <2>5
  <1> QED
    BY <1>2, <1>5, <1>7, <1>8, <1>12 DEF bytes

(* A varint that is cut off is not found. *)
LEMMA UvarintCut ==
    ASSUME NEW buf, Len(buf) \in Nat, NEW p \in Nat,
           NEW x \in 0 .. VarintLimit - 1,
           Continues(buf, p, UvarintBytes(x)),
           Len(buf) < p + Len(UvarintBytes(x))
    PROVE  ~UvarintAt(buf, p).ok
  <1>0. MaxVarintLen \in Nat \ {0} /\ VarintBase \in Nat \ {0}
    BY FormatAssumption
  <1> DEFINE bytes == UvarintBytes(x)
             lasts == {k \in 1 .. MaxVarintLen :
                         p + k <= Len(buf) /\ buf[p + k] < VarintBase}
  <1>1. /\ bytes \in Seq(Byte) /\ Len(bytes) \in 1 .. MaxVarintLen
        /\ \A i \in 1 .. Len(bytes) - 1 : bytes[i] >= VarintBase
    BY UvarintShape
  <1>2. /\ \A i \in 1 .. Len(bytes) : p + i <= Len(buf) => buf[p + i] = bytes[i]
        /\ Len(buf) < p + Len(bytes)
    BY DEF Continues
  <1>3. lasts = {}
    <2> SUFFICES ASSUME NEW k \in lasts PROVE FALSE
      OBVIOUS
    <2> HIDE DEF bytes
    <2>1. k \in 1 .. Len(bytes) - 1 /\ k \in 1 .. Len(bytes)
      BY <1>0, <1>1, <1>2
    <2>2. buf[p + k] = bytes[k] /\ bytes[k] >= VarintBase
      BY <1>1, <1>2, <2>1
    <2>3. bytes[k] \in Nat
      BY <1>0, <1>1, <2>1, SMTT(60) DEF Byte
    <2>4. buf[p + k] < VarintBase
      OBVIOUS
    <2> QED
      BY <1>0, <2>2, <2>3, <2>4
  <1> QED
    BY <1>3 DEF UvarintAt

(* The sign comes back. *)
LEMMA ZagOfZig ==
    ASSUME NEW x \in Int
    PROVE  Zig(x) \in Nat /\ Zag(Zig(x)) = x
  <1>1. CASE x >= 0
    <2>1. x \in Nat /\ 2 * x \in Nat /\ (2 * x) % 2 = 0 /\ (2 * x) \div 2 = x
      BY <1>1
    <2> QED
      BY <1>1, <2>1 DEF Zig, Zag
  <1>2. CASE x < 0
    <2>1. /\ -2 * x - 1 \in Nat /\ (-2 * x - 1) % 2 = 1
          /\ ((-2 * x - 1) + 1) \div 2 = -x
      BY <1>2
    <2> QED
      BY <1>2, <2>1 DEF Zig, Zag
  <1> QED
    BY <1>1, <1>2

-----------------------------------------------------------------------------
(* The order of the string table. *)

(* What a string is compared by: it ends before any byte. *)
Letter(s, j) == IF j <= Len(s) THEN s[j] + 1 ELSE 0

Less(s, t, j) ==
    /\ \A i \in 1 .. j - 1 : Letter(s, i) = Letter(t, i)
    /\ Letter(s, j) < Letter(t, j)

(* A letter is one more than its byte, and nothing past the end of the     *)
(* string.                                                                 *)
LEMMA LetterIs ==
    ASSUME NEW s \in Seq(Byte), NEW j \in Nat \ {0}
    PROVE  /\ Letter(s, j) \in Nat
           /\ Letter(s, j) > 0 <=> j <= Len(s)
           /\ j <= Len(s) => s[j] \in Nat /\ Letter(s, j) = s[j] + 1
  <1>1. Len(s) \in Nat
    BY LenProperties
  <1>2. ASSUME j <= Len(s) PROVE s[j] \in Nat
    <2>1. s[j] \in Byte
      BY <1>1, <1>2, ElementOfSeq
    <2>2. VarintBase \in Nat
      BY FormatAssumption
    <2> QED
      BY <2>1, <2>2 DEF Byte
  <1>3. CASE j <= Len(s)
    BY <1>2, <1>3 DEF Letter
  <1>4. CASE ~(j <= Len(s))
    BY <1>4 DEF Letter
  <1> QED
    BY <1>3, <1>4

(* Strings whose letters agree are equal. *)
LEMMA LettersEqual ==
    ASSUME NEW s \in Seq(Byte), NEW t \in Seq(Byte),
           \A j \in Nat \ {0} : Letter(s, j) = Letter(t, j)
    PROVE  s = t
  <1>1. Len(s) \in Nat /\ Len(t) \in Nat
    BY LenProperties
  <1>2. ASSUME NEW u \in Seq(Byte), NEW v \in Seq(Byte),
               \A j \in Nat \ {0} : Letter(u, j) = Letter(v, j)
        PROVE  Len(u) <= Len(v)
    <2>1. Len(u) \in Nat /\ Len(v) \in Nat
      BY LenProperties
    <2>2. CASE Len(u) = 0
      BY <2>1, <2>2
    <2>3. CASE Len(u) # 0
      <3>1. Len(u) \in Nat \ {0} /\ Len(u) <= Len(u)
        BY <2>1, <2>3
      <3>2. Letter(u, Len(u)) > 0
        BY <3>1, LetterIs
      <3>3. Letter(v, Len(u)) > 0
        BY <1>2, <3>1, <3>2
      <3> QED
        BY <3>1, <3>3, LetterIs
    <2> QED
      BY <2>2, <2>3
  <1>3. Len(s) = Len(t)
    <2>1. Len(s) <= Len(t)
      BY <1>2
    <2>2. \A j \in Nat \ {0} : Letter(t, j) = Letter(s, j)
      OBVIOUS
    <2>3. Len(t) <= Len(s)
      BY <1>2, <2>2
    <2> QED
      BY <1>1, <2>1, <2>3
  <1>4. ASSUME NEW i \in 1 .. Len(s) PROVE s[i] = t[i]
    <2>1. i \in Nat \ {0} /\ i <= Len(s) /\ i <= Len(t)
      BY <1>1, <1>3
    <2>2. /\ Letter(s, i) = s[i] + 1 /\ s[i] \in Nat
          /\ Letter(t, i) = t[i] + 1 /\ t[i] \in Nat
      BY <2>1, LetterIs
    <2>3. Letter(s, i) = Letter(t, i)
      BY <2>1
    <2> QED
      BY <2>2, <2>3
  <1> QED
    BY <1>3, <1>4, SeqEqual

(* Prefixes of the same length are equal when their letters are. *)
LEMMA PrefixesEqual ==
    ASSUME NEW s \in Seq(Byte), NEW t \in Seq(Byte), NEW k \in Nat,
           k <= Len(s), k <= Len(t)
    PROVE  SubSeq(s, 1, k) = SubSeq(t, 1, k)
             <=> \A i \in 1 .. k : s[i] = t[i]
  <1>1. Len(s) \in Nat /\ Len(t) \in Nat
    BY LenProperties
  <1>2. ASSUME NEW u \in Seq(Byte), k <= Len(u)
        PROVE  /\ SubSeq(u, 1, k) \in Seq(Byte)
               /\ Len(SubSeq(u, 1, k)) = k
               /\ \A i \in 1 .. k : SubSeq(u, 1, k)[i] = u[i]
    <2>1. \A i \in 1 .. k : u[i] \in Byte
      <3>1. Len(u) \in Nat
        BY LenProperties
      <3>2. \A i \in 1 .. k : i \in 1 .. Len(u)
        BY <1>2, <3>1
      <3> QED
        BY <3>2, ElementOfSeq
    <2>2. 1 \in Int /\ k \in Int
      OBVIOUS
    <2>3. /\ SubSeq(u, 1, k) \in Seq(Byte)
          /\ Len(SubSeq(u, 1, k)) = IF 1 <= k THEN k - 1 + 1 ELSE 0
          /\ \A i \in 1 .. k - 1 + 1 : SubSeq(u, 1, k)[i] = u[1 + i - 1]
      BY <2>1, <2>2, SubSeqProperties
    <2> QED
      BY <2>3
  <1>3. ASSUME SubSeq(s, 1, k) = SubSeq(t, 1, k), NEW i \in 1 .. k
        PROVE  s[i] = t[i]
    BY <1>2, <1>3
  <1>4. ASSUME \A i \in 1 .. k : s[i] = t[i]
        PROVE  SubSeq(s, 1, k) = SubSeq(t, 1, k)
    <2> DEFINE u == SubSeq(s, 1, k)
               v == SubSeq(t, 1, k)
    <2>1. /\ u \in Seq(Byte) /\ Len(u) = k /\ \A i \in 1 .. k : u[i] = s[i]
          /\ v \in Seq(Byte) /\ Len(v) = k /\ \A i \in 1 .. k : v[i] = t[i]
      BY <1>2
    <2> HIDE DEF u, v
    <2>2. \A i \in 1 .. Len(u) : u[i] = v[i]
      BY <1>4, <2>1
    <2>3. u = v
      BY <2>1, <2>2, SeqEqual
    <2> QED
      BY <2>3 DEF u, v
  <1> QED
    BY <1>3, <1>4

(* A string precedes another when the first letter they differ in is less. *)
LEMMA PrecedesIs ==
    ASSUME NEW s \in Seq(Byte), NEW t \in Seq(Byte)
    PROVE  Precedes(s, t) <=> \E j \in Nat \ {0} : Less(s, t, j)
  <1>0. Len(s) \in Nat /\ Len(t) \in Nat
    BY LenProperties
  <1>1. ASSUME IsStrictPrefix(s, t) PROVE \E j \in Nat \ {0} : Less(s, t, j)
    <2>1. Len(s) <= Len(t) /\ SubSeq(s, 1, Len(s)) = SubSeq(t, 1, Len(s)) /\ s # t
      BY <1>1 DEF IsStrictPrefix, IsPrefix
    <2>2. \A i \in 1 .. Len(s) : s[i] = t[i]
      BY <1>0, <2>1, PrefixesEqual
    <2>3. Len(s) # Len(t)
      BY <2>1, <2>2, SeqEqual
    <2> DEFINE j == Len(s) + 1
    <2>4. j \in Nat \ {0} /\ j <= Len(t) /\ ~(j <= Len(s)) /\ j - 1 = Len(s)
      BY <1>0, <2>1, <2>3
    <2>5. ASSUME NEW i \in 1 .. Len(s) PROVE Letter(s, i) = Letter(t, i)
      <3>1. i <= Len(s) /\ i <= Len(t)
        BY <1>0, <2>1
      <3> QED
        BY <2>2, <3>1 DEF Letter
    <2> HIDE DEF j
    <2>6. Letter(s, j) = 0 /\ Letter(t, j) > 0
      BY <2>4, LetterIs DEF Letter
    <2>7. Less(s, t, j)
      BY <2>4, <2>5, <2>6 DEF Less
    <2> QED
      BY <2>4, <2>7
  <1>2. ASSUME NEW j \in 1 .. Len(s), j <= Len(t), s[j] < t[j],
               SubSeq(s, 1, j - 1) = SubSeq(t, 1, j - 1)
        PROVE  \E k \in Nat \ {0} : Less(s, t, k)
    <2>1. /\ j \in Nat \ {0} /\ j <= Len(s) /\ j - 1 \in Nat
          /\ j - 1 <= Len(s) /\ j - 1 <= Len(t)
      BY <1>0, <1>2
    <2>2. \A i \in 1 .. j - 1 : s[i] = t[i]
      BY <1>2, <2>1, PrefixesEqual
    <2>3. ASSUME NEW i \in 1 .. j - 1 PROVE Letter(s, i) = Letter(t, i)
      <3>1. i <= Len(s) /\ i <= Len(t)
        BY <1>0, <2>1
      <3> QED
        BY <2>2, <3>1 DEF Letter
    <2>4. /\ Letter(s, j) = s[j] + 1 /\ Letter(t, j) = t[j] + 1
          /\ s[j] \in Nat /\ t[j] \in Nat
      BY <1>2, <2>1, LetterIs
    <2>5. Less(s, t, j)
      BY <1>2, <2>3, <2>4 DEF Less
    <2> QED
      BY <2>1, <2>5
  <1>3. ASSUME NEW j \in Nat \ {0}, Less(s, t, j) PROVE Precedes(s, t)
    <2>1. /\ \A i \in 1 .. j - 1 : Letter(s, i) = Letter(t, i)
          /\ Letter(s, j) < Letter(t, j)
      BY <1>3 DEF Less
    <2>2. j <= Len(t)
      <3>1. Letter(s, j) \in Nat /\ Letter(t, j) \in Nat
        BY LetterIs
      <3>2. Letter(t, j) > 0
        BY <2>1, <3>1
      <3> QED
        BY <3>2, LetterIs
    <2>3. ASSUME NEW i \in 1 .. j - 1, i <= Len(s) PROVE s[i] = t[i]
      <3>1. i \in Nat \ {0} /\ i <= Len(t)
        BY <1>0, <2>2
      <3>2. /\ Letter(s, i) = s[i] + 1 /\ Letter(t, i) = t[i] + 1
            /\ s[i] \in Nat /\ t[i] \in Nat
        BY <2>3, <3>1, LetterIs
      <3>3. Letter(s, i) = Letter(t, i)
        BY <2>1
      <3> QED
        BY <3>2, <3>3
    <2>4. CASE j <= Len(s)
      <3>1. /\ j \in 1 .. Len(s) /\ j - 1 \in Nat
            /\ j - 1 <= Len(s) /\ j - 1 <= Len(t)
        BY <1>0, <2>2, <2>4
      <3>2. \A i \in 1 .. j - 1 : s[i] = t[i]
        <4>1. \A i \in 1 .. j - 1 : i <= Len(s)
          BY <1>0, <3>1
        <4> QED
          BY <2>3, <4>1
      <3>3. SubSeq(s, 1, j - 1) = SubSeq(t, 1, j - 1)
        BY <3>1, <3>2, PrefixesEqual
      <3>4. s[j] < t[j]
        <4>1. /\ Letter(s, j) = s[j] + 1 /\ Letter(t, j) = t[j] + 1
              /\ s[j] \in Nat /\ t[j] \in Nat
          BY <2>2, <2>4, LetterIs
        <4> QED
          BY <2>1, <4>1
      <3> QED
        BY <2>2, <3>1, <3>3, <3>4 DEF Precedes
    <2>5. CASE ~(j <= Len(s))
      <3>1. Len(s) < Len(t) /\ Len(s) <= Len(t) /\ Len(s) <= Len(s)
        BY <1>0, <2>2, <2>5
      <3>2. \A i \in 1 .. Len(s) : s[i] = t[i]
        <4>1. \A i \in 1 .. Len(s) : i \in 1 .. j - 1 /\ i <= Len(s)
          BY <1>0, <2>5
        <4> QED
          BY <2>3, <4>1
      <3>3. SubSeq(s, 1, Len(s)) = SubSeq(t, 1, Len(s))
        BY <1>0, <3>1, <3>2, PrefixesEqual
      <3>4. s # t
        BY <1>0, <3>1
      <3>5. IsStrictPrefix(s, t)
        BY <3>1, <3>3, <3>4 DEF IsStrictPrefix, IsPrefix
      <3> QED
        BY <3>5 DEF Precedes
    <2> QED
      BY <2>4, <2>5
  <1>4. ASSUME Precedes(s, t), ~IsStrictPrefix(s, t)
        PROVE  \E j \in Nat \ {0} : Less(s, t, j)
    <2>1. PICK j \in 1 .. Len(s) :
             /\ j <= Len(t)
             /\ s[j] < t[j]
             /\ SubSeq(s, 1, j - 1) = SubSeq(t, 1, j - 1)
      BY <1>4 DEF Precedes
    <2> QED
      BY <1>2, <2>1
  <1> QED
    BY <1>1, <1>3, <1>4

(* The order is a strict total order. *)
LEMMA PrecedesIrreflexive ==
    ASSUME NEW s \in Seq(Byte)
    PROVE  ~Precedes(s, s)
  <1>1. ASSUME NEW j \in Nat \ {0}, Less(s, s, j) PROVE FALSE
    <2>1. Letter(s, j) \in Nat /\ Letter(s, j) < Letter(s, j)
      BY <1>1, LetterIs DEF Less
    <2> QED
      BY <2>1
  <1> QED
    BY <1>1, PrecedesIs

(* The order is transitive: of the two first differences the earlier       *)
(* decides.                                                                *)
LEMMA PrecedesTransitive ==
    ASSUME NEW s \in Seq(Byte), NEW t \in Seq(Byte), NEW u \in Seq(Byte),
           Precedes(s, t), Precedes(t, u)
    PROVE  Precedes(s, u)
  <1>1. PICK i \in Nat \ {0} : Less(s, t, i)
    BY PrecedesIs
  <1>2. PICK j \in Nat \ {0} : Less(t, u, j)
    BY PrecedesIs
  <1>3. /\ \A k \in 1 .. i - 1 : Letter(s, k) = Letter(t, k)
        /\ Letter(s, i) < Letter(t, i)
    BY <1>1 DEF Less
  <1>4. /\ \A k \in 1 .. j - 1 : Letter(t, k) = Letter(u, k)
        /\ Letter(t, j) < Letter(u, j)
    BY <1>2 DEF Less
  <1> DEFINE m == IF i <= j THEN i ELSE j
  <1>5. /\ m \in Nat \ {0} /\ \A k \in 1 .. m - 1 : k \in 1 .. i - 1 /\ k \in 1 .. j - 1
        /\ m = i \/ m \in 1 .. i - 1
        /\ m = j \/ m \in 1 .. j - 1
        /\ m = i \/ m = j
    OBVIOUS
  <1> HIDE DEF m
  <1>6. Letter(s, m) \in Nat /\ Letter(t, m) \in Nat /\ Letter(u, m) \in Nat
    BY <1>5, LetterIs
  <1>7. /\ Letter(s, m) <= Letter(t, m)
        /\ Letter(t, m) <= Letter(u, m)
        /\ Letter(s, m) < Letter(t, m) \/ Letter(t, m) < Letter(u, m)
    BY <1>3, <1>4, <1>5, <1>6
  <1>8. Less(s, u, m)
    BY <1>3, <1>4, <1>5, <1>6, <1>7 DEF Less
  <1> QED
    BY <1>5, <1>8, PrecedesIs

(* And total.                                                              *)
LEMMA PrecedesTotal ==
    ASSUME NEW s \in Seq(Byte), NEW t \in Seq(Byte), s # t
    PROVE  Precedes(s, t) \/ Precedes(t, s)
  <1> DEFINE D == {j \in Nat \ {0} : Letter(s, j) # Letter(t, j)}
             m == Min(D)
  <1>1. D # {}
    BY LettersEqual
  <1>2. D \in SUBSET Nat
    OBVIOUS
  <1>3. m \in D /\ \A y \in D : m <= y
    <2> HIDE DEF D
    <2> QED
      BY <1>1, <1>2, LeastOf
  <1> HIDE DEF m
  <1>4. m \in Nat \ {0} /\ Letter(s, m) # Letter(t, m)
    BY <1>3
  <1>5. \A i \in 1 .. m - 1 : Letter(s, i) = Letter(t, i)
    <2> SUFFICES ASSUME NEW i \in 1 .. m - 1, Letter(s, i) # Letter(t, i)
                 PROVE  FALSE
      OBVIOUS
    <2>1. i \in D /\ ~(m <= i)
      BY <1>4
    <2> QED
      BY <1>3, <2>1
  <1>6. Letter(s, m) \in Nat /\ Letter(t, m) \in Nat
    BY <1>4, LetterIs
  <1>7. Less(s, t, m) \/ Less(t, s, m)
    BY <1>4, <1>5, <1>6 DEF Less
  <1> QED
    BY <1>4, <1>7, PrecedesIs

(* Nothing precedes the empty string. *)
LEMMA EmptyFirst ==
    ASSUME NEW s \in Seq(Byte)
    PROVE  ~Precedes(s, <<>>)
  <1>1. <<>> \in Seq(Byte) /\ Len(<<>>) = 0
    BY EmptySeq
  <1>2. ASSUME NEW j \in Nat \ {0}, Less(s, <<>>, j) PROVE FALSE
    <2>1. Letter(<<>>, j) = 0
      BY <1>1 DEF Letter
    <2>2. Letter(s, j) \in Nat /\ Letter(s, j) < Letter(<<>>, j)
      BY <1>2, LetterIs DEF Less
    <2> QED
      BY <2>1, <2>2
  <1> QED
    BY <1>1, <1>2, PrecedesIs

-----------------------------------------------------------------------------
(* The strings of a dataset. *)

(* The image of a finite set is finite.                                    *)
LEMMA FewStrings ==
    ASSUME NEW a \in Text, NEW b \in Text, NEW c \in Text
    PROVE  IsFiniteSet({a, b, c}) /\ {a, b, c} \subseteq Text
  <1>1. {a, b, c} = {a} \cup {b} \cup {c}
    OBVIOUS
  <1>2. IsFiniteSet({a}) /\ IsFiniteSet({b}) /\ IsFiniteSet({c})
    BY FS_Singleton
  <1>3. IsFiniteSet({a} \cup {b})
    BY <1>2, FS_Union
  <1> QED
    BY <1>1, <1>2, <1>3, FS_Union, ZenonT(60)

(* The strings of a list of names are finitely many.                       *)
LEMMA NamesFinite ==
    ASSUME NEW m \in Nat, NEW list, DOMAIN list = 1 .. m,
           \A i \in 1 .. m : /\ list[i].kanji \in Text
                             /\ list[i].kana \in Text
                             /\ list[i].romaji \in Text
    PROVE  /\ IsFiniteSet(UNION {NameStrings(list[i]) : i \in DOMAIN list})
           /\ UNION {NameStrings(list[i]) : i \in DOMAIN list} \subseteq Text
  <1> DEFINE P == [i \in 1 .. m |-> NameStrings(list[i])]
  <1>1. ASSUME NEW i \in 1 .. m PROVE IsFiniteSet(P[i]) /\ P[i] \subseteq Text
    BY FewStrings DEF NameStrings
  <1>2. P \in [1 .. m -> SUBSET Text]
    BY <1>1
  <1>3. UNION {NameStrings(list[i]) : i \in DOMAIN list} = UNION {P[i] : i \in 1 .. m}
    OBVIOUS
  <1> HIDE DEF P
  <1>4. /\ IsFiniteSet(UNION {P[i] : i \in 1 .. m})
        /\ UNION {P[i] : i \in 1 .. m} \subseteq Text
    BY <1>1, <1>2, FiniteParts
  <1> QED
    BY <1>3, <1>4, Zenon

(* So are its notes.                                                       *)
LEMMA AnnotationsFinite ==
    ASSUME NEW m \in Nat, NEW list, DOMAIN list = 1 .. m,
           \A i \in 1 .. m : list[i].note \in Text /\ list[i].noteKana \in Text
    PROVE  /\ IsFiniteSet(UNION {{list[i].note, list[i].noteKana} : i \in DOMAIN list})
           /\ UNION {{list[i].note, list[i].noteKana} : i \in DOMAIN list}
                \subseteq Text
  <1> DEFINE P == [i \in 1 .. m |-> {list[i].note, list[i].noteKana}]
  <1>1. ASSUME NEW i \in 1 .. m PROVE IsFiniteSet(P[i]) /\ P[i] \subseteq Text
    <2>1. P[i] = {list[i].note, list[i].noteKana, list[i].noteKana}
      OBVIOUS
    <2> HIDE DEF P
    <2> QED
      BY <2>1, FewStrings
  <1>2. P \in [1 .. m -> SUBSET Text]
    BY <1>1
  <1>3. UNION {{list[i].note, list[i].noteKana} : i \in DOMAIN list}
          = UNION {P[i] : i \in 1 .. m}
    OBVIOUS
  <1> HIDE DEF P
  <1>4. /\ IsFiniteSet(UNION {P[i] : i \in 1 .. m})
        /\ UNION {P[i] : i \in 1 .. m} \subseteq Text
    BY <1>1, <1>2, FiniteParts
  <1> QED
    BY <1>3, <1>4, Zenon

(* A dataset's parts have the types of the fields of format.go. *)
PlaceName == [kanji : Text, kana : Text, romaji : Text]

CityOfDataset ==
    [jis : 0 .. MaxUint32, pref : Byte,
     kanji : Text, kana : Text, romaji : Text]

RecordOfDataset ==
    [zip : 0 .. MaxUint32, city : 0 .. MaxUint16,
     kanji : Text, kana : Text, romaji : Text,
     note : Text, noteKana : Text, flags : Byte]

(* The parts of a dataset and their types.                                 *)
LEMMA PartsOfDataset ==
    ASSUME NEW d \in Dataset
    PROVE  /\ d.updated \in [kenAll : Int, rome : Int]
           /\ d.prefectures \in [1 .. PrefectureCount -> PlaceName]
           /\ d.cities \in Seq(CityOfDataset)
           /\ d.records \in Seq(RecordOfDataset)
           /\ DOMAIN d.prefectures = 1 .. PrefectureCount
           /\ DOMAIN d.cities = 1 .. Len(d.cities) /\ Len(d.cities) \in Nat
           /\ DOMAIN d.records = 1 .. Len(d.records) /\ Len(d.records) \in Nat
           /\ \A i \in 1 .. PrefectureCount : d.prefectures[i] \in PlaceName
           /\ \A i \in 1 .. Len(d.cities) : d.cities[i] \in CityOfDataset
           /\ \A i \in 1 .. Len(d.records) : d.records[i] \in RecordOfDataset
  <1>1. /\ d.updated \in [kenAll : Int, rome : Int]
        /\ d.prefectures \in [1 .. PrefectureCount -> PlaceName]
        /\ d.cities \in Seq(CityOfDataset)
        /\ d.records \in Seq(RecordOfDataset)
    BY DEF Dataset, PlaceName, CityOfDataset, RecordOfDataset
  <1> QED
    BY <1>1, LenProperties, ElementOfSeq

(* The strings of a dataset are finitely many, and the empty one is among  *)
(* them (encode.go:103-125).                                               *)
LEMMA StringsFinite ==
    ASSUME NEW d \in Dataset
    PROVE  /\ IsFiniteSet(Strings(d))
           /\ Strings(d) \subseteq Text
           /\ <<>> \in Strings(d)
  <1>0. PrefectureCount \in Nat
    BY FormatAssumption
  <1> DEFINE A == UNION {NameStrings(d.prefectures[i]) : i \in DOMAIN d.prefectures}
             B == UNION {NameStrings(d.cities[i]) : i \in DOMAIN d.cities}
             C == UNION {NameStrings(d.records[i]) : i \in DOMAIN d.records}
             N == UNION {{d.records[i].note, d.records[i].noteKana}
                           : i \in DOMAIN d.records}
  <1>1. IsFiniteSet(A) /\ A \subseteq Text
    <2>1. \A i \in 1 .. PrefectureCount :
             /\ d.prefectures[i].kanji \in Text /\ d.prefectures[i].kana \in Text
             /\ d.prefectures[i].romaji \in Text
      BY PartsOfDataset DEF PlaceName
    <2> QED
      BY <1>0, <2>1, PartsOfDataset, NamesFinite
  <1>2. IsFiniteSet(B) /\ B \subseteq Text
    <2>1. \A i \in 1 .. Len(d.cities) :
             /\ d.cities[i].kanji \in Text /\ d.cities[i].kana \in Text
             /\ d.cities[i].romaji \in Text
      BY PartsOfDataset DEF CityOfDataset
    <2>2. Len(d.cities) \in Nat /\ DOMAIN d.cities = 1 .. Len(d.cities)
      BY PartsOfDataset
    <2> QED
      BY <2>1, <2>2, NamesFinite
  <1>3. IsFiniteSet(C) /\ C \subseteq Text
    <2>1. \A i \in 1 .. Len(d.records) :
             /\ d.records[i].kanji \in Text /\ d.records[i].kana \in Text
             /\ d.records[i].romaji \in Text
      BY PartsOfDataset DEF RecordOfDataset
    <2>2. Len(d.records) \in Nat /\ DOMAIN d.records = 1 .. Len(d.records)
      BY PartsOfDataset
    <2> QED
      BY <2>1, <2>2, NamesFinite
  <1>4. IsFiniteSet(N) /\ N \subseteq Text
    <2>1. \A i \in 1 .. Len(d.records) :
             d.records[i].note \in Text /\ d.records[i].noteKana \in Text
      BY PartsOfDataset DEF RecordOfDataset
    <2> QED
      BY <2>1, PartsOfDataset, AnnotationsFinite
  <1>5. IsFiniteSet({<<>>}) /\ {<<>>} \subseteq Text
    BY EmptySeq, FS_Singleton, ZenonT(60) DEF Text
  <1>6. Strings(d) = {<<>>} \cup A \cup B \cup C \cup N
    BY DEF Strings
  <1> HIDE DEF A, B, C, N
  <1>7. IsFiniteSet({<<>>} \cup A)
    BY <1>1, <1>5, FS_Union
  <1>8. IsFiniteSet({<<>>} \cup A \cup B)
    BY <1>2, <1>7, FS_Union
  <1>9. IsFiniteSet({<<>>} \cup A \cup B \cup C)
    BY <1>3, <1>8, FS_Union
  <1>10. IsFiniteSet({<<>>} \cup A \cup B \cup C \cup N)
    BY <1>4, <1>9, FS_Union
  <1> QED
    BY <1>1, <1>2, <1>3, <1>4, <1>5, <1>6, <1>10

(* The table lists every string of the dataset once, in order, the empty   *)
(* one first.                                                              *)
Lists(strings, all) ==
    /\ strings \in Seq(Text)
    /\ Len(strings) \in Nat \ {0}
    /\ strings[1] = <<>>
    /\ \A i \in 1 .. Len(strings) : strings[i] \in all
    /\ \A s \in all : \E i \in 1 .. Len(strings) : strings[i] = s
    /\ \A i, j \in 1 .. Len(strings) : strings[i] = strings[j] => i = j
    /\ \A i, j \in 1 .. Len(strings) : i < j => Precedes(strings[i], strings[j])

(* The string table lists the strings of the dataset, each once and in     *)
(* order (encode.go:127-137).                                              *)
LEMMA TableLists ==
    ASSUME NEW d \in Dataset
    PROVE  Lists(StringTable(d), Strings(d))
  <1> DEFINE all == Strings(d)
             id == [s \in all |-> Cardinality({t \in all : Precedes(t, s)})]
             below == [s \in all |-> {t \in all : Precedes(t, s)}]
             m == Cardinality(all)
             T == [i \in 1 .. m |-> CHOOSE s \in all : id[s] = i - 1]
  <1>0. IsFiniteSet(all) /\ all \subseteq Seq(Byte) /\ <<>> \in all
    BY StringsFinite DEF Text
  <1>1. StringTable(d) = T
    BY Zenon DEF StringTable
  <1> HIDE DEF all
  <1>2. Orders(below, all)
    <2>1. \A x, y \in all : x \in below[y] <=> Precedes(x, y)
      OBVIOUS
    <2>2. below \in [all -> SUBSET all]
      OBVIOUS
    <2> HIDE DEF below
    <2>3. \A x \in all : x \notin below[x]
      BY <1>0, <2>1, PrecedesIrreflexive
    <2>4. \A x, y, z \in all : x \in below[y] /\ y \in below[z] => x \in below[z]
      BY <1>0, <2>1, PrecedesTransitive
    <2>5. \A x, y \in all : x # y => x \in below[y] \/ y \in below[x]
      BY <1>0, <2>1, PrecedesTotal
    <2> QED
      BY <1>0, <2>2, <2>3, <2>4, <2>5 DEF Orders
  <1>3. \A s \in all : id[s] = Cardinality(below[s])
    OBVIOUS
  <1>4. \A x, y \in all : x \in below[y] <=> Precedes(x, y)
    OBVIOUS
  <1> HIDE DEF id, below
  <1>5. /\ m \in Nat
        /\ \A x \in all : id[x] \in 0 .. m - 1
        /\ \A x, y \in all : Precedes(x, y) => id[x] < id[y]
        /\ \A k \in 0 .. m - 1 : \E x \in all : id[x] = k
    BY <1>2, <1>3, <1>4, OrderRanks
  <1> HIDE DEF m
  <1>6. ASSUME NEW i \in 1 .. m PROVE T[i] \in all /\ id[T[i]] = i - 1
    <2>1. i - 1 \in 0 .. m - 1
      BY <1>5
    <2>2. \E s \in all : id[s] = i - 1
      BY <1>5, <2>1
    <2>3. T[i] = CHOOSE s \in all : id[s] = i - 1
      OBVIOUS
    <2> QED
      BY <2>2, <2>3, Zenon
  <1>7. T \in Seq(Text) /\ Len(T) = m
    <2>1. \A i \in 1 .. m : T[i] \in Text
      BY <1>0, <1>6 DEF Text
    <2>2. DOMAIN T = 1 .. m
      OBVIOUS
    <2>3. T = [i \in 1 .. m |-> T[i]]
      OBVIOUS
    <2> HIDE DEF T
    <2>4. [i \in 1 .. m |-> T[i]] \in Seq(Text)
      BY <1>5, <2>1, IsASeq
    <2>5. T \in Seq(Text)
      BY <2>3, <2>4, Zenon
    <2> QED
      BY <1>5, <2>2, <2>5, LenProperties
  <1> HIDE DEF T
  <1>8. \A x, y \in all : id[x] = id[y] => x = y
    <2> SUFFICES ASSUME NEW x \in all, NEW y \in all, id[x] = id[y], x # y
                 PROVE  FALSE
      OBVIOUS
    <2>1. Precedes(x, y) \/ Precedes(y, x)
      BY <1>0, PrecedesTotal
    <2>2. id[x] < id[y] \/ id[y] < id[x]
      BY <1>5, <2>1
    <2>3. id[x] \in Int /\ id[y] \in Int
      BY <1>5
    <2> QED
      BY <2>2, <2>3
  <1>9. ASSUME NEW s \in all PROVE \E i \in 1 .. m : T[i] = s
    <2>1. id[s] + 1 \in 1 .. m /\ (id[s] + 1) - 1 = id[s]
      BY <1>5
    <2>2. T[id[s] + 1] \in all /\ id[T[id[s] + 1]] = id[s]
      BY <1>6, <2>1
    <2> QED
      BY <1>8, <2>1, <2>2
  <1>10. \A i, j \in 1 .. m : T[i] = T[j] => i = j
    <2> SUFFICES ASSUME NEW i \in 1 .. m, NEW j \in 1 .. m, T[i] = T[j]
                 PROVE  i = j
      OBVIOUS
    <2>1. i - 1 = j - 1
      BY <1>6
    <2> QED
      BY <1>5, <2>1
  <1>11. \A i, j \in 1 .. m : i < j => Precedes(T[i], T[j])
    <2> SUFFICES ASSUME NEW i \in 1 .. m, NEW j \in 1 .. m, i < j
                 PROVE  Precedes(T[i], T[j])
      OBVIOUS
    <2>1. /\ T[i] \in all /\ T[j] \in all
          /\ id[T[i]] = i - 1 /\ id[T[j]] = j - 1
      BY <1>6
    <2>2. T[i] # T[j]
      BY <1>5, <1>10
    <2>3. ~(id[T[j]] < id[T[i]])
      BY <1>5, <2>1
    <2>4. Precedes(T[i], T[j]) \/ Precedes(T[j], T[i])
      BY <1>0, <2>1, <2>2, PrecedesTotal
    <2> QED
      BY <1>5, <2>1, <2>3, <2>4
  <1>12. m # 0 /\ T[1] = <<>>
    <2>1. PICK i \in 1 .. m : T[i] = <<>>
      BY <1>0, <1>9
    <2>2. m # 0 /\ 1 \in 1 .. m
      BY <1>5
    <2>3. T[1] \in all /\ T[1] \in Seq(Byte)
      BY <1>0, <1>6, <2>2
    <2>4. ~(1 < i)
      BY <1>11, <2>1, <2>2, <2>3, EmptyFirst
    <2>5. i = 1
      BY <1>5, <2>4
    <2> QED
      BY <2>1, <2>2, <2>5
  <1>13. Lists(T, all)
    BY <1>5, <1>6, <1>7, <1>9, <1>10, <1>11, <1>12 DEF Lists
  <1> QED
    BY <1>1, <1>13 DEF all

(* A string's id finds it. *)
LEMMA IdFinds ==
    ASSUME NEW strings, NEW all, Lists(strings, all), NEW s \in all
    PROVE  /\ IdIn(strings, s) \in 0 .. Len(strings) - 1
           /\ strings[IdIn(strings, s) + 1] = s
  <1>1. /\ strings \in Seq(Text) /\ Len(strings) \in Nat
        /\ \E i \in 1 .. Len(strings) : strings[i] = s
    BY DEF Lists
  <1>2. DOMAIN strings = 1 .. Len(strings)
    BY <1>1, LenProperties
  <1> DEFINE k == CHOOSE i \in DOMAIN strings : strings[i] = s
  <1>3. k \in DOMAIN strings /\ strings[k] = s
    <2>1. \E i \in DOMAIN strings : strings[i] = s
      BY <1>1, <1>2
    <2> QED
      BY <2>1, Zenon
  <1>4. IdIn(strings, s) = k - 1
    BY DEF IdIn
  <1> HIDE DEF k
  <1> QED
    BY <1>1, <1>2, <1>3, <1>4

-----------------------------------------------------------------------------
(* Reading what was written. *)

(* What was written at p as s is read as v, unless the payload ends first. *)
Gets(d, p, s, v) ==
    /\ p + Len(s) <= Len(payload) =>
          d = [v |-> v, pos |-> p + Len(s), err |-> FALSE]
    /\ ~(p + Len(s) <= Len(payload)) => d.err

(* A uvarint.                                                              *)
LEMMA UvarintGets ==
    ASSUME Len(payload) \in Nat, NEW c, c.pos \in Nat, ~c.err,
           NEW x \in 0 .. VarintLimit - 1,
           Continues(payload, c.pos, UvarintBytes(x))
    PROVE  Gets(ReadUvarint(c), c.pos, UvarintBytes(x), x)
  <1> DEFINE u == UvarintAt(payload, c.pos)
             s == UvarintBytes(x)
  <1>1. ReadUvarint(c) = IF c.err \/ ~u.ok THEN Failed(c)
                         ELSE [v |-> u.v, pos |-> c.pos + u.len, err |-> FALSE]
    BY DEF ReadUvarint
  <1>2. Len(s) \in Nat
    BY UvarintShape
  <1>3. CASE c.pos + Len(s) <= Len(payload)
    <2>1. u = [ok |-> TRUE, v |-> x, len |-> Len(s)]
      BY <1>3, UvarintFound
    <2> HIDE DEF u
    <2> QED
      BY <1>1, <1>3, <2>1 DEF Gets
  <1>4. CASE ~(c.pos + Len(s) <= Len(payload))
    <2>1. ~u.ok
      BY <1>2, <1>4, UvarintCut
    <2> HIDE DEF u
    <2> QED
      BY <1>1, <1>4, <2>1 DEF Gets, Failed
  <1> QED
    BY <1>3, <1>4

(* A uvarint that is within the bound it is read with.                     *)
LEMMA BoundedGets ==
    ASSUME Len(payload) \in Nat, NEW c, c.pos \in Nat, ~c.err,
           NEW max \in Nat, NEW x \in 0 .. VarintLimit - 1, x <= max,
           Continues(payload, c.pos, UvarintBytes(x))
    PROVE  Gets(ReadBounded(c, max), c.pos, UvarintBytes(x), x)
  <1> DEFINE u == ReadUvarint(c)
  <1>1. Gets(u, c.pos, UvarintBytes(x), x)
    BY UvarintGets
  <1>2. ReadBounded(c, max) = IF ~u.err /\ u.v > max THEN Failed(u) ELSE u
    BY DEF ReadBounded
  <1> DEFINE inside == c.pos + Len(UvarintBytes(x)) <= Len(payload)
  <1>3. ASSUME inside
        PROVE  ReadBounded(c, max) =
                 [v |-> x, pos |-> c.pos + Len(UvarintBytes(x)), err |-> FALSE]
    <2>1. u = [v |-> x, pos |-> c.pos + Len(UvarintBytes(x)), err |-> FALSE]
      BY <1>1, <1>3 DEF Gets
    <2> HIDE DEF u
    <2>2. ~u.err /\ u.v = x
      BY <2>1
    <2>3. ~(x > max)
      OBVIOUS
    <2> QED
      BY <1>2, <2>1, <2>2, <2>3
  <1>4. ASSUME ~inside PROVE ReadBounded(c, max).err
    <2>1. u.err
      BY <1>1, <1>4 DEF Gets
    <2> HIDE DEF u
    <2> QED
      BY <1>2, <2>1
  <1> QED
    BY <1>3, <1>4 DEF Gets

(* A uvarint of 32 bits.                                                   *)
LEMMA Uvarint32Gets ==
    ASSUME Len(payload) \in Nat, NEW c, c.pos \in Nat, ~c.err,
           NEW x \in 0 .. MaxUint32, Continues(payload, c.pos, UvarintBytes(x))
    PROVE  Gets(ReadUvarint32(c), c.pos, UvarintBytes(x), x)
  <1>1. x \in 0 .. VarintLimit - 1 /\ MaxUint32 \in Nat /\ x <= MaxUint32
    BY FormatAssumption
  <1> QED
    BY <1>1, BoundedGets DEF ReadUvarint32

(* A signed varint.                                                        *)
LEMMA VarintGets ==
    ASSUME Len(payload) \in Nat, NEW c, c.pos \in Nat, ~c.err,
           NEW x \in Int, Zig(x) < VarintLimit,
           Continues(payload, c.pos, VarintBytes(x))
    PROVE  Gets(ReadVarint(c), c.pos, VarintBytes(x), x)
  <1> DEFINE u == ReadUvarint(c)
  <1>1. Zig(x) \in 0 .. VarintLimit - 1 /\ Zag(Zig(x)) = x
    BY ZagOfZig, FormatAssumption, SMTT(60)
  <1>2. Gets(u, c.pos, UvarintBytes(Zig(x)), Zig(x))
    BY <1>1, UvarintGets DEF VarintBytes
  <1>3. ReadVarint(c) = [u EXCEPT !.v = Zag(u.v)]
    BY DEF ReadVarint
  <1>4. u = [v |-> u.v, pos |-> u.pos, err |-> u.err]
    BY DEF ReadUvarint, Failed
  <1> HIDE DEF u
  <1>5. ReadVarint(c) = [v |-> Zag(u.v), pos |-> u.pos, err |-> u.err]
    BY <1>3, <1>4
  <1>6. VarintBytes(x) = UvarintBytes(Zig(x))
    BY DEF VarintBytes
  <1> DEFINE inside == c.pos + Len(VarintBytes(x)) <= Len(payload)
  <1>7. ASSUME inside
        PROVE  ReadVarint(c) =
                 [v |-> x, pos |-> c.pos + Len(VarintBytes(x)), err |-> FALSE]
    <2>1. u = [v |-> Zig(x), pos |-> c.pos + Len(VarintBytes(x)), err |-> FALSE]
      BY <1>2, <1>6, <1>7 DEF Gets
    <2> QED
      BY <1>1, <1>5, <2>1
  <1>8. ASSUME ~inside PROVE ReadVarint(c).err
    <2>1. u.err
      BY <1>2, <1>6, <1>8 DEF Gets
    <2> QED
      BY <1>5, <2>1
  <1> QED
    BY <1>7, <1>8 DEF Gets

(* A byte.                                                                 *)
LEMMA ByteGets ==
    ASSUME Len(payload) \in Nat, NEW c, c.pos \in Nat, ~c.err,
           NEW b, Continues(payload, c.pos, <<b>>)
    PROVE  Gets(ReadByte(c), c.pos, <<b>>, b)
  <1>1. Len(<<b>>) = 1 /\ <<b>>[1] = b
    OBVIOUS
  <1>2. c.pos + 1 <= Len(payload) => payload[c.pos + 1] = b
    BY <1>1 DEF Continues
  <1>3. CASE c.pos + 1 <= Len(payload)
    <2>1. ~(c.err \/ c.pos >= Len(payload))
      BY <1>3
    <2>2. payload[c.pos + 1] = b
      BY <1>2, <1>3
    <2>3. ReadByte(c) = [v |-> payload[c.pos + 1], pos |-> c.pos + 1, err |-> FALSE]
      BY <2>1 DEF ReadByte
    <2>4. ReadByte(c) = [v |-> b, pos |-> c.pos + 1, err |-> FALSE]
      BY <2>2, <2>3
    <2> QED
      BY <1>1, <1>3, <2>4 DEF Gets
  <1>4. CASE ~(c.pos + 1 <= Len(payload))
    <2>1. ReadByte(c).err
      BY <1>4 DEF ReadByte, Failed
    <2> QED
      BY <1>1, <1>4, <2>1 DEF Gets
  <1> QED
    BY <1>3, <1>4

(* A string of bytes whose length is known.                                *)
LEMMA BytesGets ==
    ASSUME payload \in Seq(Byte), NEW c, c.pos \in Nat, ~c.err,
           NEW s \in Seq(Byte), Continues(payload, c.pos, s)
    PROVE  Gets(ReadBytes(c, Len(s)), c.pos, s, s)
  <1>0. Len(payload) \in Nat /\ Len(s) \in Nat
    OBVIOUS
  <1>1. CASE c.pos + Len(s) <= Len(payload)
    <2> DEFINE t == SubSeq(payload, c.pos + 1, c.pos + Len(s))
    <2>1. /\ t \in Seq(Byte) /\ Len(t) = Len(s)
          /\ \A i \in 1 .. Len(s) : t[i] = payload[c.pos + i]
      <3> DEFINE a == c.pos + 1
                 b == c.pos + Len(s)
      <3>1. a \in 1 .. Len(payload) + 1 /\ b \in a - 1 .. Len(payload)
        BY <1>0, <1>1
      <3>2. /\ b - a + 1 = Len(s)
            /\ \A i \in 1 .. Len(s) : a + i - 1 = c.pos + i
        <4> PICK l : l = Len(s)
          OBVIOUS
        <4> PICK q : q = c.pos
          OBVIOUS
        <4>1. l \in Nat /\ q \in Nat
          BY <1>0
        <4>2. /\ q + l - (q + 1) + 1 = l
              /\ \A i \in 1 .. l : q + 1 + i - 1 = q + i
          BY <4>1
        <4> QED
          BY <4>2
      <3>3. t = SubSeq(payload, a, b)
        OBVIOUS
      <3> HIDE DEF a, b, t
      <3>4. /\ t \in Seq(Byte)
            /\ Len(t) = (IF a <= b THEN b - a + 1 ELSE 0)
            /\ \A i \in 1 .. b - a + 1 : t[i] = payload[a + i - 1]
        BY <3>1, <3>3, SubSeqProperties
      <3> QED
        BY <1>0, <3>1, <3>2, <3>4
    <2> HIDE DEF t
    <2>2. \A i \in 1 .. Len(s) : t[i] = s[i]
      BY <1>0, <1>1, <2>1 DEF Continues
    <2>3. t = s
      BY <2>1, <2>2, SeqEqual
    <2>4. ReadBytes(c, Len(s)) = [v |-> t, pos |-> c.pos + Len(s), err |-> FALSE]
      BY <1>1, <1>0 DEF ReadBytes, t
    <2> QED
      BY <1>1, <2>3, <2>4 DEF Gets
  <1>2. CASE ~(c.pos + Len(s) <= Len(payload))
    <2>1. ReadBytes(c, Len(s)) = [Failed(c) EXCEPT !.v = <<>>]
      BY <1>0, <1>2 DEF ReadBytes
    <2> QED
      BY <1>2, <2>1 DEF Gets, Failed
  <1> QED
    BY <1>1, <1>2

(* Nothing is read after an error. *)
LEMMA NothingAfterError ==
    ASSUME NEW c, c.err
    PROVE  /\ ReadUvarint(c).err
           /\ ReadUvarint32(c).err
           /\ ReadByte(c).err
           /\ \A max \in Nat : ReadBounded(c, max).err
           /\ ReadNameRef(c).err
  <1>1. \A e : e.err => ReadUvarint(e).err
    BY DEF ReadUvarint, Failed
  <1>2. \A e, max : e.err => ReadBounded(e, max).err
    BY <1>1 DEF ReadBounded, Failed
  <1>3. \A e : e.err => ReadUvarint32(e).err
    BY <1>2 DEF ReadUvarint32
  <1>4. ReadByte(c).err
    BY DEF ReadByte, Failed
  <1>5. ReadNameRef(c).err
    BY <1>3 DEF ReadNameRef
  <1> QED
    BY <1>1, <1>2, <1>3, <1>4, <1>5

(* The three references of a name, as NameBytes writes them. *)
RefBytes(ref) ==
    UvarintBytes(ref.kanji) \o UvarintBytes(ref.kana) \o UvarintBytes(ref.romaji)

References == [kanji : 0 .. MaxUint32, kana : 0 .. MaxUint32,
               romaji : 0 .. MaxUint32]

(* A number of 32 bits is written in at least one byte.                    *)
LEMMA NumberShape ==
    ASSUME NEW x \in 0 .. MaxUint32
    PROVE  /\ UvarintBytes(x) \in Seq(Byte)
           /\ Len(UvarintBytes(x)) \in Nat \ {0}
  BY UvarintShape, FormatAssumption

(* A name is written as three references.                                  *)
LEMMA RefShape ==
    ASSUME NEW ref \in References
    PROVE  /\ RefBytes(ref) \in Seq(Byte)
           /\ Len(RefBytes(ref)) \in Nat \ {0}
           /\ Len(RefBytes(ref)) =
                (Len(UvarintBytes(ref.kanji)) + Len(UvarintBytes(ref.kana)))
                  + Len(UvarintBytes(ref.romaji))
  <1> DEFINE a == UvarintBytes(ref.kanji)
             b == UvarintBytes(ref.kana)
             e == UvarintBytes(ref.romaji)
  <1>1. /\ a \in Seq(Byte) /\ Len(a) \in Nat \ {0}
        /\ b \in Seq(Byte) /\ Len(b) \in Nat \ {0}
        /\ e \in Seq(Byte) /\ Len(e) \in Nat \ {0}
    BY NumberShape DEF References
  <1> HIDE DEF a, b, e
  <1>2. a \o b \in Seq(Byte) /\ Len(a \o b) = Len(a) + Len(b)
    BY <1>1, ConcatProperties
  <1>3. (a \o b) \o e \in Seq(Byte) /\ Len((a \o b) \o e) = Len(a \o b) + Len(e)
    BY <1>1, <1>2, ConcatProperties
  <1> QED
    BY <1>1, <1>2, <1>3 DEF RefBytes, a, b, e

(* A name.                                                                 *)
LEMMA NameRefGets ==
    ASSUME Len(payload) \in Nat, NEW c, c.pos \in Nat, ~c.err,
           NEW ref \in References, Continues(payload, c.pos, RefBytes(ref))
    PROVE  Gets(ReadNameRef(c), c.pos, RefBytes(ref), ref)
  <1> DEFINE a == UvarintBytes(ref.kanji)
             b == UvarintBytes(ref.kana)
             e == UvarintBytes(ref.romaji)
             kanji == ReadUvarint32(c)
             kana == ReadUvarint32(kanji)
             romaji == ReadUvarint32(kana)
  <1>1. /\ a \in Seq(Byte) /\ Len(a) \in Nat \ {0}
        /\ b \in Seq(Byte) /\ Len(b) \in Nat \ {0}
        /\ e \in Seq(Byte) /\ Len(e) \in Nat \ {0}
    BY NumberShape DEF References
  <1>2. Len(RefBytes(ref)) = (Len(a) + Len(b)) + Len(e)
    BY RefShape
  <1>3. /\ Continues(payload, c.pos, a)
        /\ Continues(payload, c.pos + Len(a), b)
        /\ Continues(payload, (c.pos + Len(a)) + Len(b), e)
    <2> HIDE DEF a, b, e
    <2>1. a \o b \in Seq(Byte) /\ Len(a \o b) = Len(a) + Len(b)
      BY <1>1, ConcatProperties
    <2>2. Continues(payload, c.pos, (a \o b) \o e)
      BY DEF RefBytes, a, b, e
    <2>3. /\ Continues(payload, c.pos, a \o b)
          /\ Continues(payload, c.pos + Len(a \o b), e)
      BY <1>1, <2>1, <2>2, ContinuesConcat
    <2>4. /\ Continues(payload, c.pos, a)
          /\ Continues(payload, c.pos + Len(a), b)
      BY <1>1, <2>3, ContinuesConcat
    <2>5. c.pos + Len(a \o b) = (c.pos + Len(a)) + Len(b)
      BY <1>1, <2>1
    <2> QED
      BY <2>3, <2>4, <2>5
  <1>4. ref = [kanji |-> ref.kanji, kana |-> ref.kana, romaji |-> ref.romaji]
        /\ ref.kanji \in 0 .. MaxUint32 /\ ref.kana \in 0 .. MaxUint32
        /\ ref.romaji \in 0 .. MaxUint32
    BY DEF References
  <1>5. Gets(kanji, c.pos, a, ref.kanji)
    BY <1>3, <1>4, Uvarint32Gets
  <1>6. ReadNameRef(c) =
          [v |-> [kanji |-> kanji.v, kana |-> kana.v, romaji |-> romaji.v],
           pos |-> romaji.pos, err |-> romaji.err]
    BY DEF ReadNameRef
  <1>7. CASE c.pos + Len(a) > Len(payload)
    <2>1. kanji.err
      BY <1>1, <1>5, <1>7 DEF Gets
    <2>2. kana.err
      BY <2>1, NothingAfterError
    <2>3. romaji.err
      BY <2>2, NothingAfterError
    <2> HIDE DEF a, b, e, kanji, kana, romaji
    <2>4. ReadNameRef(c).err
      BY <1>6, <2>3
    <2> QED
      BY <1>1, <1>2, <1>7, <2>4 DEF Gets
  <1>8. CASE c.pos + Len(a) <= Len(payload)
    <2>1. kanji = [v |-> ref.kanji, pos |-> c.pos + Len(a), err |-> FALSE]
      BY <1>5, <1>8 DEF Gets
    <2>2. kanji.pos = c.pos + Len(a) /\ kanji.pos \in Nat /\ ~kanji.err
      BY <1>1, <2>1
    <2>3. Gets(kana, c.pos + Len(a), b, ref.kana)
      BY <1>3, <1>4, <2>2, Uvarint32Gets
    <2>4. CASE (c.pos + Len(a)) + Len(b) > Len(payload)
      <3>1. kana.err
        BY <1>1, <2>3, <2>4 DEF Gets
      <3>2. romaji.err
        BY <3>1, NothingAfterError
      <3> HIDE DEF a, b, e, kanji, kana, romaji
      <3>3. ReadNameRef(c).err
        BY <1>6, <3>2
      <3> QED
        BY <1>1, <1>2, <2>4, <3>3 DEF Gets
    <2>5. CASE (c.pos + Len(a)) + Len(b) <= Len(payload)
      <3>1. kana = [v |-> ref.kana, pos |-> (c.pos + Len(a)) + Len(b),
                    err |-> FALSE]
        BY <2>3, <2>5 DEF Gets
      <3>2. /\ kana.pos = (c.pos + Len(a)) + Len(b)
            /\ kana.pos \in Nat /\ ~kana.err
        BY <1>1, <3>1
      <3>3. Gets(romaji, (c.pos + Len(a)) + Len(b), e, ref.romaji)
        BY <1>3, <1>4, <3>2, Uvarint32Gets
      <3>4. ((c.pos + Len(a)) + Len(b)) + Len(e) = c.pos + Len(RefBytes(ref))
        BY <1>1, <1>2
      <3>5. kanji.v = ref.kanji /\ kana.v = ref.kana
        BY <2>1, <3>1
      <3> HIDE DEF a, b, e, kanji, kana, romaji
      <3>6. CASE c.pos + Len(RefBytes(ref)) <= Len(payload)
        <4>1. romaji = [v |-> ref.romaji, pos |-> c.pos + Len(RefBytes(ref)),
                        err |-> FALSE]
          BY <3>3, <3>4, <3>6 DEF Gets
        <4> QED
          BY <1>4, <1>6, <3>5, <3>6, <4>1 DEF Gets
      <3>7. CASE ~(c.pos + Len(RefBytes(ref)) <= Len(payload))
        <4>1. romaji.err
          BY <3>3, <3>4, <3>7 DEF Gets
        <4> QED
          BY <1>6, <3>7, <4>1 DEF Gets
      <3> QED
        BY <3>6, <3>7
    <2> QED
      BY <1>1, <2>4, <2>5
  <1> QED
    BY <1>1, <1>7, <1>8

-----------------------------------------------------------------------------
(* The columns of a dataset that Encode accepts. *)

Wrote(d, t) == d \in Dataset /\ Valid(d) /\ Fits(d) /\ t = StringTable(d)

Ref(t, name) ==
    [kanji |-> IdIn(t, name.kanji), kana |-> IdIn(t, name.kana),
     romaji |-> IdIn(t, name.romaji)]

FieldOf(d, t, c) ==
    [i \in DOMAIN d.records |->
        IF c = "city" THEN d.records[i].city ELSE IdIn(t, d.records[i][c])]

ZipsOf(d) == [i \in DOMAIN d.records |-> d.records[i].zip]

FlagsOf(d) == [i \in DOMAIN d.records |-> d.records[i].flags]

(* The table has an id for every string of the dataset, and the string at  *)
(* that id.                                                                *)
LEMMA TableWrote ==
    ASSUME NEW d, NEW t, Wrote(d, t)
    PROVE  /\ Lists(t, Strings(d))
           /\ t \in Seq(Text) /\ Len(t) \in Nat \ {0}
           /\ Len(t) - 1 <= MaxUint32
           /\ \A s \in Strings(d) : IdIn(t, s) \in 0 .. Len(t) - 1
                                    /\ IdIn(t, s) \in 0 .. MaxUint32
                                    /\ t[IdIn(t, s) + 1] = s
  <1>1. Lists(t, Strings(d))
    BY TableLists DEF Wrote
  <1>2. t \in Seq(Text) /\ Len(t) \in Nat \ {0}
    BY <1>1 DEF Lists
  <1>3. Len(t) <= MaxUint32 /\ MaxUint32 \in Nat
    BY FormatAssumption DEF Wrote, Fits
  <1>4. \A s \in Strings(d) : IdIn(t, s) \in 0 .. Len(t) - 1
                              /\ t[IdIn(t, s) + 1] = s
    BY <1>1, IdFinds
  <1> QED
    BY <1>1, <1>2, <1>3, <1>4

(* Every string of the dataset is among those interned. *)
LEMMA StringsOfNames ==
    ASSUME NEW d, NEW list, NEW i \in DOMAIN list,
           \/ list = d.prefectures \/ list = d.cities \/ list = d.records
    PROVE  /\ list[i].kanji \in Strings(d)
           /\ list[i].kana \in Strings(d)
           /\ list[i].romaji \in Strings(d)
  <1> DEFINE A == UNION {NameStrings(list[k]) : k \in DOMAIN list}
  <1>1. /\ list[i].kanji \in A /\ list[i].kana \in A /\ list[i].romaji \in A
    BY DEF NameStrings
  <1>2. A \subseteq Strings(d)
    BY DEF Strings
  <1> QED
    BY <1>1, <1>2

(* The notes of a record are strings of the dataset.                       *)
LEMMA StringsOfNotes ==
    ASSUME NEW d, NEW i \in DOMAIN d.records
    PROVE  d.records[i].note \in Strings(d) /\ d.records[i].noteKana \in Strings(d)
  <1> DEFINE A == UNION {{d.records[k].note, d.records[k].noteKana}
                           : k \in DOMAIN d.records}
  <1>1. d.records[i].note \in A /\ d.records[i].noteKana \in A
    OBVIOUS
  <1>2. A \subseteq Strings(d)
    BY DEF Strings
  <1> QED
    BY <1>1, <1>2

(* A reference gives the name back. *)
LEMMA RefsWrote ==
    ASSUME NEW d, NEW t, Wrote(d, t), NEW list, NEW i \in DOMAIN list,
           \/ list = d.prefectures \/ list = d.cities \/ list = d.records
    PROVE  LET ref == Ref(t, list[i])
           IN  /\ ref \in References
               /\ ref.kanji \in 0 .. Len(t) - 1 /\ t[ref.kanji + 1] = list[i].kanji
               /\ ref.kana \in 0 .. Len(t) - 1 /\ t[ref.kana + 1] = list[i].kana
               /\ ref.romaji \in 0 .. Len(t) - 1
               /\ t[ref.romaji + 1] = list[i].romaji
               /\ NameBytes(t, list[i]) = RefBytes(ref)
  <1>1. /\ list[i].kanji \in Strings(d)
        /\ list[i].kana \in Strings(d)
        /\ list[i].romaji \in Strings(d)
    BY StringsOfNames
  <1>2. \A s \in Strings(d) : IdIn(t, s) \in 0 .. Len(t) - 1
                              /\ IdIn(t, s) \in 0 .. MaxUint32
                              /\ t[IdIn(t, s) + 1] = s
    BY TableWrote
  <1> DEFINE a == IdIn(t, list[i].kanji)
             b == IdIn(t, list[i].kana)
             c == IdIn(t, list[i].romaji)
  <1>3. /\ a \in 0 .. Len(t) - 1 /\ a \in 0 .. MaxUint32
        /\ t[a + 1] = list[i].kanji
    BY <1>1, <1>2
  <1>4. /\ b \in 0 .. Len(t) - 1 /\ b \in 0 .. MaxUint32
        /\ t[b + 1] = list[i].kana
    BY <1>1, <1>2
  <1>5. /\ c \in 0 .. Len(t) - 1 /\ c \in 0 .. MaxUint32
        /\ t[c + 1] = list[i].romaji
    BY <1>1, <1>2
  <1>6. Ref(t, list[i]) = [kanji |-> a, kana |-> b, romaji |-> c]
    BY DEF Ref
  <1>7. NameBytes(t, list[i]) = UvarintBytes(a) \o UvarintBytes(b) \o UvarintBytes(c)
    BY DEF NameBytes
  <1> HIDE DEF a, b, c
  <1> QED
    BY <1>3, <1>4, <1>5, <1>6, <1>7 DEF References, RefBytes

(* Everything validate has looked at. *)
LEMMA WroteRecords ==
    ASSUME NEW d, NEW t, Wrote(d, t)
    PROVE  /\ Len(d.records) \in Nat /\ DOMAIN d.records = 1 .. Len(d.records)
           /\ Len(d.records) < VarintLimit
           /\ \A i \in 1 .. Len(d.records) :
                 /\ d.records[i].zip \in 0 .. MaxZip
                 /\ d.records[i].city \in 0 .. MaxUint16
                 /\ d.records[i].city < Len(d.cities)
                 /\ d.records[i].flags \in Byte
           /\ \A i \in 2 .. Len(d.records) :
                 d.records[i - 1].zip <= d.records[i].zip
  <1>1. /\ Len(d.records) \in Nat /\ DOMAIN d.records = 1 .. Len(d.records)
        /\ \A i \in 1 .. Len(d.records) : d.records[i] \in RecordOfDataset
    BY PartsOfDataset DEF Wrote
  <1>2. \A i \in 1 .. Len(d.records) :
            /\ d.records[i].zip \in 0 .. MaxUint32
            /\ d.records[i].city \in 0 .. MaxUint16
            /\ d.records[i].flags \in Byte
    BY <1>1 DEF RecordOfDataset
  <1>3. /\ \A i \in 1 .. Len(d.records) :
              d.records[i].zip <= MaxZip /\ d.records[i].city < Len(d.cities)
        /\ \A i \in 2 .. Len(d.records) :
              d.records[i - 1].zip <= d.records[i].zip
    BY <1>1 DEF Wrote, Valid, FitRendering, SortedRecords
  <1>4. \A i \in 1 .. Len(d.records) : d.records[i].zip \in 0 .. MaxZip
    BY <1>2, <1>3, FormatAssumption
  <1> QED
    BY <1>1, <1>2, <1>3, <1>4 DEF Wrote, Fits

(* The cities of a dataset that was accepted (encode.go:67-78).            *)
LEMMA WroteCities ==
    ASSUME NEW d, NEW t, Wrote(d, t)
    PROVE  /\ Len(d.cities) \in Nat /\ DOMAIN d.cities = 1 .. Len(d.cities)
           /\ Len(d.cities) < VarintLimit
           /\ \A i \in 1 .. Len(d.cities) :
                 /\ d.cities[i].jis \in 0 .. MaxUint32
                 /\ d.cities[i].jis <= MaxJIS
                 /\ d.cities[i].pref \in Byte
                 /\ d.cities[i].pref \in 0 .. PrefectureCount - 1
  <1>1. /\ Len(d.cities) \in Nat /\ DOMAIN d.cities = 1 .. Len(d.cities)
        /\ \A i \in 1 .. Len(d.cities) : d.cities[i] \in CityOfDataset
    BY PartsOfDataset DEF Wrote
  <1>2. \A i \in 1 .. Len(d.cities) :
            d.cities[i].jis \in 0 .. MaxUint32 /\ d.cities[i].pref \in Byte
    BY <1>1 DEF CityOfDataset
  <1>3. /\ Len(d.cities) <= MaxUint16
        /\ \A i \in 1 .. Len(d.cities) :
              d.cities[i].jis <= MaxJIS /\ d.cities[i].pref < PrefectureCount
    BY <1>1 DEF Wrote, Valid, FitRendering
  <1>4. MaxUint16 \in Nat /\ MaxUint16 < VarintLimit /\ VarintLimit \in Nat
    BY FormatAssumption
  <1>5. \A i \in 1 .. Len(d.cities) : d.cities[i].pref \in 0 .. PrefectureCount - 1
    BY <1>2, <1>3, FormatAssumption, SMTT(60) DEF Byte
  <1> QED
    BY <1>1, <1>2, <1>3, <1>4, <1>5

(* A column of a record is as long as the records, and each id finds its   *)
(* string.                                                                 *)
LEMMA FieldWrote ==
    ASSUME NEW d, NEW t, Wrote(d, t), NEW c \in DeltaColumns \cup SparseColumns
    PROVE  LET f == FieldOf(d, t, c)
           IN  /\ f \in [1 .. Len(d.records) -> 0 .. MaxUint32]
               /\ f \in Seq(0 .. MaxUint32) /\ Len(f) = Len(d.records)
               /\ \A i \in 1 .. Len(d.records) :
                     /\ c = "city" => /\ f[i] = d.records[i].city
                                      /\ f[i] \in 0 .. MaxUint16
                     /\ c # "city" => /\ f[i] \in 0 .. Len(t) - 1
                                      /\ t[f[i] + 1] = d.records[i][c]
  <1> DEFINE f == FieldOf(d, t, c)
  <1>1. Len(d.records) \in Nat /\ DOMAIN d.records = 1 .. Len(d.records)
    BY WroteRecords
  <1>2. ASSUME NEW i \in 1 .. Len(d.records), c = "city"
        PROVE  /\ f[i] = d.records[i].city /\ f[i] \in 0 .. MaxUint16
               /\ f[i] \in 0 .. MaxUint32
    <2>1. f[i] = d.records[i].city
      BY <1>1, <1>2 DEF FieldOf
    <2>2. d.records[i].city \in 0 .. MaxUint16
      BY WroteRecords
    <2> QED
      BY <2>1, <2>2, FormatAssumption, SMTT(60)
  <1>3. ASSUME NEW i \in 1 .. Len(d.records), c # "city"
        PROVE  /\ f[i] \in 0 .. Len(t) - 1 /\ t[f[i] + 1] = d.records[i][c]
               /\ f[i] \in 0 .. MaxUint32
    <2>1. f[i] = IdIn(t, d.records[i][c])
      BY <1>1, <1>3 DEF FieldOf
    <2>2. d.records[i][c] \in Strings(d)
      <3>1. /\ d.records[i].kanji \in Strings(d)
            /\ d.records[i].kana \in Strings(d)
            /\ d.records[i].romaji \in Strings(d)
        BY <1>1, StringsOfNames
      <3>2. d.records[i].note \in Strings(d) /\ d.records[i].noteKana \in Strings(d)
        BY <1>1, StringsOfNotes
      <3>3. c \in {"kanji", "kana", "romaji", "note", "noteKana"}
        BY <1>3 DEF DeltaColumns, SparseColumns
      <3> QED
        BY <3>1, <3>2, <3>3
    <2> HIDE DEF f
    <2> QED
      BY <2>1, <2>2, TableWrote
  <1>4. DOMAIN f = 1 .. Len(d.records) /\ f = [i \in 1 .. Len(d.records) |-> f[i]]
    BY <1>1 DEF FieldOf
  <1> HIDE DEF f
  <1>5. f \in [1 .. Len(d.records) -> 0 .. MaxUint32]
    BY <1>2, <1>3, <1>4
  <1>6. f \in Seq(0 .. MaxUint32)
    <2> DEFINE V == 0 .. MaxUint32
    <2>1. f \in [1 .. Len(d.records) -> V]
      BY <1>5
    <2> HIDE DEF V
    <2>2. f \in Seq(V)
      BY <1>1, <2>1, IsASeq
    <2> QED
      BY <2>2 DEF V
  <1>7. Len(f) = Len(d.records)
    BY <1>1, <1>4, <1>6, LenProperties
  <1> QED
    BY <1>2, <1>3, <1>5, <1>6, <1>7 DEF f

(* The zip codes of a dataset that was accepted are sorted                 *)
(* (encode.go:80-89).                                                      *)
LEMMA ZipsWrote ==
    ASSUME NEW d, NEW t, Wrote(d, t)
    PROVE  /\ ZipsOf(d) \in [1 .. Len(d.records) -> 0 .. MaxZip]
           /\ ZipsOf(d) \in Seq(0 .. MaxZip) /\ Len(ZipsOf(d)) = Len(d.records)
           /\ \A i \in 1 .. Len(d.records) : ZipsOf(d)[i] = d.records[i].zip
           /\ \A i \in 2 .. Len(d.records) : ZipsOf(d)[i - 1] <= ZipsOf(d)[i]
  <1> DEFINE f == ZipsOf(d)
  <1>1. Len(d.records) \in Nat /\ DOMAIN d.records = 1 .. Len(d.records)
    BY WroteRecords
  <1>2. /\ DOMAIN f = 1 .. Len(d.records) /\ f = [i \in 1 .. Len(d.records) |-> f[i]]
        /\ \A i \in 1 .. Len(d.records) : f[i] = d.records[i].zip
    BY <1>1 DEF ZipsOf
  <1> HIDE DEF f
  <1>3. f \in [1 .. Len(d.records) -> 0 .. MaxZip]
    BY <1>2, WroteRecords
  <1>4. f \in Seq(0 .. MaxZip)
    <2> DEFINE V == 0 .. MaxZip
    <2>1. f \in [1 .. Len(d.records) -> V]
      BY <1>3
    <2> HIDE DEF V
    <2>2. f \in Seq(V)
      BY <1>1, <2>1, IsASeq
    <2> QED
      BY <2>2 DEF V
  <1>5. Len(f) = Len(d.records)
    BY <1>1, <1>2, <1>4, LenProperties
  <1>6. \A i \in 2 .. Len(d.records) : f[i - 1] <= f[i]
    <2> TAKE i \in 2 .. Len(d.records)
    <2>1. i \in 1 .. Len(d.records) /\ i - 1 \in 1 .. Len(d.records)
      BY <1>1
    <2> QED
      BY <2>1, <1>2, WroteRecords
  <1> QED
    BY <1>2, <1>3, <1>4, <1>5, <1>6 DEF f

(* The flags of a dataset are bytes.                                       *)
LEMMA FlagsWrote ==
    ASSUME NEW d, NEW t, Wrote(d, t)
    PROVE  /\ FlagsOf(d) \in Seq(Byte) /\ Len(FlagsOf(d)) = Len(d.records)
           /\ \A i \in 1 .. Len(d.records) : FlagsOf(d)[i] = d.records[i].flags
  <1> DEFINE f == FlagsOf(d)
  <1>1. Len(d.records) \in Nat /\ DOMAIN d.records = 1 .. Len(d.records)
    BY WroteRecords
  <1>2. /\ DOMAIN f = 1 .. Len(d.records) /\ f = [i \in 1 .. Len(d.records) |-> f[i]]
        /\ \A i \in 1 .. Len(d.records) : f[i] = d.records[i].flags
    BY <1>1 DEF FlagsOf
  <1> HIDE DEF f
  <1>3. f \in [1 .. Len(d.records) -> Byte]
    BY <1>2, WroteRecords
  <1>4. f \in Seq(Byte)
    BY <1>1, <1>3, IsASeq
  <1>5. Len(f) = Len(d.records)
    BY <1>1, <1>2, <1>4, LenProperties
  <1> QED
    BY <1>2, <1>4, <1>5 DEF f

-----------------------------------------------------------------------------
(* The rows of each part of the payload. *)

(* Rows that are sequences of bytes are a sequence of them.                *)
LEMMA RowsAre ==
    ASSUME NEW m \in Nat, NEW f, DOMAIN f = 1 .. m,
           f = [i \in 1 .. m |-> f[i]], \A i \in 1 .. m : f[i] \in Seq(Byte)
    PROVE  f \in Seq(Seq(Byte)) /\ Len(f) = m
  <1>1. f \in [1 .. m -> Seq(Byte)]
    OBVIOUS
  <1>2. f \in Seq(Seq(Byte))
    BY <1>1, IsASeq
  <1> QED
    BY <1>2, LenProperties

(* Rows that are not empty take at least as many bytes as there are rows. *)
LEMMA RowsCount ==
    ASSUME NEW T, NEW ss \in Seq(Seq(T)), \A i \in 1 .. Len(ss) : ss[i] # <<>>
    PROVE  Len(ss) <= Offsets(ss)[Len(ss)]
  <1> DEFINE off == Offsets(ss)
             m == Len(ss)
             S == {k \in 0 .. m : k <= off[k]}
  <1>1. /\ off \in [0 .. m -> Nat] /\ off[0] = 0
        /\ \A k \in 1 .. m : off[k] = off[k - 1] + Len(ss[k])
    BY OffsetsAre
  <1>2. m \in Nat
    OBVIOUS
  <1> HIDE DEF off
  <1>3. \A k \in 1 .. m : Len(ss[k]) >= 1
    <2> TAKE k \in 1 .. m
    <2>1. ss[k] \in Seq(T) /\ ss[k] # <<>>
      OBVIOUS
    <2> QED
      BY <2>1, EmptySeq, LenProperties
  <1> HIDE DEF m
  <1>4. 0 \in S
    BY <1>1, <1>2
  <1>5. \A i \in 0 .. m - 1 : i \in S => i + 1 \in S
    <2> SUFFICES ASSUME NEW i \in 0 .. m - 1, i <= off[i] PROVE i + 1 <= off[i + 1]
      BY <1>2
    <2>1. i + 1 \in 1 .. m /\ (i + 1) - 1 = i /\ i \in 0 .. m
      BY <1>2
    <2> DEFINE l == Len(ss[i + 1])
    <2>2. off[i + 1] = off[i] + l /\ l >= 1 /\ off[i] \in Nat /\ off[i + 1] \in Nat
      BY <1>1, <1>3, <2>1
    <2>3. ss[i + 1] \in Seq(T)
      BY <2>1 DEF m
    <2>4. l \in Nat
      BY <2>3
    <2> HIDE DEF l
    <2> QED
      BY <2>2, <2>4
  <1> HIDE DEF S
  <1>6. 0 .. m \subseteq S
    BY <1>2, <1>4, <1>5, BoundedInduction
  <1>7. m \in S
    BY <1>2, <1>6
  <1> QED
    BY <1>7 DEF S, off, m

(* Rows that are empty take no bytes. *)
LEMMA RowsSkipped ==
    ASSUME NEW T, NEW ss \in Seq(Seq(T)), NEW a \in 0 .. Len(ss),
           NEW b \in a .. Len(ss), \A i \in a + 1 .. b : ss[i] = <<>>
    PROVE  Offsets(ss)[b] = Offsets(ss)[a]
  <1> DEFINE off == Offsets(ss)
             m == Len(ss)
             S == {k \in 0 .. b - a : off[a + k] = off[a]}
  <1>1. /\ off \in [0 .. m -> Nat] /\ off[0] = 0
        /\ \A k \in 1 .. m : off[k] = off[k - 1] + Len(ss[k])
    BY OffsetsAre
  <1>2. m \in Nat /\ b - a \in Nat /\ a \in Nat /\ b \in Nat /\ b <= m /\ a <= b
    OBVIOUS
  <1> HIDE DEF off, m
  <1>3. 0 \in S
    BY <1>2
  <1>4. \A i \in 0 .. (b - a) - 1 : i \in S => i + 1 \in S
    <2> SUFFICES ASSUME NEW i \in 0 .. (b - a) - 1, off[a + i] = off[a]
                 PROVE  off[a + (i + 1)] = off[a]
      BY <1>2, SMTT(60)
    <2>1. /\ a + (i + 1) \in 1 .. m /\ a + (i + 1) \in a + 1 .. b
          /\ (a + (i + 1)) - 1 = a + i /\ a + i \in 0 .. m
      BY <1>2
    <2>2. Len(ss[a + (i + 1)]) = 0
      BY <2>1, EmptySeq
    <2>3. off[a + (i + 1)] = off[(a + (i + 1)) - 1] + Len(ss[a + (i + 1)])
      BY <1>1, <2>1
    <2>4. off[a + i] \in Nat
      BY <1>1, <2>1
    <2> QED
      BY <2>1, <2>2, <2>3, <2>4
  <1> HIDE DEF S
  <1>5. 0 .. b - a \subseteq S
    BY <1>2, <1>3, <1>4, BoundedInduction
  <1>6. b - a \in S
    BY <1>2, <1>5
  <1>7. off[a + (b - a)] = off[a] /\ a + (b - a) = b
    BY <1>2, <1>6 DEF S
  <1> QED
    BY <1>7 DEF off

-----------------------------------------------------------------------------
(* The string table. *)

Shared(t, i) ==
    IF (i - 1) % RestartInterval = 0 THEN 0 ELSE CommonPrefixLen(t[i - 1], t[i])

Unshared(t, i) == SubSeq(t[i], Shared(t, i) + 1, Len(t[i]))

FrontRows(t) == [i \in DOMAIN t |-> FrontCoded(t, i)]

(* A string is the prefix it shares with the one before, and the rest. *)
LEMMA PrefixAndRest ==
    ASSUME NEW s \in Seq(Byte), NEW k \in 0 .. Len(s)
    PROVE  /\ SubSeq(s, 1, k) \in Seq(Byte) /\ Len(SubSeq(s, 1, k)) = k
           /\ SubSeq(s, k + 1, Len(s)) \in Seq(Byte)
           /\ Len(SubSeq(s, k + 1, Len(s))) = Len(s) - k
           /\ SubSeq(s, 1, k) \o SubSeq(s, k + 1, Len(s)) = s
  <1> DEFINE a == SubSeq(s, 1, k)
             b == SubSeq(s, k + 1, Len(s))
  <1>0. Len(s) \in Nat /\ k \in Nat /\ k <= Len(s)
    OBVIOUS
  <1>1. /\ a \in Seq(Byte) /\ Len(a) = k
        /\ \A j \in 1 .. k : a[j] = s[j]
    BY <1>0, SubSeqProperties
  <1>2. /\ b \in Seq(Byte) /\ Len(b) = Len(s) - k
        /\ \A j \in 1 .. Len(s) - k : b[j] = s[k + j]
    BY <1>0, SubSeqProperties
  <1> HIDE DEF a, b
  <1>3. a \o b \in Seq(Byte) /\ Len(a \o b) = Len(s)
    <2>1. a \o b \in Seq(Byte) /\ Len(a \o b) = Len(a) + Len(b)
      BY <1>1, <1>2, ConcatProperties
    <2> QED
      BY <1>0, <1>1, <1>2, <2>1
  <1>4. \A j \in 1 .. Len(s) : (a \o b)[j] = s[j]
    <2> TAKE j \in 1 .. Len(s)
    <2>1. CASE j <= k
      BY <1>0, <1>1, <1>2, <2>1, ConcatProperties
    <2>2. CASE j > k
      <3>1. j - k \in 1 .. Len(s) - k /\ k + (j - k) = j
        BY <1>0, <2>2
      <3>2. (a \o b)[j] = b[j - Len(a)]
        BY <1>0, <1>1, <1>2, <2>2, ConcatProperties
      <3> QED
        BY <1>1, <1>2, <3>1, <3>2
    <2>3. j <= k \/ j > k
      BY <1>0
    <2> QED
      BY <2>1, <2>2, <2>3
  <1>5. a \o b = s
    BY <1>3, <1>4, SeqEqual
  <1> QED
    BY <1>1, <1>2, <1>5 DEF a, b

(* What a string shares with the one before it is a beginning of both, and *)
(* nothing at a restart.                                                   *)
LEMMA SharedIs ==
    ASSUME NEW t \in Seq(Text), NEW i \in 1 .. Len(t)
    PROVE  /\ Shared(t, i) \in 0 .. Len(t[i])
           /\ (i - 1) % RestartInterval = 0 => Shared(t, i) = 0
           /\ i = 1 => Shared(t, i) = 0
           /\ i > 1 => /\ Shared(t, i) <= Len(t[i - 1])
                       /\ SubSeq(t[i - 1], 1, Shared(t, i)) =
                            SubSeq(t[i], 1, Shared(t, i))
  <1>0. t[i] \in Seq(Byte) /\ Len(t[i]) \in Nat
    BY DEF Text
  <1>1. CASE (i - 1) % RestartInterval = 0
    <2>1. Shared(t, i) = 0
      BY <1>1 DEF Shared
    <2>2. ASSUME i > 1
          PROVE  /\ 0 <= Len(t[i - 1])
                 /\ SubSeq(t[i - 1], 1, 0) = SubSeq(t[i], 1, 0)
      <3>1. t[i - 1] \in Seq(Byte)
        BY <2>2 DEF Text
      <3>2. /\ SubSeq(t[i - 1], 1, 0) \in Seq(Byte) /\ Len(SubSeq(t[i - 1], 1, 0)) = 0
            /\ SubSeq(t[i], 1, 0) \in Seq(Byte) /\ Len(SubSeq(t[i], 1, 0)) = 0
        BY <1>0, <3>1, PrefixAndRest
      <3> QED
        BY <3>1, <3>2, EmptySeq
    <2> QED
      BY <1>0, <2>1, <2>2
  <1>2. CASE (i - 1) % RestartInterval # 0
    <2>1. i > 1
      <3> SUFFICES ASSUME i = 1 PROVE FALSE
        OBVIOUS
      <3>1. 0 % RestartInterval = 0
        BY FormatAssumption
      <3> QED
        BY <1>2, <3>1
    <2> DEFINE a == t[i - 1]
               b == t[i]
               K == {k \in 0 .. Len(a) : k <= Len(b) /\ SubSeq(a, 1, k) = SubSeq(b, 1, k)}
    <2>2. a \in Seq(Byte) /\ Len(a) \in Nat
      BY <2>1 DEF Text
    <2>3. 0 \in K
      <3>1. /\ SubSeq(a, 1, 0) \in Seq(Byte) /\ Len(SubSeq(a, 1, 0)) = 0
            /\ SubSeq(b, 1, 0) \in Seq(Byte) /\ Len(SubSeq(b, 1, 0)) = 0
        BY <1>0, <2>2, PrefixAndRest
      <3> QED
        BY <1>0, <2>2, <3>1, EmptySeq
    <2>4. Shared(t, i) = Max(K)
      BY <1>2 DEF Shared, CommonPrefixLen
    <2>5. K \in SUBSET (0 .. Len(a))
      OBVIOUS
    <2>6. Max(K) \in K
      <3> HIDE DEF K
      <3> QED
        BY <2>2, <2>3, <2>5, GreatestOf
    <2> DEFINE k == Max(K)
    <2>7. k \in 0 .. Len(a) /\ k <= Len(b) /\ SubSeq(a, 1, k) = SubSeq(b, 1, k)
      BY <2>6
    <2>8. Shared(t, i) = k
      BY <2>4
    <2> HIDE DEF k
    <2>9. k \in 0 .. Len(b) /\ k <= Len(a)
      BY <1>0, <2>2, <2>7
    <2> QED
      BY <1>2, <2>1, <2>7, <2>8, <2>9
  <1> QED
    BY <1>1, <1>2

(* The offsets of the strings, and of the last of them in particular. *)
LEMMA BlobWrote ==
    ASSUME NEW d, NEW t, Wrote(d, t)
    PROVE  /\ t \in Seq(Seq(Byte)) /\ Len(t) \in Nat \ {0}
           /\ Offsets(t) \in [0 .. Len(t) -> Nat]
           /\ Offsets(t)[0] = 0
           /\ \A i \in 1 .. Len(t) :
                 /\ t[i] \in Seq(Byte)
                 /\ Offsets(t)[i] = Offsets(t)[i - 1] + Len(t[i])
                 /\ Offsets(t)[i] <= BlobLen(t)
                 /\ Len(t[i]) <= BlobLen(t)
           /\ Offsets(t)[Len(t)] = BlobLen(t)
           /\ BlobLen(t) \in Nat
           /\ BlobLen(t) <= MaxPayload /\ BlobLen(t) < VarintLimit
  <1>1. t \in Seq(Seq(Byte)) /\ Len(t) \in Nat \ {0}
    BY TableWrote DEF Text
  <1>2. /\ Offsets(t) \in [0 .. Len(t) -> Nat] /\ Offsets(t)[0] = 0
        /\ \A i \in 1 .. Len(t) : Offsets(t)[i] = Offsets(t)[i - 1] + Len(t[i])
    BY <1>1, OffsetsAre
  <1>3. Offsets(t)[Len(t)] = BlobLen(t)
    BY DEF BlobLen, Offsets
  <1> DEFINE off == Offsets(t)
             m == Len(t)
  <1>4. ASSUME NEW i \in 1 .. m
        PROVE  off[i] <= off[m] /\ Len(t[i]) <= off[m] /\ t[i] \in Seq(Byte)
    <2>1. i \in 0 .. Len(t) /\ Len(t) \in i .. Len(t)
      BY <1>1
    <2>2. off[i] <= off[m]
      BY <1>1, <2>1, OffsetsGrow
    <2>6. i \in 0 .. m /\ i - 1 \in 0 .. m /\ m \in 0 .. m
      BY <1>1
    <2>7. off \in [0 .. m -> Nat] /\ off[i] = off[i - 1] + Len(t[i])
      BY <1>2
    <2> HIDE DEF off
    <2>3. off[i] = off[i - 1] + Len(t[i]) /\ off[i - 1] \in Nat /\ off[m] \in Nat
          /\ off[i] \in Nat
      BY <2>6, <2>7
    <2>4. t[i] \in Seq(Byte)
      BY <1>1
    <2>5. Len(t[i]) \in Nat
      BY <2>4
    <2> QED
      BY <2>2, <2>3, <2>4, <2>5
  <1>5. off[m] \in Nat
    BY <1>1, <1>2, SMTT(60)
  <1>6. BlobLen(t) <= MaxPayload /\ BlobLen(t) < VarintLimit
    BY DEF Wrote, Fits
  <1> QED
    BY <1>1, <1>2, <1>3, <1>4, <1>5, <1>6

(* Only the first string is empty. *)
LEMMA StringsFitBlob ==
    ASSUME NEW d, NEW t, Wrote(d, t)
    PROVE  /\ Len(t) <= BlobLen(t) + 1
           /\ t[1] = <<>>
           /\ Offsets(t)[1] = 0
  <1> DEFINE off == Offsets(t)
             m == Len(t) - 1
             S == {k \in 0 .. m : k <= off[k + 1]}
  <1>1. /\ m \in Nat /\ off[0] = 0 /\ Len(t) = m + 1
        /\ off \in [0 .. m + 1 -> Nat]
        /\ \A i \in 1 .. m + 1 : off[i] = off[i - 1] + Len(t[i])
        /\ off[m + 1] = BlobLen(t)
        /\ \A i \in 1 .. m + 1 : t[i] \in Seq(Byte)
    BY BlobWrote
  <1>2. /\ t[1] = <<>>
        /\ \A i \in 2 .. m + 1 : t[i] # <<>>
    <2>1. Lists(t, Strings(d))
      BY TableWrote
    <2>2. \A i \in 2 .. m + 1 : t[i] = t[1] => i = 1
      BY <1>1, <2>1 DEF Lists
    <2> QED
      BY <2>1, <2>2, <1>1 DEF Lists
  <1>3. \A i \in 2 .. m + 1 : Len(t[i]) \in Nat /\ Len(t[i]) >= 1
    <2> TAKE i \in 2 .. m + 1
    <2>1. t[i] \in Seq(Byte) /\ t[i] # <<>>
      BY <1>1, <1>2
    <2> QED
      BY <2>1, EmptySeq, LenProperties
  <1> HIDE DEF off, m
  <1>4. off[1] = 0
    <2>1. Len(t[1]) = 0
      BY <1>2, EmptySeq
    <2>2. off[1] = off[1 - 1] + Len(t[1])
      BY <1>1
    <2> QED
      BY <1>1, <2>1, <2>2
  <1>5. 0 \in S
    BY <1>1, <1>4
  <1>6. \A i \in 0 .. m - 1 : i \in S => i + 1 \in S
    <2> SUFFICES ASSUME NEW i \in 0 .. m - 1, i <= off[i + 1]
                 PROVE  i + 1 <= off[(i + 1) + 1]
      BY <1>1
    <2>1. /\ i + 2 \in 2 .. m + 1 /\ (i + 2) - 1 = i + 1 /\ (i + 1) + 1 = i + 2
          /\ i + 1 \in 0 .. m + 1
      BY <1>1
    <2> DEFINE l == Len(t[i + 2])
               p == off[i + 1]
    <2>2. off[i + 2] = p + l /\ l \in Nat /\ l >= 1 /\ p \in Nat
      BY <1>1, <1>3, <2>1, SMTT(60)
    <2>3. i <= p
      OBVIOUS
    <2> HIDE DEF l, p
    <2> QED
      BY <2>1, <2>2, <2>3
  <1> HIDE DEF S
  <1>7. 0 .. m \subseteq S
    BY <1>1, <1>5, <1>6, BoundedInduction
  <1>8. m \in S
    BY <1>1, <1>7
  <1>9. m <= off[m + 1] /\ off[m + 1] \in Nat
    BY <1>1, <1>8 DEF S
  <1> QED
    BY <1>1, <1>2, <1>4, <1>9 DEF off

(* A row of the table: two numbers, and the bytes that are not shared. *)
LEMMA FrontRow ==
    ASSUME NEW d, NEW t, Wrote(d, t), NEW i \in 1 .. Len(t)
    PROVE  LET a == UvarintBytes(Shared(t, i))
               b == UvarintBytes(Len(Unshared(t, i)))
               row == FrontRows(t)[i]
           IN  /\ Shared(t, i) \in 0 .. VarintLimit - 1
               /\ Shared(t, i) <= BlobLen(t)
               /\ Len(Unshared(t, i)) \in 0 .. VarintLimit - 1
               /\ Len(t[i]) = Shared(t, i) + Len(Unshared(t, i))
               /\ Unshared(t, i) \in Seq(Byte)
               /\ a \in Seq(Byte) /\ Len(a) \in Nat \ {0}
               /\ b \in Seq(Byte) /\ Len(b) \in Nat \ {0}
               /\ row = (a \o b) \o Unshared(t, i)
               /\ row \in Seq(Byte) /\ Len(row) \in Nat \ {0}
               /\ Len(row) = (Len(a) + Len(b)) + Len(Unshared(t, i))
  <1> DEFINE k == Shared(t, i)
             u == Unshared(t, i)
             a == UvarintBytes(k)
             b == UvarintBytes(Len(u))
             row == FrontRows(t)[i]
  <1>1. /\ t \in Seq(Text) /\ t[i] \in Seq(Byte) /\ Len(t[i]) \in Nat
        /\ Len(t[i]) <= BlobLen(t) /\ BlobLen(t) < VarintLimit
        /\ BlobLen(t) \in Nat /\ VarintLimit \in Nat
    BY TableWrote, BlobWrote, FormatAssumption, SMTT(60)
  <1>2. k \in 0 .. Len(t[i])
    BY <1>1, SharedIs
  <1>3. u \in Seq(Byte) /\ Len(u) = Len(t[i]) - k
    BY <1>1, <1>2, PrefixAndRest DEF Unshared
  <1>4. row = UvarintBytes(k) \o UvarintBytes(Len(t[i]) - k) \o u
    <2>1. DOMAIN t = 1 .. Len(t)
      BY <1>1
    <2>2. row = FrontCoded(t, i)
      BY <2>1 DEF FrontRows
    <2> QED
      BY <2>2 DEF FrontCoded, Shared, Unshared
  <1> HIDE DEF k, u
  <1>5. /\ k \in 0 .. VarintLimit - 1 /\ Len(u) \in 0 .. VarintLimit - 1
        /\ k <= BlobLen(t) /\ Len(t[i]) = k + Len(u)
    BY <1>1, <1>2, <1>3
  <1>6. /\ a \in Seq(Byte) /\ Len(a) \in Nat \ {0}
        /\ b \in Seq(Byte) /\ Len(b) \in Nat \ {0}
    BY <1>5, UvarintShape, FormatAssumption, SMTT(60)
  <1>7. row = (a \o b) \o u
    BY <1>3, <1>4
  <1> HIDE DEF a, b, row
  <1>8. /\ row \in Seq(Byte)
        /\ Len(row) = (Len(a) + Len(b)) + Len(u)
        /\ Len(row) \in Nat \ {0}
    <2>1. /\ a \o b \in Seq(Byte) /\ Len(a \o b) = Len(a) + Len(b)
      BY <1>6, ConcatProperties
    <2>2. /\ (a \o b) \o u \in Seq(Byte)
          /\ Len((a \o b) \o u) = Len(a \o b) + Len(u)
      BY <1>3, <2>1, ConcatProperties
    <2>3. Len(u) \in Nat
      BY <1>3
    <2> QED
      BY <1>6, <1>7, <2>1, <2>2, <2>3
  <1> QED
    BY <1>3, <1>5, <1>6, <1>7, <1>8, Zenon DEF a, b, k, u, row

(* A row of the string table is never empty, so that there are no more     *)
(* strings than bytes.                                                     *)
LEMMA FrontRowsAre ==
    ASSUME NEW d, NEW t, Wrote(d, t)
    PROVE  /\ FrontRows(t) \in Seq(Seq(Byte)) /\ Len(FrontRows(t)) = Len(t)
           /\ Len(t) <= Offsets(FrontRows(t))[Len(t)]
  <1> DEFINE f == FrontRows(t)
  <1>1. Len(t) \in Nat /\ DOMAIN t = 1 .. Len(t)
    BY TableWrote
  <1>2. DOMAIN f = 1 .. Len(t) /\ f = [i \in 1 .. Len(t) |-> f[i]]
    BY <1>1 DEF FrontRows
  <1>3. \A i \in 1 .. Len(t) : f[i] \in Seq(Byte) /\ Len(f[i]) \in Nat \ {0}
    BY FrontRow
  <1> HIDE DEF f
  <1>4. f \in Seq(Seq(Byte)) /\ Len(f) = Len(t)
    BY <1>1, <1>2, <1>3, RowsAre
  <1>5. \A i \in 1 .. Len(f) : f[i] # <<>>
    BY <1>3, <1>4, EmptySeq
  <1> QED
    BY <1>4, <1>5, RowsCount DEF f

-----------------------------------------------------------------------------
(* The rows of names, cities and columns. *)

PrefRows(d, t) == [i \in DOMAIN d.prefectures |-> NameBytes(t, d.prefectures[i])]

CityRows(d, t) == [i \in DOMAIN d.cities |-> CityBytes(t, d.cities[i])]

ZipRows(zs) == [i \in DOMAIN zs |-> UvarintBytes(Minus32(zs[i], Before(zs, i)))]

DeltaRows(f) == [i \in DOMAIN f |-> VarintBytes(f[i] - Before(f, i))]

SparseRows(f) ==
    [i \in DOMAIN f |-> IF f[i] = 0 THEN <<>>
                        ELSE UvarintBytes(Gap(f, i)) \o UvarintBytes(f[i])]

(* The rows of the prefectures.                                            *)
LEMMA PrefRowsAre ==
    ASSUME NEW d, NEW t, Wrote(d, t)
    PROVE  /\ PrefRows(d, t) \in Seq(Seq(Byte))
           /\ Len(PrefRows(d, t)) = PrefectureCount
           /\ \A i \in 1 .. PrefectureCount :
                 /\ Ref(t, d.prefectures[i]) \in References
                 /\ PrefRows(d, t)[i] = RefBytes(Ref(t, d.prefectures[i]))
  <1> DEFINE f == PrefRows(d, t)
  <1>1. PrefectureCount \in Nat /\ DOMAIN d.prefectures = 1 .. PrefectureCount
    BY PartsOfDataset, FormatAssumption DEF Wrote
  <1>2. DOMAIN f = 1 .. PrefectureCount /\ f = [i \in 1 .. PrefectureCount |-> f[i]]
        /\ \A i \in 1 .. PrefectureCount : f[i] = NameBytes(t, d.prefectures[i])
    BY <1>1 DEF PrefRows
  <1>3. \A i \in 1 .. PrefectureCount :
           /\ Ref(t, d.prefectures[i]) \in References
           /\ NameBytes(t, d.prefectures[i]) = RefBytes(Ref(t, d.prefectures[i]))
    BY <1>1, RefsWrote
  <1> HIDE DEF f
  <1>4. \A i \in 1 .. PrefectureCount :
           /\ f[i] = RefBytes(Ref(t, d.prefectures[i]))
           /\ f[i] \in Seq(Byte)
    BY <1>2, <1>3, RefShape
  <1>5. f \in Seq(Seq(Byte)) /\ Len(f) = PrefectureCount
    BY <1>1, <1>2, <1>4, RowsAre
  <1> QED
    BY <1>3, <1>4, <1>5 DEF f

(* A row of a city: its code, its prefecture, and its name. *)
LEMMA CityRow ==
    ASSUME NEW d, NEW t, Wrote(d, t), NEW i \in 1 .. Len(d.cities)
    PROVE  LET a == UvarintBytes(d.cities[i].jis)
               b == <<d.cities[i].pref>>
               c == RefBytes(Ref(t, d.cities[i]))
               row == CityRows(d, t)[i]
           IN  /\ d.cities[i].jis \in 0 .. MaxUint32
               /\ Ref(t, d.cities[i]) \in References
               /\ a \in Seq(Byte) /\ Len(a) \in Nat \ {0}
               /\ b \in Seq(Byte) /\ Len(b) = 1
               /\ c \in Seq(Byte) /\ Len(c) \in Nat \ {0}
               /\ row = (a \o b) \o c
               /\ row \in Seq(Byte) /\ Len(row) \in Nat \ {0}
               /\ Len(row) = (Len(a) + 1) + Len(c)
  <1> DEFINE a == UvarintBytes(d.cities[i].jis)
             b == <<d.cities[i].pref>>
             c == RefBytes(Ref(t, d.cities[i]))
             row == CityRows(d, t)[i]
  <1>1. /\ DOMAIN d.cities = 1 .. Len(d.cities)
        /\ d.cities[i].jis \in 0 .. MaxUint32 /\ d.cities[i].pref \in Byte
    BY WroteCities
  <1>2. Ref(t, d.cities[i]) \in References /\ NameBytes(t, d.cities[i]) = c
    BY <1>1, RefsWrote
  <1>3. /\ a \in Seq(Byte) /\ Len(a) \in Nat \ {0}
        /\ c \in Seq(Byte) /\ Len(c) \in Nat \ {0}
    BY <1>1, <1>2, NumberShape, RefShape
  <1>4. b \in Seq(Byte) /\ Len(b) = 1
    BY <1>1
  <1>5. row = (a \o b) \o c
    <2>1. row = CityBytes(t, d.cities[i])
      BY <1>1 DEF CityRows
    <2> QED
      BY <1>2, <2>1 DEF CityBytes
  <1> HIDE DEF a, b, c, row
  <1>6. /\ row \in Seq(Byte)
        /\ Len(row) = (Len(a) + 1) + Len(c)
        /\ Len(row) \in Nat \ {0}
    <2>1. /\ a \o b \in Seq(Byte) /\ Len(a \o b) = Len(a) + Len(b)
      BY <1>3, <1>4, ConcatProperties
    <2>2. /\ (a \o b) \o c \in Seq(Byte)
          /\ Len((a \o b) \o c) = Len(a \o b) + Len(c)
      BY <1>3, <2>1, ConcatProperties
    <2> QED
      BY <1>3, <1>4, <1>5, <2>1, <2>2
  <1> QED
    BY <1>1, <1>2, <1>3, <1>4, <1>5, <1>6, Zenon DEF a, b, c, row

(* The rows of the cities, of at least a byte each.                        *)
LEMMA CityRowsAre ==
    ASSUME NEW d, NEW t, Wrote(d, t)
    PROVE  /\ CityRows(d, t) \in Seq(Seq(Byte))
           /\ Len(CityRows(d, t)) = Len(d.cities)
           /\ Len(d.cities) <= Offsets(CityRows(d, t))[Len(d.cities)]
  <1> DEFINE f == CityRows(d, t)
             m == Len(d.cities)
  <1>1. m \in Nat /\ DOMAIN d.cities = 1 .. m
    BY WroteCities
  <1>2. DOMAIN f = 1 .. m /\ f = [i \in 1 .. m |-> f[i]]
    BY <1>1 DEF CityRows
  <1>3. \A i \in 1 .. m : f[i] \in Seq(Byte) /\ Len(f[i]) \in Nat \ {0}
    BY CityRow
  <1> HIDE DEF f, m
  <1>4. f \in Seq(Seq(Byte)) /\ Len(f) = m
    BY <1>1, <1>2, <1>3, RowsAre
  <1>5. \A i \in 1 .. Len(f) : f[i] # <<>>
    BY <1>3, <1>4, EmptySeq
  <1> QED
    BY <1>4, <1>5, RowsCount DEF f, m

(* A zip code is no less than the one before it. *)
LEMMA ZipRow ==
    ASSUME NEW d, NEW t, Wrote(d, t), NEW i \in 1 .. Len(d.records)
    PROVE  LET x == ZipsOf(d)[i] - Before(ZipsOf(d), i)
           IN  /\ x \in 0 .. MaxZip /\ x \in 0 .. MaxUint32
               /\ ZipRows(ZipsOf(d))[i] = UvarintBytes(x)
  <1> DEFINE zs == ZipsOf(d)
             x == zs[i] - Before(zs, i)
  <1>1. /\ zs \in [1 .. Len(d.records) -> 0 .. MaxZip]
        /\ \A k \in 2 .. Len(d.records) : zs[k - 1] <= zs[k]
    BY ZipsWrote
  <1>2. DOMAIN zs = 1 .. Len(d.records) /\ zs[i] \in 0 .. MaxZip
    BY <1>1
  <1> HIDE DEF zs
  <1>3. Before(zs, i) \in 0 .. zs[i]
    <2>1. CASE i = 1
      BY <1>2, <2>1 DEF Before
    <2>2. CASE i # 1
      <3>1. /\ i \in 2 .. Len(d.records) /\ i - 1 \in 1 .. Len(d.records)
        BY <2>2
      <3>2. zs[i - 1] \in 0 .. MaxZip /\ zs[i - 1] <= zs[i]
        BY <1>1, <3>1
      <3> QED
        BY <1>2, <2>2, <3>2 DEF Before
    <2> QED
      BY <2>1, <2>2
  <1>4. x \in 0 .. MaxZip /\ MaxZip <= MaxUint32 /\ MaxUint32 \in Nat /\ MaxZip \in Nat
    BY <1>2, <1>3, FormatAssumption
  <1>5. ZipRows(zs)[i] = UvarintBytes(x % (MaxUint32 + 1))
    BY <1>2 DEF ZipRows, Minus32
  <1> HIDE DEF x
  <1>6. x % (MaxUint32 + 1) = x /\ x \in 0 .. MaxUint32
    BY <1>4
  <1> QED
    BY <1>4, <1>5, <1>6 DEF zs, x

(* The rows of the zip codes.                                              *)
LEMMA ZipRowsAre ==
    ASSUME NEW d, NEW t, Wrote(d, t)
    PROVE  /\ ZipRows(ZipsOf(d)) \in Seq(Seq(Byte))
           /\ Len(ZipRows(ZipsOf(d))) = Len(d.records)
  <1> DEFINE f == ZipRows(ZipsOf(d))
             m == Len(d.records)
  <1>1. m \in Nat /\ DOMAIN ZipsOf(d) = 1 .. m
    BY WroteRecords, ZipsWrote
  <1>2. DOMAIN f = 1 .. m /\ f = [i \in 1 .. m |-> f[i]]
    BY <1>1 DEF ZipRows
  <1>3. \A i \in 1 .. m : f[i] \in Seq(Byte)
    <2> TAKE i \in 1 .. m
    <2>1. PICK x \in 0 .. MaxUint32 : f[i] = UvarintBytes(x)
      BY ZipRow
    <2> HIDE DEF f
    <2> QED
      BY <2>1, NumberShape
  <1> HIDE DEF f
  <1> QED
    BY <1>1, <1>2, <1>3, RowsAre DEF f

(* The difference of two indices. *)
LEMMA DeltaRow ==
    ASSUME NEW m \in Nat, NEW f \in [1 .. m -> 0 .. MaxUint32], NEW i \in 1 .. m
    PROVE  LET x == f[i] - Before(f, i)
           IN  /\ x \in Int /\ Zig(x) < VarintLimit
               /\ Before(f, i) \in 0 .. MaxUint32
               /\ DeltaRows(f)[i] = VarintBytes(x)
               /\ DeltaRows(f)[i] \in Seq(Byte)
               /\ Len(DeltaRows(f)[i]) \in Nat \ {0}
  <1> DEFINE b == Before(f, i)
             x == f[i] - b
  <1>0. MaxUint32 \in Nat /\ 2 * MaxUint32 + 1 < VarintLimit /\ VarintLimit \in Nat
    BY FormatAssumption
  <1>1. f[i] \in 0 .. MaxUint32
    OBVIOUS
  <1>2. b \in 0 .. MaxUint32
    <2>1. CASE i = 1
      BY <1>0, <2>1 DEF Before
    <2>2. CASE i # 1
      <3>1. i - 1 \in 1 .. m
        BY <2>2
      <3>2. f[i - 1] \in 0 .. MaxUint32
        BY <3>1
      <3> QED
        BY <2>2, <3>2 DEF Before
    <2> QED
      BY <2>1, <2>2
  <1>3. DeltaRows(f)[i] = VarintBytes(x)
    BY DEF DeltaRows
  <1> HIDE DEF b
  <1>4. x \in Int /\ x <= MaxUint32 /\ -MaxUint32 <= x
    BY <1>0, <1>1, <1>2
  <1> HIDE DEF x
  <1>5. Zig(x) < VarintLimit /\ Zig(x) \in 0 .. VarintLimit - 1
    BY <1>0, <1>4 DEF Zig
  <1>6. /\ VarintBytes(x) \in Seq(Byte)
        /\ Len(VarintBytes(x)) \in Nat \ {0}
    BY <1>5, UvarintShape, FormatAssumption DEF VarintBytes
  <1> QED
    BY <1>2, <1>3, <1>4, <1>5, <1>6 DEF x, b

(* The rows of a delta column.                                             *)
LEMMA DeltaRowsAre ==
    ASSUME NEW m \in Nat, NEW f \in [1 .. m -> 0 .. MaxUint32]
    PROVE  DeltaRows(f) \in Seq(Seq(Byte)) /\ Len(DeltaRows(f)) = m
  <1> DEFINE g == DeltaRows(f)
  <1>1. DOMAIN g = 1 .. m /\ g = [i \in 1 .. m |-> g[i]]
    BY DEF DeltaRows
  <1>2. \A i \in 1 .. m : g[i] \in Seq(Byte)
    BY DeltaRow
  <1> HIDE DEF g
  <1> QED
    BY <1>1, <1>2, RowsAre DEF g

(* The value before a record, and the gap since. *)
LEMMA GapIs ==
    ASSUME NEW m \in Nat, NEW f \in [1 .. m -> 0 .. MaxUint32], NEW i \in 1 .. m
    PROVE  /\ Gap(f, i) \in 0 .. i - 1
           /\ \A b \in 0 .. i - 1 :
                 /\ b # 0 => f[b] # 0
                 /\ \A j \in b + 1 .. i - 1 : f[j] = 0
                 => Gap(f, i) = i - b - 1
  <1> DEFINE S == {j \in 1 .. i - 1 : f[j] # 0} \cup {0}
  <1>1. i - 1 \in Nat /\ S \in SUBSET (0 .. i - 1) /\ S # {} /\ 0 \in S
    OBVIOUS
  <1>2. Gap(f, i) = i - Max(S) - 1
    BY DEF Gap
  <1>3. \A b \in 0 .. i - 1 :
           /\ b # 0 => f[b] # 0
           /\ \A j \in b + 1 .. i - 1 : f[j] = 0
           => b \in S /\ \A y \in S : y <= b
    OBVIOUS
  <1> HIDE DEF S
  <1>4. Max(S) \in S /\ \A y \in S : y <= Max(S)
    BY <1>1, GreatestOf
  <1>5. Max(S) \in 0 .. i - 1
    BY <1>1, <1>4
  <1>6. \A b \in 0 .. i - 1 : b \in S /\ (\A y \in S : y <= b) => b = Max(S)
    BY <1>4, <1>5
  <1> DEFINE g == Max(S)
  <1>7. Gap(f, i) = i - g - 1 /\ g \in 0 .. i - 1
    BY <1>2, <1>5
  <1>8. \A b \in 0 .. i - 1 : b \in S /\ (\A y \in S : y <= b) => b = g
    BY <1>6
  <1> HIDE DEF g
  <1>9. Gap(f, i) \in 0 .. i - 1
    BY <1>7
  <1> QED
    BY <1>3, <1>7, <1>8, <1>9

(* A record's row in a notes column: the gap and the id, or nothing for a  *)
(* record without a note.                                                  *)
LEMMA SparseRow ==
    ASSUME NEW m \in Nat, m < VarintLimit,
           NEW f \in [1 .. m -> 0 .. MaxUint32], NEW i \in 1 .. m
    PROVE  LET a == UvarintBytes(Gap(f, i))
               b == UvarintBytes(f[i])
               row == SparseRows(f)[i]
           IN  /\ f[i] = 0 => row = <<>>
               /\ f[i] # 0 => row = a \o b
               /\ Gap(f, i) \in 0 .. VarintLimit - 1
               /\ f[i] \in 0 .. MaxUint32
               /\ a \in Seq(Byte) /\ Len(a) \in Nat \ {0}
               /\ b \in Seq(Byte) /\ Len(b) \in Nat \ {0}
               /\ f[i] # 0 => Len(row) = Len(a) + Len(b)
               /\ row \in Seq(Byte)
  <1> DEFINE a == UvarintBytes(Gap(f, i))
             b == UvarintBytes(f[i])
             row == SparseRows(f)[i]
  <1>1. f[i] \in 0 .. MaxUint32 /\ VarintLimit \in Nat
    BY FormatAssumption
  <1>2. Gap(f, i) \in 0 .. VarintLimit - 1
    BY <1>1, GapIs
  <1>3. row = IF f[i] = 0 THEN <<>> ELSE a \o b
    BY DEF SparseRows
  <1>4. /\ a \in Seq(Byte) /\ Len(a) \in Nat \ {0}
        /\ b \in Seq(Byte) /\ Len(b) \in Nat \ {0}
    BY <1>1, <1>2, UvarintShape, NumberShape
  <1> HIDE DEF a, b, row
  <1>5. a \o b \in Seq(Byte) /\ Len(a \o b) = Len(a) + Len(b)
    BY <1>4, ConcatProperties
  <1>6. row \in Seq(Byte)
    BY <1>3, <1>5, EmptySeq
  <1>7. /\ f[i] = 0 => row = <<>>
        /\ f[i] # 0 => row = a \o b
        /\ f[i] # 0 => Len(row) = Len(a) + Len(b)
    BY <1>3, <1>5
  <1> QED
    BY <1>1, <1>2, <1>4, <1>6, <1>7, Zenon DEF a, b, row

(* The rows of a notes column.                                             *)
LEMMA SparseRowsAre ==
    ASSUME NEW m \in Nat, m < VarintLimit, NEW f \in [1 .. m -> 0 .. MaxUint32]
    PROVE  SparseRows(f) \in Seq(Seq(Byte)) /\ Len(SparseRows(f)) = m
  <1> DEFINE g == SparseRows(f)
  <1>1. DOMAIN g = 1 .. m /\ g = [i \in 1 .. m |-> g[i]]
    BY DEF SparseRows
  <1>2. \A i \in 1 .. m : g[i] \in Seq(Byte)
    BY SparseRow
  <1> HIDE DEF g
  <1> QED
    BY <1>1, <1>2, RowsAre DEF g

-----------------------------------------------------------------------------
(* The parts of the payload, one after the other. *)

TableHead(t) == UvarintBytes(Len(t)) \o UvarintBytes(BlobLen(t))

ValueCount(f) == Cardinality({i \in DOMAIN f : f[i] # 0})

Parts(d, t) ==
    <<VarintBytes(d.updated.kenAll), VarintBytes(d.updated.rome),
      TableHead(t) \o FlattenSeq(FrontRows(t)),
      FlattenSeq(PrefRows(d, t)),
      UvarintBytes(Len(d.cities)),
      FlattenSeq(CityRows(d, t)),
      UvarintBytes(Len(d.records)),
      FlattenSeq(ZipRows(ZipsOf(d))),
      FlattenSeq(DeltaRows(FieldOf(d, t, "city"))),
      FlattenSeq(DeltaRows(FieldOf(d, t, "kanji"))),
      FlattenSeq(DeltaRows(FieldOf(d, t, "kana"))),
      FlattenSeq(DeltaRows(FieldOf(d, t, "romaji"))),
      UvarintBytes(ValueCount(FieldOf(d, t, "note")))
        \o FlattenSeq(SparseRows(FieldOf(d, t, "note"))),
      UvarintBytes(ValueCount(FieldOf(d, t, "noteKana")))
        \o FlattenSeq(SparseRows(FieldOf(d, t, "noteKana"))),
      FlagsOf(d)>>

Start(d, t) == Offsets(Parts(d, t))

PartOf == [city |-> 9, kanji |-> 10, kana |-> 11, romaji |-> 12,
           note |-> 13, noteKana |-> 14, flags |-> 15]

(* The payload is its fifteen parts, one after the other                   *)
(* (encode.go:142-197).                                                    *)
LEMMA MarshalIs ==
    ASSUME NEW d, NEW t
    PROVE  Marshal(d, t) = FlattenSeq(Parts(d, t))
  <1> DEFINE ids(field) == [i \in DOMAIN d.records |-> IdIn(t, d.records[i][field])]
  <1>1. ASSUME NEW c \in {"kanji", "kana", "romaji", "note", "noteKana"}
        PROVE  FieldOf(d, t, c) = ids(c)
    BY <1>1 DEF FieldOf
  <1>2. FieldOf(d, t, "city") = [i \in DOMAIN d.records |-> d.records[i]["city"]]
    BY DEF FieldOf
  <1>3. /\ FieldOf(d, t, "kanji") = ids("kanji") /\ FieldOf(d, t, "kana") = ids("kana")
        /\ FieldOf(d, t, "romaji") = ids("romaji")
        /\ FieldOf(d, t, "note") = ids("note")
        /\ FieldOf(d, t, "noteKana") = ids("noteKana")
    BY <1>1
  <1>4. ZipsOf(d) = [i \in DOMAIN d.records |-> d.records[i]["zip"]]
    BY DEF ZipsOf
  <1>5. FlagsOf(d) = [i \in DOMAIN d.records |-> d.records[i]["flags"]]
    BY DEF FlagsOf
  <1>6. StringBytes(t) = TableHead(t) \o FlattenSeq(FrontRows(t))
    BY Zenon DEF StringBytes, TableHead, FrontRows
  <1>7. /\ FlattenSeq([i \in DOMAIN d.prefectures |-> NameBytes(t, d.prefectures[i])])
             = FlattenSeq(PrefRows(d, t))
        /\ FlattenSeq([i \in DOMAIN d.cities |-> CityBytes(t, d.cities[i])])
             = FlattenSeq(CityRows(d, t))
    BY Zenon DEF PrefRows, CityRows
  <1>8. \A f : DeltaBytes(f) = FlattenSeq(DeltaRows(f))
    BY Zenon DEF DeltaBytes, DeltaRows
  <1>9. \A f : SparseBytes(f) = UvarintBytes(ValueCount(f)) \o FlattenSeq(SparseRows(f))
    BY Zenon DEF SparseBytes, SparseRows, ValueCount
  <1>10. \A f : ZipBytes(f) = FlattenSeq(ZipRows(f))
    BY Zenon DEF ZipBytes, ZipRows
  <1>11. Marshal(d, t) = FlattenSeq(
          <<VarintBytes(d.updated.kenAll), VarintBytes(d.updated.rome),
            StringBytes(t),
            FlattenSeq([i \in DOMAIN d.prefectures |->
                          NameBytes(t, d.prefectures[i])]),
            UvarintBytes(Len(d.cities)),
            FlattenSeq([i \in DOMAIN d.cities |-> CityBytes(t, d.cities[i])]),
            UvarintBytes(Len(d.records)),
            ZipBytes(ZipsOf(d)),
            DeltaBytes(FieldOf(d, t, "city")), DeltaBytes(FieldOf(d, t, "kanji")),
            DeltaBytes(FieldOf(d, t, "kana")), DeltaBytes(FieldOf(d, t, "romaji")),
            SparseBytes(FieldOf(d, t, "note")),
            SparseBytes(FieldOf(d, t, "noteKana")),
            FlagsOf(d)>>)
    BY <1>2, <1>3, <1>4, <1>5, Zenon DEF Marshal
  <1> QED
    BY <1>6, <1>7, <1>8, <1>9, <1>10, <1>11, Zenon DEF Parts

(* Each part is a sequence of bytes. *)
LEMMA ColumnBytes ==
    ASSUME NEW d, NEW t, Wrote(d, t)
    PROVE  /\ \A c \in DeltaColumns :
                 /\ DeltaRows(FieldOf(d, t, c)) \in Seq(Seq(Byte))
                 /\ Len(DeltaRows(FieldOf(d, t, c))) = Len(d.records)
           /\ \A c \in SparseColumns :
                 /\ SparseRows(FieldOf(d, t, c)) \in Seq(Seq(Byte))
                 /\ Len(SparseRows(FieldOf(d, t, c))) = Len(d.records)
                 /\ ValueCount(FieldOf(d, t, c)) \in 0 .. Len(d.records)
                 /\ UvarintBytes(ValueCount(FieldOf(d, t, c))) \in Seq(Byte)
  <1>1. Len(d.records) \in Nat /\ Len(d.records) < VarintLimit
    BY WroteRecords
  <1>2. \A c \in DeltaColumns \cup SparseColumns :
           FieldOf(d, t, c) \in [1 .. Len(d.records) -> 0 .. MaxUint32]
    BY FieldWrote
  <1>3. ASSUME NEW c \in SparseColumns
        PROVE  /\ ValueCount(FieldOf(d, t, c)) \in 0 .. Len(d.records)
               /\ UvarintBytes(ValueCount(FieldOf(d, t, c))) \in Seq(Byte)
    <2> DEFINE f == FieldOf(d, t, c)
               S == {i \in DOMAIN f : f[i] # 0}
               m == Len(d.records)
    <2>1. DOMAIN f = 1 .. m
      BY <1>2
    <2> HIDE DEF f, m
    <2>2. S \subseteq 1 .. m /\ m \in Nat
      BY <1>1, <2>1 DEF m
    <2>3. IsFiniteSet(1 .. m) /\ Cardinality(1 .. m) = m
      <3>1. 1 \in Int /\ m \in Int
        BY <2>2
      <3> QED
        BY <2>2, <3>1, FS_Interval
    <2> HIDE DEF S
    <2>4. Cardinality(S) <= m /\ Cardinality(S) \in Nat
      BY <2>2, <2>3, FS_Subset, FS_CardinalityType
    <2>5. ValueCount(f) = Cardinality(S)
      BY DEF ValueCount, S
    <2>6. ValueCount(f) \in 0 .. m /\ ValueCount(f) \in 0 .. VarintLimit - 1
      BY <1>1, <2>2, <2>4, <2>5, FormatAssumption DEF m
    <2> QED
      BY <2>6, UvarintShape DEF f, m
  <1>4. \A c \in DeltaColumns :
           /\ DeltaRows(FieldOf(d, t, c)) \in Seq(Seq(Byte))
           /\ Len(DeltaRows(FieldOf(d, t, c))) = Len(d.records)
    BY <1>1, <1>2, DeltaRowsAre
  <1>5. \A c \in SparseColumns :
           /\ SparseRows(FieldOf(d, t, c)) \in Seq(Seq(Byte))
           /\ Len(SparseRows(FieldOf(d, t, c))) = Len(d.records)
    BY <1>1, <1>2, SparseRowsAre
  <1> QED
    BY <1>3, <1>4, <1>5

(* The string table begins with its count and the size of its blob.        *)
LEMMA TableHeadIs ==
    ASSUME NEW d, NEW t, Wrote(d, t)
    PROVE  /\ Len(t) \in 0 .. VarintLimit - 1
           /\ BlobLen(t) \in 0 .. VarintLimit - 1
           /\ UvarintBytes(Len(t)) \in Seq(Byte)
           /\ UvarintBytes(BlobLen(t)) \in Seq(Byte)
           /\ TableHead(t) \in Seq(Byte)
           /\ Len(TableHead(t)) =
                Len(UvarintBytes(Len(t))) + Len(UvarintBytes(BlobLen(t)))
  <1>1. Len(t) \in Nat \ {0} /\ Len(t) - 1 <= MaxUint32
    BY TableWrote
  <1>2. Len(t) \in 0 .. VarintLimit - 1
    BY <1>1, FormatAssumption
  <1>3. BlobLen(t) \in 0 .. VarintLimit - 1
    BY BlobWrote, FormatAssumption
  <1>4. /\ UvarintBytes(Len(t)) \in Seq(Byte)
        /\ UvarintBytes(BlobLen(t)) \in Seq(Byte)
    BY <1>2, <1>3, UvarintShape
  <1> QED
    BY <1>2, <1>3, <1>4, ConcatProperties DEF TableHead

(* Each part is a sequence of bytes.                                       *)
LEMMA PartsAre ==
    ASSUME NEW d, NEW t, Wrote(d, t)
    PROVE  Parts(d, t) \in Seq(Seq(Byte)) /\ Len(Parts(d, t)) = 15
  <1> DEFINE p1 == VarintBytes(d.updated.kenAll)
             p2 == VarintBytes(d.updated.rome)
             p3 == TableHead(t) \o FlattenSeq(FrontRows(t))
             p4 == FlattenSeq(PrefRows(d, t))
             p5 == UvarintBytes(Len(d.cities))
             p6 == FlattenSeq(CityRows(d, t))
             p7 == UvarintBytes(Len(d.records))
             p8 == FlattenSeq(ZipRows(ZipsOf(d)))
             p9 == FlattenSeq(DeltaRows(FieldOf(d, t, "city")))
             p10 == FlattenSeq(DeltaRows(FieldOf(d, t, "kanji")))
             p11 == FlattenSeq(DeltaRows(FieldOf(d, t, "kana")))
             p12 == FlattenSeq(DeltaRows(FieldOf(d, t, "romaji")))
             p13 == UvarintBytes(ValueCount(FieldOf(d, t, "note")))
                      \o FlattenSeq(SparseRows(FieldOf(d, t, "note")))
             p14 == UvarintBytes(ValueCount(FieldOf(d, t, "noteKana")))
                      \o FlattenSeq(SparseRows(FieldOf(d, t, "noteKana")))
             p15 == FlagsOf(d)
  <1>1. p1 \in Seq(Byte) /\ p2 \in Seq(Byte)
    <2>1. d.updated.kenAll \in Int /\ d.updated.rome \in Int
      BY PartsOfDataset DEF Wrote
    <2>2. Zig(d.updated.kenAll) < VarintLimit /\ Zig(d.updated.rome) < VarintLimit
      BY DEF Wrote, Fits
    <2>3. Zig(d.updated.kenAll) \in Nat /\ Zig(d.updated.rome) \in Nat
      BY <2>1, ZagOfZig
    <2>4. Zig(d.updated.kenAll) \in 0 .. VarintLimit - 1
          /\ Zig(d.updated.rome) \in 0 .. VarintLimit - 1
      BY <2>2, <2>3, FormatAssumption
    <2> QED
      BY <2>4, UvarintShape DEF VarintBytes
  <1>2. p3 \in Seq(Byte)
    <2>1. FlattenSeq(FrontRows(t)) \in Seq(Byte)
      BY FrontRowsAre, Flattened
    <2> QED
      BY <2>1, TableHeadIs, ConcatProperties
  <1>3. p4 \in Seq(Byte) /\ p6 \in Seq(Byte) /\ p8 \in Seq(Byte)
    BY PrefRowsAre, CityRowsAre, ZipRowsAre, Flattened
  <1>4. p5 \in Seq(Byte) /\ p7 \in Seq(Byte)
    <2>1. /\ Len(d.cities) \in 0 .. VarintLimit - 1
          /\ Len(d.records) \in 0 .. VarintLimit - 1
      BY WroteCities, WroteRecords, FormatAssumption
    <2> QED
      BY <2>1, UvarintShape
  <1>5. \A c \in DeltaColumns : FlattenSeq(DeltaRows(FieldOf(d, t, c))) \in Seq(Byte)
    BY ColumnBytes, Flattened
  <1>6. p9 \in Seq(Byte) /\ p10 \in Seq(Byte) /\ p11 \in Seq(Byte) /\ p12 \in Seq(Byte)
    BY <1>5 DEF DeltaColumns
  <1>7. \A c \in SparseColumns :
           UvarintBytes(ValueCount(FieldOf(d, t, c)))
             \o FlattenSeq(SparseRows(FieldOf(d, t, c))) \in Seq(Byte)
    <2> TAKE c \in SparseColumns
    <2>1. FlattenSeq(SparseRows(FieldOf(d, t, c))) \in Seq(Byte)
      BY ColumnBytes, Flattened
    <2>2. UvarintBytes(ValueCount(FieldOf(d, t, c))) \in Seq(Byte)
      BY ColumnBytes
    <2> QED
      BY <2>1, <2>2, ConcatProperties
  <1>8. p13 \in Seq(Byte) /\ p14 \in Seq(Byte)
    BY <1>7 DEF SparseColumns
  <1>9. p15 \in Seq(Byte)
    BY FlagsWrote
  <1>10. Parts(d, t) = <<p1, p2, p3, p4, p5, p6, p7, p8, p9, p10, p11, p12,
                         p13, p14, p15>>
    BY DEF Parts
  <1> HIDE DEF p1, p2, p3, p4, p5, p6, p7, p8, p9, p10, p11, p12, p13, p14, p15
  <1> QED
    BY <1>1, <1>2, <1>3, <1>4, <1>6, <1>8, <1>9, <1>10
=============================================================================
