------------------------------ MODULE Encoder -------------------------------
(***************************************************************************)
(* binfmt.Encode (internal/binfmt/encode.go): validate a dataset, intern   *)
(* its strings, and lay the columns out one after the other.  Encode is a  *)
(* function of the dataset, so it is modelled by operators; Codec runs it. *)
(*                                                                         *)
(* A dataset is a record                                                   *)
(*   [updated, prefectures, cities, records]                               *)
(* whose names are records [kanji, kana, romaji] of strings; city and      *)
(* prefecture indices count from zero, as in the code.                     *)
(***************************************************************************)
EXTENDS Format, SequencesExt

(* uint32 subtraction *)
Minus32(a, b) == (a - b) % (MaxUint32 + 1)

-----------------------------------------------------------------------------
(* validate *)

SortedRecords(d) ==
    \A i \in 2 .. Len(d.records) : d.records[i - 1].zip <= d.records[i].zip

(* Mutant: off by one. *)
MutantFitRendering(d) ==
    /\ \A i \in DOMAIN d.cities : d.cities[i].jis <= MaxJIS + 1
    /\ \A i \in DOMAIN d.records : d.records[i].zip <= MaxZip

(* A wider code would be printed modulo its width. *)
FitRendering(d) ==
    /\ \A i \in DOMAIN d.cities : d.cities[i].jis <= MaxJIS
    /\ \A i \in DOMAIN d.records : d.records[i].zip <= MaxZip

Valid(d) ==
    /\ \A i \in DOMAIN d.prefectures : d.prefectures[i].romaji # <<>>
    /\ Len(d.cities) <= MaxUint16
    /\ \A i \in DOMAIN d.cities : d.cities[i].pref < PrefectureCount
    /\ FitRendering(d)
    /\ \A i \in DOMAIN d.records : d.records[i].city < Len(d.cities)
    /\ SortedRecords(d)

-----------------------------------------------------------------------------
(* intern: every distinct string, sorted bytewise; its id is its rank. *)

NameStrings(name) == {name.kanji, name.kana, name.romaji}

Strings(d) ==
    LET names(list) == UNION {NameStrings(list[i]) : i \in DOMAIN list}
        annotations(list) ==
            UNION {{list[i].note, list[i].noteKana} : i \in DOMAIN list}
    IN  {<<>>} \cup names(d.prefectures) \cup names(d.cities)
          \cup names(d.records) \cup annotations(d.records)

Precedes(s, t) ==
    \/ IsStrictPrefix(s, t)
    \/ \E i \in 1 .. Len(s) :
          /\ i <= Len(t)
          /\ s[i] < t[i]
          /\ SubSeq(s, 1, i - 1) = SubSeq(t, 1, i - 1)

(* Mutant: the table is sorted the other way. *)
MutantStringTable(d) ==
    LET all == Strings(d)
        id == [s \in all |-> IF s = <<>> THEN 0
                             ELSE Cardinality({t \in all : ~Precedes(t, s)})]
    IN  [i \in 1 .. Cardinality(all) |-> CHOOSE s \in all : id[s] = i - 1]

(* stringTable.sorted *)
StringTable(d) ==
    LET all == Strings(d)
        id == [s \in all |-> Cardinality({t \in all : Precedes(t, s)})]
    IN  [i \in 1 .. Cardinality(all) |-> CHOOSE s \in all : id[s] = i - 1]

(* stringTable.index *)
IdIn(table, s) == (CHOOSE i \in DOMAIN table : table[i] = s) - 1

BlobLen(table) ==
    LET total[i \in 0 .. Len(table)] ==
            IF i = 0 THEN 0 ELSE total[i - 1] + Len(table[i])
    IN  total[Len(table)]

-----------------------------------------------------------------------------
(* marshal *)

CommonPrefixLen(a, b) ==
    Max({k \in 0 .. Len(a) : k <= Len(b) /\ SubSeq(a, 1, k) = SubSeq(b, 1, k)})

(* A string drops the prefix it shares with the one before it, except at a *)
(* restart point.                                                          *)
FrontCoded(table, i) ==
    LET prefix == IF (i - 1) % RestartInterval = 0 THEN 0
                  ELSE CommonPrefixLen(table[i - 1], table[i])
    IN  UvarintBytes(prefix) \o UvarintBytes(Len(table[i]) - prefix)
          \o SubSeq(table[i], prefix + 1, Len(table[i]))

StringBytes(table) ==
    UvarintBytes(Len(table)) \o UvarintBytes(BlobLen(table))
      \o FlattenSeq([i \in DOMAIN table |-> FrontCoded(table, i)])

NameBytes(table, name) ==
    UvarintBytes(IdIn(table, name.kanji)) \o UvarintBytes(IdIn(table, name.kana))
      \o UvarintBytes(IdIn(table, name.romaji))

CityBytes(table, city) ==
    UvarintBytes(city.jis) \o <<city.pref>> \o NameBytes(table, city)

Before(column, i) == IF i = 1 THEN 0 ELSE column[i - 1]

ZipBytes(zips) ==
    FlattenSeq([i \in DOMAIN zips |->
                  UvarintBytes(Minus32(zips[i], Before(zips, i)))])

(* appendDeltaColumn *)
DeltaBytes(column) ==
    FlattenSeq([i \in DOMAIN column |->
                  VarintBytes(column[i] - Before(column, i))])

(* Mutant: gaps are counted from the previous value. *)
MutantGap(column, i) ==
    i - Max({j \in 1 .. i - 1 : column[j] # 0} \cup {0})

(* Records skipped since the previous value, counted from the one after it. *)
Gap(column, i) ==
    i - Max({j \in 1 .. i - 1 : column[j] # 0} \cup {0}) - 1

(* appendSparseColumn *)
SparseBytes(column) ==
    UvarintBytes(Cardinality({i \in DOMAIN column : column[i] # 0}))
      \o FlattenSeq([i \in DOMAIN column |->
                       IF column[i] = 0 THEN <<>>
                       ELSE UvarintBytes(Gap(column, i))
                              \o UvarintBytes(column[i])])

Marshal(d, table) ==
    LET records == d.records
        ids(field) == [i \in DOMAIN records |-> IdIn(table, records[i][field])]
        values(field) == [i \in DOMAIN records |-> records[i][field]]
    IN  FlattenSeq(
          <<VarintBytes(d.updated.kenAll), VarintBytes(d.updated.rome),
            StringBytes(table),
            FlattenSeq([i \in DOMAIN d.prefectures |->
                          NameBytes(table, d.prefectures[i])]),
            UvarintBytes(Len(d.cities)),
            FlattenSeq([i \in DOMAIN d.cities |->
                          CityBytes(table, d.cities[i])]),
            UvarintBytes(Len(records)),
            ZipBytes(values("zip")),
            DeltaBytes(values("city")), DeltaBytes(ids("kanji")),
            DeltaBytes(ids("kana")), DeltaBytes(ids("romaji")),
            SparseBytes(ids("note")), SparseBytes(ids("noteKana")),
            values("flags")>>)

(* The file Encode writes. *)
EncodedFile(d, table) ==
    [header |-> "good", inflates |-> TRUE, payload |-> Marshal(d, table)]
=============================================================================
