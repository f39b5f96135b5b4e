---------------------------- MODULE BuildProofs -----------------------------
(***************************************************************************)
(* What the join writes is right for any two files.  The inductive         *)
(* invariant says, pass by pass, what the pass has put into its variables; *)
(* the comparison with the source is then counted out: a row reads back as *)
(* itself exactly when its city and its prefecture are named as their      *)
(* first rows name them.                                                   *)
(*                                                                         *)
(* Where the romanized file has nothing, a name is spelled by kana, and    *)
(* what kana spells is right for any table and any text: the two styles    *)
(* are compared rune by rune, by what is written when the loop reaches     *)
(* each of them.                                                           *)
(***************************************************************************)
EXTENDS Build, Kana, Foundations

(* The rows as parsed. *)
RowsParsed ==
    /\ ken \in Seq(KenRows)
    /\ Len(rome) \in Nat /\ DOMAIN rome = 1 .. Len(rome)

(* A town's spelling is that of a row with its key, and a zip code's those *)
(* of rows of the code, in whole columns.                                  *)
TownsIndexed ==
    /\ \A k \in DOMAIN ix.towns :
          \E s \in Rows(rome) :
              Usable(s) /\ RomeKey(s) = k /\ ix.towns[k] = Spelling(s).name
    /\ \A z \in DOMAIN ix.byZip : \A v \in ix.byZip[z] :
          \E s \in Rows(rome) :
              Usable(s) /\ s.zip = z /\ v = Spelling(s).name

(* Every row has a prefecture, and each is named by its first row. *)
PrefecturesJoined ==
    /\ \A r \in Rows(ken) : PrefCode(r.jis) \in Prefectures
    /\ DOMAIN prefectures = Prefectures
    /\ \A p \in Prefectures :
          /\ prefectures[p].kanji = FirstOf(p).pref
          /\ prefectures[p].kana = FirstOf(p).prefKana
          /\ prefectures[p].romaji # NoSpelling

(* Every city has its place among the codes, and is named by its first row.*)
CitiesJoined ==
    /\ DOMAIN cities = 1 .. Cardinality(JIS)
    /\ \A n \in DOMAIN cities :
          LET c == cities[n]
          IN  /\ c.jis \in JIS /\ CityIndex(c.jis) = n - 1
              /\ c.kanji = FirstIn(c.jis).city
              /\ c.kana = FirstIn(c.jis).cityKana
              /\ c.pref = PrefCode(c.jis)

(* Every row has its record, in the order of the codes. *)
RecordsJoined ==
    /\ RowsKeep
    /\ \E p \in Bijection(DOMAIN ken, DOMAIN ken) :
          /\ StablySorts(p, ken)
          /\ records = [n \in DOMAIN ken |-> RecordOf(ken[p[n]])]

(* The passes that have been over the rows, and what they left.            *)
IInv ==
    /\ \E g \in FileGroups :
          files \in [layout : g.layout, ken : g.ken, rome : g.rome]
    /\ pc \in {"index", "prefectures", "cities", "records"} \/ Built => RowsParsed
    /\ pc \in {"prefectures", "cities", "records"} \/ Built => TownsIndexed
    /\ pc \in {"cities", "records"} \/ Built => PrefecturesJoined
    /\ pc = "records" \/ Built => CitiesJoined
    /\ Built => RecordsJoined
    /\ pc = "verified" => Reproduced

-----------------------------------------------------------------------------
(* The passes one by one. *)

(* The rows of a sequence of rows. *)
LEMMA RowOf ==
    ASSUME RowsParsed
    PROVE  /\ Len(ken) \in Nat /\ DOMAIN ken = 1 .. Len(ken)
           /\ \A i \in DOMAIN ken : ken[i] \in Rows(ken)
           /\ \A r \in Rows(ken) : r \in KenRows /\ r.jis \in Nat
           /\ \A r \in Rows(ken) : \E i \in DOMAIN ken : r = ken[i]
  <1>1. Len(ken) \in Nat /\ DOMAIN ken = 1 .. Len(ken)
        /\ \A i \in DOMAIN ken : ken[i] \in KenRows
    BY DEF RowsParsed
  <1>2. \A i \in DOMAIN ken : ken[i] \in Rows(ken)
    BY DEF Rows
  <1>3. \A r \in Rows(ken) : \E i \in DOMAIN ken : r = ken[i]
    BY DEF Rows
  <1>4. \A r \in Rows(ken) : r \in KenRows
    BY <1>1, <1>3
  <1>5. \A r \in KenRows : r.jis \in Nat
    BY DEF KenRows
  <1> QED
    BY <1>1, <1>2, <1>3, <1>4, <1>5

(* What is left of a column is a column. *)
LEMMA TrimmedColumn ==
    ASSUME NEW c \in Columns
    PROVE  TrimSpace(c) \in Columns
  <1> DEFINE T == Letters \cup Brackets \cup Phrases \cup {"space"}
             a == Min(Inked(c))
             b == Max(Inked(c))
  <1>1. c \in Seq(T) /\ Len(c) \in Nat /\ DOMAIN c = 1 .. Len(c)
    BY DEF Columns
  <1>2. CASE Inked(c) = {}
    BY <1>2 DEF TrimSpace, Columns
  <1>3. CASE Inked(c) # {}
    <2>1. Inked(c) \in SUBSET (0 .. Len(c)) /\ Inked(c) \in SUBSET Nat
      BY <1>1 DEF Inked
    <2>2. a \in Inked(c) /\ b \in Inked(c)
      BY <1>1, <1>3, <2>1, LeastOf, GreatestOf
    <2> HIDE DEF a, b
    <2>3. a \in 1 .. Len(c) /\ b \in 1 .. Len(c)
      BY <1>1, <2>2 DEF Inked
    <2>4. \A i \in a .. b : c[i] \in T
      BY <1>1, <2>3
    <2>5. SubSeq(c, a, b) \in Seq(T)
      <3>1. a \in Int /\ b \in Int
        BY <2>3
      <3> HIDE DEF T
      <3> QED
        BY <2>4, <3>1, SubSeqProperties
    <2> QED
      BY <1>3, <2>5 DEF TrimSpace, Columns, a, b
  <1> QED
    BY <1>2, <1>3

(* Parsing trims the columns of rows that are rows. *)
LEMMA ParseStep == IInv /\ Parse => RowsParsed'
  <1> SUFFICES ASSUME IInv, Parse PROVE RowsParsed'
    OBVIOUS
  <1>1. PICK g \in FileGroups :
            files \in [layout : g.layout, ken : g.ken, rome : g.rome]
    BY DEF IInv
  <1>2. files.ken \in Seq(KenRows) /\ files.rome \in Seq(RomeRows)
    BY <1>1, BuildAssumption
  <1>3. /\ ken' = [i \in DOMAIN files.ken |-> KenRow(files.ken[i])]
        /\ rome' = [i \in DOMAIN files.rome |-> RomeRow(files.rome[i])]
    BY DEF Parse
  <1>4. ASSUME NEW r \in KenRows PROVE KenRow(r) \in KenRows
    <2>1. r.town \in Columns /\ r.townKana \in Columns
      BY DEF KenRows
    <2>2. TrimSpace(r.town) \in Columns /\ TrimSpace(r.townKana) \in Columns
      BY <2>1, TrimmedColumn
    <2> QED
      BY <2>2 DEF KenRow, KenRows
  <1>5. ken' \in Seq(KenRows)
    <2> DEFINE f == files.ken
    <2>1. Len(f) \in Nat /\ DOMAIN f = 1 .. Len(f)
          /\ \A i \in 1 .. Len(f) : f[i] \in KenRows
      BY <1>2
    <2>2. ken' = [i \in 1 .. Len(f) |-> KenRow(f[i])]
      BY <1>3, <2>1
    <2>3. \A i \in 1 .. Len(f) : KenRow(f[i]) \in KenRows
      BY <1>4, <2>1
    <2> HIDE DEF f
    <2> QED
      BY <2>1, <2>2, <2>3, IsASeq
  <1>6. Len(rome') \in Nat /\ DOMAIN rome' = 1 .. Len(rome')
    <2>1. Len(files.rome) \in Nat /\ DOMAIN files.rome = 1 .. Len(files.rome)
      BY <1>2
    <2> QED
      BY <1>3, <2>1
  <1> QED
    BY <1>5, <1>6 DEF RowsParsed

(* Of the rows with a key the index keeps the first, and of the rows of a  *)
(* zip code all.                                                           *)
LEMMA IndexStep ==
    ASSUME RowsParsed, Index
    PROVE  TownsIndexed'
  <1>1. UNCHANGED rome
    BY DEF Index
  <1>0. ASSUME NEW z \in DOMAIN (ix'.byZip), NEW v \in ix'.byZip[z]
        PROVE  \E s \in Rows(rome) :
                  Usable(s) /\ s.zip = z /\ v = Spelling(s).name
    <2>1. /\ DOMAIN (ix'.byZip) = {r.zip : r \in Rows(rome)}
          /\ ix'.byZip[z] =
               {Spelling(r).name : r \in {s \in UsableRows : s.zip = z}}
      BY DEF Index
    <2> QED
      BY <2>1 DEF UsableRows
  <1> SUFFICES ASSUME NEW k \in DOMAIN (ix'.towns)
               PROVE  \E s \in Rows(rome) :
                         Usable(s) /\ RomeKey(s) = k
                         /\ ix'.towns[k] = Spelling(s).name
    BY <1>0, <1>1 DEF TownsIndexed, Rows, Usable, RomeKey, Spelling, Name
  <1> DEFINE S == {j \in DOMAIN rome : Usable(rome[j]) /\ RomeKey(rome[j]) = k}
             i == Min(S)
  <1>2. /\ DOMAIN (ix'.towns) = {RomeKey(r) : r \in UsableRows}
        /\ ix'.towns[k] = Spelling(rome[i]).name
    BY DEF Index
  <1>3. i \in S
    <2>1. S # {} /\ S \in SUBSET Nat
      BY <1>2 DEF UsableRows, Rows, RowsParsed
    <2> HIDE DEF S
    <2> QED
      BY <2>1, LeastOf
  <1> QED
    BY <1>2, <1>3 DEF Rows

(* The row that names a prefecture is one of its rows. *)
LEMMA FirstOfIs ==
    ASSUME RowsParsed, NEW r \in Rows(ken)
    PROVE  /\ FirstOf(PrefCode(r.jis)) \in Rows(ken)
           /\ PrefCode(FirstOf(PrefCode(r.jis)).jis) = PrefCode(r.jis)
  <1> DEFINE p == PrefCode(r.jis)
             S == {i \in DOMAIN ken : PrefCode(ken[i].jis) = p}
             i == Min(S)
  <1>1. i \in S
    <2>1. S # {} /\ S \in SUBSET Nat
      BY RowOf DEF Rows
    <2> HIDE DEF S
    <2> QED
      BY <2>1, LeastOf
  <1> QED
    BY <1>1 DEF FirstOf, Rows

(* The row that names a city is one of its rows. *)
LEMMA FirstInIs ==
    ASSUME RowsParsed, NEW r \in Rows(ken)
    PROVE  FirstIn(r.jis) \in Rows(ken) /\ FirstIn(r.jis).jis = r.jis
  <1> DEFINE S == {i \in DOMAIN ken : ken[i].jis = r.jis}
             i == Min(S)
  <1>1. i \in S
    <2>1. S # {} /\ S \in SUBSET Nat
      BY RowOf DEF Rows
    <2> HIDE DEF S
    <2> QED
      BY <2>1, LeastOf
  <1> QED
    BY <1>1 DEF FirstIn, Rows

(* The codes of the cities are finitely many numbers. *)
LEMMA CityCodesFinite ==
    ASSUME RowsParsed
    PROVE  JIS \in SUBSET Nat /\ IsFiniteSet(JIS) /\ Cardinality(JIS) \in Nat
  <1> DEFINE D == 1 .. Len(ken)
             f == [i \in D |-> ken[i].jis]
  <1>1. JIS \in SUBSET Nat
    BY RowOf DEF JIS
  <1>2. f \in Surjection(D, JIS)
    <2>1. f \in [D -> JIS]
      BY RowOf DEF JIS
    <2>2. \A j \in JIS : \E i \in D : f[i] = j
      BY RowOf DEF JIS
    <2> HIDE DEF f, D
    <2> QED
      BY <2>1, <2>2 DEF Surjection
  <1>3. IsFiniteSet(D)
    BY RowOf, FS_Interval
  <1> HIDE DEF f, D
  <1>4. IsFiniteSet(JIS)
    BY <1>2, <1>3, FS_Surjection
  <1> QED
    BY <1>1, <1>4, FS_CardinalityType

(* The place of a city among the codes is its own. *)
LEMMA CityIndexIs ==
    ASSUME RowsParsed
    PROVE  /\ \A j \in JIS : CityIndex(j) \in 0 .. Cardinality(JIS) - 1
           /\ \A j, k \in JIS : j < k => CityIndex(j) < CityIndex(k)
           /\ \A j, k \in JIS : CityIndex(j) = CityIndex(k) => j = k
           /\ \A n \in 1 .. Cardinality(JIS) : \E j \in JIS : CityIndex(j) = n - 1
  <1>1. JIS \in SUBSET Nat /\ IsFiniteSet(JIS) /\ Cardinality(JIS) \in Nat
    BY CityCodesFinite
  <1>2. \A j \in JIS : CityIndex(j) \in 0 .. Cardinality(JIS) - 1
    BY <1>1, RankBound DEF CityIndex
  <1>3. \A j, k \in JIS : j < k => CityIndex(j) < CityIndex(k)
    BY <1>1, RankMonotone DEF CityIndex
  <1>4. ASSUME NEW j \in JIS, NEW k \in JIS, CityIndex(j) = CityIndex(k)
        PROVE  j = k
    <2>1. CityIndex(j) \in Nat /\ CityIndex(k) \in Nat /\ j \in Nat /\ k \in Nat
      BY <1>1, <1>2
    <2> QED
      BY <1>3, <1>4, <2>1
  <1>5. ASSUME NEW n \in 1 .. Cardinality(JIS)
        PROVE  \E j \in JIS : CityIndex(j) = n - 1
    <2>1. n - 1 \in 0 .. Cardinality(JIS) - 1
      BY <1>1
    <2> QED
      BY <1>1, <2>1, RankOnto DEF CityIndex
  <1> QED
    BY <1>2, <1>3, <1>4, <1>5

(* The prefectures found are those of the rows. *)
LEMMA PrefecturesStep ==
    ASSUME RowsParsed, JoinPrefectures
    PROVE  PrefecturesJoined'
  <1>1. UNCHANGED ken
    BY DEF JoinPrefectures
  <1>2. PrefecturesKnown
    BY DEF JoinPrefectures
  <1>3. prefectures' = [p \in Prefectures |->
                          [kanji |-> FirstOf(p).pref,
                           kana |-> FirstOf(p).prefKana,
                           romaji |-> ix.prefectures[FirstOf(p).pref]]]
    BY DEF JoinPrefectures
  <1>4. \A p \in Prefectures :
           /\ prefectures'[p].kanji = FirstOf(p).pref
           /\ prefectures'[p].kana = FirstOf(p).prefKana
           /\ prefectures'[p].romaji # NoSpelling
    BY <1>2, <1>3 DEF PrefecturesKnown
  <1>5. \A r \in Rows(ken) : PrefCode(r.jis) \in Prefectures
    BY <1>2 DEF PrefecturesKnown
  <1>6. DOMAIN prefectures' = Prefectures
    BY <1>3
  <1>7. Rows(ken)' = Rows(ken) /\ \A p : FirstOf(p)' = FirstOf(p)
    BY <1>1 DEF Rows, FirstOf
  <1> QED
    BY <1>4, <1>5, <1>6, <1>7 DEF PrefecturesJoined

(* The cities stand in the order of their codes. *)
LEMMA CitiesStep ==
    ASSUME RowsParsed, JoinCities
    PROVE  CitiesJoined'
  <1>1. UNCHANGED ken
    BY DEF JoinCities
  <1>2. JIS' = JIS /\ \A j : CityIndex(j)' = CityIndex(j) /\ FirstIn(j)' = FirstIn(j)
    BY <1>1 DEF JIS, CityIndex, FirstIn, Rows
  <1> DEFINE at(n) == CHOOSE j \in JIS : Cardinality({k \in JIS : k < j}) = n - 1
  <1>3. ASSUME NEW n \in 1 .. Cardinality(JIS)
        PROVE  at(n) \in JIS /\ CityIndex(at(n)) = n - 1
    <2>1. \E j \in JIS : Cardinality({k \in JIS : k < j}) = n - 1
      BY CityIndexIs DEF CityIndex
    <2> QED
      BY <2>1 DEF CityIndex
  <1>4. /\ DOMAIN cities' = 1 .. Cardinality(JIS)
        /\ \A n \in 1 .. Cardinality(JIS) :
              /\ cities'[n].jis = at(n)
              /\ cities'[n].kanji = FirstIn(at(n)).city
              /\ cities'[n].kana = FirstIn(at(n)).cityKana
              /\ cities'[n].pref = PrefCode(at(n))
    BY DEF JoinCities
  <1> HIDE DEF at
  <1> QED
    BY <1>2, <1>3, <1>4 DEF CitiesJoined

-----------------------------------------------------------------------------
(* What the passes after a pass leave alone. *)

LEMMA SameRows == RowsParsed /\ UNCHANGED <<ken, rome>> => RowsParsed'
  BY DEF RowsParsed

LEMMA SameTowns == TownsIndexed /\ UNCHANGED <<rome, ix>> => TownsIndexed'
  BY DEF TownsIndexed, Rows, Usable, RomeKey, Spelling, Name

LEMMA SamePrefectures ==
    PrefecturesJoined /\ UNCHANGED <<ken, prefectures>> => PrefecturesJoined'
  BY DEF PrefecturesJoined, FirstOf, Rows

LEMMA SameCities == CitiesJoined /\ UNCHANGED <<ken, cities>> => CitiesJoined'
  <1> SUFFICES ASSUME CitiesJoined, UNCHANGED <<ken, cities>>
               PROVE  CitiesJoined'
    OBVIOUS
  <1>1. JIS' = JIS /\ \A j : CityIndex(j)' = CityIndex(j) /\ FirstIn(j)' = FirstIn(j)
    BY DEF JIS, CityIndex, FirstIn, Rows
  <1> QED
    BY <1>1 DEF CitiesJoined

(* The record of a row depends on the rows and the index. *)
LEMMA SameRecord ==
    ASSUME UNCHANGED <<ken, ix>>, NEW r
    PROVE  RecordOf(r)' = RecordOf(r)
  <1>1. KenTowns(r.zip)' = KenTowns(r.zip)
    BY DEF KenTowns, Rows, Cleaned
  <1>2. ByZip(r)' = ByZip(r)
    BY <1>1 DEF ByZip
  <1>3. KenKey(r)' = KenKey(r)
    BY DEF KenKey, Cleaned
  <1>4. Exact(r)' = Exact(r)
    BY <1>3 DEF Exact
  <1>5. TownRomaji(r)' = TownRomaji(r)
    BY <1>2, <1>3, <1>4 DEF TownRomaji, Cleaned
  <1>6. CityIndex(r.jis)' = CityIndex(r.jis)
    BY DEF CityIndex, JIS, Rows
  <1> QED
    BY <1>2, <1>4, <1>5, <1>6 DEF RecordOf, Cleaned

LEMMA SameRowsKeep == UNCHANGED ken => (RowsKeep' <=> RowsKeep)
  BY DEF RowsKeep, Rows, Cleaned

LEMMA SameRecords ==
    RecordsJoined /\ UNCHANGED <<ken, ix, records>> => RecordsJoined'
  <1> SUFFICES ASSUME RecordsJoined, UNCHANGED <<ken, ix, records>>
               PROVE  RecordsJoined'
    OBVIOUS
  <1>1. \A p : StablySorts(p, ken)' = StablySorts(p, ken)
    BY DEF StablySorts
  <1>2. \A r : RecordOf(r)' = RecordOf(r)
    BY SameRecord
  <1> QED
    BY <1>1, <1>2, SameRowsKeep DEF RecordsJoined

LEMMA RecordsStep ==
    ASSUME JoinRecords
    PROVE  RecordsJoined'
  <1>1. RowsKeep /\ UNCHANGED <<ken, ix>>
    BY DEF JoinRecords
  <1>2. PICK p \in Bijection(DOMAIN ken, DOMAIN ken) :
           /\ StablySorts(p, ken)
           /\ records' = [n \in DOMAIN ken |-> RecordOf(ken[p[n]])]
    BY DEF JoinRecords
  <1>3. \A r : RecordOf(r)' = RecordOf(r)
    BY <1>1, SameRecord
  <1>4. StablySorts(p, ken)' = StablySorts(p, ken)
    BY <1>1 DEF StablySorts
  <1>5. RowsKeep'
    BY <1>1, SameRowsKeep
  <1> QED
    BY <1>1, <1>2, <1>3, <1>4, <1>5 DEF RecordsJoined

LEMMA SameReproduced ==
    UNCHANGED <<ken, prefectures, cities, records>> => (Reproduced' <=> Reproduced)
  BY DEF Reproduced, ReadBack, CityOf, Rows

-----------------------------------------------------------------------------
LEMMA InitIInv == Init => IInv
  BY DEF Init, IInv, Built

LEMMA NextIInv == IInv /\ [Next]_vars => IInv'
  <1> SUFFICES ASSUME IInv, [Next]_vars PROVE IInv'
    OBVIOUS
  <1> USE DEF Built
  <1>1. CASE Parse
    <2>1. RowsParsed'
      BY <1>1, ParseStep
    <2> QED
      BY <1>1, <2>1 DEF Parse, IInv
  <1>2. CASE Index
    <2>1. RowsParsed /\ RowsParsed' /\ TownsIndexed'
      BY <1>2, IndexStep, SameRows DEF IInv, Index
    <2> QED
      BY <1>2, <2>1 DEF Index, IInv
  <1>3. CASE JoinPrefectures
    <2>1. RowsParsed' /\ TownsIndexed' /\ PrefecturesJoined'
      BY <1>3, PrefecturesStep, SameRows, SameTowns DEF IInv, JoinPrefectures
    <2> QED
      BY <1>3, <2>1 DEF JoinPrefectures, IInv
  <1>4. CASE JoinCities
    <2>1. RowsParsed' /\ TownsIndexed' /\ PrefecturesJoined' /\ CitiesJoined'
      BY <1>4, CitiesStep, SameRows, SameTowns, SamePrefectures
         DEF IInv, JoinCities
    <2> QED
      BY <1>4, <2>1 DEF JoinCities, IInv
  <1>5. CASE JoinRecords
    <2>1. RowsParsed' /\ TownsIndexed' /\ PrefecturesJoined' /\ CitiesJoined'
          /\ RecordsJoined'
      BY <1>5, RecordsStep, SameRows, SameTowns, SamePrefectures, SameCities
         DEF IInv, JoinRecords
    <2> QED
      BY <1>5, <2>1 DEF JoinRecords, IInv
  <1>6. CASE Verify
    <2>1. RowsParsed' /\ TownsIndexed' /\ PrefecturesJoined' /\ CitiesJoined'
          /\ RecordsJoined' /\ Reproduced'
      BY <1>6, SameRows, SameTowns, SamePrefectures, SameCities, SameRecords,
         SameReproduced DEF IInv, Verify
    <2> QED
      BY <1>6, <2>1 DEF Verify, IInv
  <1>7. CASE Fail
    BY <1>7 DEF Fail, IInv
  <1>8. CASE UNCHANGED vars
    <2>1. /\ UNCHANGED <<ken, rome, ix, prefectures, cities, records>>
          /\ pc' = pc /\ files' = files
      BY <1>8 DEF vars
    <2>2. /\ RowsParsed => RowsParsed'
          /\ TownsIndexed => TownsIndexed'
          /\ PrefecturesJoined => PrefecturesJoined'
          /\ CitiesJoined => CitiesJoined'
          /\ RecordsJoined => RecordsJoined'
          /\ Reproduced => Reproduced'
      BY <2>1, SameRows, SameTowns, SamePrefectures, SameCities, SameRecords,
         SameReproduced
    <2> QED
      BY <2>1, <2>2 DEF IInv
  <1> QED
    BY <1>1, <1>2, <1>3, <1>4, <1>5, <1>6, <1>7, <1>8
       DEF Next, ParseFails, IndexFails, PrefecturesFail, RecordsFail,
           VerifyFails, Halt

-----------------------------------------------------------------------------
(* What is built can be encoded. *)

(* A record is that of a row, and every row has one. *)
LEMMA RecordsAreRows ==
    ASSUME RowsParsed, RecordsJoined
    PROVE  /\ DOMAIN records = DOMAIN ken
           /\ \A r \in Rows(records) : \E row \in Rows(ken) : r = RecordOf(row)
           /\ \A row \in Rows(ken) : RecordOf(row) \in Rows(records)
  <1>1. PICK p \in Bijection(DOMAIN ken, DOMAIN ken) :
            records = [n \in DOMAIN ken |-> RecordOf(ken[p[n]])]
    BY DEF RecordsJoined
  <1>2. p \in [DOMAIN ken -> DOMAIN ken]
        /\ \A i \in DOMAIN ken : \E n \in DOMAIN ken : p[n] = i
    BY DEF Bijection, Surjection
  <1>3. DOMAIN records = DOMAIN ken
        /\ \A n \in DOMAIN ken : records[n] = RecordOf(ken[p[n]])
    BY <1>1
  <1>4. \A r \in Rows(records) : \E row \in Rows(ken) : r = RecordOf(row)
    BY <1>2, <1>3 DEF Rows
  <1>5. ASSUME NEW row \in Rows(ken) PROVE RecordOf(row) \in Rows(records)
    <2>1. PICK i \in DOMAIN ken : row = ken[i]
      BY DEF Rows
    <2>2. PICK n \in DOMAIN ken : p[n] = i
      BY <1>2
    <2>3. records[n] = RecordOf(row) /\ n \in DOMAIN records
      BY <1>3, <2>1, <2>2
    <2> QED
      BY <2>3 DEF Rows
  <1> QED
    BY <1>3, <1>4, <1>5

(* The city a record points to is that of its row. *)
LEMMA CityOfRow ==
    ASSUME RowsParsed, CitiesJoined, NEW row \in Rows(ken)
    PROVE  LET r == RecordOf(row)
           IN  /\ r.city + 1 \in DOMAIN cities
               /\ CityOf(r).jis = row.jis
               /\ CityOf(r).kanji = FirstIn(row.jis).city
               /\ CityOf(r).kana = FirstIn(row.jis).cityKana
               /\ CityOf(r).pref = PrefCode(row.jis)
  <1> DEFINE r == RecordOf(row)
             n == r.city + 1
  <1>1. row.jis \in JIS
    BY DEF JIS
  <1>2. r.city = CityIndex(row.jis)
    BY DEF RecordOf
  <1>3. Cardinality(JIS) \in Nat
    BY CityCodesFinite
  <1>4. CityIndex(row.jis) \in 0 .. Cardinality(JIS) - 1
    BY <1>1, CityIndexIs
  <1>5. n \in 1 .. Cardinality(JIS) /\ n - 1 = CityIndex(row.jis)
    BY <1>2, <1>3, <1>4
  <1>6. n \in DOMAIN cities /\ CityOf(r) = cities[n]
    BY <1>5 DEF CitiesJoined, CityOf
  <1> HIDE DEF n, r
  <1>7. cities[n].jis \in JIS /\ CityIndex(cities[n].jis) = CityIndex(row.jis)
    BY <1>5, <1>6 DEF CitiesJoined
  <1>8. cities[n].jis = row.jis
    BY <1>1, <1>7, CityIndexIs
  <1>9. /\ cities[n].kanji = FirstIn(row.jis).city
        /\ cities[n].kana = FirstIn(row.jis).cityKana
        /\ cities[n].pref = PrefCode(row.jis)
    BY <1>6, <1>8 DEF CitiesJoined
  <1> QED
    BY <1>6, <1>8, <1>9 DEF n, r

LEMMA IInvEncodable == IInv => BuiltIsEncodable
  <1> SUFFICES ASSUME IInv, Built PROVE
        /\ \A i, j \in DOMAIN records : i < j => records[i].zip <= records[j].zip
        /\ \A r \in Rows(records) : r.city + 1 \in DOMAIN cities
        /\ \A i, j \in DOMAIN cities : i < j => cities[i].jis < cities[j].jis
        /\ \A c \in Rows(cities) : c.pref \in DOMAIN prefectures
        /\ \A p \in Rows(prefectures) : p.romaji # NoSpelling
    BY DEF BuiltIsEncodable
  <1>0. RowsParsed /\ PrefecturesJoined /\ CitiesJoined /\ RecordsJoined
    BY DEF IInv
  <1>1. ASSUME NEW i \in DOMAIN records, NEW j \in DOMAIN records, i < j
        PROVE  records[i].zip <= records[j].zip
    <2>1. PICK p \in Bijection(DOMAIN ken, DOMAIN ken) :
             /\ StablySorts(p, ken)
             /\ records = [n \in DOMAIN ken |-> RecordOf(ken[p[n]])]
      BY <1>0 DEF RecordsJoined
    <2>2. p \in [DOMAIN ken -> DOMAIN ken] /\ DOMAIN records = DOMAIN ken
      BY <2>1 DEF Bijection, Surjection
    <2>3. records[i].zip = ken[p[i]].zip /\ records[j].zip = ken[p[j]].zip
      BY <2>1, <2>2 DEF RecordOf
    <2>4. ken[p[i]].zip < ken[p[j]].zip \/ ken[p[i]].zip = ken[p[j]].zip
      BY <1>1, <2>1, <2>2 DEF StablySorts
    <2>5. \A n \in DOMAIN ken : ken[n].zip \in Nat
      <3>1. \A r \in Rows(ken) : r.zip \in Nat
        BY <1>0, RowOf DEF RecordsJoined, RowsKeep, KenRows
      <3> QED
        BY <1>0, <3>1, RowOf
    <2>6. ken[p[i]].zip \in Nat /\ ken[p[j]].zip \in Nat
      BY <2>2, <2>5
    <2> QED
      BY <2>3, <2>4, <2>6
  <1>2. \A r \in Rows(records) : r.city + 1 \in DOMAIN cities
    BY <1>0, RecordsAreRows, CityOfRow
  <1>3. ASSUME NEW i \in DOMAIN cities, NEW j \in DOMAIN cities, i < j
        PROVE  cities[i].jis < cities[j].jis
    <2>1. /\ cities[i].jis \in JIS /\ CityIndex(cities[i].jis) = i - 1
          /\ cities[j].jis \in JIS /\ CityIndex(cities[j].jis) = j - 1
      BY <1>0 DEF CitiesJoined
    <2>2. cities[i].jis \in Nat /\ cities[j].jis \in Nat
      BY <1>0, <2>1, CityCodesFinite
    <2>3. i \in Nat /\ j \in Nat
      BY <1>0 DEF CitiesJoined
    <2>4. ~(cities[j].jis < cities[i].jis) /\ cities[i].jis # cities[j].jis
      <3>1. cities[j].jis < cities[i].jis =>
               CityIndex(cities[j].jis) < CityIndex(cities[i].jis)
        BY <1>0, <2>1, CityIndexIs
      <3>2. ~(j - 1 < i - 1) /\ i - 1 # j - 1
        BY <1>3, <2>3
      <3> QED
        BY <2>1, <3>1, <3>2
    <2> QED
      BY <2>2, <2>4
  <1>4. ASSUME NEW c \in Rows(cities) PROVE c.pref \in DOMAIN prefectures
    <2>1. c.jis \in JIS /\ c.pref = PrefCode(c.jis)
      BY <1>0 DEF Rows, CitiesJoined
    <2>2. PICK r \in Rows(ken) : c.jis = r.jis
      BY <2>1 DEF JIS
    <2> QED
      BY <1>0, <2>1, <2>2 DEF PrefecturesJoined
  <1>5. \A p \in Rows(prefectures) : p.romaji # NoSpelling
    BY <1>0 DEF Rows, PrefecturesJoined
  <1> QED
    BY <1>1, <1>2, <1>3, <1>4, <1>5

-----------------------------------------------------------------------------
(* The comparison with the source. *)

(* A row reads back as itself, but for the names, which are those of the   *)
(* first row of its city and of its prefecture.                            *)
AsNamed(row) ==
    [jis |-> row.jis, zip |-> row.zip,
     prefKana |-> FirstOf(PrefCode(row.jis)).prefKana,
     cityKana |-> FirstIn(row.jis).cityKana,
     townKana |-> row.townKana, pref |-> FirstOf(PrefCode(row.jis)).pref,
     city |-> FirstIn(row.jis).city, town |-> row.town]

LEMMA ReadBackIs ==
    ASSUME RowsParsed, PrefecturesJoined, CitiesJoined, RecordsJoined,
           NEW row \in Rows(ken)
    PROVE  ReadBack(RecordOf(row)) = AsNamed(row)
  <1> DEFINE r == RecordOf(row)
             p == PrefCode(row.jis)
  <1>1. r.zip = row.zip /\ Rejoin(r.town) = <<row.town, row.townKana>>
    BY DEF RecordOf, RecordsJoined, RowsKeep
  <1>2. /\ CityOf(r).jis = row.jis
        /\ CityOf(r).kanji = FirstIn(row.jis).city
        /\ CityOf(r).kana = FirstIn(row.jis).cityKana
        /\ CityOf(r).pref = p
    BY CityOfRow
  <1>3. /\ prefectures[p].kanji = FirstOf(p).pref
        /\ prefectures[p].kana = FirstOf(p).prefKana
    BY DEF PrefecturesJoined
  <1> HIDE DEF r
  <1>4. ReadBack(r) =
          [jis |-> row.jis, zip |-> row.zip,
           prefKana |-> FirstOf(p).prefKana, cityKana |-> FirstIn(row.jis).cityKana,
           townKana |-> row.townKana, pref |-> FirstOf(p).pref,
           city |-> FirstIn(row.jis).city, town |-> row.town]
    <2>1. Rejoin(r.town)[1] = row.town /\ Rejoin(r.town)[2] = row.townKana
      BY <1>1
    <2> HIDE DEF p
    <2> QED
      BY <1>1, <1>2, <1>3, <2>1 DEF ReadBack
  <1> QED
    BY <1>4 DEF AsNamed, r

(* Rows that name their city and prefecture in one way name them as the    *)
(* first does.                                                             *)
LEMMA ConsistentIs ==
    ASSUME RowsParsed
    PROVE  Consistent <=> \A row \in Rows(ken) : AsNamed(row) = row
  <1>1. ASSUME Consistent, NEW row \in Rows(ken)
        PROVE  AsNamed(row) = row
    <2>1. /\ row \in KenRows
          /\ FirstIn(row.jis) \in Rows(ken) /\ FirstIn(row.jis).jis = row.jis
          /\ FirstOf(PrefCode(row.jis)) \in Rows(ken)
          /\ PrefCode(FirstOf(PrefCode(row.jis)).jis) = PrefCode(row.jis)
      BY RowOf, FirstInIs, FirstOfIs
    <2>2. /\ FirstIn(row.jis).city = row.city
          /\ FirstIn(row.jis).cityKana = row.cityKana
      BY <1>1, <2>1 DEF Consistent
    <2>3. /\ FirstOf(PrefCode(row.jis)).pref = row.pref
          /\ FirstOf(PrefCode(row.jis)).prefKana = row.prefKana
      BY <1>1, <2>1 DEF Consistent
    <2> QED
      BY <2>1, <2>2, <2>3 DEF AsNamed, KenRows
  <1>2. ASSUME \A row \in Rows(ken) : AsNamed(row) = row
        PROVE  Consistent
    <2>1. ASSUME NEW r \in Rows(ken)
          PROVE  /\ r.city = FirstIn(r.jis).city
                 /\ r.cityKana = FirstIn(r.jis).cityKana
                 /\ r.pref = FirstOf(PrefCode(r.jis)).pref
                 /\ r.prefKana = FirstOf(PrefCode(r.jis)).prefKana
      <3>1. AsNamed(r) = r /\ r \in KenRows
        BY <1>2, RowOf
      <3>2. /\ AsNamed(r).city = FirstIn(r.jis).city
            /\ AsNamed(r).cityKana = FirstIn(r.jis).cityKana
            /\ AsNamed(r).pref = FirstOf(PrefCode(r.jis)).pref
            /\ AsNamed(r).prefKana = FirstOf(PrefCode(r.jis)).prefKana
        BY <3>1 DEF AsNamed, KenRows
      <3> QED
        BY <3>1, <3>2
    <2> QED
      BY <2>1 DEF Consistent
  <1> QED
    BY <1>1, <1>2

(* A row stands as often among the sorted rows as among the rows.          *)
LEMMA AsManyCopies ==
    ASSUME RowsParsed, NEW p \in Bijection(DOMAIN ken, DOMAIN ken), NEW row
    PROVE  Cardinality({n \in DOMAIN ken : ken[p[n]] = row}) =
           Cardinality({i \in DOMAIN ken : ken[i] = row})
  <1> DEFINE D == DOMAIN ken
             A == {n \in D : ken[p[n]] = row}
             B == {i \in D : ken[i] = row}
             f == [n \in A |-> p[n]]
  <1>1. /\ p \in [D -> D]
        /\ \A m, n \in D : m # n => p[m] # p[n]
        /\ \A i \in D : \E n \in D : p[n] = i
    BY DEF Bijection, Injection, IsInjective, Surjection
  <1>2. IsFiniteSet(A) /\ IsFiniteSet(B)
    <2>1. IsFiniteSet(D)
      <3>1. Len(ken) \in Nat /\ D = 1 .. Len(ken)
        BY RowOf
      <3> QED
        BY <3>1, FS_Interval
    <2>2. A \subseteq D /\ B \subseteq D
      OBVIOUS
    <2> HIDE DEF A, B
    <2> QED
      BY <2>1, <2>2, FS_Subset
  <1>3. f \in Bijection(A, B)
    <2>1. f \in [A -> B]
      BY <1>1
    <2>2. \A m, n \in A : f[m] = f[n] => m = n
      BY <1>1
    <2>3. \A i \in B : \E n \in A : f[n] = i
      BY <1>1
    <2> HIDE DEF A, B, f
    <2> QED
      BY <2>1, <2>2, <2>3 DEF Bijection, Injection, IsInjective, Surjection
  <1> HIDE DEF A, B, f
  <1>4. Cardinality(A) = Cardinality(B)
    BY <1>2, <1>3, FS_Bijection DEF ExistsBijection
  <1> QED
    BY <1>4 DEF A, B, D

(* The comparison passes exactly when the rows agree on their names.       *)
LEMMA ReproducedIs ==
    ASSUME RowsParsed, PrefecturesJoined, CitiesJoined, RecordsJoined
    PROVE  Reproduced <=> Consistent
  <1> DEFINE rebuilt == [i \in DOMAIN records |-> ReadBack(records[i])]
             copies(f, row) == Cardinality({i \in DOMAIN f : f[i] = row})
  <1>1. PICK p \in Bijection(DOMAIN ken, DOMAIN ken) :
            records = [n \in DOMAIN ken |-> RecordOf(ken[p[n]])]
    BY DEF RecordsJoined
  <1>2. \A n \in DOMAIN ken : p[n] \in DOMAIN ken
    BY DEF Bijection, Injection
  <1>3. DOMAIN records = DOMAIN ken
    BY <1>1
  <1>4. \A n \in DOMAIN ken : rebuilt[n] = AsNamed(ken[p[n]])
    <2> SUFFICES ASSUME NEW n \in DOMAIN ken
                 PROVE  rebuilt[n] = AsNamed(ken[p[n]])
      OBVIOUS
    <2>1. rebuilt[n] = ReadBack(records[n]) /\ records[n] = RecordOf(ken[p[n]])
      BY <1>1, <1>3
    <2>2. ken[p[n]] \in Rows(ken)
      BY <1>2, RowOf
    <2> HIDE DEF rebuilt
    <2> QED
      BY <2>1, <2>2, ReadBackIs
  <1>5. DOMAIN rebuilt = DOMAIN ken
    BY <1>3
  <1>6. Reproduced <=>
          \A row \in Rows(rebuilt) \cup Rows(ken) :
             copies(rebuilt, row) = copies(ken, row)
    BY DEF Reproduced
  <1> HIDE DEF rebuilt
  <1>7. ASSUME Consistent PROVE Reproduced
    <2>1. \A n \in DOMAIN ken : rebuilt[n] = ken[p[n]]
      BY <1>2, <1>4, <1>7, ConsistentIs, RowOf
    <2>2. ASSUME NEW row PROVE copies(rebuilt, row) = copies(ken, row)
      <3>1. {n \in DOMAIN rebuilt : rebuilt[n] = row} =
            {n \in DOMAIN ken : ken[p[n]] = row}
        BY <1>5, <2>1
      <3> QED
        BY <3>1, AsManyCopies
    <2> QED
      BY <1>6, <2>2
  <1>8. ASSUME Reproduced PROVE Consistent
    <2> SUFFICES ASSUME NEW row \in Rows(ken) PROVE AsNamed(row) = row
      BY ConsistentIs
    <2> DEFINE A == {n \in DOMAIN rebuilt : rebuilt[n] = row}
               B == {i \in DOMAIN ken : ken[i] = row}
    <2>1. Cardinality(A) = Cardinality(B)
      BY <1>6, <1>8
    <2>2. B # {}
      BY RowOf
    <2>3. IsFiniteSet(A) /\ IsFiniteSet(B)
      <3>1. IsFiniteSet(DOMAIN ken)
        <4>1. Len(ken) \in Nat /\ DOMAIN ken = 1 .. Len(ken)
          BY RowOf
        <4> QED
          BY <4>1, FS_Interval
      <3>2. A \subseteq DOMAIN ken /\ B \subseteq DOMAIN ken
        BY <1>5
      <3> HIDE DEF A, B
      <3> QED
        BY <3>1, <3>2, FS_Subset
    <2>4. A # {}
      <3> HIDE DEF A, B
      <3> QED
        BY <2>1, <2>2, <2>3, FS_EmptySet
    <2>5. PICK n \in DOMAIN ken : rebuilt[n] = row
      BY <1>5, <2>4
    <2> DEFINE other == ken[p[n]]
    <2>6. row = AsNamed(other)
      BY <1>4, <2>5
    <2> HIDE DEF other
    <2>7. row.jis = other.jis
      BY <2>6 DEF AsNamed
    <2> QED
      BY <2>6, <2>7 DEF AsNamed
  <1> QED
    BY <1>7, <1>8

(* What the package shows of a record's town is what build put together.   *)
LEMMA RawTownIs ==
    ASSUME NEW r PROVE RawTown(r) = Rejoin(r.town)
  BY DEF RawTown, Rejoin

LEMMA IInvVerified == IInv => VerifiedIffConsistent
  <1> SUFFICES ASSUME IInv, Built PROVE VerifiedIffConsistent
    BY DEF VerifiedIffConsistent, Built
  <1>1. RowsParsed /\ PrefecturesJoined /\ CitiesJoined /\ RecordsJoined
    BY DEF IInv
  <1>2. Reproduced <=> Consistent
    BY <1>1, ReproducedIs
  <1>3. ASSUME NEW r \in Rows(records)
        PROVE  \E row \in Rows(ken) : RawTown(r) = <<row.town, row.townKana>>
    <2>1. PICK row \in Rows(ken) : r = RecordOf(row)
      BY <1>1, RecordsAreRows
    <2>2. r.town = Cleaned(row)
      BY <2>1 DEF RecordOf
    <2>3. Rejoin(Cleaned(row)) = <<row.town, row.townKana>>
      BY <1>1 DEF RecordsJoined, RowsKeep
    <2> QED
      BY <2>2, <2>3, RawTownIs
  <1> QED
    BY <1>2, <1>3 DEF VerifiedIffConsistent

-----------------------------------------------------------------------------
(* No town is given the spelling of another. *)

LEMMA TownsOfZip ==
    ASSUME RowsParsed, RecordsJoined, NEW zip
    PROVE  {s.town.kanji : s \in {t \in Rows(records) : t.zip = zip}} \ {<<>>} =
           KenTowns(zip)
  <1> DEFINE built == {s.town.kanji : s \in {t \in Rows(records) : t.zip = zip}}
             kept == {Cleaned(r).kanji : r \in {s \in Rows(ken) : s.zip = zip}}
  <1>1. \A row : RecordOf(row).town = Cleaned(row) /\ RecordOf(row).zip = row.zip
    BY DEF RecordOf
  <1>2. built \subseteq kept
    BY <1>1, RecordsAreRows
  <1>3. kept \subseteq built
    BY <1>1, RecordsAreRows
  <1> QED
    BY <1>2, <1>3 DEF KenTowns

(* What the code takes for whole is not a fragment. *)
LEMMA UsableIsWhole ==
    ASSUME NEW s, Usable(s)
    PROVE  ~Fragment(s.town, KanjiWidth) /\ ~Fragment(s.romaji, RomajiWidth)
  <1>1. ASSUME NEW c, NEW width \in Nat, RomeName(c, width).whole
        PROVE  ~Fragment(c, width)
    <2>1. Holds(c, "open") \/ Len(c) < width
      BY <1>1 DEF RomeName
    <2> QED
      BY <2>1 DEF Holds, Fragment
  <1> QED
    BY <1>1, BuildAssumption DEF Usable, Name, Spelling

LEMMA IInvNeverSwapped == IInv => NeverSwapped
  <1> DEFINE split(r) ==
                 Cardinality({t.town.kanji : t \in
                    {u \in Rows(records) : u.zip = r.zip}} \ {<<>>}) > 1
  <1> SUFFICES ASSUME IInv, pc = "verified",
                      NEW r \in Rows(records),
                      r.romaji # NoSpelling, ~r.estimated
               PROVE  \E s \in Rows(rome) :
                         /\ s.zip = r.zip
                         /\ r.romaji = Pretty(Official(Spelling(s).name))
                         /\ ~Fragment(s.town, KanjiWidth)
                         /\ ~Fragment(s.romaji, RomajiWidth)
                         /\ split(r) => /\ s.city = CityOf(r).kanji
                                        /\ Name(s).name = r.town.kanji
    BY DEF NeverSwapped
  <1>1. /\ RowsParsed /\ TownsIndexed /\ PrefecturesJoined /\ CitiesJoined
        /\ RecordsJoined /\ Reproduced
    BY DEF IInv, Built
  <1>2. PICK row \in Rows(ken) : r = RecordOf(row)
    BY <1>1, RecordsAreRows
  <1>3. /\ r.zip = row.zip /\ r.town = Cleaned(row)
        /\ Cleaned(row).kanji # <<>> => r.romaji = Pretty(TownRomaji(row))
        /\ Cleaned(row).kanji = <<>> => r.romaji = NoSpelling
        /\ r.estimated <=> Cleaned(row).kanji # <<>> /\ ~Exact(row) /\ ~ByZip(row)
    BY <1>2 DEF RecordOf
  <1>4. CASE Exact(row)
    <2>1. PICK s \in Rows(rome) :
              Usable(s) /\ RomeKey(s) = KenKey(row)
              /\ ix.towns[KenKey(row)] = Spelling(s).name
      BY <1>1, <1>4 DEF Exact, TownsIndexed
    <2>2. r.romaji = Pretty(Official(Spelling(s).name))
      BY <1>3, <1>4, <2>1 DEF TownRomaji
    <2>3. s.zip = row.zip /\ s.city = row.city /\ Name(s).name = Cleaned(row).kanji
      BY <2>1 DEF RomeKey, KenKey
    <2>4. CityOf(r).kanji = row.city
      <3>1. CityOf(r).kanji = FirstIn(row.jis).city
        BY <1>1, <1>2, CityOfRow
      <3>2. FirstIn(row.jis) \in Rows(ken) /\ FirstIn(row.jis).jis = row.jis
        BY <1>1, FirstInIs
      <3>3. Consistent
        BY <1>1, ReproducedIs
      <3> QED
        BY <3>1, <3>2, <3>3 DEF Consistent
    <2> HIDE DEF split
    <2> QED
      BY <1>3, <2>1, <2>2, <2>3, <2>4, UsableIsWhole
  <1>5. CASE ~Exact(row)
    <2>1. ByZip(row)
      BY <1>3, <1>5
    <2>2. ~split(r)
      <3>1. ~(Cardinality(KenTowns(row.zip)) > 1)
        BY <2>1 DEF ByZip
      <3> QED
        BY <1>1, <1>3, <3>1, TownsOfZip
    <2>3. row.zip \in DOMAIN ix.byZip /\ ix.byZip[row.zip] # {}
      BY <2>1, FS_EmptySet DEF ByZip
    <2> DEFINE v == CHOOSE w \in ix.byZip[row.zip] : TRUE
    <2>4. v \in ix.byZip[row.zip]
      BY <2>3
    <2>5. r.romaji = Pretty(Official(v))
      BY <1>3, <1>5, <2>1 DEF TownRomaji
    <2> HIDE DEF v
    <2>6. PICK s \in Rows(rome) :
              Usable(s) /\ s.zip = row.zip /\ v = Spelling(s).name
      BY <1>1, <2>3, <2>4 DEF TownsIndexed
    <2> HIDE DEF split
    <2> QED
      BY <1>3, <2>2, <2>5, <2>6, UsableIsWhole
  <1> QED
    BY <1>4, <1>5

-----------------------------------------------------------------------------
(* Which town columns cleaning can undo, for columns of any length: build  *)
(* refuses the others, so that no text of the source is lost.              *)

Token == Letters \cup Brackets \cup Phrases \cup {"space"}

(* Prose, a name, a name with an annotation: but not an annotation without *)
(* a name, nor an empty one, nor a reading without a name.                 *)
Reversible(kanji, kana) ==
    \/ Placeholder(kanji)
    \/ ~HasNote(kanji) /\ (kanji # <<>> \/ kana = <<>>)
    \/ /\ HasNote(kanji)
       /\ NameIn(kanji) # <<>> /\ NoteIn(kanji) # <<>>
       /\ HasNote(kana) => NoteIn(kana) # <<>>

(* A bracket an annotation may begin at is where the first one begins.     *)
LEMMA StartIsFirst ==
    ASSUME NEW c \in Columns, Opens(c) # {}
    PROVE  /\ NoteStart(c) \in Opens(c)
           /\ \A j \in Opens(c) : NoteStart(c) <= j
  <1>1. Len(c) \in Nat
    BY DEF Columns
  <1>2. Opens(c) \in SUBSET Nat
    BY <1>1 DEF Opens
  <1>3. Min(Opens(c)) \in Opens(c) /\ \A j \in Opens(c) : Min(Opens(c)) <= j
    BY <1>2, LeastOf
  <1> QED
    BY <1>3 DEF NoteStart

(* A column with an annotation is its name and its annotation.             *)
LEMMA Split ==
    ASSUME NEW c \in Columns, HasNote(c)
    PROVE  /\ NameIn(c) \in Columns /\ NoteIn(c) \in Columns
           /\ Annotated(NameIn(c), NoteIn(c)) = c
  <1> DEFINE s == NoteStart(c)
             name == SubSeq(c, 1, s - 1)
             note == SubSeq(c, s + 1, Len(c) - 1)
  <1>1. /\ Len(c) \in Nat /\ s \in 1 .. Len(c) /\ s \in Int
        /\ c[s] = "open" /\ c[Len(c)] = "close" /\ s < Len(c)
        /\ \A i \in 1 .. Len(c) : c[i] \in Token
    <2>1. Len(c) \in Nat /\ \A i \in 1 .. Len(c) : c[i] \in Token
      BY DEF Columns, Token
    <2>2. s \in Opens(c) /\ c[Len(c)] = "close"
      BY StartIsFirst DEF HasNote
    <2>3. s \in 1 .. Len(c) /\ c[s] = "open"
      BY <2>2 DEF Opens
    <2>4. s # Len(c)
      BY <2>2, <2>3
    <2> QED
      BY <2>1, <2>2, <2>3, <2>4
  <1>2. /\ name \in Seq(Token) /\ Len(name) = s - 1
        /\ \A i \in 1 .. s - 1 : name[i] = c[i]
    <2>1. \A i \in 1 .. s - 1 : c[i] \in Token
      BY <1>1
    <2>2. /\ name \in Seq(Token)
          /\ Len(name) = IF 1 <= s - 1 THEN (s - 1) - 1 + 1 ELSE 0
          /\ \A i \in 1 .. (s - 1) - 1 + 1 : name[i] = c[1 + i - 1]
      BY <1>1, <2>1, SubSeqProperties
    <2> QED
      BY <1>1, <2>2
  <1>3. /\ note \in Seq(Token) /\ Len(note) = Len(c) - 1 - s
        /\ \A i \in 1 .. Len(c) - 1 - s : note[i] = c[s + i]
    <2>1. \A i \in s + 1 .. Len(c) - 1 : c[i] \in Token
      BY <1>1
    <2>2. /\ note \in Seq(Token)
          /\ Len(note) = IF s + 1 <= Len(c) - 1
                         THEN (Len(c) - 1) - (s + 1) + 1 ELSE 0
          /\ \A i \in 1 .. (Len(c) - 1) - (s + 1) + 1 :
                note[i] = c[(s + 1) + i - 1]
      BY <1>1, <2>1, SubSeqProperties, SMTT(60)
    <2> QED
      BY <1>1, <2>2
  <1> DEFINE front == name \o <<"open">>
             middle == front \o note
  <1>4. <<"open">> \in Seq(Token) /\ <<"close">> \in Seq(Token)
    BY DEF Token, Brackets
  <1> HIDE DEF name, note
  <1>5. /\ front \in Seq(Token) /\ Len(front) = s
        /\ \A i \in 1 .. s : front[i] = c[i]
    <2>1. /\ front \in Seq(Token) /\ Len(front) = Len(name) + 1
          /\ \A i \in 1 .. Len(name) + 1 :
                front[i] = IF i <= Len(name) THEN name[i]
                           ELSE <<"open">>[i - Len(name)]
      BY <1>2, <1>4, ConcatProperties
    <2> QED
      BY <1>1, <1>2, <2>1
  <1> HIDE DEF front
  <1>6. /\ middle \in Seq(Token) /\ Len(middle) = Len(c) - 1
        /\ \A i \in 1 .. Len(c) - 1 : middle[i] = c[i]
    <2>1. /\ middle \in Seq(Token) /\ Len(middle) = Len(front) + Len(note)
          /\ \A i \in 1 .. Len(front) + Len(note) :
                middle[i] = IF i <= Len(front) THEN front[i]
                            ELSE note[i - Len(front)]
      BY <1>3, <1>5, ConcatProperties
    <2>2. Len(front) + Len(note) = Len(c) - 1
      BY <1>1, <1>3, <1>5
    <2>3. ASSUME NEW i \in 1 .. Len(c) - 1 PROVE middle[i] = c[i]
      <3>1. CASE i <= s
        BY <1>1, <1>5, <2>1, <2>2, <3>1
      <3>2. CASE ~(i <= s)
        <4>1. i - s \in 1 .. Len(c) - 1 - s /\ s + (i - s) = i
          BY <1>1, <3>2
        <4>2. middle[i] = note[i - s]
          BY <1>1, <1>5, <2>1, <2>2, <3>2
        <4> QED
          BY <1>3, <4>1, <4>2
      <3> QED
        BY <3>1, <3>2
    <2> QED
      BY <2>1, <2>2, <2>3
  <1> HIDE DEF middle
  <1>7. middle \o <<"close">> = c
    <2> DEFINE whole == middle \o <<"close">>
    <2>1. /\ whole \in Seq(Token) /\ Len(whole) = Len(middle) + 1
          /\ \A i \in 1 .. Len(middle) + 1 :
                whole[i] = IF i <= Len(middle) THEN middle[i]
                           ELSE <<"close">>[i - Len(middle)]
      <3> DEFINE l == <<"close">>
      <3>1. middle \in Seq(Token) /\ l \in Seq(Token) /\ Len(l) = 1
        BY <1>4, <1>6
      <3> HIDE DEF l
      <3>2. /\ middle \o l \in Seq(Token)
            /\ Len(middle \o l) = Len(middle) + Len(l)
            /\ \A i \in 1 .. Len(middle) + Len(l) :
                  (middle \o l)[i] = IF i <= Len(middle) THEN middle[i]
                                     ELSE l[i - Len(middle)]
        BY <3>1, ConcatProperties
      <3> QED
        BY <3>1, <3>2 DEF l
    <2> HIDE DEF whole
    <2>2. Len(whole) = Len(c) /\ \A i \in 1 .. Len(whole) : whole[i] = c[i]
      BY <1>1, <1>6, <2>1
    <2>3. c \in Seq(Token)
      BY DEF Columns, Token
    <2>4. whole = c
      BY <2>1, <2>2, <2>3, SeqEqual
    <2> QED
      BY <2>4 DEF whole
  <1> QED
    BY <1>2, <1>3, <1>7
       DEF NameIn, NoteIn, Annotated, front, middle, name, note, Columns, Token

(* An annotated column is longer than its name.                            *)
LEMMA AnnotatedIsLonger ==
    ASSUME NEW name \in Columns, NEW note \in Columns
    PROVE  Annotated(name, note) # name /\ Annotated(name, note) # note
  <1>1. <<"open">> \in Seq(Token) /\ <<"close">> \in Seq(Token)
    BY DEF Token, Brackets
  <1>2. name \in Seq(Token) /\ note \in Seq(Token)
    BY DEF Columns, Token
  <1> DEFINE front == name \o <<"open">>
             middle == front \o note
             whole == middle \o <<"close">>
  <1>3. front \in Seq(Token) /\ Len(front) = Len(name) + 1
    BY <1>1, <1>2, ConcatProperties
  <1> HIDE DEF front
  <1>4. middle \in Seq(Token) /\ Len(middle) = Len(front) + Len(note)
    BY <1>2, <1>3, ConcatProperties
  <1> HIDE DEF middle
  <1>5. Len(whole) = Len(middle) + 1
    BY <1>1, <1>4, ConcatProperties
  <1>6. Len(name) \in Nat /\ Len(note) \in Nat
    BY <1>2
  <1>7. Len(whole) # Len(name) /\ Len(whole) # Len(note)
    BY <1>3, <1>4, <1>5, <1>6
  <1>8. whole = Annotated(name, note)
    BY DEF whole, middle, front, Annotated
  <1> QED
    BY <1>7, <1>8

(* Cleaning can be undone for exactly these columns, of any length: what   *)
(* build lets through reads back as it was published, and what it refuses  *)
(* would not (clean.go:52-83, 121-135, build.go:133-136).                  *)
THEOREM CleaningIsReversible ==
    ASSUME NEW kanji \in Columns, NEW kana \in Columns
    PROVE  Rejoin(Clean(kanji, kana)) = <<kanji, kana>>
              <=> Reversible(kanji, kana)
  <1> DEFINE t == Clean(kanji, kana)
  <1>1. CASE Placeholder(kanji)
    BY <1>1 DEF Clean, Rejoin, Reversible
  <1>2. CASE ~Placeholder(kanji) /\ ~HasNote(kanji)
    <2>1. t = [kanji |-> kanji, kana |-> kana, note |-> <<>>, noteKana |-> <<>>]
      BY <1>2 DEF Clean
    <2>2. Rejoin(t) = IF kanji = <<>> THEN << <<>>, <<>> >> ELSE <<kanji, kana>>
      BY <2>1 DEF Rejoin
    <2> QED
      BY <1>2, <2>2 DEF Reversible
  <1>3. CASE ~Placeholder(kanji) /\ HasNote(kanji)
    <2>1. /\ t.kanji = NameIn(kanji) /\ t.kana = NameIn(kana)
          /\ t.note = NoteIn(kanji) /\ t.noteKana = NoteIn(kana)
      BY <1>3 DEF Clean
    <2>2. /\ NameIn(kanji) \in Columns /\ NoteIn(kanji) \in Columns
          /\ Annotated(NameIn(kanji), NoteIn(kanji)) = kanji
      BY <1>3, Split
    <2>3. NameIn(kanji) # kanji /\ NoteIn(kanji) # kanji
      BY <2>2, AnnotatedIsLonger
    <2>4. CASE NameIn(kanji) = <<>>
      BY <1>3, <2>1, <2>3, <2>4 DEF Rejoin, Reversible
    <2>5. CASE NameIn(kanji) # <<>> /\ NoteIn(kanji) = <<>>
      BY <1>3, <2>1, <2>3, <2>5 DEF Rejoin, Reversible
    <2>6. CASE NameIn(kanji) # <<>> /\ NoteIn(kanji) # <<>>
      <3>1. Rejoin(t) =
              <<kanji, IF NoteIn(kana) = <<>> THEN NameIn(kana)
                       ELSE Annotated(NameIn(kana), NoteIn(kana))>>
        BY <2>1, <2>2, <2>6 DEF Rejoin
      <3>2. CASE ~HasNote(kana)
        <4>1. NameIn(kana) = kana /\ NoteIn(kana) = <<>>
          BY <3>2 DEF NameIn, NoteIn
        <4> QED
          BY <1>3, <2>6, <3>1, <3>2, <4>1 DEF Reversible
      <3>3. CASE HasNote(kana)
        <4>1. /\ NameIn(kana) \in Columns /\ NoteIn(kana) \in Columns
              /\ Annotated(NameIn(kana), NoteIn(kana)) = kana
          BY <3>3, Split
        <4>2. NameIn(kana) # kana
          BY <4>1, AnnotatedIsLonger
        <4> QED
          BY <1>3, <2>6, <3>1, <3>3, <4>1, <4>2 DEF Reversible
      <3> QED
        BY <3>2, <3>3
    <2> QED
      BY <2>4, <2>5, <2>6
  <1> QED
    BY <1>1, <1>2, <1>3
(* What cleaning keeps of a column it can undo. *)
Keeps(column, t) ==
    LET last == column[Len(column)]
    IN  /\ t.kanji = <<>> <=> Placeholder(column)
        /\ ~Placeholder(column) /\ last # "close" => t.kanji = column
        /\ ~Placeholder(column) => ~Holds(t.note, "close")
        /\ \A i \in DOMAIN column :
              /\ ~Placeholder(column) /\ last = "close" /\ column[i] = "open"
              /\ \A j \in DOMAIN column \ {i, Len(column)} :
                    column[j] \notin Brackets
              => /\ t.kanji = SubSeq(column, 1, i - 1)
                 /\ t.note = SubSeq(column, i + 1, Len(column) - 1)

LEMMA CleanedColumn ==
    ASSUME NEW column \in Columns, column # <<>>,
           NEW kana \in Columns, Reversible(column, kana)
    PROVE  Keeps(column, Clean(column, kana))
  <1> DEFINE t == Clean(column, kana)
             last == column[Len(column)]
  <1>0. Len(column) \in Nat /\ DOMAIN column = 1 .. Len(column)
    BY DEF Columns
  <1>1. CASE Placeholder(column)
    BY <1>1 DEF Clean, Keeps
  <1>2. CASE ~Placeholder(column) /\ ~HasNote(column)
    <2>1. t.kanji = column /\ t.note = <<>>
      BY <1>2 DEF Clean
    <2>2. ~Holds(t.note, "close")
      BY <2>1 DEF Holds
    <2>3. ASSUME NEW i \in DOMAIN column, last = "close", column[i] = "open",
                 \A j \in DOMAIN column \ {i, Len(column)} :
                    column[j] \notin Brackets
          PROVE  FALSE
      <3>1. \A j \in i + 1 .. Len(column) - 1 : column[j] # "close"
        BY <1>0, <2>3 DEF Brackets
      <3>2. i \in Opens(column)
        BY <1>0, <2>3, <3>1 DEF Opens
      <3> QED
        BY <1>2, <2>3, <3>2 DEF HasNote
    <2> HIDE DEF t
    <2>4. Keeps(column, t)
      BY <1>2, <2>1, <2>2, <2>3 DEF Keeps
    <2> QED
      BY <2>4 DEF t
  <1>3. CASE ~Placeholder(column) /\ HasNote(column)
    <2> DEFINE s == NoteStart(column)
    <2>1. t.kanji = SubSeq(column, 1, s - 1)
          /\ t.note = SubSeq(column, s + 1, Len(column) - 1)
      BY <1>3 DEF Clean, NameIn, NoteIn
    <2>2. t.kanji # <<>>
      BY <1>3 DEF Clean, Reversible
    <2>3. s \in Opens(column) /\ last = "close"
      BY <1>3, StartIsFirst DEF HasNote
    <2>4. /\ s \in 1 .. Len(column) /\ column[s] = "open"
          /\ \A j \in s + 1 .. Len(column) - 1 : column[j] # "close"
      BY <2>3 DEF Opens
    <2> HIDE DEF s, t
    <2>5. ~Holds(t.note, "close")
      <3> DEFINE note == SubSeq(column, s + 1, Len(column) - 1)
      <3>1. \A j \in s + 1 .. Len(column) - 1 : column[j] \in Token
        BY <1>0, <2>4 DEF Columns, Token
      <3>2. /\ Len(note) = IF s + 1 <= Len(column) - 1
                           THEN (Len(column) - 1) - (s + 1) + 1 ELSE 0
            /\ \A j \in 1 .. (Len(column) - 1) - (s + 1) + 1 :
                  note[j] = column[(s + 1) + j - 1]
        BY <1>0, <2>4, <3>1, SubSeqProperties
      <3> HIDE DEF note
      <3>3. ASSUME NEW j \in 1 .. Len(note) PROVE note[j] # "close"
        <4>1. s \in Nat /\ Len(column) \in Nat
          BY <1>0, <2>4
        <4>2. j \in 1 .. (Len(column) - 1) - (s + 1) + 1
          BY <3>2, <4>1
        <4>3. (s + 1) + j - 1 \in s + 1 .. Len(column) - 1
          BY <4>1, <4>2
        <4> QED
          BY <2>4, <3>2, <4>2, <4>3
      <3> QED
        BY <2>1, <3>3 DEF Holds, note
    <2>6. ASSUME NEW i \in DOMAIN column, column[i] = "open",
                 \A j \in DOMAIN column \ {i, Len(column)} :
                    column[j] \notin Brackets
          PROVE  i = s
      BY <1>0, <2>3, <2>4, <2>6 DEF Brackets
    <2>7. Keeps(column, t)
      BY <1>3, <2>1, <2>2, <2>3, <2>5, <2>6 DEF Keeps
    <2> QED
      BY <2>7 DEF t
  <1> QED
    BY <1>1, <1>2, <1>3

LEMMA IInvClean == IInv => CleanIsExact
  <1> SUFFICES ASSUME IInv, Built, NEW r \in Rows(records),
                      RawTown(r)[1] # <<>>
               PROVE  LET column == RawTown(r)[1]
                          last == column[Len(column)]
                          prose == \/ column = <<"below">>
                                   \/ last = "nextLot"
                                   \/ last = "ichien" /\ Len(column) > 1
                      IN  /\ r.town.kanji = <<>> <=> prose
                          /\ ~prose /\ last # "close" => r.town.kanji = column
                          /\ ~prose => ~Holds(r.town.note, "close")
                          /\ \A i \in DOMAIN column :
                                /\ ~prose /\ last = "close"
                                /\ column[i] = "open"
                                /\ \A j \in DOMAIN column \ {i, Len(column)} :
                                      column[j] \notin Brackets
                                => /\ r.town.kanji = SubSeq(column, 1, i - 1)
                                   /\ r.town.note =
                                        SubSeq(column, i + 1, Len(column) - 1)
    BY Zenon DEF CleanIsExact
  <1>1. RowsParsed /\ RecordsJoined
    BY DEF IInv
  <1>2. PICK row \in Rows(ken) : r = RecordOf(row)
    BY <1>1, RecordsAreRows
  <1> DEFINE column == row.town
             last == column[Len(column)]
             prose == \/ column = <<"below">>
                      \/ last = "nextLot"
                      \/ last = "ichien" /\ Len(column) > 1
  <1>3. r.town = Clean(column, row.townKana)
    BY <1>2 DEF RecordOf, Cleaned
  <1>4. Rejoin(r.town) = <<column, row.townKana>>
    BY <1>1, <1>3 DEF RecordsJoined, RowsKeep, Cleaned
  <1>5. RawTown(r)[1] = column
    BY <1>4, RawTownIs
  <1>6. column \in Columns /\ row.townKana \in Columns
    BY <1>1, RowOf DEF KenRows
  <1>7. Reversible(column, row.townKana)
    BY <1>3, <1>4, <1>6, CleaningIsReversible
  <1> HIDE DEF column
  <1>8. column # <<>>
    BY <1>5
  <1>9. prose <=> Placeholder(column)
    <2>1. Len(column) \in Nat /\ Len(column) > 0
      BY <1>6, <1>8, EmptySeq DEF Columns
    <2> QED
      BY <2>1 DEF Placeholder
  <1>10. Keeps(column, r.town)
    BY <1>3, <1>6, <1>7, <1>8, CleanedColumn
  <1> QED
    BY <1>5, <1>9, <1>10, Zenon DEF Keeps

-----------------------------------------------------------------------------
(* Whatever has been passed over, the variables hold what the passes put   *)
(* into them (build.go:46-206, romaji.go:50-96, source.go:64-142).         *)
THEOREM Inductive == Spec => []IInv
  <1> QED
    BY InitIInv, NextIInv, PTL DEF Spec

(* For any two files, what build returns is a dataset that validate of     *)
(* encode.go accepts (build.go:65-72, 98-103, 164, encode.go:62-91).       *)
THEOREM BuildEncodable == Spec => []BuiltIsEncodable
  <1> QED
    BY Inductive, IInvEncodable, PTL

(* For any two files, the comparison with the source lets through exactly  *)
(* the rows that name each city and each prefecture in one way, and every  *)
(* one of them reads back as published (main.go:213-252,                   *)
(* address.go:126-150).                                                    *)
THEOREM VerifyDecides == Spec => []VerifiedIffConsistent
  <1> QED
    BY Inductive, IInvVerified, PTL

(* For any two files, no town is given the spelling of another town of its *)
(* zip code (build.go:144-158, 211-225).                                   *)
THEOREM SpellingsKept == Spec => []NeverSwapped
  <1> QED
    BY Inductive, IInvNeverSwapped, PTL

(* For any two files, a record keeps as its name exactly what stands       *)
(* before the last annotation, and has none when its column is prose       *)
(* (clean.go:8-24, 52-76).                                                 *)
THEOREM CleaningKept == Spec => []CleanIsExact
  <1> QED
    BY Inductive, IInvClean, PTL

-----------------------------------------------------------------------------
(* Transliteration: the tables, and what a turn of the loop writes. *)

Signs == Latin \cup {Digit[r] : r \in DOMAIN Digit} \cup Ascii \cup {"-"}

Wide(j) == IF Pair(j) \in DOMAIN Digraphs THEN 2 ELSE 1

Doubled(j) ==
    LET next == lookup(j + 1).romaji
    IN  IF next = <<>> THEN <<>>
        ELSE IF Len(next) > 1 /\ SubSeq(next, 1, 2) = <<"C", "H">>
        THEN <<"T">>
        ELSE <<next[1]>>

Numbered(j) ==
    <<Digit[At(j)]>> \o (IF At(j + 1) \in Katakana THEN <<"-">> ELSE <<>>)

Passed(j) == IF At(j) \in Ascii THEN <<At(j)>> ELSE <<>>

Sounded(j) == Assimilated(lookup(j).romaji, j + lookup(j).width)

(* What the turn at a rune writes in both styles.                          *)
Plain(j) ==
    IF At(j) = LongMark THEN <<>>
    ELSE IF At(j) = SmallTsu THEN Doubled(j)
    ELSE IF At(j) \in DOMAIN Digit THEN Numbered(j)
    ELSE IF Unreadable(j) THEN Passed(j)
    ELSE Sounded(j)

(* What it writes when everything is spelled out and w is written before.  *)
Full(j, w) ==
    IF At(j) = LongMark /\ w # <<>> /\ Last(w) \in Vowels
    THEN <<Last(w)>> ELSE Plain(j)

(* A mora at j is dropped by the style that drops long vowels.             *)
Lengthens(j) ==
    /\ At(j) \notin DOMAIN Digit \cup {LongMark, SmallTsu} /\ ~Unreadable(j)
    /\ LongVowel(Last(Plain(j)), At(j + Wide(j)))

Turn == LongVowelMark \/ DoubledConsonant \/ Number \/ Mora \/ Other

(* The letters and the width of what is found at a rune.                   *)
LEMMA LookupIs ==
    ASSUME NEW j \in Int
    PROVE  /\ lookup(j).width = IF Unreadable(j) THEN 0 ELSE Wide(j)
           /\ lookup(j).romaji \in Seq(Latin)
           /\ Unreadable(j) <=> /\ Pair(j) \notin DOMAIN Digraphs
                                /\ At(j) \notin DOMAIN Monographs
           /\ Pair(j) \in DOMAIN Digraphs =>
                 /\ Syllable(lookup(j).romaji)
                 /\ {At(j), At(j + 1)} \subseteq DOMAIN Monographs \ {O, N}
                 /\ Pair(j + 1) \notin DOMAIN Digraphs
           /\ Pair(j) \notin DOMAIN Digraphs /\ At(j) \in DOMAIN Monographs =>
                 /\ lookup(j).romaji = Monographs[At(j)]
                 /\ At(j) # N => Syllable(lookup(j).romaji)
  <1>1. CASE Pair(j) \in DOMAIN Digraphs
    <2>1. lookup(j) = [romaji |-> Digraphs[Pair(j)], width |-> 2]
      BY <1>1 DEF lookup
    <2>2. Syllable(Digraphs[Pair(j)])
      BY <1>1, KanaAssumption
    <2>3. Pair(j)[1] = At(j) /\ Pair(j)[2] = At(j + 1) /\ Pair(j + 1)[1] = At(j + 1)
      BY DEF Pair
    <2>4. {At(j), At(j + 1)} \subseteq DOMAIN Monographs \ {O, N}
      BY <1>1, <2>3, KanaAssumption
    <2>5. Pair(j + 1) \notin DOMAIN Digraphs
      BY <1>1, <2>3, KanaAssumption
    <2>6. Digraphs[Pair(j)] \in Seq(Latin) /\ Digraphs[Pair(j)] # <<>>
      BY <2>2 DEF Syllable
    <2> QED
      BY <1>1, <2>1, <2>2, <2>4, <2>5, <2>6 DEF Unreadable, Wide
  <1>2. CASE Pair(j) \notin DOMAIN Digraphs /\ At(j) \in DOMAIN Monographs
    <2>1. lookup(j) = [romaji |-> Monographs[At(j)], width |-> 1]
      BY <1>2 DEF lookup
    <2>2. At(j) # N => Syllable(Monographs[At(j)])
      BY <1>2, KanaAssumption
    <2>3. Monographs[At(j)] \in Seq(Latin) /\ Monographs[At(j)] # <<>>
      <3>1. CASE At(j) = N
        <4>1. Monographs[At(j)] = <<"N">>
          BY <3>1, KanaAssumption
        <4>2. "N" \in Latin
          BY DEF Latin
        <4> QED
          BY <4>1, <4>2
      <3>2. CASE At(j) # N
        BY <2>2, <3>2 DEF Syllable
      <3> QED
        BY <3>1, <3>2
    <2> QED
      BY <1>2, <2>1, <2>2, <2>3 DEF Unreadable, Wide
  <1>3. CASE Pair(j) \notin DOMAIN Digraphs /\ At(j) \notin DOMAIN Monographs
    <2>1. lookup(j) = [romaji |-> <<>>, width |-> 0]
      BY <1>3 DEF lookup
    <2> QED
      BY <1>3, <2>1 DEF Unreadable
  <1> QED
    BY <1>1, <1>2, <1>3

(* A rune with letters is a kana of the text, and so is the other one of   *)
(* a digraph.                                                              *)
LEMMA ReadableIs ==
    ASSUME text \in Texts, NEW j \in Int
    PROVE  /\ Len(text) \in Nat /\ DOMAIN text = 1 .. Len(text)
           /\ ~Unreadable(j) => /\ At(j) \in DOMAIN Monographs
                                /\ j \in Positions /\ At(j) = text[j]
           /\ At(j) \in DOMAIN Monographs =>
                 /\ At(j) \in Katakana /\ j \in Positions
                 /\ At(j) \notin DOMAIN Digit \cup Ascii \cup {LongMark, SmallTsu}
           /\ Pair(j) \in DOMAIN Digraphs => j + 1 \in Positions
  <1>1. Len(text) \in Nat /\ DOMAIN text = 1 .. Len(text)
    BY RunesAssumption
  <1>2. \A l \in Int : At(l) \in DOMAIN Monographs => At(l) \in Katakana \ {SmallTsu}
    BY KanaAssumption
  <1>3. \A l \in Int : At(l) \in Katakana => l \in Positions
    BY RunesAssumption DEF At, Positions
  <1>4. At(j) \in DOMAIN Monographs =>
           /\ At(j) \in Katakana /\ j \in Positions
           /\ At(j) \notin DOMAIN Digit \cup Ascii \cup {LongMark, SmallTsu}
    BY <1>2, <1>3, RunesAssumption
  <1>5. Pair(j) \in DOMAIN Digraphs =>
           At(j) \in DOMAIN Monographs /\ At(j + 1) \in DOMAIN Monographs
    BY LookupIs
  <1>6. ~Unreadable(j) => At(j) \in DOMAIN Monographs
    BY <1>5, LookupIs
  <1>7. j \in Positions => At(j) = text[j]
    BY DEF At, Positions
  <1> QED
    BY <1>1, <1>2, <1>3, <1>4, <1>5, <1>6, <1>7

(* A mora is written as it is found, or ン as M.                           *)
LEMMA SoundedIs ==
    ASSUME NEW j \in Int, ~Unreadable(j)
    PROVE  /\ Sounded(j) \in Seq(Latin) /\ Sounded(j) # <<>>
           /\ Pair(j) \in DOMAIN Digraphs \/ At(j) # N => Syllable(Sounded(j))
           /\ Pair(j) \notin DOMAIN Digraphs /\ At(j) = N =>
                 Sounded(j) \in {<<"N">>, <<"M">>}
  <1> DEFINE s == lookup(j).romaji
  <1>1. Sounded(j) = s \/ (s = <<"N">> /\ Sounded(j) = <<"M">>)
    <2> DEFINE next == lookup(j + lookup(j).width).romaji
    <2>1. Sounded(j) = IF s = <<"N">> /\ next # <<>> /\ next[1] \in {"B", "M", "P"}
                       THEN <<"M">> ELSE s
      BY DEF Sounded, Assimilated
    <2> HIDE DEF s, next
    <2> QED
      BY <2>1
  <1>2. "N" \notin Vowels /\ {"N", "M"} \subseteq Latin
    BY DEF Vowels, Latin
  <1>3. Syllable(s) => s # <<"N">>
    BY <1>2 DEF Syllable
  <1>4. CASE Pair(j) \in DOMAIN Digraphs \/ At(j) # N
    <2>1. Syllable(s)
      BY <1>4, LookupIs
    <2>2. Sounded(j) = s
      BY <1>1, <1>3, <2>1
    <2>3. s \in Seq(Latin) /\ s # <<>>
      BY <2>1 DEF Syllable
    <2> QED
      BY <1>4, <2>1, <2>2, <2>3
  <1>5. CASE ~(Pair(j) \in DOMAIN Digraphs \/ At(j) # N)
    <2>1. s = <<"N">>
      <3>1. s = Monographs[At(j)]
        BY <1>5, LookupIs
      <3> QED
        BY <1>5, <3>1, KanaAssumption
    <2>2. Sounded(j) \in {<<"N">>, <<"M">>}
      BY <1>1, <2>1
    <2>3. Sounded(j) \in Seq(Latin) /\ Sounded(j) # <<>>
      <3>1. <<"N">> \in Seq(Latin) /\ <<"M">> \in Seq(Latin)
        BY <1>2
      <3>2. <<"N">> # <<>> /\ <<"M">> # <<>>
        OBVIOUS
      <3> HIDE DEF s
      <3> QED
        BY <2>2, <3>1, <3>2
    <2> QED
      BY <1>5, <2>2, <2>3
  <1> QED
    BY <1>4, <1>5

(* What is written is signs. *)
LEMMA PlainIs ==
    ASSUME text \in Texts, NEW j \in Positions
    PROVE  Plain(j) \in Seq(Signs)
  <1>0. j \in Int /\ j + 1 \in Int
    BY ReadableIs DEF Positions
  <1>1. Latin \subseteq Signs /\ Ascii \subseteq Signs /\ "-" \in Signs
        /\ \A r \in DOMAIN Digit : Digit[r] \in Signs
    BY DEF Signs
  <1>2. Doubled(j) \in Seq(Signs)
    <2> DEFINE next == lookup(j + 1).romaji
    <2>1. next \in Seq(Latin)
      BY <1>0, LookupIs
    <2>2. "T" \in Latin
      BY DEF Latin
    <2>3. next # <<>> => next[1] \in Latin
      <3> HIDE DEF next
      <3>1. next # <<>> => 1 \in 1 .. Len(next)
        BY <2>1, EmptySeq
      <3> QED
        BY <2>1, <3>1, ElementOfSeq
    <2>4. Doubled(j) = <<>> \/ Doubled(j) = <<"T">>
          \/ (next # <<>> /\ Doubled(j) = <<next[1]>>)
      <3>1. Doubled(j) = IF next = <<>> THEN <<>>
                         ELSE IF Len(next) > 1 /\ SubSeq(next, 1, 2) = <<"C", "H">>
                         THEN <<"T">> ELSE <<next[1]>>
        BY DEF Doubled
      <3> HIDE DEF next
      <3> QED
        BY <3>1
    <2> HIDE DEF next
    <2>5. <<>> \in Seq(Signs) /\ \A x \in Latin : <<x>> \in Seq(Signs)
      BY <1>1
    <2> QED
      BY <2>2, <2>3, <2>4, <2>5
  <1>3. At(j) \in DOMAIN Digit => Numbered(j) \in Seq(Signs)
    <2> SUFFICES ASSUME At(j) \in DOMAIN Digit PROVE Numbered(j) \in Seq(Signs)
      OBVIOUS
    <2>1. <<Digit[At(j)]>> \in Seq(Signs)
      BY <1>1
    <2>2. <<"-">> \in Seq(Signs) /\ <<>> \in Seq(Signs)
      BY <1>1
    <2> QED
      BY <2>1, <2>2, ConcatProperties DEF Numbered
  <1>4. Passed(j) \in Seq(Signs)
    BY <1>1 DEF Passed
  <1>5. ~Unreadable(j) => Sounded(j) \in Seq(Signs)
    BY <1>0, <1>1, SoundedIs, SeqMonotonic
  <1>6. <<>> \in Seq(Signs)
    OBVIOUS
  <1> QED
    BY <1>2, <1>3, <1>4, <1>5, <1>6 DEF Plain

(* A turn of the loop writes what stands at its rune, and goes on behind   *)
(* it, or behind the vowel after it.                                       *)
LEMMA TurnIs ==
    ASSUME text \in Texts, pos \in Nat \ {0}, Turn
    PROVE  /\ pos \in Positions /\ UNCHANGED <<text, style, spelled>>
           /\ style = "spellOut" =>
                 /\ written' = written \o Full(pos, written)
                 /\ pos' = pos + Wide(pos)
           /\ style = "drop" =>
                 /\ written' = written \o Plain(pos)
                 /\ \/ pos' = pos + Wide(pos)
                    \/ Lengthens(pos) /\ pos' = pos + Wide(pos) + 1
  <1>0. pos \in Int /\ Len(text) \in Nat
    BY ReadableIs
  <1>1. Converting
    BY DEF Turn, LongVowelMark, DoubledConsonant, Number, Mora, Other
  <1>2. pos \in Positions
    BY <1>0, <1>1 DEF Converting, Positions
  <1>3. At(pos) \notin DOMAIN Monographs => Wide(pos) = 1
    <2>1. Pair(pos) \in DOMAIN Digraphs => At(pos) \in DOMAIN Monographs
      BY <1>0, LookupIs
    <2> QED
      BY <2>1 DEF Wide
  <1>4. At(pos) \in DOMAIN Digit \cup {LongMark, SmallTsu} =>
           At(pos) \notin DOMAIN Monographs
    BY <1>0, ReadableIs
  <1>5. LongMark # SmallTsu /\ DOMAIN Digit \cap {LongMark, SmallTsu} = {}
    <2>1. LongMark # SmallTsu
      BY DEF LongMark, SmallTsu
    <2> QED
      BY <2>1, RunesAssumption
  <1>6. CASE LongVowelMark
    <2>1. At(pos) = LongMark
      BY <1>6 DEF LongVowelMark
    <2>2. /\ written' = written \o (IF /\ style = "spellOut"
                                       /\ written # <<>> /\ Last(written) \in Vowels
                                    THEN <<Last(written)>> ELSE <<>>)
          /\ pos' = pos + 1 /\ UNCHANGED <<text, style, spelled>>
      BY <1>6 DEF LongVowelMark, Write
    <2>3. Plain(pos) = <<>>
      BY <2>1 DEF Plain
    <2>4. Full(pos, written) = IF written # <<>> /\ Last(written) \in Vowels
                               THEN <<Last(written)>> ELSE <<>>
      BY <2>1, <2>3 DEF Full
    <2>5. Wide(pos) = 1
      BY <1>3, <1>4, <2>1
    <2>6. style = "drop" => style # "spellOut"
      OBVIOUS
    <2> QED
      BY <1>2, <2>2, <2>3, <2>4, <2>5, <2>6
  <1>7. ASSUME At(pos) # LongMark,
               written' = written \o Plain(pos), pos' = pos + 1, Wide(pos) = 1,
               UNCHANGED <<text, style, spelled>>
        PROVE  /\ UNCHANGED <<text, style, spelled>>
               /\ written' = written \o Full(pos, written)
               /\ pos' = pos + Wide(pos) /\ written' = written \o Plain(pos)
    BY <1>7 DEF Full
  <1>8. CASE DoubledConsonant
    <2>1. At(pos) = SmallTsu /\ At(pos) # LongMark
      BY <1>5, <1>8 DEF DoubledConsonant
    <2>2. /\ written' = written \o Doubled(pos)
          /\ pos' = pos + 1 /\ UNCHANGED <<text, style, spelled>>
      BY <1>8 DEF DoubledConsonant, Doubled, Write
    <2>3. Plain(pos) = Doubled(pos)
      BY <2>1 DEF Plain
    <2>4. Wide(pos) = 1
      BY <1>3, <1>4, <2>1
    <2> QED
      BY <1>2, <1>7, <2>1, <2>2, <2>3, <2>4
  <1>9. CASE Number
    <2>1. At(pos) \in DOMAIN Digit /\ At(pos) \notin {LongMark, SmallTsu}
      BY <1>5, <1>9 DEF Number
    <2>2. /\ written' = written \o Numbered(pos)
          /\ pos' = pos + 1 /\ UNCHANGED <<text, style, spelled>>
      BY <1>9 DEF Number, Numbered, Write
    <2>3. Plain(pos) = Numbered(pos)
      BY <2>1 DEF Plain
    <2>4. Wide(pos) = 1
      BY <1>3, <1>4, <2>1
    <2> QED
      BY <1>2, <1>7, <2>1, <2>2, <2>3, <2>4
  <1>10. CASE Other
    <2>1. At(pos) \notin DOMAIN Digit \cup {LongMark, SmallTsu} /\ Unreadable(pos)
      BY <1>10 DEF Other
    <2>2. /\ written' = written \o Passed(pos)
          /\ pos' = pos + 1 /\ UNCHANGED <<text, style, spelled>>
      BY <1>10 DEF Other, Passed, Write
    <2>3. Plain(pos) = Passed(pos)
      BY <2>1 DEF Plain
    <2>4. Wide(pos) = 1
      BY <1>0, <1>3, <2>1, LookupIs
    <2> QED
      BY <1>2, <1>7, <2>1, <2>2, <2>3, <2>4
  <1>11. CASE Mora
    <2> DEFINE more == IF style = "drop"
                          /\ LongVowel(Last(Sounded(pos)), At(pos + lookup(pos).width))
                       THEN 1 ELSE 0
    <2>1. At(pos) \notin DOMAIN Digit \cup {LongMark, SmallTsu} /\ ~Unreadable(pos)
      BY <1>11 DEF Mora
    <2>2. /\ written' = written \o Sounded(pos)
          /\ pos' = pos + (lookup(pos).width + more)
          /\ UNCHANGED <<text, style, spelled>>
      BY <1>11 DEF Mora, Sounded, Write
    <2>3. Plain(pos) = Sounded(pos)
      BY <2>1 DEF Plain
    <2>4. lookup(pos).width = Wide(pos)
      BY <1>0, <2>1, LookupIs
    <2>5. Wide(pos) \in Nat
      BY DEF Wide
    <2>6. more = 0 \/ (more = 1 /\ style = "drop" /\ Lengthens(pos))
      BY <2>1, <2>3, <2>4 DEF Lengthens
    <2>7. style = "spellOut" => more = 0
      OBVIOUS
    <2>8. Full(pos, written) = Plain(pos)
      BY <2>1 DEF Full
    <2> HIDE DEF more
    <2>9. /\ more = 0 => pos' = pos + Wide(pos)
          /\ more = 1 => pos' = pos + Wide(pos) + 1
      BY <1>0, <2>2, <2>4, <2>5
    <2> QED
      BY <1>2, <2>2, <2>3, <2>6, <2>7, <2>8, <2>9
  <1> QED
    BY <1>6, <1>8, <1>9, <1>10, <1>11 DEF Turn

-----------------------------------------------------------------------------
(* Sequences without some of their elements. *)

(* What is left of s, element by element: the recursion of Without. *)
Remaining(s, dropped) ==
    LET f[k \in 0 .. Len(s)] ==
          IF k = 0 THEN <<>>
          ELSE IF k \in dropped THEN f[k - 1] ELSE Append(f[k - 1], s[k])
    IN  f

(* The recursion has a solution, and it is this one. *)
LEMMA RemainingIs ==
    ASSUME NEW T, NEW s \in Seq(T), NEW dropped
    PROVE  /\ Remaining(s, dropped) \in [0 .. Len(s) -> Seq(T)]
           /\ Remaining(s, dropped)[0] = <<>>
           /\ \A k \in 1 .. Len(s) :
                 Remaining(s, dropped)[k] =
                    IF k \in dropped THEN Remaining(s, dropped)[k - 1]
                    ELSE Append(Remaining(s, dropped)[k - 1], s[k])
  <1> DEFINE n == Len(s)
             step == [k \in 1 .. n |->
                        [x \in Seq(T) |-> IF k \in dropped THEN x ELSE Append(x, s[k])]]
  <1>0. n \in Nat /\ \A k \in 1 .. n : s[k] \in T
    BY LenProperties, ElementOfSeq
  <1>1. step \in Steps(Seq(T), n) /\ <<>> \in Seq(T)
    <2>1. ASSUME NEW k \in 1 .. n, NEW x \in Seq(T)
          PROVE  (IF k \in dropped THEN x ELSE Append(x, s[k])) \in Seq(T)
      BY <1>0, AppendProperties
    <2> QED
      BY <2>1, EmptySeq DEF Steps
  <1>2. PICK f : Computed(f, Seq(T), <<>>, n, step)
    <2> HIDE DEF step, n
    <2> QED
      BY <1>0, <1>1, Recursion
  <1>3. f \in [0 .. n -> Seq(T)] /\ f[0] = <<>>
    BY <1>2 DEF Computed
  <1>4. ASSUME NEW k \in 1 .. n
        PROVE  f[k] = IF k \in dropped THEN f[k - 1] ELSE Append(f[k - 1], s[k])
    <2>1. f[k - 1] \in Seq(T)
      BY <1>0, <1>3
    <2>2. f[k] = step[k][f[k - 1]]
      BY <1>2 DEF Computed
    <2> QED
      BY <2>1, <2>2
  <1> HIDE DEF step
  <1>5. f = [k \in 0 .. n |->
               IF k = 0 THEN <<>>
               ELSE IF k \in dropped THEN f[k - 1] ELSE Append(f[k - 1], s[k])]
    <2> HIDE DEF n
    <2>1. \A k \in 0 .. n : k # 0 => k \in 1 .. n
      BY <1>0
    <2>2. \A k \in 0 .. n :
             f[k] = IF k = 0 THEN <<>>
                    ELSE IF k \in dropped THEN f[k - 1] ELSE Append(f[k - 1], s[k])
      BY <1>3, <1>4, <2>1
    <2> QED
      BY <1>3, <2>2
  <1>6. Remaining(s, dropped) =
           [k \in 0 .. n |->
               IF k = 0 THEN <<>>
               ELSE IF k \in dropped THEN Remaining(s, dropped)[k - 1]
               ELSE Append(Remaining(s, dropped)[k - 1], s[k])]
    BY <1>5, Zenon DEF Remaining
  <1> DEFINE g == Remaining(s, dropped)
  <1>7. /\ g[0] = <<>>
        /\ \A k \in 1 .. n : g[k] = IF k \in dropped THEN g[k - 1]
                                    ELSE Append(g[k - 1], s[k])
    <2>1. g = [k \in 0 .. n |->
                 IF k = 0 THEN <<>>
                 ELSE IF k \in dropped THEN g[k - 1] ELSE Append(g[k - 1], s[k])]
      BY <1>6
    <2> HIDE DEF g, n
    <2>2. g[0] = <<>>
      BY <1>0, <2>1
    <2>3. ASSUME NEW k \in 1 .. n
          PROVE  g[k] = IF k \in dropped THEN g[k - 1] ELSE Append(g[k - 1], s[k])
      <3>1. k \in 0 .. n /\ k # 0
        BY <1>0
      <3> QED
        BY <2>1, <3>1
    <2> QED
      BY <2>2, <2>3
  <1> HIDE DEF g, n
  <1>8. \A k \in 0 .. n : g[k] = f[k]
    <2>1. g[0] = f[0]
      BY <1>3, <1>7
    <2>2. \A k \in 1 .. n : g[k - 1] = f[k - 1] => g[k] = f[k]
      BY <1>4, <1>7
    <2> QED
      BY <1>0, <2>1, <2>2, Agreement, ZenonT(60)
  <1>9. g \in [0 .. n -> Seq(T)]
    BY <1>3, <1>6, <1>8 DEF g
  <1> QED
    BY <1>7, <1>9 DEF g, n

(* What is left of a beginning does not depend on what follows it.         *)
LEMMA RemainingPrefix ==
    ASSUME NEW T, NEW s \in Seq(T), NEW l \in Seq(T), NEW D, NEW E,
           \A k \in 1 .. Len(s) : k \in D <=> k \in E
    PROVE  \A k \in 0 .. Len(s) : Remaining(s \o l, E)[k] = Remaining(s, D)[k]
  <1> DEFINE f == Remaining(s, D)
             g == Remaining(s \o l, E)
             sl == s \o l
  <1>0. Len(s) \in Nat /\ Len(l) \in Nat
    BY LenProperties
  <1>1. sl \in Seq(T) /\ Len(sl) = Len(s) + Len(l)
        /\ \A k \in 1 .. Len(s) : sl[k] = s[k]
    BY <1>0, ConcatProperties
  <1>2. f[0] = <<>> /\ \A k \in 1 .. Len(s) :
           f[k] = IF k \in D THEN f[k - 1] ELSE Append(f[k - 1], s[k])
    BY RemainingIs
  <1>3. g[0] = <<>> /\ \A k \in 1 .. Len(sl) :
           g[k] = IF k \in E THEN g[k - 1] ELSE Append(g[k - 1], sl[k])
    BY <1>1, RemainingIs
  <1>4. \A k \in 1 .. Len(s) : k \in 1 .. Len(sl)
    BY <1>0, <1>1
  <1> HIDE DEF f, g, sl
  <1>5. \A k \in 1 .. Len(s) : g[k - 1] = f[k - 1] => g[k] = f[k]
    BY <1>1, <1>2, <1>3, <1>4
  <1>6. \A k \in 0 .. Len(s) : g[k] = f[k]
    <2>1. g[0] = f[0]
      BY <1>2, <1>3
    <2> QED
      BY <1>0, <1>5, <2>1, Agreement, ZenonT(60)
  <1> QED
    BY <1>6 DEF f, g

(* Without is the last value of the recursion. *)
LEMMA WithoutIs ==
    ASSUME NEW T, NEW s \in Seq(T), NEW dropped
    PROVE  /\ Without(s, dropped) = Remaining(s, dropped)[Len(s)]
           /\ Without(s, dropped) \in Seq(T)
  <1>1. Without(s, dropped) = Remaining(s, dropped)[Len(s)]
    BY Zenon DEF Without, Remaining
  <1>2. Len(s) \in 0 .. Len(s)
    BY LenProperties
  <1> QED
    BY <1>1, <1>2, RemainingIs

(* What is appended to two sequences is appended to the second. *)
LEMMA AppendConcat ==
    ASSUME NEW T, NEW w \in Seq(T), NEW u \in Seq(T), NEW x \in T
    PROVE  Append(w \o u, x) = w \o (u \o <<x>>)
  <1>1. w \o u \in Seq(T)
    BY ConcatProperties
  <1>2. Append(w \o u, x) = (w \o u) \o <<x>>
    BY <1>1, AppendIsConcat
  <1>3. \A v \in Seq(T) : (w \o u) \o v = w \o (u \o v)
    BY ConcatAssociative, SMTT(60)
  <1> QED
    BY <1>2, <1>3

(* What follows is left whole when nothing of it is dropped.               *)
LEMMA WithoutConcat ==
    ASSUME NEW T, NEW s \in Seq(T), NEW l \in Seq(T), NEW D \in SUBSET (1 .. Len(s))
    PROVE  Without(s \o l, D) = Without(s, D) \o l
  <1> DEFINE sl == s \o l
             g == Remaining(sl, D)
             w == Without(s, D)
             n == Len(s)
             m == Len(l)
             a == [k \in 0 .. m |-> g[n + k]]
             b == [k \in 0 .. m |-> w \o SubSeq(l, 1, k)]
  <1>0. n \in Nat /\ m \in Nat
    BY LenProperties
  <1>1. sl \in Seq(T) /\ Len(sl) = n + m
        /\ \A k \in 1 .. m : sl[n + k] = l[k]
    BY <1>0, ConcatProperties
  <1>2. \A k \in 1 .. n + m :
           g[k] = IF k \in D THEN g[k - 1] ELSE Append(g[k - 1], sl[k])
    <2> HIDE DEF sl, n, m
    <2> QED
      BY <1>1, RemainingIs
  <1>3. w \in Seq(T) /\ w = Remaining(s, D)[n]
    BY WithoutIs
  <1>4. g[n] = w
    <2>1. n \in 0 .. n
      BY <1>0
    <2> QED
      BY <1>3, <2>1, RemainingPrefix
  <1>5. Without(sl, D) = g[n + m]
    BY <1>1, WithoutIs
  <1>6. \A k \in 1 .. m : l[k] \in T
    BY ElementOfSeq
  <1>7. \A k \in 0 .. m : SubSeq(l, 1, k) \in Seq(T)
    BY <1>6, <1>0, SubSeqProperties
  <1> HIDE DEF sl, g, w, n, m
  <1>8. a[0] = b[0]
    <2>1. a[0] = g[n]
      BY <1>0
    <2>2. SubSeq(l, 1, 0) = <<>>
      BY SubSeqEmpty
    <2>3. b[0] = w
      BY <1>0, <1>3, <2>2, ConcatEmptySeq
    <2> QED
      BY <1>4, <2>1, <2>3
  <1> HIDE DEF a, b
  <1>9. ASSUME NEW k \in 1 .. m, a[k - 1] = b[k - 1] PROVE a[k] = b[k]
    <2>1. k - 1 \in 0 .. m /\ k \in 0 .. m /\ n + k \in 1 .. n + m
          /\ n + k - 1 = n + (k - 1) /\ n + k \notin D
      BY <1>0 DEF n
    <2>0. /\ a[k - 1] = g[n + (k - 1)] /\ b[k - 1] = w \o SubSeq(l, 1, k - 1)
          /\ a[k] = g[n + k] /\ b[k] = w \o SubSeq(l, 1, k)
      BY <2>1 DEF a, b
    <2>2. g[n + k] = Append(g[n + (k - 1)], l[k])
      <3>1. g[n + k] = Append(g[n + k - 1], sl[n + k])
        <4>0. PICK p : p = n + k
          OBVIOUS
        <4>1. p \in 1 .. n + m /\ p \notin D
          BY <2>1, <4>0
        <4>2. g[p] = Append(g[p - 1], sl[p])
          BY <1>2, <4>1
        <4> QED
          BY <1>0, <4>0, <4>2
      <3> QED
        BY <1>1, <2>1, <3>1
    <2>3. g[n + (k - 1)] = w \o SubSeq(l, 1, k - 1)
      BY <1>9, <2>0
    <2>4. Append(w \o SubSeq(l, 1, k - 1), l[k]) = w \o (SubSeq(l, 1, k - 1) \o <<l[k]>>)
      <3>1. w \in Seq(T) /\ SubSeq(l, 1, k - 1) \in Seq(T) /\ l[k] \in T
        BY <1>3, <1>6, <1>7, <2>1
      <3>2. \A u \in Seq(T), x \in T : Append(w \o u, x) = w \o (u \o <<x>>)
        BY <3>1, AppendConcat
      <3> QED
        BY <3>1, <3>2, Zenon
    <2>6. SubSeq(l, 1, k - 1) \o <<l[k]>> = SubSeq(l, 1, k)
      <3>1. 1 \in 1 .. Len(l) /\ k \in 1 .. Len(l)
        BY <1>0 DEF m
      <3> QED
        BY <3>1, SubSeqRecursiveSecond
    <2> QED
      BY <2>0, <2>2, <2>3, <2>4, <2>6
  <1>10. \A k \in 0 .. m : a[k] = b[k]
    <2>1. m \in Nat
      BY <1>0
    <2>2. \A k \in 1 .. m : a[k - 1] = b[k - 1] => a[k] = b[k]
      BY <1>9
    <2> QED
      BY <1>8, <2>1, <2>2, Agreement, ZenonT(60)
  <1>11. a[m] = g[n + m] /\ b[m] = w \o l
    <2>1. SubSeq(l, 1, m) = l
      BY SubSeqFull DEF m
    <2> QED
      BY <1>0, <2>1 DEF a, b
  <1>12. m \in 0 .. m
    BY <1>0
  <1> QED
    BY <1>5, <1>10, <1>11, <1>12 DEF sl, w

(* Nothing is left of a last element that is dropped.                      *)
LEMMA WithoutLast ==
    ASSUME NEW T, NEW s \in Seq(T), NEW x \in T, NEW D \in SUBSET (1 .. Len(s))
    PROVE  Without(s \o <<x>>, D \cup {Len(s) + 1}) = Without(s, D)
  <1> DEFINE sx == s \o <<x>>
             E == D \cup {Len(s) + 1}
             g == Remaining(sx, E)
             n == Len(s)
  <1>0. n \in Nat /\ <<x>> \in Seq(T) /\ Len(<<x>>) = 1
    BY LenProperties
  <1>1. sx \in Seq(T) /\ Len(sx) = n + 1
    BY <1>0, ConcatProperties
  <1>2. g[n + 1] = g[n]
    <2>1. n + 1 \in 1 .. n + 1 /\ n + 1 \in E /\ (n + 1) - 1 = n
      BY <1>0
    <2>2. \A k \in 1 .. Len(sx) :
             g[k] = IF k \in E THEN g[k - 1] ELSE Append(g[k - 1], sx[k])
      <3> HIDE DEF sx, E, n
      <3> QED
        BY <1>1, RemainingIs
    <2> HIDE DEF g, E, sx, n
    <2> QED
      BY <1>1, <2>1, <2>2
  <1>3. g[n] = Remaining(s, D)[n]
    <2>1. \A k \in 1 .. Len(s) : k \in D <=> k \in E
      BY <1>0
    <2>2. n \in 0 .. Len(s)
      BY <1>0
    <2> DEFINE l == <<x>>
    <2>5. l \in Seq(T)
      BY <1>0
    <2> HIDE DEF E, n, l
    <2>4. \A k \in 0 .. Len(s) : Remaining(s \o l, E)[k] = Remaining(s, D)[k]
      BY <2>1, <2>5, RemainingPrefix
    <2>3. \A k \in 0 .. Len(s) : g[k] = Remaining(s, D)[k]
      BY <2>4 DEF l
    <2> QED
      BY <2>2, <2>3
  <1>4. Without(sx, E) = g[n + 1] /\ Without(s, D) = Remaining(s, D)[n]
    <2> HIDE DEF E
    <2>1. Without(sx, E) = g[Len(sx)]
      BY <1>1, WithoutIs
    <2> QED
      BY <1>1, <2>1, WithoutIs
  <1> QED
    BY <1>2, <1>3, <1>4

-----------------------------------------------------------------------------
(* Transliteration: the two spellings compared. *)

(* What is written behind each rune on the way to n, spelled out.          *)
Trace(h, n) ==
    /\ DOMAIN h \subseteq 1 .. n /\ 1 \in DOMAIN h /\ n \in DOMAIN h
    /\ h[1] = <<>>
    /\ \A j \in DOMAIN h : h[j] \in Seq(Signs)
    /\ \A j \in DOMAIN h : j < n =>
          /\ j + Wide(j) \in DOMAIN h
          /\ h[j + Wide(j)] = h[j] \o Full(j, h[j])

(* s is w but for long vowels. *)
Differs(s, w) ==
    \E dropped \in SUBSET (2 .. Len(s)) :
        /\ \A k \in dropped : LongPair(s[k - 1], s[k])
        /\ w = Without(s, dropped)

Eaten == \E j \in 2 .. Len(text) : At(j) = U /\ Pair(j) \in DOMAIN Digraphs

KanaTypes ==
    /\ text \in Texts /\ style \in {"spellOut", "drop"}
    /\ pos \in 1 .. Len(text) + 1 /\ written \in Seq(Signs)

SpelledSoFar == \E h : Trace(h, pos) /\ h[pos] = written

DroppedSoFar ==
    \E h : /\ Trace(h, Len(text) + 1) /\ h[Len(text) + 1] = spelled
           /\ ~Eaten => pos \in DOMAIN h /\ Differs(h[pos], written)

(* What a turn says of its rune stays as the text does. *)
LEMMA TextSame ==
    ASSUME text' = text
    PROVE  /\ \A j : Wide(j)' = Wide(j)
           /\ \A j, w : Full(j, w)' = Full(j, w)
           /\ \A v, w : LongPair(v, w)' = LongPair(v, w)
           /\ Eaten' = Eaten
           /\ \A j : At(j)' = At(j) /\ Pair(j)' = Pair(j)
  <1>1. ASSUME NEW j PROVE At(j)' = At(j)
    BY DEF At
  <1>2. ASSUME NEW j PROVE Pair(j)' = Pair(j)
    BY <1>1 DEF Pair
  <1>3. ASSUME NEW j PROVE Wide(j)' = Wide(j)
    BY <1>2 DEF Wide
  <1>4. ASSUME NEW j PROVE lookup(j)' = lookup(j)
    BY <1>1, <1>2 DEF lookup
  <1>5. ASSUME NEW j PROVE (Doubled(j)' = Doubled(j) /\ Numbered(j)' = Numbered(j)
                            /\ Passed(j)' = Passed(j))
    BY <1>1, <1>4 DEF Doubled, Numbered, Passed
  <1>6. ASSUME NEW j PROVE Sounded(j)' = Sounded(j)
    <2>1. ASSUME NEW o, NEW a PROVE Assimilated(o, a)' = Assimilated(o, a)
      BY <1>4 DEF Assimilated
    <2> QED
      BY <1>4, <2>1 DEF Sounded
  <1>7. ASSUME NEW j PROVE Plain(j)' = Plain(j)
    BY <1>1, <1>4, <1>5, <1>6 DEF Plain, Unreadable
  <1>8. ASSUME NEW j, NEW w PROVE Full(j, w)' = Full(j, w)
    BY <1>1, <1>7 DEF Full
  <1>9. Positions' = Positions
    BY DEF Positions
  <1>10. ASSUME NEW v, NEW w PROVE LongPair(v, w)' = LongPair(v, w)
    BY <1>1, <1>9 DEF LongPair
  <1>11. Eaten' = Eaten
    BY <1>1, <1>2 DEF Eaten
  <1> QED
    BY <1>1, <1>2, <1>3, <1>8, <1>10, <1>11

(* Two spellings stay as different when the same is written behind both.   *)
LEMMA DiffersConcat ==
    ASSUME NEW s \in Seq(Signs), NEW l \in Seq(Signs), NEW w, Differs(s, w)
    PROVE  Differs(s \o l, w \o l)
  <1>1. PICK D \in SUBSET (2 .. Len(s)) :
           (\A k \in D : LongPair(s[k - 1], s[k])) /\ w = Without(s, D)
    BY DEF Differs
  <1>2. /\ Len(s) \in Nat /\ Len(l) \in Nat /\ Len(s \o l) = Len(s) + Len(l)
        /\ \A k \in 1 .. Len(s) : (s \o l)[k] = s[k]
    BY LenProperties, ConcatProperties
  <1>3. D \in SUBSET (1 .. Len(s)) /\ D \in SUBSET (2 .. Len(s \o l))
    BY <1>1, <1>2
  <1>4. w \o l = Without(s \o l, D)
    BY <1>1, <1>3, WithoutConcat
  <1>5. ASSUME NEW k \in D PROVE LongPair((s \o l)[k - 1], (s \o l)[k])
    <2>1. k \in 1 .. Len(s) /\ k - 1 \in 1 .. Len(s)
      BY <1>1, <1>2
    <2>2. LongPair(s[k - 1], s[k])
      BY <1>1
    <2> QED
      BY <1>2, <2>1, <2>2
  <1> QED
    BY <1>3, <1>4, <1>5, Zenon DEF Differs

(* One may go on with a vowel that lengthens the one before.               *)
LEMMA DiffersLonger ==
    ASSUME NEW s \in Seq(Signs), s # <<>>, NEW x \in Signs, LongPair(Last(s), x),
           NEW w, Differs(s, w)
    PROVE  Differs(s \o <<x>>, w)
  <1>1. PICK D \in SUBSET (2 .. Len(s)) :
           (\A k \in D : LongPair(s[k - 1], s[k])) /\ w = Without(s, D)
    BY DEF Differs
  <1> DEFINE n == Len(s)
             sx == s \o <<x>>
             E == D \cup {n + 1}
  <1>2. /\ n \in Nat /\ n # 0 /\ Len(sx) = n + 1
        /\ \A k \in 1 .. n : sx[k] = s[k]
        /\ sx[n + 1] = x
    <2>1. <<x>> \in Seq(Signs) /\ Len(<<x>>) = 1 /\ <<x>>[1] = x
      OBVIOUS
    <2>2. n \in Nat /\ n # 0
      BY EmptySeq
    <2> DEFINE l == <<x>>
    <2>3. l \in Seq(Signs) /\ Len(l) = 1 /\ l[1] = x
      BY <2>1
    <2> HIDE DEF l
    <2>4. /\ Len(s \o l) = Len(s) + Len(l)
          /\ \A i \in 1 .. Len(s) + Len(l) :
                (s \o l)[i] = IF i <= Len(s) THEN s[i] ELSE l[i - Len(s)]
      BY <2>3, ConcatProperties
    <2>5. /\ Len(s \o l) = n + 1
          /\ \A k \in 1 .. n : (s \o l)[k] = s[k]
          /\ (s \o l)[n + 1] = x
      BY <2>2, <2>3, <2>4
    <2> QED
      BY <2>2, <2>5 DEF l
  <1>3. D \in SUBSET (1 .. n) /\ E \in SUBSET (2 .. Len(sx))
    <2>1. D \in SUBSET (2 .. n)
      BY <1>1
    <2> HIDE DEF sx, n
    <2>2. Len(sx) = n + 1 /\ n \in Nat /\ n # 0
      BY <1>2
    <2>3. D \in SUBSET (1 .. n)
      BY <2>1, <2>2
    <2>4. \A k \in E : k \in 2 .. Len(sx)
      BY <2>1, <2>2
    <2> QED
      BY <2>3, <2>4
  <1>4. w = Without(sx, E)
    BY <1>1, <1>3, WithoutLast
  <1>5. ASSUME NEW k \in E PROVE LongPair(sx[k - 1], sx[k])
    <2>1. CASE k \in D
      <3>1. k \in 1 .. n /\ k - 1 \in 1 .. n
        BY <1>1, <1>2, <2>1
      <3>2. LongPair(s[k - 1], s[k])
        BY <1>1, <2>1
      <3> HIDE DEF sx
      <3> QED
        BY <1>2, <3>1, <3>2
    <2>2. CASE k = n + 1
      <3>1. k - 1 = n /\ n \in 1 .. n
        BY <1>2, <2>2
      <3>2. Last(s) = s[n]
        BY DEF Last
      <3> HIDE DEF sx, n
      <3>3. sx[k - 1] = Last(s) /\ sx[k] = x
        BY <1>2, <2>2, <3>1, <3>2
      <3> QED
        BY <3>3
    <2> QED
      BY <2>1, <2>2
  <1> HIDE DEF sx, E
  <1>6. Differs(sx, w)
    BY <1>3, <1>4, <1>5, Zenon DEF Differs
  <1> QED
    BY <1>6 DEF sx

(* Where the loop is after each of its turns. *)
LEMMA WideIs ==
    ASSUME text \in Texts, NEW j \in Positions
    PROVE  /\ Wide(j) \in {1, 2} /\ j + Wide(j) \in 2 .. Len(text) + 1
           /\ At(j) \notin DOMAIN Monographs => Wide(j) = 1
  <1>1. Len(text) \in Nat /\ j \in Int
    BY ReadableIs DEF Positions
  <1>2. Pair(j) \in DOMAIN Digraphs => j + 1 \in Positions /\ At(j) \in DOMAIN Monographs
    BY <1>1, ReadableIs, LookupIs
  <1> QED
    BY <1>1, <1>2 DEF Wide, Positions

(* Spelled out, a rune writes what it writes in both styles, or, a long    *)
(* mark, the vowel before it once more.                                    *)
LEMMA FullIs ==
    ASSUME text \in Texts, NEW j \in Positions, NEW w \in Seq(Signs)
    PROVE  /\ Full(j, w) \in Seq(Signs)
           /\ \/ Full(j, w) = Plain(j)
              \/ /\ Plain(j) = <<>> /\ w # <<>> /\ Last(w) \in Signs
                 /\ Full(j, w) = <<Last(w)>>
                 /\ At(j) = LongMark /\ Last(w) \in Vowels
  <1>1. Plain(j) \in Seq(Signs)
    BY PlainIs
  <1>2. w # <<>> => Last(w) \in Signs
    <2>1. w # <<>> => Len(w) \in 1 .. Len(w)
      BY EmptySeq
    <2> QED
      BY <2>1, ElementOfSeq DEF Last
  <1>3. At(j) = LongMark => Plain(j) = <<>>
    BY DEF Plain
  <1> QED
    BY <1>1, <1>2, <1>3 DEF Full

(* What a turn writes behind a spelling is a sequence of signs.            *)
LEMMA TurnTypes ==
    ASSUME KanaTypes, Turn
    PROVE  /\ text' \in Texts /\ style' \in {"spellOut", "drop"}
           /\ pos' \in 1 .. Len(text) + 1 /\ written' \in Seq(Signs)
           /\ pos \in Positions /\ pos < pos'
           /\ UNCHANGED <<text, style, spelled>>
  <1>1. text \in Texts /\ pos \in Nat \ {0} /\ Len(text) \in Nat /\ written \in Seq(Signs)
    BY ReadableIs DEF KanaTypes
  <1>2. /\ pos \in Positions /\ UNCHANGED <<text, style, spelled>>
        /\ style = "spellOut" =>
              /\ written' = written \o Full(pos, written)
              /\ pos' = pos + Wide(pos)
        /\ style = "drop" =>
              /\ written' = written \o Plain(pos)
              /\ \/ pos' = pos + Wide(pos)
                 \/ Lengthens(pos) /\ pos' = pos + Wide(pos) + 1
    BY <1>1, TurnIs
  <1>3. style \in {"spellOut", "drop"}
    BY DEF KanaTypes
  <1>4. Plain(pos) \in Seq(Signs) /\ Full(pos, written) \in Seq(Signs)
    BY <1>1, <1>2, PlainIs, FullIs
  <1>5. written' \in Seq(Signs)
    BY <1>1, <1>2, <1>3, <1>4, ConcatProperties
  <1>6. Wide(pos) \in {1, 2} /\ pos + Wide(pos) \in 2 .. Len(text) + 1
    BY <1>1, <1>2, WideIs
  <1>7. Lengthens(pos) => pos + Wide(pos) \in Positions
    <2>1. Lengthens(pos) => At(pos + Wide(pos)) \in {U, O}
      BY DEF Lengthens, LongVowel
    <2>2. {U, O} \subseteq DOMAIN Monographs
      BY KanaAssumption
    <2>3. pos + Wide(pos) \in Int
      BY <1>6
    <2> QED
      BY <1>1, <2>1, <2>2, <2>3, ReadableIs
  <1>8. pos' \in 1 .. Len(text) + 1 /\ pos < pos'
    BY <1>1, <1>2, <1>3, <1>6, <1>7 DEF Positions
  <1> QED
    BY <1>1, <1>2, <1>3, <1>5, <1>8

(* Spelling out, a turn goes one step on. *)
LEMMA SpelledTurn ==
    ASSUME KanaTypes, Turn, style = "spellOut", SpelledSoFar
    PROVE  SpelledSoFar'
  <1>0. /\ text \in Texts /\ pos \in Positions /\ pos \in Nat \ {0} /\ Len(text) \in Nat
        /\ written \in Seq(Signs)
    BY ReadableIs, TurnTypes DEF KanaTypes
  <1>1. PICK h : Trace(h, pos) /\ h[pos] = written
    BY DEF SpelledSoFar
  <1>2. PICK p : p = pos + Wide(pos)
    OBVIOUS
  <1>3. pos' = p /\ written' = written \o Full(pos, written) /\ text' = text
    BY <1>0, <1>2, TurnIs
  <1>4. PICK w : w = written \o Full(pos, written)
    OBVIOUS
  <1>5. w \in Seq(Signs)
    <2>1. Full(pos, written) \in Seq(Signs)
      BY <1>0, FullIs
    <2> QED
      BY <1>0, <1>4, <2>1, ConcatProperties
  <1>6. p \in Nat /\ pos < p
    <2>1. Wide(pos) \in {1, 2}
      BY <1>0, WideIs
    <2> QED
      BY <1>0, <1>2, <2>1
  <1>7. /\ DOMAIN h \subseteq 1 .. pos /\ 1 \in DOMAIN h /\ pos \in DOMAIN h
        /\ h[1] = <<>>
        /\ \A j \in DOMAIN h : h[j] \in Seq(Signs)
        /\ \A j \in DOMAIN h : j < pos =>
              /\ j + Wide(j) \in DOMAIN h
              /\ h[j + Wide(j)] = h[j] \o Full(j, h[j])
    BY <1>1 DEF Trace
  <1>8. PICK g : g = [j \in DOMAIN h \cup {p} |-> IF j = p THEN w ELSE h[j]]
    OBVIOUS
  <1>9. /\ DOMAIN g = DOMAIN h \cup {p} /\ p \notin DOMAIN h /\ g[p] = w
        /\ \A j \in DOMAIN h : g[j] = h[j]
    <2>1. p \notin DOMAIN h
      BY <1>0, <1>6, <1>7
    <2> QED
      BY <1>8, <2>1
  <1>10. /\ DOMAIN g \subseteq 1 .. p /\ 1 \in DOMAIN g /\ p \in DOMAIN g
         /\ g[1] = <<>>
         /\ \A j \in DOMAIN g : g[j] \in Seq(Signs)
    BY <1>0, <1>5, <1>6, <1>7, <1>9
  <1>11. ASSUME NEW j \in DOMAIN g, j < p
         PROVE  /\ j + Wide(j) \in DOMAIN g
                /\ g[j + Wide(j)] = g[j] \o Full(j, g[j])
    <2>1. j \in DOMAIN h /\ j \in 1 .. pos
      BY <1>0, <1>6, <1>7, <1>9, <1>11
    <2>2. CASE j = pos
      BY <1>1, <1>2, <1>4, <1>9, <2>1, <2>2
    <2>3. CASE j < pos
      <3>1. j + Wide(j) \in DOMAIN h /\ h[j + Wide(j)] = h[j] \o Full(j, h[j])
        BY <1>7, <2>1, <2>3
      <3> QED
        BY <1>9, <2>1, <3>1
    <2> QED
      BY <1>0, <2>1, <2>2, <2>3
  <1>12. (\A j : Wide(j)' = Wide(j)) /\ (\A j, v : Full(j, v)' = Full(j, v))
    BY <1>3, TextSame
  <1>13. Trace(g, pos)'
    BY <1>3, <1>10, <1>11, <1>12 DEF Trace
  <1>14. g[pos]' = written'
    BY <1>3, <1>4, <1>9
  <1> QED
    BY <1>13, <1>14 DEF SpelledSoFar

(* Dropping long vowels, a turn goes one step on, or two when it passes    *)
(* over a vowel: that vowel stands alone.                                  *)
LEMMA VowelPassed ==
    ASSUME text \in Texts, NEW j \in Positions, Lengthens(j), ~Eaten,
           NEW w \in Seq(Signs), w # <<>>, Last(w) = Last(Plain(j))
    PROVE  LET k == j + Wide(j)
           IN  /\ k \in Positions /\ Wide(k) = 1
               /\ \E x \in Signs : LongPair(Last(w), x) /\ \A v : Full(k, v) = <<x>>
  <1> DEFINE k == j + Wide(j)
  <1>1. Wide(j) \in {1, 2} /\ k \in 2 .. Len(text) + 1
    BY WideIs
  <1>2. LongVowel(Last(w), At(k))
    BY DEF Lengthens
  <1>3. At(k) \in {U, O} /\ {U, O} \subseteq DOMAIN Monographs
    BY <1>2, KanaAssumption DEF LongVowel
  <1> HIDE DEF k
  <1>4. k \in Int
    BY <1>1
  <1>5. /\ k \in Positions
        /\ At(k) \notin DOMAIN Digit \cup Ascii \cup {LongMark, SmallTsu}
    BY <1>3, <1>4, ReadableIs
  <1>6. Pair(k) \notin DOMAIN Digraphs
    <2>1. CASE At(k) = U
      <3>1. k \in 2 .. Len(text)
        BY <1>1, <1>5 DEF Positions
      <3> QED
        BY <2>1, <3>1 DEF Eaten
    <2>2. CASE At(k) = O
      <3>1. Pair(k) \in DOMAIN Digraphs => At(k) # O
        BY <1>4, LookupIs
      <3> QED
        BY <2>2, <3>1
    <2> QED
      BY <1>3, <2>1, <2>2
  <1>7. Wide(k) = 1
    BY <1>6 DEF Wide
  <1>8. ~Unreadable(k) /\ lookup(k).romaji = Monographs[At(k)]
    BY <1>3, <1>4, <1>6, LookupIs
  <1>9. Sounded(k) = Monographs[At(k)]
    <2> DEFINE r == lookup(k).romaji
               next == lookup(k + lookup(k).width).romaji
    <2>1. Sounded(k) = IF r = <<"N">> /\ next # <<>> /\ next[1] \in {"B", "M", "P"}
                       THEN <<"M">> ELSE r
      BY DEF Sounded, Assimilated
    <2>2. r # <<"N">>
      BY <1>3, <1>8, KanaAssumption
    <2> HIDE DEF r, next
    <2> QED
      BY <1>8, <2>1, <2>2 DEF r
  <1>10. Plain(k) = Monographs[At(k)] /\ \A v : Full(k, v) = Monographs[At(k)]
    <2>1. Plain(k) = Monographs[At(k)]
      BY <1>5, <1>8, <1>9 DEF Plain
    <2> QED
      BY <1>5, <2>1 DEF Full
  <1>11. {"U", "O"} \subseteq Signs
    BY DEF Signs, Latin
  <1>12. CASE At(k) = U
    <2>1. Monographs[At(k)] = <<"U">>
      BY <1>12, KanaAssumption
    <2>2. U # O
      BY DEF U, O
    <2>3. Last(w) \in {"O", "U"}
      BY <1>2, <1>12, <2>2 DEF LongVowel
    <2>4. LongPair(Last(w), "U")
      BY <2>3 DEF LongPair
    <2> QED
      BY <1>5, <1>7, <1>10, <1>11, <2>1, <2>4 DEF k
  <1>13. CASE At(k) = O
    <2>1. Monographs[At(k)] = <<"O">>
      BY <1>13, KanaAssumption
    <2>2. U # O
      BY DEF U, O
    <2>3. Last(w) = "O"
      BY <1>2, <1>13, <2>2 DEF LongVowel
    <2>4. LongPair(Last(w), "O")
      BY <2>3 DEF LongPair
    <2> QED
      BY <1>5, <1>7, <1>10, <1>11, <2>1, <2>4 DEF k
  <1> QED
    BY <1>3, <1>12, <1>13

(* What is written last is the last of the whole. *)
LEMMA LastOfConcat ==
    ASSUME NEW s \in Seq(Signs), NEW l \in Seq(Signs), l # <<>>
    PROVE  s \o l # <<>> /\ Last(s \o l) = Last(l)
  <1>1. /\ s \o l \in Seq(Signs) /\ Len(s \o l) = Len(s) + Len(l)
        /\ \A i \in 1 .. Len(s) + Len(l) :
              (s \o l)[i] = IF i <= Len(s) THEN s[i] ELSE l[i - Len(s)]
    BY ConcatProperties
  <1>2. Len(s) \in Nat /\ Len(l) \in Nat \ {0}
    BY EmptySeq, LenProperties
  <1>3. s \o l # <<>>
    BY <1>1, <1>2, EmptySeq
  <1>4. (s \o l)[Len(s) + Len(l)] = l[Len(l)]
    BY <1>1, <1>2
  <1> QED
    BY <1>1, <1>3, <1>4 DEF Last

(* Dropping, a turn takes the loop to a rune it was at when it spelled     *)
(* everything out; a vowel it passes over is one that only the other       *)
(* spelling has.                                                           *)
LEMMA DroppedTurn ==
    ASSUME KanaTypes, Turn, style = "drop", DroppedSoFar
    PROVE  DroppedSoFar'
  <1>0. /\ text \in Texts /\ pos \in Positions /\ pos \in Nat \ {0} /\ Len(text) \in Nat
        /\ written \in Seq(Signs)
    BY ReadableIs, TurnTypes DEF KanaTypes
  <1>1. PICK h : /\ Trace(h, Len(text) + 1) /\ h[Len(text) + 1] = spelled
                 /\ ~Eaten => pos \in DOMAIN h /\ Differs(h[pos], written)
    BY DEF DroppedSoFar
  <1>2. /\ text' = text /\ spelled' = spelled
        /\ written' = written \o Plain(pos)
        /\ \/ pos' = pos + Wide(pos)
           \/ Lengthens(pos) /\ pos' = pos + Wide(pos) + 1
    BY <1>0, TurnIs
  <1>3. /\ \A j \in DOMAIN h : h[j] \in Seq(Signs)
        /\ \A j \in DOMAIN h : j < Len(text) + 1 =>
              /\ j + Wide(j) \in DOMAIN h
              /\ h[j + Wide(j)] = h[j] \o Full(j, h[j])
    BY <1>1 DEF Trace
  <1>4. ASSUME ~Eaten
        PROVE  \E p \in DOMAIN h : p = pos' /\ Differs(h[p], written \o Plain(pos))
    <2>1. pos \in DOMAIN h /\ Differs(h[pos], written) /\ h[pos] \in Seq(Signs)
      BY <1>1, <1>3, <1>4
    <2>2. PICK s : s = h[pos]
      OBVIOUS
    <2>3. PICK k : k = pos + Wide(pos)
      OBVIOUS
    <2>4. k \in DOMAIN h /\ h[k] = s \o Full(pos, s) /\ h[k] \in Seq(Signs)
      <3>1. pos < Len(text) + 1
        BY <1>0 DEF Positions
      <3> QED
        BY <1>3, <2>1, <2>2, <2>3, <3>1
    <2>5. s \in Seq(Signs) /\ Plain(pos) \in Seq(Signs) /\ Differs(s, written)
      BY <1>0, <2>1, <2>2, PlainIs
    <2>6. Differs(h[k], written \o Plain(pos))
      <3>1. CASE Full(pos, s) = Plain(pos)
        BY <2>4, <2>5, <3>1, DiffersConcat
      <3>2. CASE Full(pos, s) # Plain(pos)
        <4>1. /\ Plain(pos) = <<>> /\ s # <<>> /\ Last(s) \in Signs
              /\ Full(pos, s) = <<Last(s)>>
              /\ At(pos) = LongMark /\ Last(s) \in Vowels
          BY <1>0, <2>5, <3>2, FullIs
        <4>2. LongPair(Last(s), Last(s))
          BY <1>0, <4>1 DEF LongPair
        <4>3. Differs(s \o <<Last(s)>>, written)
          BY <2>5, <4>1, <4>2, DiffersLonger
        <4>4. written \o Plain(pos) = written
          BY <1>0, <4>1, ConcatEmptySeq
        <4> QED
          BY <2>4, <4>1, <4>3, <4>4
      <3> QED
        BY <3>1, <3>2
    <2>7. CASE pos' = pos + Wide(pos)
      BY <2>3, <2>4, <2>6, <2>7
    <2>8. CASE Lengthens(pos) /\ pos' = pos + Wide(pos) + 1
      <3>1. Plain(pos) = Sounded(pos) /\ At(pos) # LongMark /\ ~Unreadable(pos)
        BY <2>8 DEF Lengthens, Plain
      <3>2. Plain(pos) # <<>> /\ Full(pos, s) = Plain(pos)
        BY <1>0, <3>1, SoundedIs DEF Full
      <3>3. h[k] # <<>> /\ Last(h[k]) = Last(Plain(pos))
        <4>1. h[k] = s \o Plain(pos)
          BY <2>4, <3>2
        <4> QED
          BY <2>5, <3>2, <4>1, LastOfConcat
      <3>4. /\ k \in Positions /\ Wide(k) = 1
            /\ \E x \in Signs : LongPair(Last(h[k]), x) /\ \A v : Full(k, v) = <<x>>
        BY <1>0, <1>4, <2>3, <2>4, <2>8, <3>3, VowelPassed
      <3>5. PICK x \in Signs : LongPair(Last(h[k]), x) /\ Full(k, h[k]) = <<x>>
        BY <3>4
      <3>6. k + 1 \in DOMAIN h /\ h[k + 1] = h[k] \o <<x>>
        <4>1. k < Len(text) + 1
          BY <1>0, <3>4 DEF Positions
        <4> QED
          BY <1>3, <2>4, <3>4, <3>5, <4>1
      <3>7. Differs(h[k] \o <<x>>, written \o Plain(pos))
        BY <2>4, <2>6, <3>3, <3>5, DiffersLonger
      <3> QED
        BY <2>3, <2>8, <3>6, <3>7
    <2> QED
      BY <1>2, <2>7, <2>8
  <1>5. /\ \A j : Wide(j)' = Wide(j)
        /\ \A j, w : Full(j, w)' = Full(j, w)
        /\ \A v, w : LongPair(v, w)' = LongPair(v, w)
        /\ Eaten' = Eaten
    BY <1>2, TextSame
  <1>6. Trace(h, Len(text) + 1)' /\ h[Len(text) + 1]' = spelled'
    BY <1>1, <1>2, <1>5 DEF Trace
  <1>7. ASSUME NEW s, NEW w PROVE Differs(s, w)' <=> Differs(s, w)
    BY <1>5 DEF Differs
  <1>8. ~Eaten' => pos' \in DOMAIN h /\ Differs(h[pos], written)'
    <2>1. SUFFICES ASSUME ~Eaten PROVE pos' \in DOMAIN h /\ Differs(h[pos], written)'
      BY <1>5
    <2>2. PICK p \in DOMAIN h : p = pos' /\ Differs(h[p], written \o Plain(pos))
      BY <1>4, <2>1
    <2>3. PICK w : w = written \o Plain(pos)
      OBVIOUS
    <2>4. Differs(h[p], w)'
      BY <1>7, <2>2, <2>3
    <2> QED
      BY <1>2, <2>2, <2>3, <2>4 DEF Differs
  <1> QED
    BY <1>6, <1>8 DEF DroppedSoFar

-----------------------------------------------------------------------------
(* Transliteration: the vowels counted. *)

VowelPlaces(s) == {k \in DOMAIN s : s[k] \in Vowels}

Voicing == (DOMAIN Monographs \ {N}) \cup (Ascii \cap Vowels)

(* The runes before n with a vowel of their own, and the first runes of    *)
(* digraphs before it, whose second runes have the same vowel.             *)
Voiced(n) == {j \in 1 .. n - 1 : At(j) \in Voicing}
Paired(n) == {j \in 1 .. n - 1 : Pair(j) \in DOMAIN Digraphs}

Counted(s, n) ==
    Cardinality(VowelPlaces(s)) + Cardinality(Paired(n)) = Cardinality(Voiced(n))

Marked == \E j \in Positions : At(j) \in {LongMark, SmallTsu}

CountedSoFar ==
    ~Marked => /\ style = "spellOut" => Counted(written, pos)
               /\ style = "drop" => Counted(spelled, Len(text) + 1)

(* The vowels of a spelling and of what is written behind it.              *)
LEMMA PlacesConcat ==
    ASSUME NEW s \in Seq(Signs), NEW l \in Seq(Signs)
    PROVE  /\ IsFiniteSet(VowelPlaces(s)) /\ Cardinality(VowelPlaces(s)) \in Nat
           /\ VowelPlaces(l) = {} => VowelPlaces(s \o l) = VowelPlaces(s)
           /\ l # <<>> /\ VowelPlaces(l) = {Len(l)} =>
                 Cardinality(VowelPlaces(s \o l)) = Cardinality(VowelPlaces(s)) + 1
  <1>1. Len(s) \in Nat /\ DOMAIN s = 1 .. Len(s) /\ Len(l) \in Nat /\ DOMAIN l = 1 .. Len(l)
    BY LenProperties
  <1>2. /\ s \o l \in Seq(Signs) /\ Len(s \o l) = Len(s) + Len(l)
        /\ \A i \in 1 .. Len(s) + Len(l) :
              (s \o l)[i] = IF i <= Len(s) THEN s[i] ELSE l[i - Len(s)]
    BY ConcatProperties
  <1>3. DOMAIN (s \o l) = 1 .. Len(s) + Len(l)
    BY <1>2, LenProperties
  <1>4. IsFiniteSet(VowelPlaces(s)) /\ Cardinality(VowelPlaces(s)) \in Nat
    <2>1. VowelPlaces(s) \subseteq 1 .. Len(s)
      BY <1>1 DEF VowelPlaces
    <2>2. IsFiniteSet(1 .. Len(s))
      BY <1>1, FS_Interval
    <2>3. IsFiniteSet(VowelPlaces(s))
      BY <2>1, <2>2, FS_Subset
    <2> QED
      BY <2>3, FS_CardinalityType
  <1> DEFINE sl == s \o l
  <1>5. VowelPlaces(sl) = VowelPlaces(s) \cup {Len(s) + k : k \in VowelPlaces(l)}
    <2>1. DOMAIN sl = 1 .. Len(s) + Len(l)
      BY <1>3
    <2>2. \A k \in 1 .. Len(s) : sl[k] = s[k]
      BY <1>1, <1>2
    <2>3. \A k \in 1 .. Len(l) : sl[Len(s) + k] = l[k]
      BY <1>1, <1>2
    <2> HIDE DEF sl
    <2>4. ASSUME NEW k \in VowelPlaces(sl)
          PROVE  k \in VowelPlaces(s) \cup {Len(s) + i : i \in VowelPlaces(l)}
      <3>1. k \in 1 .. Len(s) + Len(l) /\ sl[k] \in Vowels
        BY <2>1, <2>4 DEF VowelPlaces
      <3>2. CASE k <= Len(s)
        BY <1>1, <2>2, <3>1, <3>2 DEF VowelPlaces
      <3>3. CASE k > Len(s)
        <4>1. PICK i \in 1 .. Len(l) : k = Len(s) + i
          <5>1. k - Len(s) \in 1 .. Len(l) /\ k = Len(s) + (k - Len(s))
            BY <1>1, <3>1, <3>3
          <5> QED
            BY <5>1
        <4>2. i \in VowelPlaces(l)
          BY <1>1, <2>3, <3>1, <4>1 DEF VowelPlaces
        <4> QED
          BY <4>1, <4>2
      <3> QED
        BY <1>1, <3>1, <3>2, <3>3
    <2>5. ASSUME NEW k \in VowelPlaces(s) PROVE k \in VowelPlaces(sl)
      BY <1>1, <2>1, <2>2, <2>5 DEF VowelPlaces
    <2>6. ASSUME NEW k \in VowelPlaces(l) PROVE Len(s) + k \in VowelPlaces(sl)
      BY <1>1, <2>1, <2>3, <2>6 DEF VowelPlaces
    <2> QED
      BY <2>4, <2>5, <2>6
  <1> HIDE DEF sl
  <1>6. VowelPlaces(l) = {} => VowelPlaces(sl) = VowelPlaces(s)
    BY <1>5
  <1>7. ASSUME l # <<>>, VowelPlaces(l) = {Len(l)}
        PROVE  Cardinality(VowelPlaces(sl)) = Cardinality(VowelPlaces(s)) + 1
    <2>1. Len(l) # 0
      BY <1>7, EmptySeq
    <2>2. Len(s) + Len(l) \notin VowelPlaces(s)
      BY <1>1, <2>1 DEF VowelPlaces
    <2>3. VowelPlaces(sl) = VowelPlaces(s) \cup {Len(s) + Len(l)}
      BY <1>5, <1>7
    <2> QED
      BY <1>4, <2>2, <2>3, FS_AddElement
  <1> QED
    BY <1>4, <1>6, <1>7 DEF sl

(* A rune that is neither mark writes its vowel last, or has none.         *)
LEMMA PlainVowels ==
    ASSUME text \in Texts, NEW j \in Positions, At(j) \notin {LongMark, SmallTsu}
    PROVE  /\ Pair(j) \in DOMAIN Digraphs =>
                 /\ At(j) \in Voicing /\ At(j + 1) \in Voicing
                 /\ Pair(j + 1) \notin DOMAIN Digraphs
           /\ Pair(j) \in DOMAIN Digraphs \/ At(j) \in Voicing =>
                 Plain(j) # <<>> /\ VowelPlaces(Plain(j)) = {Len(Plain(j))}
           /\ ~(Pair(j) \in DOMAIN Digraphs \/ At(j) \in Voicing) =>
                 VowelPlaces(Plain(j)) = {}
  <1>0. j \in Int /\ j + 1 \in Int
    BY ReadableIs DEF Positions
  <1>1. ASSUME NEW s, Syllable(s)
        PROVE  s # <<>> /\ VowelPlaces(s) = {Len(s)}
    <2>1. s \in Seq(Latin) /\ s # <<>> /\ \A k \in 1 .. Len(s) : s[k] \in Vowels <=> k = Len(s)
      BY <1>1 DEF Syllable
    <2>2. DOMAIN s = 1 .. Len(s) /\ Len(s) \in Nat \ {0}
      BY <2>1, LenProperties, EmptySeq
    <2>3. Len(s) \in 1 .. Len(s)
      BY <2>2
    <2>4. \A k \in DOMAIN s : s[k] \in Vowels <=> k = Len(s)
      BY <2>1, <2>2, Zenon
    <2>5. Len(s) \in DOMAIN s
      BY <2>2, <2>3
    <2> QED
      BY <2>1, <2>4, <2>5, Zenon DEF VowelPlaces
  <1>2. Pair(j) \in DOMAIN Digraphs =>
           /\ At(j) \in Voicing /\ At(j + 1) \in Voicing
           /\ Pair(j + 1) \notin DOMAIN Digraphs
    BY <1>0, LookupIs DEF Voicing
  <1>3. CASE ~Unreadable(j)
    <2>1. /\ At(j) \in DOMAIN Monographs
          /\ At(j) \notin DOMAIN Digit \cup Ascii \cup {LongMark, SmallTsu}
      BY <1>0, <1>3, ReadableIs
    <2>2. Plain(j) = Sounded(j)
      BY <1>3, <2>1 DEF Plain
    <2>3. Pair(j) \in DOMAIN Digraphs \/ At(j) # N => Syllable(Plain(j))
      BY <1>0, <1>3, <2>2, SoundedIs
    <2>4. Pair(j) \notin DOMAIN Digraphs /\ At(j) = N => Plain(j) \in {<<"N">>, <<"M">>}
      BY <1>0, <1>3, <2>2, SoundedIs
    <2>5. VowelPlaces(<<"N">>) = {} /\ VowelPlaces(<<"M">>) = {}
      <3>1. "N" \notin Vowels /\ "M" \notin Vowels
        BY DEF Vowels
      <3> QED
        BY <3>1 DEF VowelPlaces
    <2>6. At(j) \in Voicing <=> At(j) # N
      BY <2>1 DEF Voicing
    <2> QED
      BY <1>1, <1>2, <2>3, <2>4, <2>5, <2>6
  <1>4. CASE Unreadable(j)
    <2>1. Pair(j) \notin DOMAIN Digraphs /\ At(j) \notin DOMAIN Monographs
      BY <1>0, <1>4, LookupIs
    <2>2. At(j) \in Voicing <=> At(j) \in Ascii \cap Vowels
      BY <2>1 DEF Voicing
    <2>3. CASE At(j) \in DOMAIN Digit
      <3>1. Plain(j) = Numbered(j)
        BY <2>3 DEF Plain
      <3>2. At(j) \notin Ascii /\ Digit[At(j)] \notin Vowels
        BY <2>3, RunesAssumption
      <3>3. "-" \notin Vowels
        BY DEF Vowels
      <3> DEFINE d == Digit[At(j)]
                 after == IF At(j + 1) \in Katakana THEN <<"-">> ELSE <<>>
      <3>4. Numbered(j) = <<d>> \o after
        BY DEF Numbered
      <3>5. VowelPlaces(Numbered(j)) = {}
        <4>1. VowelPlaces(<<d>>) = {}
          BY <3>2 DEF VowelPlaces
        <4>2. VowelPlaces(<<"-">>) = {} /\ VowelPlaces(<<>>) = {}
          BY <3>3 DEF VowelPlaces
        <4>3. <<d>> \in Seq(Signs) /\ <<"-">> \in Seq(Signs) /\ <<>> \in Seq(Signs)
          BY <2>3 DEF Signs
        <4> DEFINE v == <<d>>
        <4>4. after \in Seq(Signs) /\ VowelPlaces(after) = {}
          BY <4>2, <4>3
        <4>5. v \in Seq(Signs) /\ VowelPlaces(v) = {}
          BY <4>1, <4>3
        <4> HIDE DEF v, after
        <4>6. VowelPlaces(v \o after) = {}
          BY <4>4, <4>5, PlacesConcat
        <4> QED
          BY <3>4, <4>6 DEF v
      <3> QED
        BY <2>1, <2>2, <3>1, <3>2, <3>5
    <2>4. CASE At(j) \notin DOMAIN Digit
      <3>1. Plain(j) = IF At(j) \in Ascii THEN <<At(j)>> ELSE <<>>
        BY <1>4, <2>4 DEF Plain, Passed
      <3>2. /\ VowelPlaces(<<>>) = {} /\ <<At(j)>> # <<>> /\ Len(<<At(j)>>) = 1
            /\ VowelPlaces(<<At(j)>>) = IF At(j) \in Vowels THEN {1} ELSE {}
        BY DEF VowelPlaces
      <3> QED
        BY <2>1, <2>2, <3>1, <3>2
    <2> QED
      BY <2>3, <2>4
  <1> QED
    BY <1>3, <1>4

(* The runes counted by the time the loop is at p.                         *)
LEMMA RunesCounted ==
    ASSUME NEW n \in Nat \ {0}
    PROVE  /\ Cardinality(Voiced(n)) \in Nat /\ Cardinality(Paired(n)) \in Nat
           /\ Cardinality(Voiced(n + 1)) =
                Cardinality(Voiced(n)) + (IF At(n) \in Voicing THEN 1 ELSE 0)
           /\ Cardinality(Paired(n + 1)) =
                Cardinality(Paired(n)) + (IF Pair(n) \in DOMAIN Digraphs THEN 1 ELSE 0)
  <1>1. IsFiniteSet(1 .. n - 1)
    BY FS_Interval
  <1>2. IsFiniteSet(Voiced(n)) /\ IsFiniteSet(Paired(n))
    <2>1. Voiced(n) \subseteq 1 .. n - 1 /\ Paired(n) \subseteq 1 .. n - 1
      BY DEF Voiced, Paired
    <2> QED
      BY <1>1, <2>1, FS_Subset
  <1>3. n \notin Voiced(n) /\ n \notin Paired(n)
    BY DEF Voiced, Paired
  <1>4. 1 .. (n + 1) - 1 = (1 .. n - 1) \cup {n}
    OBVIOUS
  <1>5. Voiced(n + 1) = IF At(n) \in Voicing THEN Voiced(n) \cup {n} ELSE Voiced(n)
    BY <1>4 DEF Voiced
  <1>6. Paired(n + 1) =
           IF Pair(n) \in DOMAIN Digraphs THEN Paired(n) \cup {n} ELSE Paired(n)
    BY <1>4 DEF Paired
  <1>7. Cardinality(Voiced(n)) \in Nat /\ Cardinality(Paired(n)) \in Nat
    BY <1>2, FS_CardinalityType
  <1>8. Cardinality(Voiced(n + 1)) =
           Cardinality(Voiced(n)) + (IF At(n) \in Voicing THEN 1 ELSE 0)
    <2>1. Cardinality(Voiced(n) \cup {n}) = Cardinality(Voiced(n)) + 1
      BY <1>2, <1>3, FS_AddElement
    <2> QED
      BY <1>5, <1>7, <2>1
  <1>9. Cardinality(Paired(n + 1)) =
           Cardinality(Paired(n)) + (IF Pair(n) \in DOMAIN Digraphs THEN 1 ELSE 0)
    <2>1. Cardinality(Paired(n) \cup {n}) = Cardinality(Paired(n)) + 1
      BY <1>2, <1>3, FS_AddElement
    <2> QED
      BY <1>6, <1>7, <2>1
  <1> QED
    BY <1>7, <1>8, <1>9

(* A turn writes as many vowels as it reads runes that have one. *)
LEMMA CountedTurn ==
    ASSUME KanaTypes, Turn, CountedSoFar
    PROVE  CountedSoFar'
  <1>0. /\ text \in Texts /\ pos \in Positions /\ pos \in Nat \ {0} /\ Len(text) \in Nat
        /\ written \in Seq(Signs) /\ UNCHANGED <<text, style, spelled>>
    BY ReadableIs, TurnTypes DEF KanaTypes
  <1>1. \A j : At(j)' = At(j) /\ Pair(j)' = Pair(j)
    BY <1>0, TextSame
  <1>2. ASSUME NEW n PROVE Voiced(n)' = Voiced(n) /\ Paired(n)' = Paired(n)
    BY <1>1 DEF Voiced, Paired
  <1>3. ASSUME NEW s, NEW n PROVE Counted(s, n)' = Counted(s, n)
    BY <1>2 DEF Counted
  <1>4. Marked' = Marked
    BY <1>0, <1>1 DEF Marked, Positions
  <1>5. ~Marked => At(pos) \notin {LongMark, SmallTsu}
    BY <1>0 DEF Marked
  <1>6. ASSUME ~Marked, style = "spellOut"
        PROVE  Counted(written \o Plain(pos), pos + Wide(pos))
    <2> DEFINE l == Plain(pos)
               voiced == Cardinality(Voiced(pos))
               paired == Cardinality(Paired(pos))
               places == Cardinality(VowelPlaces(written))
    <2>1. /\ voiced \in Nat /\ paired \in Nat
          /\ Cardinality(Voiced(pos + 1)) = voiced + (IF At(pos) \in Voicing THEN 1 ELSE 0)
          /\ Cardinality(Paired(pos + 1)) =
                paired + (IF Pair(pos) \in DOMAIN Digraphs THEN 1 ELSE 0)
      BY <1>0, RunesCounted
    <2>2. /\ Cardinality(Voiced((pos + 1) + 1)) =
                Cardinality(Voiced(pos + 1)) + (IF At(pos + 1) \in Voicing THEN 1 ELSE 0)
          /\ Cardinality(Paired((pos + 1) + 1)) =
                Cardinality(Paired(pos + 1))
                  + (IF Pair(pos + 1) \in DOMAIN Digraphs THEN 1 ELSE 0)
      <3>1. pos + 1 \in Nat \ {0}
        BY <1>0
      <3> QED
        BY <3>1, RunesCounted
    <2>3. l \in Seq(Signs)
      BY <1>0, PlainIs
    <2>4. places + paired = voiced
      BY <1>6 DEF CountedSoFar, Counted
    <2>5. /\ places \in Nat
          /\ VowelPlaces(l) = {} => Cardinality(VowelPlaces(written \o l)) = places
          /\ l # <<>> /\ VowelPlaces(l) = {Len(l)} =>
                Cardinality(VowelPlaces(written \o l)) = places + 1
      BY <1>0, <2>3, PlacesConcat
    <2>6. /\ Pair(pos) \in DOMAIN Digraphs =>
                /\ At(pos) \in Voicing /\ At(pos + 1) \in Voicing
                /\ Pair(pos + 1) \notin DOMAIN Digraphs
          /\ Pair(pos) \in DOMAIN Digraphs \/ At(pos) \in Voicing =>
                l # <<>> /\ VowelPlaces(l) = {Len(l)}
          /\ ~(Pair(pos) \in DOMAIN Digraphs \/ At(pos) \in Voicing) =>
                VowelPlaces(l) = {}
      BY <1>0, <1>5, <1>6, PlainVowels
    <2> DEFINE more == Cardinality(VowelPlaces(written \o l))
    <2> HIDE DEF voiced, paired, places, l, more
    <2>7. CASE Pair(pos) \in DOMAIN Digraphs
      <3>1. /\ Cardinality(Voiced(pos + 1)) = voiced + 1
            /\ Cardinality(Paired(pos + 1)) = paired + 1
        BY <2>1, <2>6, <2>7
      <3>2. /\ Cardinality(Voiced((pos + 1) + 1)) = Cardinality(Voiced(pos + 1)) + 1
            /\ Cardinality(Paired((pos + 1) + 1)) = Cardinality(Paired(pos + 1))
        BY <2>1, <2>2, <2>6, <2>7, <3>1
      <3>3. more = places + 1
        BY <2>5, <2>6, <2>7 DEF more
      <3>4. pos + Wide(pos) = (pos + 1) + 1
        BY <1>0, <2>7 DEF Wide
      <3>5. more + Cardinality(Paired((pos + 1) + 1)) = Cardinality(Voiced((pos + 1) + 1))
        BY <2>1, <2>4, <2>5, <3>1, <3>2, <3>3
      <3> QED
        BY <3>4, <3>5 DEF Counted, more, l
    <2>8. CASE Pair(pos) \notin DOMAIN Digraphs
      <3>1. pos + Wide(pos) = pos + 1
        BY <2>8 DEF Wide
      <3>2. more + Cardinality(Paired(pos + 1)) = Cardinality(Voiced(pos + 1))
        <4>1. CASE At(pos) \in Voicing
          <5>1. more = places + 1
            BY <2>5, <2>6, <4>1 DEF more
          <5> QED
            BY <2>1, <2>4, <2>5, <2>8, <4>1, <5>1
        <4>2. CASE At(pos) \notin Voicing
          <5>1. more = places
            BY <2>5, <2>6, <2>8, <4>2 DEF more
          <5> QED
            BY <2>1, <2>4, <2>5, <2>8, <4>2, <5>1
        <4> QED
          BY <4>1, <4>2
      <3> QED
        BY <3>1, <3>2 DEF Counted, more, l
    <2> QED
      BY <2>7, <2>8
  <1>7. ASSUME ~Marked, style = "spellOut" PROVE Counted(written, pos)'
    <2>1. Full(pos, written) = Plain(pos)
      BY <1>5, <1>7 DEF Full
    <2>2. written' = written \o Plain(pos) /\ pos' = pos + Wide(pos)
      BY <1>0, <1>7, <2>1, TurnIs
    <2>3. PICK s, n : s = written \o Plain(pos) /\ n = pos + Wide(pos)
      OBVIOUS
    <2>4. Counted(s, n)'
      BY <1>3, <1>6, <1>7, <2>3
    <2> QED
      BY <2>2, <2>3, <2>4 DEF Counted, Voiced, Paired
  <1>8. ASSUME ~Marked, style = "drop" PROVE Counted(spelled, Len(text) + 1)'
    <2>1. Counted(spelled, Len(text) + 1)
      BY <1>8 DEF CountedSoFar
    <2>2. PICK s, n : s = spelled /\ n = Len(text) + 1
      OBVIOUS
    <2>3. Counted(s, n)'
      BY <1>3, <2>1, <2>2
    <2> QED
      BY <1>0, <2>2, <2>3 DEF Counted, Voiced, Paired
  <1> QED
    BY <1>0, <1>4, <1>7, <1>8 DEF CountedSoFar

-----------------------------------------------------------------------------
(* Transliteration: every step. *)

(* The letters written so far are those of the runes behind the loop, one  *)
(* turn at a time; dropping long vowels, the loop has reached a rune that  *)
(* it reached when it spelled everything out, and what it has written is   *)
(* what was written then but for long vowels; and the vowels written are   *)
(* as many as the runes behind have.                                       *)
KanaInv ==
    /\ KanaTypes
    /\ style = "spellOut" => SpelledSoFar
    /\ style = "drop" => DroppedSoFar
    /\ CountedSoFar

(* Before the first turn nothing is read and nothing written. *)
LEMMA KanaInit == ConvertInit => KanaInv
  <1> SUFFICES ASSUME ConvertInit PROVE KanaInv
    OBVIOUS
  <1>1. /\ text \in Texts /\ style = "spellOut" /\ pos = 1 /\ written = <<>>
        /\ Len(text) \in Nat
    BY RunesAssumption DEF ConvertInit
  <1>2. KanaTypes
    BY <1>1 DEF KanaTypes
  <1>3. SpelledSoFar
    <2> DEFINE h == [j \in {1} |-> <<>>]
    <2>1. DOMAIN h = {1} /\ h[1] = <<>> /\ <<>> \in Seq(Signs) /\ {1} \subseteq 1 .. 1
      OBVIOUS
    <2> HIDE DEF h
    <2>2. Trace(h, 1)
      <3>0. ~(1 < 1)
        OBVIOUS
      <3>1. (\A j \in DOMAIN h : j = 1) /\ h[1] \in Seq(Signs)
        BY <2>1
      <3>2. \A j \in DOMAIN h : h[j] \in Seq(Signs) /\ ~(j < 1)
        BY <3>0, <3>1, Zenon
      <3> QED
        BY <2>1, <3>2 DEF Trace
    <2> QED
      BY <1>1, <2>1, <2>2 DEF SpelledSoFar
  <1>4. Counted(<<>>, 1)
    <2>1. VowelPlaces(<<>>) = {} /\ Voiced(1) = {} /\ Paired(1) = {}
      BY DEF VowelPlaces, Voiced, Paired
    <2>2. Cardinality({}) = 0
      BY FS_EmptySet
    <2>3. /\ Cardinality(VowelPlaces(<<>>)) = 0
          /\ Cardinality(Voiced(1)) = 0 /\ Cardinality(Paired(1)) = 0
      BY <2>1, <2>2
    <2> QED
      BY <2>3 DEF Counted
  <1> QED
    BY <1>1, <1>2, <1>3, <1>4 DEF KanaInv, CountedSoFar

(* When everything is spelled out, the whole way is known, and the other   *)
(* style starts at its beginning.                                          *)
LEMMA SpelledOutStep ==
    ASSUME KanaInv, SpelledOut
    PROVE  KanaInv'
  <1>1. /\ text \in Texts /\ Len(text) \in Nat /\ pos = Len(text) + 1 /\ style = "spellOut"
        /\ written \in Seq(Signs)
    <2>1. text \in Texts /\ pos \in 1 .. Len(text) + 1 /\ written \in Seq(Signs)
      BY DEF KanaInv, KanaTypes
    <2> QED
      BY <2>1, RunesAssumption DEF SpelledOut, Converting
  <1>2. /\ spelled' = written /\ style' = "drop" /\ pos' = 1 /\ written' = <<>>
        /\ text' = text
    BY DEF SpelledOut
  <1>3. /\ \A j : Wide(j)' = Wide(j)
        /\ \A j, w : Full(j, w)' = Full(j, w)
        /\ Eaten' = Eaten
        /\ \A j : At(j)' = At(j) /\ Pair(j)' = Pair(j)
    BY <1>2, TextSame
  <1>4. KanaTypes'
    <2>1. 1 \in 1 .. Len(text) + 1 /\ <<>> \in Seq(Signs)
      BY <1>1
    <2> QED
      BY <1>1, <1>2, <2>1 DEF KanaTypes
  <1>5. PICK h : Trace(h, Len(text) + 1) /\ h[Len(text) + 1] = written
    BY <1>1 DEF KanaInv, SpelledSoFar
  <1>6. Trace(h, Len(text) + 1)' /\ h[Len(text) + 1]' = spelled'
    BY <1>2, <1>3, <1>5 DEF Trace
  <1>7. 1 \in DOMAIN h /\ h[1] = <<>>
    BY <1>5 DEF Trace
  <1>8. Without(<<>>, {}) = <<>>
    <2>1. <<>> \in Seq(Signs) /\ Len(<<>>) = 0
      OBVIOUS
    <2>2. PICK s \in Seq(Signs) : s = <<>> /\ Len(s) = 0
      BY <2>1
    <2>3. Without(s, {}) = Remaining(s, {})[0]
      BY <2>2, WithoutIs
    <2>4. Remaining(s, {})[0] = <<>>
      BY RemainingIs
    <2> QED
      BY <2>2, <2>3, <2>4
  <1>9. Differs(<<>>, <<>>)'
    <2>1. {} \in SUBSET (2 .. Len(<<>>))
      OBVIOUS
    <2> QED
      BY <1>8, <2>1 DEF Differs
  <1>10. DroppedSoFar'
    <2>1. pos' \in DOMAIN h /\ Differs(h[pos], written)'
      BY <1>2, <1>7, <1>9 DEF Differs
    <2> QED
      BY <1>6, <2>1 DEF DroppedSoFar
  <1>11. CountedSoFar'
    <2>1. Marked' = Marked
      BY <1>2, <1>3 DEF Marked, Positions
    <2>2. ~Marked => Counted(written, Len(text) + 1)
      BY <1>1 DEF KanaInv, CountedSoFar
    <2>3. PICK n : n = Len(text) + 1
      OBVIOUS
    <2>4. Voiced(n)' = Voiced(n) /\ Paired(n)' = Paired(n)
      BY <1>3 DEF Voiced, Paired
    <2>5. ~Marked' => Counted(spelled, Len(text) + 1)'
      BY <1>2, <2>1, <2>2, <2>3, <2>4 DEF Counted, Voiced, Paired
    <2> QED
      BY <1>2, <2>5 DEF CountedSoFar
  <1> QED
    BY <1>2, <1>4, <1>10, <1>11 DEF KanaInv

(* Every step keeps the invariant. *)
LEMMA KanaStep == KanaInv /\ [ConvertNext]_convertVars => KanaInv'
  <1> SUFFICES ASSUME KanaInv, [ConvertNext]_convertVars PROVE KanaInv'
    OBVIOUS
  <1>1. CASE Turn
    <2>1. KanaTypes /\ CountedSoFar /\ style \in {"spellOut", "drop"}
      BY DEF KanaInv, KanaTypes
    <2>2. /\ text' \in Texts /\ style' \in {"spellOut", "drop"}
          /\ pos' \in 1 .. Len(text) + 1 /\ written' \in Seq(Signs)
          /\ UNCHANGED <<text, style, spelled>>
      BY <1>1, <2>1, TurnTypes
    <2>3. KanaTypes'
      BY <2>2 DEF KanaTypes
    <2>4. CountedSoFar'
      BY <1>1, <2>1, CountedTurn
    <2>5. style = "spellOut" => SpelledSoFar'
      BY <1>1, <2>1, SpelledTurn DEF KanaInv
    <2>6. style = "drop" => DroppedSoFar'
      BY <1>1, <2>1, DroppedTurn DEF KanaInv
    <2> QED
      BY <2>2, <2>3, <2>4, <2>5, <2>6 DEF KanaInv
  <1>2. CASE SpelledOut
    BY <1>2, SpelledOutStep
  <1>3. CASE UNCHANGED convertVars
    <2>1. UNCHANGED <<text, style, pos, written, spelled>>
      BY <1>3 DEF convertVars
    <2>2. /\ \A j : Wide(j)' = Wide(j)
          /\ \A j, w : Full(j, w)' = Full(j, w)
          /\ \A v, w : LongPair(v, w)' = LongPair(v, w)
          /\ Eaten' = Eaten
          /\ \A j : At(j)' = At(j) /\ Pair(j)' = Pair(j)
      BY <2>1, TextSame
    <2>3. KanaTypes'
      BY <2>1 DEF KanaInv, KanaTypes
    <2>4. (SpelledSoFar => SpelledSoFar') /\ (DroppedSoFar => DroppedSoFar')
      <3>1. SpelledSoFar => SpelledSoFar'
        BY <2>1, <2>2 DEF SpelledSoFar, Trace
      <3>2. ASSUME DroppedSoFar PROVE DroppedSoFar'
        <4>1. PICK h : /\ Trace(h, Len(text) + 1) /\ h[Len(text) + 1] = spelled
                       /\ ~Eaten => pos \in DOMAIN h /\ Differs(h[pos], written)
          BY <3>2 DEF DroppedSoFar
        <4>2. Trace(h, Len(text) + 1)'
          BY <2>1, <2>2, <4>1 DEF Trace
        <4>3. Differs(h[pos], written)' <=> Differs(h[pos], written)
          BY <2>1, <2>2 DEF Differs
        <4> QED
          BY <2>1, <2>2, <4>1, <4>2, <4>3 DEF DroppedSoFar
      <3> QED
        BY <3>1, <3>2
    <2>5. CountedSoFar' = CountedSoFar
      <3>1. Marked' = Marked
        BY <2>1, <2>2 DEF Marked, Positions
      <3> QED
        BY <2>1, <2>2, <3>1 DEF CountedSoFar, Counted, Voiced, Paired
    <2> QED
      BY <2>1, <2>3, <2>4, <2>5 DEF KanaInv
  <1> QED
    BY <1>1, <1>2, <1>3 DEF ConvertNext, Turn, Converted

(* What transliteration goes by, at every rune of every text.              *)
THEOREM Transliterates == ConvertSpec => []KanaInv
  BY KanaInit, KanaStep, PTL DEF ConvertSpec

(* At the end the way has been gone to the end in both styles. *)
LEMMA LongVowelsOnly == KanaInv => OnlyLongVowelsDiffer
  <1> SUFFICES ASSUME KanaInv, BothDone, ~Eaten PROVE DifferOverLongVowels
    BY DEF OnlyLongVowelsDiffer, Eaten
  <1>1. /\ text \in Texts /\ Len(text) \in Nat /\ pos = Len(text) + 1 /\ style = "drop"
    <2>1. text \in Texts /\ pos \in 1 .. Len(text) + 1
      BY DEF KanaInv, KanaTypes
    <2> QED
      BY <2>1, RunesAssumption DEF BothDone, Converting
  <1>2. Differs(spelled, written)
    BY <1>1 DEF KanaInv, DroppedSoFar
  <1> QED
    BY <1>2 DEF Differs, DifferOverLongVowels

(* Nothing of the text is behind its end. *)
LEMMA VowelsKept == KanaInv => NothingDiscarded
  <1> SUFFICES ASSUME KanaInv, style = "drop", ~Marked
               PROVE  Cardinality(VowelPlaces(spelled)) =
                        Cardinality({j \in Positions : At(j) \in Voicing})
                        - Cardinality({j \in Positions : Pair(j) \in DOMAIN Digraphs})
    BY DEF NothingDiscarded, VowelPlaces, Voicing, Marked
  <1>1. text \in Texts /\ Len(text) \in Nat
    BY RunesAssumption DEF KanaInv, KanaTypes
  <1> DEFINE n == Len(text) + 1
  <1>2. Positions = 1 .. n - 1
    BY <1>1 DEF Positions
  <1>3. /\ Voiced(n) = {j \in Positions : At(j) \in Voicing}
        /\ Paired(n) = {j \in Positions : Pair(j) \in DOMAIN Digraphs}
    BY <1>2 DEF Voiced, Paired
  <1>4. Cardinality(VowelPlaces(spelled)) + Cardinality(Paired(n)) = Cardinality(Voiced(n))
    BY DEF KanaInv, CountedSoFar, Counted
  <1>5. Cardinality(Voiced(n)) \in Nat /\ Cardinality(Paired(n)) \in Nat
    <2>1. n \in Nat \ {0}
      BY <1>1
    <2> QED
      BY <2>1, RunesCounted
  <1>6. Cardinality(VowelPlaces(spelled)) \in Nat
    <2>1. PICK h : Trace(h, Len(text) + 1) /\ h[Len(text) + 1] = spelled
      BY DEF KanaInv, DroppedSoFar
    <2>2. spelled \in Seq(Signs)
      BY <2>1 DEF Trace
    <2> QED
      BY <2>2, PlacesConcat
  <1> HIDE DEF n
  <1> QED
    BY <1>3, <1>4, <1>5, <1>6

(* For every table of kana and every text, the two styles differ over long *)
(* vowels only, but where ウィ, ウェ or ウォ follows (kana.go:3-15, 45-133).   *)
THEOREM StylesCompared == ConvertSpec => []OnlyLongVowelsDiffer
  BY Transliterates, LongVowelsOnly, PTL

(* Spelled out, no mora of any text loses its vowel (kana.go:34-37,        *)
(* 102-133, 164-176).                                                      *)
THEOREM MoraeKept == ConvertSpec => []NothingDiscarded
  BY Transliterates, VowelsKept, PTL

(* Every turn of the loop moves it forward, and never past the end of the  *)
(* text: convert makes no more turns than the text has runes, and reads    *)
(* none beyond it (kana.go:45-133).                                        *)
THEOREM TurnsForward ==
    ConvertSpec => [][/\ pos' \in 1 .. Len(text) + 1
                      /\ style' = style => pos < pos']_convertVars
  <1>1. ASSUME KanaInv, [ConvertNext]_convertVars
        PROVE  [/\ pos' \in 1 .. Len(text) + 1
                /\ style' = style => pos < pos']_convertVars
    <2>1. CASE Turn
      <3>1. KanaTypes
        BY <1>1 DEF KanaInv
      <3> QED
        BY <2>1, <3>1, TurnTypes
    <2>2. CASE SpelledOut
      <3>1. pos' = 1 /\ style' # style
        BY <2>2 DEF SpelledOut
      <3>2. Len(text) \in Nat
        BY <1>1, RunesAssumption DEF KanaInv, KanaTypes
      <3> QED
        BY <3>1, <3>2
    <2> QED
      BY <1>1, <2>1, <2>2 DEF ConvertNext, Turn, Converted
  <1> QED
    BY <1>1, Transliterates, PTL DEF ConvertSpec
=============================================================================
