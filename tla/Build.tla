------------------------------- MODULE Build --------------------------------
(***************************************************************************)
(* How tools/gendata joins Japan Post's two files (source.go, romaji.go,   *)
(* build.go) and compares the outcome with the rows it came from           *)
(* (verifyAgainstSource of main.go).  Addresses and readings come from     *)
(* utf_ken_all; KEN_ALL_ROME gives the spellings, from columns of a fixed  *)
(* width, in rows of its own and of another edition.                       *)
(*                                                                         *)
(* Each step is one pass over the rows.  The number of a city is its code, *)
(* whose first digits are the prefecture's, and 0 stands for a code that   *)
(* is not five digits; names other than a town's are opaque.  Encoding and *)
(* decoding between build and the comparison give back what was built      *)
(* (RoundTrip of Codec), and are left out.                                 *)
(***************************************************************************)
EXTENDS CleanTown

CONSTANTS
    PrefectureCount,  \* 47
    CityCodes,        \* codes per prefecture, 1000
    KanjiWidth,       \* romeKanjiWidth, 17
    RomajiWidth,      \* romeRomajiWidth, 35
    BadZip,           \* a zip column that is not seven digits
    Names,            \* of prefectures and cities, and how they are spelt
    NoSpelling,       \* the empty spelling
    FileGroups        \* the pairs of files, as sets [layout, ken, rome]

(* kenRow and romeRow, with what the passes read of them.                  *)
KenRows ==
    [jis : Nat, zip : Nat \cup {BadZip}, prefKana : Names, cityKana : Names,
     townKana : Columns, pref : Names, city : Names, town : Columns]

RomeRows ==
    [zip : Nat \cup {BadZip}, pref : Names, city : Names, town : Columns,
     prefRomaji : Names, cityRomaji : Names, romaji : Columns]

ASSUME BuildAssumption ==
    /\ {PrefectureCount, CityCodes, KanjiWidth, RomajiWidth}
          \subseteq Nat \ {0}
    /\ BadZip \notin Nat
    /\ \A g \in FileGroups :
          g.ken \subseteq Seq(KenRows) /\ g.rome \subseteq Seq(RomeRows)

VARIABLES
    files,      \* what was downloaded
    ken, rome,  \* the parsed rows
    ix,         \* romajiIndex
    prefectures, cities, records,   \* the binfmt.Dataset
    pc

vars == <<files, ken, rome, ix, prefectures, cities, records, pc>>

Nothing == <<>>

Init ==
    /\ \E g \in FileGroups :
          files \in [layout : g.layout, ken : g.ken, rome : g.rome]
    /\ ken = Nothing /\ rome = Nothing
    /\ ix = Nothing
    /\ prefectures = Nothing /\ cities = Nothing /\ records = Nothing
    /\ pc = "parse"

Fail == pc' = "failed" /\ UNCHANGED <<files, ken, rome, ix, prefectures,
                                      cities, records>>

Rows(f) == {f[i] : i \in DOMAIN f}

-----------------------------------------------------------------------------
(* parseKenAll and parseRome. *)

Parses == files.layout /\ files.ken # <<>> /\ files.rome # <<>>

KenRow(r) ==
    [r EXCEPT !.town = TrimSpace(@), !.townKana = TrimSpace(@)]

RomeRow(r) == [r EXCEPT !.town = Squeeze(@), !.romaji = TrimSpace(@)]

Parse ==
    /\ pc = "parse"
    /\ Parses
    /\ ken' = [i \in DOMAIN files.ken |-> KenRow(files.ken[i])]
    /\ rome' = [i \in DOMAIN files.rome |-> RomeRow(files.rome[i])]
    /\ pc' = "index"
    /\ UNCHANGED <<files, ix, prefectures, cities, records>>

ParseFails == pc = "parse" /\ ~Parses /\ Fail

-----------------------------------------------------------------------------
(* newRomajiIndex *)

Conflicting ==
    \E r, s \in Rows(rome) : r.pref = s.pref /\ r.prefRomaji # s.prefRomaji

Name(r) == RomeName(r.town, KanjiWidth)

Spelling(r) == RomeName(r.romaji, RomajiWidth)

Usable(r) == Name(r).whole /\ Spelling(r).whole /\ Spelling(r).name # <<>>

RomeKey(r) == <<r.zip, r.pref, r.city, Name(r).name>>

UsableRows == {r \in Rows(rome) : Usable(r)}

(* Of several rows the last gives a city's spelling, the first a town's. *)
Index ==
    /\ pc = "index"
    /\ ~Conflicting
    /\ ix' = [prefectures |->
                [p \in {r.pref : r \in Rows(rome)} |->
                   (CHOOSE r \in Rows(rome) : r.pref = p).prefRomaji],
              cities |->
                [c \in {<<r.pref, r.city>> : r \in Rows(rome)} |->
                   LET i == Max({j \in DOMAIN rome :
                                   <<rome[j].pref, rome[j].city>> = c})
                   IN  rome[i].cityRomaji],
              towns |->
                [k \in {RomeKey(r) : r \in UsableRows} |->
                   LET i == Min({j \in DOMAIN rome :
                                   Usable(rome[j]) /\ RomeKey(rome[j]) = k})
                   IN  Spelling(rome[i]).name],
              byZip |->
                [z \in {r.zip : r \in Rows(rome)} |->
                   {Spelling(r).name : r \in {s \in UsableRows : s.zip = z}}]]
    /\ pc' = "prefectures"
    /\ UNCHANGED <<files, ken, rome, prefectures, cities, records>>

IndexFails == pc = "index" /\ Conflicting /\ Fail

-----------------------------------------------------------------------------
(* build: the prefectures, then the cities *)

PrefCode(jis) == jis \div CityCodes

Prefectures == 1 .. PrefectureCount

(* The first row of a prefecture, or of a city, names it. *)
FirstOf(p) ==
    ken[Min({i \in DOMAIN ken : PrefCode(ken[i].jis) = p})]

FirstIn(jis) == ken[Min({i \in DOMAIN ken : ken[i].jis = jis})]

PrefecturesKnown ==
    /\ \A r \in Rows(ken) : PrefCode(r.jis) \in Prefectures
    /\ \A p \in Prefectures : \E r \in Rows(ken) : PrefCode(r.jis) = p
    /\ \A p \in Prefectures :
          /\ FirstOf(p).pref \in DOMAIN ix.prefectures
          /\ ix.prefectures[FirstOf(p).pref] # NoSpelling

JoinPrefectures ==
    /\ pc = "prefectures"
    /\ PrefecturesKnown
    /\ prefectures' = [p \in Prefectures |->
                         [kanji |-> FirstOf(p).pref,
                          kana |-> FirstOf(p).prefKana,
                          romaji |-> ix.prefectures[FirstOf(p).pref]]]
    /\ pc' = "cities"
    /\ UNCHANGED <<files, ken, rome, ix, cities, records>>

PrefecturesFail == pc = "prefectures" /\ ~PrefecturesKnown /\ Fail

JIS == {r.jis : r \in Rows(ken)}

(* Mutant: the index a city had before the sort. *)
MutantCityIndex(jis) ==
    LET first == Min({i \in DOMAIN ken : ken[i].jis = jis})
    IN  Cardinality({ken[i].jis : i \in 1 .. first - 1})

(* cityIndex after the sort, from zero *)
CityIndex(jis) == Cardinality({j \in JIS : j < jis})

(* prettyCity and prettyTown; PostalRomaji. *)
Pretty(spelling) == [form |-> "title", of |-> spelling]

PostalRomaji(kana) == [by |-> "kana", text |-> kana]

Official(text) == [by |-> "Japan Post", text |-> text]

JoinCities ==
    /\ pc = "cities"
    /\ cities' =
         [n \in 1 .. Cardinality(JIS) |->
            LET jis == CHOOSE j \in JIS :
                         Cardinality({k \in JIS : k < j}) = n - 1
                r == FirstIn(jis)
            IN  [kanji |-> r.city, kana |-> r.cityKana, jis |-> jis,
                 pref |-> PrefCode(jis),
                 romaji |-> Pretty(
                    IF <<r.pref, r.city>> \in DOMAIN ix.cities
                    THEN Official(ix.cities[<<r.pref, r.city>>])
                    ELSE PostalRomaji(r.cityKana))]]
    /\ pc' = "records"
    /\ UNCHANGED <<files, ken, rome, ix, prefectures, records>>

-----------------------------------------------------------------------------
(* build: the records *)

Cleaned(r) == Clean(r.town, r.townKana)

KenTowns(zip) ==
    {Cleaned(r).kanji : r \in {s \in Rows(ken) : s.zip = zip}} \ {<<>>}

RowsKeep ==
    \A r \in Rows(ken) :
        r.zip # BadZip /\ Rejoin(Cleaned(r)) = <<r.town, r.townKana>>

KenKey(r) == <<r.zip, r.pref, r.city, Cleaned(r).kanji>>

Exact(r) == KenKey(r) \in DOMAIN ix.towns

(* Mutant: the other towns of the zip code are not looked at. *)
MutantByZip(r) ==
    r.zip \in DOMAIN ix.byZip /\ Cardinality(ix.byZip[r.zip]) = 1

ByZip(r) ==
    /\ Cardinality(KenTowns(r.zip)) = 1
    /\ r.zip \in DOMAIN ix.byZip /\ Cardinality(ix.byZip[r.zip]) = 1

(* townRomaji and its three tiers; a row without a name gets none. *)
TownRomaji(r) ==
    IF Exact(r) THEN Official(ix.towns[KenKey(r)])
    ELSE IF ByZip(r) THEN Official(CHOOSE v \in ix.byZip[r.zip] : TRUE)
    ELSE PostalRomaji(Cleaned(r).kana)

RecordOf(r) ==
    LET t == Cleaned(r)
        named == t.kanji # <<>>
    IN  [zip |-> r.zip, city |-> CityIndex(r.jis), town |-> t,
         romaji |-> IF named THEN Pretty(TownRomaji(r)) ELSE NoSpelling,
         estimated |-> named /\ ~Exact(r) /\ ~ByZip(r)]

(* Mutant: the order of the rows is kept. *)
MutantStablySorts(p, rows) == \A m \in DOMAIN p : p[m] = m

(* slices.SortStableFunc by zip code: p gives the row of each place. *)
StablySorts(p, rows) ==
    \A m, n \in DOMAIN p :
        m < n => \/ rows[p[m]].zip < rows[p[n]].zip
                 \/ rows[p[m]].zip = rows[p[n]].zip /\ p[m] < p[n]

JoinRecords ==
    /\ pc = "records"
    /\ RowsKeep
    /\ \E p \in Bijection(DOMAIN ken, DOMAIN ken) :
          /\ StablySorts(p, ken)
          /\ records' = [n \in DOMAIN ken |-> RecordOf(ken[p[n]])]
    /\ pc' = "verify"
    /\ UNCHANGED <<files, ken, rome, ix, prefectures, cities>>

RecordsFail == pc = "records" /\ ~RowsKeep /\ Fail

-----------------------------------------------------------------------------
(* verifyAgainstSource *)

CityOf(r) == cities[r.city + 1]

(* The row a record reads back as. *)
ReadBack(r) ==
    [jis |-> CityOf(r).jis, zip |-> r.zip,
     prefKana |-> prefectures[CityOf(r).pref].kana,
     cityKana |-> CityOf(r).kana,
     townKana |-> Rejoin(r.town)[2],
     pref |-> prefectures[CityOf(r).pref].kanji,
     city |-> CityOf(r).kanji,
     town |-> Rejoin(r.town)[1]]

Reproduced ==
    LET rebuilt == [i \in DOMAIN records |-> ReadBack(records[i])]
        copies(f, row) == Cardinality({i \in DOMAIN f : f[i] = row})
    IN  \A row \in Rows(rebuilt) \cup Rows(ken) :
            copies(rebuilt, row) = copies(ken, row)

Verify ==
    /\ pc = "verify"
    /\ Reproduced
    /\ pc' = "verified"
    /\ UNCHANGED <<files, ken, rome, ix, prefectures, cities, records>>

VerifyFails == pc = "verify" /\ ~Reproduced /\ Fail

(* The file is written, or nothing is. *)
Halt == pc \in {"verified", "failed"} /\ UNCHANGED vars

Next ==
    \/ Parse \/ ParseFails \/ Index \/ IndexFails
    \/ JoinPrefectures \/ PrefecturesFail \/ JoinCities
    \/ JoinRecords \/ RecordsFail \/ Verify \/ VerifyFails
    \/ Halt

Spec == Init /\ [][Next]_vars

-----------------------------------------------------------------------------
(* Address.RawTown: what the package shows of a record it looks up. *)
RawTown(r) ==
    LET town == [kanji |-> r.town.kanji, kana |-> r.town.kana]
        note == [kanji |-> r.town.note, kana |-> r.town.noteKana]
    IN  IF town.kanji = <<>> THEN <<note.kanji, note.kana>>
        ELSE IF note.kanji = <<>> THEN <<town.kanji, town.kana>>
        ELSE <<Annotated(town.kanji, note.kanji),
               IF note.kana = <<>> THEN town.kana
               ELSE Annotated(town.kana, note.kana)>>

Built == pc \in {"verify", "verified"}

(* What build returns is a dataset validate of encode.go accepts: records  *)
(* in the order of their codes, indices inside the tables, cities in the   *)
(* order of theirs, every prefecture with a spelling (build.go:65-72,      *)
(* 98-103, 164, encode.go:62-91).                                          *)
BuiltIsEncodable ==
    Built =>
        /\ \A i, j \in DOMAIN records : i < j => records[i].zip <= records[j].zip
        /\ \A r \in Rows(records) : r.city + 1 \in DOMAIN cities
        /\ \A i, j \in DOMAIN cities : i < j => cities[i].jis < cities[j].jis
        /\ \A c \in Rows(cities) : c.pref \in DOMAIN prefectures
        /\ \A p \in Rows(prefectures) : p.romaji # NoSpelling

(* The rows of a city, and of a prefecture, name it in one way. *)
Consistent ==
    \A r, s \in Rows(ken) :
        /\ r.jis = s.jis => r.city = s.city /\ r.cityKana = s.cityKana
        /\ PrefCode(r.jis) = PrefCode(s.jis) =>
              r.pref = s.pref /\ r.prefKana = s.prefKana

(* The comparison with the source lets through exactly the rows that a     *)
(* table of cities and prefectures can hold: it never refuses a build of   *)
(* such rows, whatever their order and however often one is repeated, and  *)
(* what it lets through reads back, by rejoin as by Address.RawTown, as    *)
(* the columns that were published (main.go:213-252, address.go:126-150).  *)
VerifiedIffConsistent ==
    /\ pc = "verify" => (Reproduced <=> Consistent)
    /\ pc = "verified" =>
          \A r \in Rows(records) :
              \E row \in Rows(ken) : RawTown(r) = <<row.town, row.townKana>>

(* The layout's own account of a fragment: the field was filled to its     *)
(* width before any annotation began (clean.go:77-98).                     *)
Fragment(column, width) ==
    Len(column) >= width /\ \A i \in 1 .. Len(column) : column[i] # "open"

(* In what is written, a spelling that is not marked as estimated is       *)
(* published for a row of the same zip code, neither of whose columns is a *)
(* fragment, so that no half of a name is joined or shown; and where the   *)
(* code covers several towns, none is given the spelling of another: the   *)
(* row has the city and the name of the record (main.go:116,               *)
(* build.go:144-158, 211-225, romaji.go:66-84, clean.go:77-105,            *)
(* address.go:66-69).                                                      *)
NeverSwapped ==
    pc = "verified" =>
        \A r \in Rows(records) :
            r.romaji # NoSpelling /\ ~r.estimated =>
                \E s \in Rows(rome) :
                    /\ s.zip = r.zip
                    /\ r.romaji = Pretty(Official(Spelling(s).name))
                    /\ ~Fragment(s.town, KanjiWidth)
                    /\ ~Fragment(s.romaji, RomajiWidth)
                    /\ Cardinality({t.town.kanji : t \in
                          {u \in Rows(records) : u.zip = r.zip}} \ {<<>>}) > 1
                       => /\ s.city = CityOf(r).kanji
                          /\ Name(s).name = r.town.kanji

(* A record keeps as its name what stands before the last annotation, and  *)
(* has none when its column is prose; a column without brackets that is    *)
(* not prose is a name (clean.go:8-24, 52-76, clean_test.go:6-121).        *)
CleanIsExact ==
    Built =>
        \A r \in Rows(records) :
            LET column == RawTown(r)[1]
                last == column[Len(column)]
                prose == \/ column = <<"below">>
                         \/ last = "nextLot"
                         \/ last = "ichien" /\ Len(column) > 1
            IN  column # <<>> =>
                /\ r.town.kanji = <<>> <=> prose
                /\ ~prose /\ last # "close" => r.town.kanji = column
                /\ ~prose => ~Holds(r.town.note, "close")
                /\ \A i \in DOMAIN column :
                      /\ ~prose /\ last = "close" /\ column[i] = "open"
                      /\ \A j \in DOMAIN column \ {i, Len(column)} :
                            column[j] \notin Brackets
                      => /\ r.town.kanji = SubSeq(column, 1, i - 1)
                         /\ r.town.note = SubSeq(column, i + 1, Len(column) - 1)

(* A spelling taken by zip code alone is that of the only town the romaji  *)
(* file lists for the code (build.go:216-217: "Only safe when neither file *)
(* splits the zip code across several towns; otherwise we would hand one   *)
(* town another town's spelling").                                         *)
BorrowsSafely ==
    pc = "verify" =>
        \A r \in Rows(ken) :
            Cleaned(r).kanji # <<>> /\ ~Exact(r) /\ ByZip(r) =>
                Cardinality({Name(s).name : s \in
                    {t \in Rows(rome) : t.zip = r.zip}}) = 1
=============================================================================
