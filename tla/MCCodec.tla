------------------------------ MODULE MCCodec -------------------------------
(***************************************************************************)
(* Datasets for TLC: strings that share prefixes across a restart point,   *)
(* names that repeat, cities of two prefectures, repeated zip codes, notes *)
(* with gaps, and datasets Encode must refuse.                             *)
(***************************************************************************)
EXTENDS Codec

a == <<1>>
ab == <<1, 2>>
abc == <<1, 2, 5>>
d == <<6>>

NameOf(kanji, kana, romaji) ==
    [kanji |-> kanji, kana |-> kana, romaji |-> romaji]

CityOf(jis, pref) ==
    [jis |-> jis, pref |-> pref, kanji |-> ab, kana |-> d, romaji |-> d]

RecordOf(zip, city, kanji, note, noteKana, flag) ==
    [zip |-> zip, city |-> city, kanji |-> kanji, kana |-> d, romaji |-> abc,
     note |-> note, noteKana |-> noteKana, flags |-> flag]

DatasetOf(prefectureList, cityList, recordList) ==
    [updated |-> [kenAll |-> -3, rome |-> 7], prefectures |-> prefectureList,
     cities |-> cityList, records |-> recordList]

TwoPrefectures == <<NameOf(ab, a, abc), NameOf(d, a, ab)>>

TwoCities == <<CityOf(MaxJIS, 0), CityOf(0, 1)>>

Records ==
    {RecordOf(0, 0, a, <<>>, <<>>, 0),
     RecordOf(2, 1, <<>>, abc, a, 1),
     RecordOf(2, 0, abc, <<>>, a, 1),
     RecordOf(MaxZip, 1, ab, d, <<>>, 0)}

(* Valid and unsorted sequences of at most three records. *)
SortedAndNot ==
    {DatasetOf(TwoPrefectures, TwoCities, rs) : rs \in BoundedSeq(Records, 3)}

(* One dataset per refusal of validate. *)
Refusable ==
    {DatasetOf(<<NameOf(ab, a, <<>>), NameOf(d, a, ab)>>, TwoCities, <<>>),
     DatasetOf(TwoPrefectures,
               [i \in 1 .. MaxUint16 + 1 |-> CityOf(0, 0)], <<>>),
     DatasetOf(TwoPrefectures, <<CityOf(0, PrefectureCount)>>, <<>>),
     DatasetOf(TwoPrefectures, <<CityOf(MaxJIS + 1, 0)>>, <<>>),
     DatasetOf(TwoPrefectures, <<>>,
               <<RecordOf(0, 0, a, <<>>, <<>>, 0)>>),
     DatasetOf(TwoPrefectures, TwoCities,
               <<RecordOf(MaxZip + 1, 0, a, <<>>, <<>>, 0)>>)}

SmallPrefectures == <<NameOf(a, a, ab), NameOf(a, a, a)>>

(* Small files, every byte of which is damaged in every way. *)
DamageDatasets ==
    {DatasetOf(SmallPrefectures, <<>>, <<>>)}
      \cup {DatasetOf(SmallPrefectures, <<CityOf(1, 0)>>, rs) : rs \in
              {<<RecordOf(2, 0, a, <<>>, <<>>, 1)>>,
               <<RecordOf(2, 0, a, d, <<>>, 1), RecordOf(2, 0, d, ab, a, 0),
                 RecordOf(MaxZip, 0, a, a, d, 0)>>}}

AllDatasets == SortedAndNot \cup Refusable \cup DamageDatasets
=============================================================================
