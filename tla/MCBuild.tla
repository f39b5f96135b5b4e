------------------------------ MODULE MCBuild -------------------------------
(***************************************************************************)
(* Files for TLC.  Prefecture 1 has two cities, and prefecture 2 one row   *)
(* that every complete pair of files ends with; before it stand up to two  *)
(* rows of either file: towns that share a zip code, annotations closed,   *)
(* cut or lifted out of one file only, columns that fill their width,      *)
(* placeholders, spaces, rows that disagree, and rows nothing can be made  *)
(* of.  A third group has one row and any town column of a few tokens.     *)
(***************************************************************************)
EXTENDS Build, SequencesExt

CONSTANT MaxColumn    \* bound: tokens of a column of the third group

AllNames ==
    {"tokyo", "osaka", "chiyoda", "chuo", "pref kana", "city kana",
     "other kana", "TOKYO TO", "TOKYO", "OSAKA FU", "CITY", "CHIYODA",
     NoSpelling}

KenRowOf(jis, zip, town, townKana) ==
    [jis |-> jis, zip |-> zip, prefKana |-> "pref kana",
     cityKana |-> "city kana", townKana |-> townKana, pref |-> "tokyo",
     city |-> IF jis = 11 THEN "chiyoda" ELSE "chuo", town |-> town]

KenLast ==
    [KenRowOf(20, 2, <<"below">>, <<"k">>) EXCEPT !.pref = "osaka",
                                                  !.city = "osaka"]

KenSamples ==
    {KenRowOf(11, 1, <<"x">>, <<"k">>),
     KenRowOf(11, 1, <<"x", "open", "y", "close">>, <<"k">>),
     KenRowOf(12, 1, <<"y">>, <<"k", "open", "k", "close">>),
     KenRowOf(12, 0, <<"y", "y">>, <<"k">>),
     KenRowOf(12, 1, <<"space", "below">>, <<"k">>),
     KenRowOf(11, 1, <<"open", "x", "close">>, <<"k">>),
     KenRowOf(0, 1, <<"x">>, <<"k">>),
     KenRowOf(11, BadZip, <<"x">>, <<"k">>),
     [KenRowOf(11, 1, <<"y">>, <<"k">>) EXCEPT !.cityKana = "other kana"],
     [KenRowOf(12, 1, <<"x">>, <<"k">>) EXCEPT !.prefKana = "other kana"],
     [KenRowOf(12, 1, <<"x">>, <<"k">>) EXCEPT !.city = "chiyoda"]}

RomeRowOf(zip, city, town, romaji) ==
    [zip |-> zip, pref |-> "tokyo", city |-> city, town |-> town,
     prefRomaji |-> "TOKYO TO", cityRomaji |-> "CITY", romaji |-> romaji]

RomeLast ==
    [RomeRowOf(2, "osaka", <<"below">>, <<"I">>) EXCEPT
        !.pref = "osaka", !.prefRomaji = "OSAKA FU"]

RomeSamples ==
    {RomeRowOf(1, "chiyoda", <<"x">>, <<"X">>),
     RomeRowOf(1, "chuo", <<"y">>, <<"Y", "open", "X">>),
     RomeRowOf(1, "chuo", <<"below">>, <<"I">>),
     RomeRowOf(0, "chuo", <<"y", "space", "y">>, <<"Y">>),
     RomeRowOf(1, "chiyoda", <<"x">>, <<"Y", "Y", "Y">>),
     RomeRowOf(1, "chiyoda", <<"y", "y", "y", "y">>, <<"Y">>),
     RomeRowOf(1, "chiyoda", <<"y", "open", "x">>, <<>>),
     [RomeRowOf(1, "chiyoda", <<"y">>, <<"Y">>) EXCEPT !.cityRomaji = "CHIYODA"],
     [RomeRowOf(1, "chiyoda", <<"x">>, <<"X">>) EXCEPT !.prefRomaji = "TOKYO"],
     [RomeRowOf(1, "chiyoda", <<"x">>, <<"X">>) EXCEPT !.prefRomaji = NoSpelling]}

Group(layouts, kens, romes) == [layout |-> layouts, ken |-> kens, rome |-> romes]

Ending(rows, row) == {Append(f, row) : f \in rows}

Joined ==
    Group({TRUE}, Ending(BoundedSeq(KenSamples, 2), KenLast),
          Ending(BoundedSeq(RomeSamples, 2), RomeLast))

Incomplete ==
    Group(BOOLEAN, {<<>>, <<KenLast>>}, {<<>>, <<RomeLast>>})

KanaColumns ==
    {<<>>, <<"k">>, <<"open", "k">>, <<"k", "open", "close">>,
     <<"k", "open", "k", "close">>}

AnyColumn ==
    Group({TRUE},
          {<<KenRowOf(11, 1, town, townKana), KenLast>> :
             town \in BoundedSeq({"x", "open", "close", "ichien", "nextLot"},
                                 MaxColumn),
             townKana \in KanaColumns},
          {<<RomeRowOf(1, "chiyoda", <<"x">>, <<"X">>), RomeLast>>})

AllGroups == {Joined, Incomplete, AnyColumn}
=============================================================================
