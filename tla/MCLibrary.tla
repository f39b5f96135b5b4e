----------------------------- MODULE MCLibrary ------------------------------
(***************************************************************************)
(* A database of three records, two of which share a zip code and one of   *)
(* which has a leading zero, and two prefectures, one of them spelled      *)
(* GUMMA KEN and one of a single word.                                     *)
(***************************************************************************)
EXTENDS Library

CONSTANTS gumma, hokkaido, tokyo

R(digit) == [class |-> "ascii", digit |-> digit]
W(digit) == [class |-> "wide", digit |-> digit]
Dash == [class |-> "separator", digit |-> 0]

MCRecords ==
    <<[zip |-> 1, pref |-> 0, town |-> "t1"],
      [zip |-> 5, pref |-> 1, town |-> "t2"],
      [zip |-> 5, pref |-> 0, town |-> "t3"]>>

MCPublished ==
    <<[kanji |-> gumma, romaji |-> <<Upper("GUMMA"), Upper("KEN")>>],
      [kanji |-> hokkaido, romaji |-> <<Upper("HOKKAIDO")>>]>>

MCUpdated == <<7, 3>>

(* The absent code 22, the leading zero of 01, 12 in two widths, a code    *)
(* that is too short.                                                      *)
MCTexts ==
    {<<R(2), R(2)>>, <<R(0), Dash, R(1)>>, <<R(1), W(2)>>, <<R(1), Dash>>}

(* Enough to contend for the first load. *)
OneText == {<<R(1), W(2)>>}

MCKanji == {gumma, tokyo}
=============================================================================
