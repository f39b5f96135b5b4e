------------------------------- MODULE MCKana -------------------------------
(***************************************************************************)
(* Texts for TLC: every text of up to MaxText of a dozen runes that take   *)
(* every branch of convert.  "xyo" and "xe" are the small ョ and ェ, and     *)
(* "xke" is ヶ, a katakana no table has.                                   *)
(***************************************************************************)
EXTENDS Kana

CONSTANT MaxText    \* bound: runes of a text

SomeMonographs ==
    "to" :> <<"T", "O">> @@ "chi" :> <<"C", "H", "I">> @@
    "ma" :> <<"M", "A">> @@ "i" :> <<"I">> @@ "n" :> <<"N">> @@
    "u" :> <<"U">> @@ "o" :> <<"O">> @@
    "xyo" :> <<"Y", "O">> @@ "xe" :> <<"E">>

SomeDigraphs ==
    <<"chi", "xyo">> :> <<"C", "H", "O">> @@
    <<"chi", "xe">> :> <<"C", "H", "E">> @@
    <<"u", "xe">> :> <<"W", "E">>

SomeDigits == "wide 1" :> "1" @@ "1" :> "1"

SomeKatakana == DOMAIN SomeMonographs \cup {SmallTsu, "xke"}

SomeTexts ==
    BoundedSeq(SomeKatakana \cup {LongMark, "wide 1", "A"}, MaxText)
      \cup {<<"chi", "1", "ma">>, <<"1", "1", "n", "ma", "A">>}
=============================================================================
