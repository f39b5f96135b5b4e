-------------------------------- MODULE Kana --------------------------------
(***************************************************************************)
(* internal/kana: a reading in katakana is spelled in Latin letters, mora  *)
(* by mora, in one of two styles.  A behaviour converts one text in both,  *)
(* spelling everything out first and dropping long vowels then; a step is  *)
(* one turn of the loop of convert.                                        *)
(*                                                                         *)
(* Runes and letters are opaque but for those the code tells apart.        *)
(***************************************************************************)
EXTENDS Integers, FiniteSets, SequencesExt

CONSTANTS
    Monographs,  \* the letters of a rune
    Digraphs,    \* the letters of two runes
    Digit,       \* the digit of a rune, of either width
    Katakana,    \* the runes isKana accepts
    Ascii,       \* the other runes below 0x80
    Texts        \* the texts to convert

LongMark == "long mark"      \* ー
SmallTsu == "small tsu"      \* ッ
U == "u"                     \* ウ
O == "o"                     \* オ
N == "n"                     \* ン

Vowels == {"A", "I", "U", "E", "O"}

(* Letters of the tables. *)
Latin == {"A", "B", "C", "D", "E", "F", "G", "H", "I", "J", "K", "L", "M", "N",
          "O", "P", "Q", "R", "S", "T", "U", "V", "W", "X", "Y", "Z"}

(* Letters that end in their only vowel. *)
Syllable(s) ==
    /\ s \in Seq(Latin) /\ s # <<>>
    /\ \A k \in 1 .. Len(s) : s[k] \in Vowels <=> k = Len(s)

(* The classes of runes convert tells apart do not overlap. *)
ASSUME RunesAssumption ==
    /\ Katakana \cap (DOMAIN Digit \cup Ascii) = {}
    /\ DOMAIN Digit \cap Ascii = {}
    /\ LongMark \notin Katakana \cup DOMAIN Digit \cup Ascii
    /\ SmallTsu \in Katakana /\ "none" \notin Katakana
    /\ \A r \in DOMAIN Digit : Digit[r] \notin Vowels
    /\ \A s \in Texts : Len(s) \in Nat /\ DOMAIN s = 1 .. Len(s)

(* The tables: every kana but N is a syllable, N and the vowels that       *)
(* lengthen are as they are, and the small kana a digraph ends with begins *)
(* none.                                                                   *)
ASSUME KanaAssumption ==
    /\ DOMAIN Monographs \subseteq Katakana \ {SmallTsu}
    /\ {U, O, N} \subseteq DOMAIN Monographs
    /\ Monographs[U] = <<"U">> /\ Monographs[O] = <<"O">>
    /\ Monographs[N] = <<"N">>
    /\ \A r \in DOMAIN Monographs \ {N} : Syllable(Monographs[r])
    /\ \A rr \in DOMAIN Digraphs :
          /\ Syllable(Digraphs[rr])
          /\ {rr[1], rr[2]} \subseteq DOMAIN Monographs \ {O, N}
          /\ \A ss \in DOMAIN Digraphs : rr[2] # ss[1]

VARIABLES
    text,
    style,     \* "spellOut", then "drop"
    pos,       \* i of convert: the next rune
    written,   \* b of convert: the letters written
    spelled    \* the text spelled out

convertVars == <<text, style, pos, written, spelled>>

ConvertInit ==
    /\ text \in Texts
    /\ style = "spellOut" /\ pos = 1 /\ written = <<>> /\ spelled = <<>>

-----------------------------------------------------------------------------
At(j) == IF j \in 1 .. Len(text) THEN text[j] ELSE "none"

Pair(j) == <<At(j), At(j + 1)>>

(* Mutant: runes are looked up one by one. *)
MutantLookup(j) ==
    IF At(j) \in DOMAIN Monographs
    THEN [romaji |-> Monographs[At(j)], width |-> 1]
    ELSE [romaji |-> <<>>, width |-> 0]

lookup(j) ==
    IF Pair(j) \in DOMAIN Digraphs
    THEN [romaji |-> Digraphs[Pair(j)], width |-> 2]
    ELSE IF At(j) \in DOMAIN Monographs
    THEN [romaji |-> Monographs[At(j)], width |-> 1]
    ELSE [romaji |-> <<>>, width |-> 0]

Unreadable(j) == lookup(j).romaji = <<>>

Converting == pos <= Len(text)

Write(letters, width) ==
    /\ written' = written \o letters /\ pos' = pos + width
    /\ UNCHANGED <<text, style, spelled>>

-----------------------------------------------------------------------------
LongVowelMark ==
    /\ Converting /\ At(pos) = LongMark
    /\ Write(IF /\ style = "spellOut"
                /\ written # <<>> /\ Last(written) \in Vowels
             THEN <<Last(written)>> ELSE <<>>, 1)

DoubledConsonant ==
    /\ Converting /\ At(pos) = SmallTsu
    /\ LET next == lookup(pos + 1).romaji
       IN  Write(IF next = <<>> THEN <<>>
                 ELSE IF Len(next) > 1 /\ SubSeq(next, 1, 2) = <<"C", "H">>
                 THEN <<"T">>
                 ELSE <<next[1]>>, 1)

(* A number is set apart from the mora after it. *)
Number ==
    /\ Converting /\ At(pos) \in DOMAIN Digit
    /\ Write(<<Digit[At(pos)]>> \o
             (IF At(pos + 1) \in Katakana THEN <<"-">> ELSE <<>>), 1)

(* Mutant: the second vowel of EI and II is dropped as well. *)
MutantLongVowel(last, rune) ==
    \/ rune = U /\ last \in {"O", "U"}
    \/ rune = O /\ last = "O"
    \/ rune = "i" /\ last \in {"E", "I"}

(* The drop style passes over ウ after an o- or u-sound, オ after an o. *)
LongVowel(last, rune) ==
    \/ rune = U /\ last \in {"O", "U"}
    \/ rune = O /\ last = "O"

Assimilated(out, after) ==
    LET next == lookup(after).romaji
    IN  IF out = <<"N">> /\ next # <<>> /\ next[1] \in {"B", "M", "P"}
        THEN <<"M">> ELSE out

Mora ==
    /\ Converting /\ At(pos) \notin DOMAIN Digit \cup {LongMark, SmallTsu}
    /\ ~Unreadable(pos)
    /\ LET width == lookup(pos).width
           out == Assimilated(lookup(pos).romaji, pos + width)
       IN  Write(out, width +
                 IF style = "drop" /\ LongVowel(Last(out), At(pos + width))
                 THEN 1 ELSE 0)

Other ==
    /\ Converting /\ At(pos) \notin DOMAIN Digit \cup {LongMark, SmallTsu}
    /\ Unreadable(pos)
    /\ Write(IF At(pos) \in Ascii THEN <<At(pos)>> ELSE <<>>, 1)

(* Romaji returns, and PostalRomaji is called. *)
SpelledOut ==
    /\ ~Converting /\ style = "spellOut"
    /\ spelled' = written
    /\ style' = "drop" /\ pos' = 1 /\ written' = <<>>
    /\ UNCHANGED text

Converted == ~Converting /\ style = "drop" /\ UNCHANGED convertVars

ConvertNext ==
    \/ LongVowelMark \/ DoubledConsonant \/ Number \/ Mora \/ Other
    \/ SpelledOut \/ Converted

ConvertSpec == ConvertInit /\ [][ConvertNext]_convertVars

-----------------------------------------------------------------------------
Positions == 1 .. Len(text)

Without(s, dropped) ==
    LET f[k \in 0 .. Len(s)] ==
          IF k = 0 THEN <<>>
          ELSE IF k \in dropped THEN f[k - 1] ELSE Append(f[k - 1], s[k])
    IN  f[Len(s)]

LongPair(v, w) ==
    \/ <<v, w>> \in {<<"O", "U">>, <<"U", "U">>, <<"O", "O">>}
    \/ (\E j \in Positions : At(j) = LongMark) /\ v = w /\ v \in Vowels

(* The two spellings are the same but for vowels that lengthen the one     *)
(* before them, which only one of them writes.                             *)
DifferOverLongVowels ==
    \E dropped \in SUBSET (2 .. Len(spelled)) :
        /\ \A k \in dropped : LongPair(spelled[k - 1], spelled[k])
        /\ written = Without(spelled, dropped)

BothDone == ~Converting /\ style = "drop"

(* In a text without ウィ, ウェ or ウォ past its beginning, the two styles   *)
(* differ over long vowels only: no consonant, hyphen or short vowel is    *)
(* touched, however the runes fall together (kana.go:3-15, 45-133).        *)
OnlyLongVowelsDiffer ==
    BothDone /\ ~(\E j \in 2 .. Len(text) :
                     At(j) = U /\ Pair(j) \in DOMAIN Digraphs)
    => DifferOverLongVowels

(* Spelled out, each mora keeps its vowel: a text has as many as it has    *)
(* readable kana, those that form a digraph counted once and ン not, and    *)
(* Latin vowels (kana.go:34-37, 102-133, 164-176).                         *)
NothingDiscarded ==
    style = "drop" /\ ~(\E j \in Positions : At(j) \in {LongMark, SmallTsu})
    => Cardinality({k \in DOMAIN spelled : spelled[k] \in Vowels}) =
         Cardinality({j \in Positions :
                        At(j) \in (DOMAIN Monographs \ {N}) \cup (Ascii \cap Vowels)})
         - Cardinality({j \in Positions : Pair(j) \in DOMAIN Digraphs})

(* "The two conventions [...] differ only in what they do with long        *)
(* vowels" (kana.go:3-4; kana_test.go:43-44).                              *)
StylesAgree == BothDone => DifferOverLongVowels
=============================================================================
