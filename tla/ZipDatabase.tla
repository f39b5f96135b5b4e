---------------------------- MODULE ZipDatabase -----------------------------
(***************************************************************************)
(* The content of a database as the package presents it: records in the    *)
(* order Japan Post publishes them, sorted by zip code, and the published  *)
(* prefectures.  The answers of each operation are stated here without     *)
(* search, offsets or loading; Library computes them the way the code does.*)
(***************************************************************************)
EXTENDS CodeText, FiniteSetsExt

CONSTANTS
    Records,     \* [zip, pref, town], sorted by zip; pref counts from zero
    Published,   \* [kanji, romaji], romaji being a sequence of words
    Updated      \* the two publication dates

ASSUME SortedAssumption ==
    \A i \in 1 .. Len(Records) - 1 : Records[i].zip <= Records[i + 1].zip

ASSUME LengthsAssumption == Len(Records) \in Nat /\ Len(Published) \in Nat

(* What Decode checks of the indices of a file it accepts (Decoder).       *)
ASSUME RecordsAssumption ==
    \A i \in 1 .. Len(Records) :
        /\ Records[i].zip \in Nat
        /\ Records[i].pref \in 0 .. Len(Published) - 1

(* A word is its letters and their case. *)
Upper(letters) == [letters |-> letters, case |-> "upper"]

TitleCase(word) ==
    [letters |-> IF word.letters = "GUMMA" THEN "GUNMA" ELSE word.letters,
     case |-> "title"]

UnitWords == {Upper("TO"), Upper("FU"), Upper("KEN")}

(* prefectureName of address.go: drop the administrative unit, unless it   *)
(* is all there is, and spell Gunma the usual way.                         *)
PrefectureName(p) ==
    LET words == p.romaji
        last == Len(words)
        kept == IF last > 1 /\ words[last] \in UnitWords
                THEN SubSeq(words, 1, last - 1) ELSE words
    IN  [kanji |-> p.kanji, romaji |-> [i \in 1 .. Len(kept) |->
                                          TitleCase(kept[i])]]

AddressOf(r) ==
    [code |-> Digits(r.zip, CodeLen),
     prefecture |-> PrefectureName(Published[r.pref + 1]),
     town |-> r.town]

Addresses == [i \in 1 .. Len(Records) |-> AddressOf(Records[i])]

(* The k-th of a set of positions. *)
Kth(positions, k) ==
    CHOOSE i \in positions : Cardinality({j \in positions : j <= i}) = k

(* The addresses that carry a code, in order. *)
AddressesAt(zip) ==
    LET at == {i \in 1 .. Len(Records) : Records[i].zip = zip}
    IN  [k \in 1 .. Cardinality(at) |-> Addresses[Kth(at, k)]]

-----------------------------------------------------------------------------
Reply(kind, value) == [kind |-> kind, value |-> value]

CodeReply(op, text) ==
    LET found == AddressesAt(CodeOf(text))
    IN  CASE ~WellFormed(text) -> Reply("ErrInvalidCode", <<>>)
          [] WellFormed(text) /\ Len(found) = 0 -> Reply("ErrNotFound", <<>>)
          [] WellFormed(text) /\ Len(found) > 0 ->
                Reply("ok", IF op = "Lookup" THEN <<found[1]>> ELSE found)

RomajiReply(kanji) ==
    LET named == {i \in 1 .. Len(Published) : Published[i].kanji = kanji}
    IN  IF named = {} THEN Reply("unknown", <<>>)
        ELSE Reply("ok", <<Published[Min(named)].romaji>>)

(* The answer of a readable database. *)
AnswerOf(op, arg) ==
    CASE op = "Load" -> Reply("ok", <<>>)
      [] op \in {"Lookup", "LookupAll"} -> CodeReply(op, arg)
      [] op = "Prefectures" ->
            Reply("ok", [i \in 1 .. Len(Published) |-> PrefectureName(Published[i])])
      [] op = "PublishedPrefectureRomaji" -> RomajiReply(arg)
      [] op = "Len" -> Reply("ok", <<Len(Records)>>)
      [] op = "DataUpdated" -> Reply("ok", Updated)

(* The answer when the embedded data cannot be decoded: a malformed code   *)
(* is still called malformed, the operations that have an error to return  *)
(* return it, and the others panic.                                        *)
UnreadableAnswerOf(op, arg) ==
    CASE op = "Load" -> Reply("error", <<>>)
      [] op \in {"Lookup", "LookupAll"} ->
            IF WellFormed(arg) THEN Reply("error", <<>>)
            ELSE Reply("ErrInvalidCode", <<>>)
      [] OTHER -> Reply("panic", <<>>)
=============================================================================
