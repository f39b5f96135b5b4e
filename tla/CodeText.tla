------------------------------ MODULE CodeText ------------------------------
(***************************************************************************)
(* The texts parseCode reads (lookup.go) and digits writes (address.go).   *)
(* A rune is its class and, for a digit, the digit it stands for: ASCII    *)
(* and full-width digits, the separators of isCodeSeparator, the rest.     *)
(***************************************************************************)
EXTENDS Integers, Sequences

CONSTANTS
    Base,      \* 10
    CodeLen    \* digits of a zip code, 7

ASSUME BaseAssumption == Base \in Nat \ {0, 1}
ASSUME CodeLenAssumption == CodeLen \in Nat \ {0}

Runes ==
    [class : {"ascii", "wide"}, digit : 0 .. Base - 1]
      \cup [class : {"separator", "other"}, digit : {0}]

(* Mutant: full-width digits are forgotten. *)
MutantIsDigit(r) == r.class = "ascii"

IsDigit(r) == r.class \in {"ascii", "wide"}

(* How many codes there are of a width. *)
Codes(width) ==
    LET power[k \in 0 .. width] == IF k = 0 THEN 1 ELSE power[k - 1] * Base
    IN  power[width]

(* digits of address.go: v at a fixed width, the last digit first. *)
Digits(v, width) ==
    LET left[k \in 0 .. width] == IF k = 0 THEN v ELSE left[k - 1] \div Base
    IN  [i \in 1 .. width |-> left[width - i] % Base]

(* The number digits spell, the first one the most significant. *)
Value(ds) ==
    LET value[k \in 0 .. Len(ds)] ==
            IF k = 0 THEN 0 ELSE value[k - 1] * Base + ds[k]
    IN  value[Len(ds)]

(* The digits of a text, as typed. *)
Typed(s) ==
    LET typed[k \in 0 .. Len(s)] ==
            IF k = 0 THEN <<>>
            ELSE IF s[k].class \in {"ascii", "wide"}
            THEN Append(typed[k - 1], s[k].digit) ELSE typed[k - 1]
    IN  typed[Len(s)]

(* The texts parseCode accepts, and what it returns for them: ZipCode      *)
(* shows that it does.                                                     *)
WellFormed(s) ==
    /\ \A i \in 1 .. Len(s) : s[i].class # "other"
    /\ Len(Typed(s)) = CodeLen

CodeOf(s) == Value(Typed(s))
=============================================================================
