------------------------------ MODULE ZipCode -------------------------------
(***************************************************************************)
(* parseCode of lookup.go: from the ways people write a zip code to the    *)
(* number the store is searched for.  One step is one rune; Lookup         *)
(* composes it with the search.                                            *)
(***************************************************************************)
EXTENDS CodeText

CONSTANT Texts      \* the strings handed to parseCode

VARIABLES
    text,          \* s
    read,          \* runes consumed
    code, digits,  \* zip and n of parseCode
    ok             \* "reading", "yes" or "no"

parseVars == <<text, read, code, digits, ok>>

ParseInit ==
    /\ text \in Texts
    /\ read = 0
    /\ code = 0
    /\ digits = 0
    /\ ok = "reading"

Rune == text[read + 1]

More == ok = "reading" /\ read < Len(text)

ReadDigit ==
    /\ More
    /\ IsDigit(Rune)
    /\ digits < CodeLen
    /\ code' = code * Base + Rune.digit
    /\ digits' = digits + 1
    /\ read' = read + 1
    /\ UNCHANGED <<text, ok>>

SkipSeparator ==
    /\ More
    /\ Rune.class = "separator"
    /\ read' = read + 1
    /\ UNCHANGED <<text, code, digits, ok>>

(* One digit too many, or a rune that has no place in a code. *)
Refuse ==
    /\ More
    /\ \/ IsDigit(Rune) /\ digits = CodeLen
       \/ ~IsDigit(Rune) /\ Rune.class # "separator"
    /\ ok' = "no"
    /\ code' = 0
    /\ UNCHANGED <<text, read, digits>>

(* Mutant: a code with digits missing is taken for one with leading zeros. *)
MutantFinish ==
    /\ ok = "reading"
    /\ read = Len(text)
    /\ ok' = IF digits > 0 THEN "yes" ELSE "no"
    /\ UNCHANGED <<text, read, code, digits>>

Finish ==
    /\ ok = "reading"
    /\ read = Len(text)
    /\ ok' = IF digits = CodeLen THEN "yes" ELSE "no"
    /\ UNCHANGED <<text, read, code, digits>>

-----------------------------------------------------------------------------
(* A text is accepted exactly when it holds seven digits and separators,   *)
(* in any positions and either width, and nothing else; the code is then   *)
(* the one that prints as the digits typed, leading zeros included,        *)
(* and on the way the number never exceeds what the digits read so far can *)
(* spell, so that the uint32 of the code cannot overflow                   *)
(* (lookup.go:22-24, 105-128, address.go:168-177).                         *)
ParseIsExact ==
    /\ digits <= CodeLen /\ code < Codes(digits)
    /\ ok = "yes" =>
          /\ WellFormed(text)
          /\ code = CodeOf(text)
          /\ Digits(code, CodeLen) = Typed(text)
    /\ ok = "no" => ~WellFormed(text)
=============================================================================
