------------------------------ MODULE MCLookup ------------------------------
(***************************************************************************)
(* Every text of at most MaxText runes, with two-digit codes in base 2:    *)
(* digits, separators and strangers in every order, below, at and above    *)
(* the length of a code.  Each code is asked of every sorted column of at  *)
(* most MaxRecords codes: five hold an absent code, a unique one and a run *)
(* of equal ones on either side of the middle.                             *)
(***************************************************************************)
EXTENDS Lookup

CONSTANT MaxText

AllTexts == UNION {[1 .. len -> Runes] : len \in 0 .. MaxText}
=============================================================================
