------------------------------- MODULE Lookup -------------------------------
(***************************************************************************)
(* Lookup of lookup.go from the text to the records: parseCode (ZipCode),  *)
(* and Store.Range (StoreRange) for a text it accepts, over whatever       *)
(* column the store has.                                                   *)
(***************************************************************************)
EXTENDS StoreRange, ZipCode

(* Every code of CodeLen digits is one the store may hold. *)
ASSUME LookupAssumption ==
    Texts \subseteq Seq(Runes) /\ MaxZip = Codes(CodeLen) - 1

(* Before the store is consulted, the search stands on an empty column. *)
LookupInit ==
    /\ ParseInit
    /\ n = 0 /\ zip = 0
    /\ Init

ReadRune ==
    /\ ReadDigit \/ SkipSeparator \/ Refuse
    /\ UNCHANGED vars

NoCode == Finish /\ ok' = "no" /\ UNCHANGED vars

Search ==
    /\ Finish
    /\ ok' = "yes"
    /\ zip' = code
    /\ n' \in 0 .. MaxRecords
    /\ \E column \in [0 .. n' - 1 -> 0 .. MaxZip] :
          /\ \A i, j \in 0 .. n' - 1 : i <= j => column[i] <= column[j]
          /\ zips' = column
    /\ hi' = n'
    /\ UNCHANGED <<lo, start, end, pc>>

RangeStep == ok = "yes" /\ Next /\ UNCHANGED parseVars

LookupNext == ReadRune \/ NoCode \/ Search \/ RangeStep

(* Lookup is sequential: once called it runs to its return. *)
LookupSpec ==
    /\ LookupInit /\ [][LookupNext]_<<vars, parseVars>>
    /\ WF_<<vars, parseVars>>(LookupNext)

-----------------------------------------------------------------------------
(* What Lookup returns are the records whose code prints as the digits     *)
(* that were typed, all of them and no other (lookup.go:20-43,             *)
(* decode.go:310-319, address.go:168-177).                                 *)
LookupExact ==
    pc = "done" =>
        \A i \in Indices :
            Digits(zips[i], CodeLen) = Typed(text) <=> start <= i /\ i < end

(* Lookup returns, whatever the text and the column: no rune is read twice *)
(* and no probe leaves the bracket as wide as it was.                      *)
Returns == <>(ok = "no" \/ pc = "done")
=============================================================================
