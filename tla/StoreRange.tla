----------------------------- MODULE StoreRange -----------------------------
(***************************************************************************)
(* Store.Range of internal/binfmt/decode.go: the binary search every       *)
(* lookup starts with.  The zip codes of a decoded store are one sorted    *)
(* column in which a code may repeat, and Range(zip) returns the half-open *)
(* index range [start, end) of the records that carry zip: a lower bound   *)
(* found by sort.Search, then a scan over the run of equal codes.          *)
(*                                                                         *)
(* One step is one probe of the search or one comparison of the scan.      *)
(* Indices are those of the code, from zero.                               *)
(***************************************************************************)
EXTENDS Integers

CONSTANTS
    MaxZip,      \* maxZip of format.go: the largest code the decoder accepts
    MaxRecords   \* bound on the number of records of a store

ASSUME MaxZipAssumption == MaxZip \in Nat
ASSUME MaxRecordsAssumption == MaxRecords \in Nat

VARIABLES
    n,           \* Store.Len
    zips,        \* Store.zips
    zip,         \* the code asked for
    lo, hi,      \* sort.Search: the answer lies in lo..hi
    start, end,  \* the results of Range
    pc

vars == <<n, zips, zip, lo, hi, start, end, pc>>

Indices == 0 .. n - 1

Ascending == \A i, j \in Indices : i <= j => zips[i] <= zips[j]

-----------------------------------------------------------------------------
(* The predicate Range hands to sort.Search. *)

(* Mutant: the search looks for the upper bound. *)
MutantAbove(i) == zips[i] > zip

AtLeast(i) == zips[i] >= zip

Init ==
    /\ n \in 0 .. MaxRecords
    /\ zips \in [0 .. n - 1 -> 0 .. MaxZip]
    /\ Ascending
    /\ zip \in 0 .. MaxZip
    /\ lo = 0
    /\ hi = n
    /\ start = 0
    /\ end = 0
    /\ pc = "search"

Middle == (lo + hi) \div 2

(* A probe above the answer moves hi, one below it moves lo past it. *)

(* Mutant: a probe that may be the answer is dropped. *)
MutantProbeHigh ==
    /\ pc = "search"
    /\ lo < hi
    /\ AtLeast(Middle)
    /\ hi' = Middle - 1
    /\ UNCHANGED <<n, zips, zip, lo, start, end, pc>>

ProbeHigh ==
    /\ pc = "search"
    /\ lo < hi
    /\ AtLeast(Middle)
    /\ hi' = Middle
    /\ UNCHANGED <<n, zips, zip, lo, start, end, pc>>

(* Mutant: the bracket does not shrink. *)
MutantProbeLow ==
    /\ pc = "search"
    /\ lo < hi
    /\ ~AtLeast(Middle)
    /\ lo' = Middle
    /\ UNCHANGED <<n, zips, zip, hi, start, end, pc>>

ProbeLow ==
    /\ pc = "search"
    /\ lo < hi
    /\ ~AtLeast(Middle)
    /\ lo' = Middle + 1
    /\ UNCHANGED <<n, zips, zip, hi, start, end, pc>>

Found ==
    /\ pc = "search"
    /\ lo >= hi
    /\ start' = lo
    /\ end' = lo
    /\ pc' = "scan"
    /\ UNCHANGED <<n, zips, zip, lo, hi>>

InRun == end < n /\ zips[end] = zip

Extend ==
    /\ pc = "scan"
    /\ InRun
    /\ end' = end + 1
    /\ UNCHANGED <<n, zips, zip, lo, hi, start, pc>>

Return ==
    /\ pc = "scan"
    /\ ~InRun
    /\ pc' = "done"
    /\ UNCHANGED <<n, zips, zip, lo, hi, start, end>>

Next == ProbeHigh \/ ProbeLow \/ Found \/ Extend \/ Return

(* Range is a sequential function: once called it keeps running. *)
Spec == Init /\ [][Next]_vars /\ WF_vars(Next)

-----------------------------------------------------------------------------
(* The variables of Range stay inside the store: every index the search    *)
(* probes and the scan compares is one the zips column has.                *)
TypeOK ==
    /\ n \in Nat
    /\ zips \in [0 .. n - 1 -> 0 .. MaxZip]
    /\ zip \in 0 .. MaxZip
    /\ lo \in 0 .. n
    /\ hi \in 0 .. n
    /\ start \in 0 .. n
    /\ end \in 0 .. n
    /\ pc \in {"search", "scan", "done"}

(* What the loop of sort.Search keeps true: everything below lo is below   *)
(* the code, everything from hi on is at least the code.                   *)
Bracketed ==
    pc = "search" =>
        /\ lo <= hi
        /\ \A i \in Indices : i < lo => zips[i] < zip
        /\ \A i \in Indices : i >= hi => zips[i] >= zip

(* What the scan keeps true: start is the lower bound of the code, and     *)
(* [start, end) holds only the code.                                       *)
Scanned ==
    pc \in {"scan", "done"} =>
        /\ start <= end
        /\ \A i \in Indices : i < start => zips[i] < zip
        /\ \A i \in Indices : i >= start => zips[i] >= zip
        /\ \A i \in Indices : start <= i /\ i < end => zips[i] = zip

(* Range returns exactly the records that carry the code, all of them and  *)
(* no other, also when the code is absent (an empty range), repeated, or   *)
(* at either end of the column (decode.go:310-319).                        *)
RangeIsExact ==
    pc = "done" =>
        /\ start <= end
        /\ \A i \in Indices : zips[i] = zip <=> (start <= i /\ i < end)

(* The inductive invariant of the proof. *)
IInv ==
    /\ TypeOK
    /\ Ascending
    /\ Bracketed
    /\ Scanned
    /\ pc = "done" => ~InRun
=============================================================================
