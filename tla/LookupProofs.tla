---------------------------- MODULE LookupProofs ----------------------------
(***************************************************************************)
(* From the text to the records, for every text, every width of code and   *)
(* every column of any length.  First Store.Range (StoreRange): its        *)
(* inductive invariant is the bracket of the binary search, then the run   *)
(* the scan has crossed.  Then parseCode (ZipCode): what it has read so    *)
(* far is a beginning of the text, and its number is what the digits of    *)
(* that beginning spell.  Last the two together (Lookup).                  *)
(***************************************************************************)
EXTENDS Lookup, Foundations

-----------------------------------------------------------------------------
(* Where a probe of the search falls: strictly inside the bracket. *)
LEMMA MiddleInside ==
    ASSUME NEW a \in Nat, NEW b \in Nat, a < b
    PROVE  /\ (a + b) \div 2 \in Nat
           /\ a <= (a + b) \div 2
           /\ (a + b) \div 2 < b
  OBVIOUS

(* The call starts with the whole column as its bracket. *)
LEMMA InitIInv == Init => IInv
  <1> SUFFICES ASSUME Init PROVE IInv
    OBVIOUS
  <1>1. TypeOK
    BY MaxZipAssumption, MaxRecordsAssumption DEF Init, TypeOK
  <1>2. Bracketed
    BY DEF Init, Bracketed, Indices
  <1>3. Scanned /\ (pc = "done" => ~InRun)
    BY DEF Init, Scanned
  <1> QED
    BY <1>1, <1>2, <1>3 DEF IInv, Init

(* Every step of the search and of the scan keeps the invariant. *)
LEMMA NextIInv == IInv /\ [Next]_vars => IInv'
  <1> SUFFICES ASSUME IInv, [Next]_vars PROVE IInv'
    OBVIOUS
  <1> USE DEF IInv, TypeOK
  <1>1. CASE ProbeHigh
    <2> DEFINE m == Middle
    <2>1. m \in Nat /\ lo <= m /\ m < hi /\ m \in Indices
      BY <1>1, MiddleInside DEF ProbeHigh, Middle, Indices
    <2>2. zips[m] >= zip
      BY <1>1 DEF ProbeHigh, AtLeast
    <2>3. TypeOK'
      BY <1>1, <2>1 DEF ProbeHigh
    <2>4. Bracketed'
      <3>1. \A i \in Indices : i >= m => zips[i] >= zip
        <4> TAKE i \in Indices
        <4> HAVE i >= m
        <4>1. zips[m] <= zips[i]
          BY <2>1 DEF Ascending, Indices
        <4>2. zips[m] \in Nat /\ zips[i] \in Nat /\ zip \in Nat
          BY <2>1 DEF Indices
        <4> QED
          BY <2>2, <4>1, <4>2
      <3> QED
        BY <1>1, <2>1, <3>1 DEF ProbeHigh, Bracketed, Indices
    <2>5. Ascending' /\ Scanned' /\ (pc = "done" => ~InRun)'
      BY <1>1 DEF ProbeHigh, Ascending, Scanned, Indices
    <2> QED
      BY <2>3, <2>4, <2>5
  <1>2. CASE ProbeLow
    <2> DEFINE m == Middle
    <2>1. m \in Nat /\ lo <= m /\ m < hi /\ m \in Indices
      BY <1>2, MiddleInside DEF ProbeLow, Middle, Indices
    <2>2. zips[m] < zip
      BY <1>2, <2>1 DEF ProbeLow, AtLeast, Indices
    <2>3. TypeOK'
      BY <1>2, <2>1 DEF ProbeLow
    <2>4. Bracketed'
      <3>1. \A i \in Indices : i < m + 1 => zips[i] < zip
        <4> TAKE i \in Indices
        <4> HAVE i < m + 1
        <4>1. zips[i] <= zips[m]
          BY <2>1 DEF Ascending, Indices
        <4>2. zips[m] \in Nat /\ zips[i] \in Nat /\ zip \in Nat
          BY <2>1 DEF Indices
        <4> QED
          BY <2>2, <4>1, <4>2
      <3> QED
        BY <1>2, <2>1, <3>1 DEF ProbeLow, Bracketed, Indices
    <2>5. Ascending' /\ Scanned' /\ (pc = "done" => ~InRun)'
      BY <1>2 DEF ProbeLow, Ascending, Scanned, Indices
    <2> QED
      BY <2>3, <2>4, <2>5
  <1>3. CASE Found
    <2>1. lo = hi
      BY <1>3 DEF Found, Bracketed
    <2> QED
      BY <1>3, <2>1 DEF Found, Bracketed, Scanned, Ascending, Indices
  <1>4. CASE Extend
    <2>1. end < n /\ zips[end] = zip
      BY <1>4 DEF Extend, InRun
    <2> QED
      BY <1>4, <2>1 DEF Extend, Bracketed, Scanned, Ascending, Indices
  <1>5. CASE Return
    BY <1>5 DEF Return, Bracketed, Scanned, Ascending, InRun, Indices
  <1>6. CASE UNCHANGED vars
    BY <1>6 DEF vars, Bracketed, Scanned, Ascending, InRun, Indices
  <1> QED
    BY <1>1, <1>2, <1>3, <1>4, <1>5, <1>6 DEF Next

(* A scan that has stopped has crossed the whole run: the next record, if  *)
(* there is one, carries another code, and so does every one after it.     *)
LEMMA IInvExact == IInv => RangeIsExact
  <1> SUFFICES ASSUME IInv, pc = "done"
               PROVE  /\ start <= end
                      /\ \A i \in Indices :
                            zips[i] = zip <=> (start <= i /\ i < end)
    BY DEF RangeIsExact
  <1> USE DEF IInv, TypeOK
  <1>1. start <= end
    BY DEF Scanned
  <1>2. ASSUME NEW i \in Indices
        PROVE  zips[i] = zip <=> (start <= i /\ i < end)
    <2>1. i < start => zips[i] # zip
      BY DEF Scanned, Indices
    <2>2. start <= i /\ i < end => zips[i] = zip
      BY DEF Scanned
    <2>3. ASSUME i >= end
          PROVE  zips[i] # zip
      <3>1. end \in Indices
        BY <2>3 DEF Indices
      <3>2. zips[end] # zip /\ zips[end] >= zip
        BY <1>1, <3>1 DEF InRun, Scanned, Indices
      <3>3. zips[end] <= zips[i]
        BY <2>3, <3>1 DEF Ascending
      <3>4. zips[end] \in Nat /\ zips[i] \in Nat /\ zip \in Nat
        BY <3>1 DEF Indices
      <3> QED
        BY <3>2, <3>3, <3>4
    <2> QED
      BY <2>1, <2>2, <2>3 DEF Indices
  <1> QED
    BY <1>1, <1>2

(* Every index the search and the scan touch is one of the store's, for    *)
(* every column of every length: what lies below the bracket is below the  *)
(* code, and what lies above is not.                                       *)
THEOREM Inductive == Spec => []IInv
  BY InitIInv, NextIInv, PTL DEF Spec

(* Range answers every call with exactly the records that carry the code.  *)
THEOREM RangeCorrect == Spec => []RangeIsExact
  BY InitIInv, NextIInv, IInvExact, PTL DEF Spec

-----------------------------------------------------------------------------
(* What parseCode has read. *)
Prefix == SubSeq(text, 1, read)

(* The number and the count of digits are those of what has been read; a   *)
(* refused text has a reason to be refused.                                *)
ParseInv ==
    /\ text \in Seq(Runes)
    /\ read \in 0 .. Len(text)
    /\ ok \in {"reading", "yes", "no"}
    /\ digits = Len(Typed(Prefix)) /\ digits <= CodeLen
    /\ ok = "no" => code \in Nat /\ code < Codes(digits) /\ ~WellFormed(text)
    /\ ok # "no" =>
          /\ code = Value(Typed(Prefix))
          /\ \A i \in 1 .. read : text[i].class # "other"
    /\ ok = "yes" => read = Len(text) /\ digits = CodeLen

(* The search waits for the text, and then looks for what it spells.       *)
LookupInv ==
    /\ ParseInv
    /\ IInv
    /\ ok # "yes" => n = 0 /\ lo = 0 /\ start = 0 /\ end = 0 /\ pc = "search"
    /\ ok = "yes" => zip = code

(* Nothing has been read: no digits and the number zero.                   *)
LEMMA InitParse == ParseInit => ParseInv
  <1> SUFFICES ASSUME ParseInit PROVE ParseInv
    OBVIOUS
  <1>1. text \in Seq(Runes) /\ read = 0 /\ code = 0 /\ digits = 0 /\ ok = "reading"
    BY LookupAssumption DEF ParseInit
  <1>2. Typed(Prefix) = <<>>
    BY <1>1, TypedIs DEF Prefix
  <1>3. Len(Typed(Prefix)) = 0 /\ Value(Typed(Prefix)) = 0
    <2>1. <<>> \in Seq(Nat) /\ 0 \in Nat /\ Len(<<>>) = 0
      OBVIOUS
    <2> QED
      BY <1>2, <2>1, ValueIs, Zenon
  <1> QED
    BY <1>1, <1>3, CodeLenAssumption DEF ParseInv

(* What the rune after the prefix does to the digits.                      *)
LEMMA NextRune ==
    ASSUME ParseInv, read < Len(text)
    PROVE  /\ Rune \in Runes
           /\ Typed(Prefix) \in Seq(Numerals)
           /\ Typed(SubSeq(text, 1, read + 1)) =
                 IF IsDigit(Rune) THEN Append(Typed(Prefix), Rune.digit)
                 ELSE Typed(Prefix)
           /\ Len(Typed(SubSeq(text, 1, read + 1))) <= Len(Typed(text))
  <1>1. text \in Seq(Runes) /\ read \in 0 .. Len(text)
        /\ read + 1 \in 1 .. Len(text) /\ read + 1 \in 0 .. Len(text)
        /\ read + 1 - 1 = read
    BY DEF ParseInv
  <1>2. Rune \in Runes
    BY <1>1 DEF Rune
  <1> DEFINE k == read + 1
  <1>6. k \in 1 .. Len(text) /\ k - 1 = read /\ text[k] = Rune
    BY <1>1 DEF Rune
  <1> HIDE DEF k
  <1>3. Typed(SubSeq(text, 1, k)) =
           IF IsDigit(Rune) THEN Append(Typed(Prefix), Rune.digit)
           ELSE Typed(Prefix)
    <2>1. Typed(SubSeq(text, 1, k)) =
             IF text[k].class \in {"ascii", "wide"}
             THEN Append(Typed(SubSeq(text, 1, k - 1)), text[k].digit)
             ELSE Typed(SubSeq(text, 1, k - 1))
      BY <1>1, <1>6, TypedIs
    <2> QED
      BY <2>1, <1>6, Zenon DEF IsDigit, Prefix
  <1>4. Typed(Prefix) \in Seq(Numerals)
    BY <1>1, TypedIs, Zenon DEF Prefix
  <1>5. Len(Typed(SubSeq(text, 1, read + 1))) <= Len(Typed(text))
    BY <1>1, TypedGrows, Zenon
  <1> QED
    BY <1>2, <1>3, <1>4, <1>5, Zenon DEF k

(* Every step of parseCode keeps the number in step with what was read.    *)
LEMMA StepParse ==
    ASSUME ParseInv, ReadDigit \/ SkipSeparator \/ Refuse \/ Finish
    PROVE  ParseInv'
  <1> USE DEF ParseInv
  <1>0. /\ text \in Seq(Runes) /\ read \in 0 .. Len(text)
        /\ Numerals \subseteq Nat /\ CodeLen \in Nat
        /\ 0 \in Numerals
    BY BaseAssumption, CodeLenAssumption DEF Numerals
  <1>1. CASE ReadDigit
    <2> DEFINE ds == Typed(Prefix)
    <2>1. /\ text' = text /\ read' = read + 1 /\ read < Len(text)
          /\ ok = "reading" /\ ok' = ok
          /\ digits < CodeLen /\ digits' = digits + 1
          /\ code' = code * Base + Rune.digit
          /\ IsDigit(Rune)
      BY <1>1 DEF ReadDigit, More
    <2>2. /\ Rune \in Runes /\ ds \in Seq(Numerals)
          /\ Typed(Prefix') = Append(ds, Rune.digit)
      BY <2>1, NextRune DEF Prefix
    <2>3. Rune.digit \in Numerals /\ Rune.class # "other"
      BY <2>1, <2>2, BaseAssumption DEF Runes, Numerals, IsDigit
    <2>4. ds \in Seq(Nat) /\ Rune.digit \in Nat
      BY <1>0, <2>2, <2>3, SeqMonotonic
    <2>5. Value(Append(ds, Rune.digit)) = Value(ds) * Base + Rune.digit
      BY <2>4, ValueIs
    <2>6. Len(Append(ds, Rune.digit)) = Len(ds) + 1 /\ Len(ds) \in Nat
      BY <2>2, <2>3, AppendProperties
    <2>7. code = Value(ds) /\ digits = Len(ds)
      BY <2>1
    <2>8. \A i \in 1 .. read + 1 : text[i].class # "other"
      <3>1. \A i \in 1 .. read + 1 : i \in 1 .. read \/ i = read + 1
        BY <1>0
      <3> QED
        BY <2>1, <2>3, <3>1 DEF Rune
    <2>a. Len(Typed(Prefix')) = digits + 1 /\ Value(Typed(Prefix')) = code'
      BY <2>1, <2>2, <2>5, <2>6, <2>7
    <2>b. digits + 1 <= CodeLen
      BY <1>0, <2>1, <2>6, <2>7
    <2>9. (Typed(Prefix))' = Typed(Prefix')
      BY DEF Typed
    <2> QED
      BY <1>0, <2>1, <2>8, <2>9, <2>a, <2>b
  <1>2. CASE SkipSeparator
    <2>1. /\ text' = text /\ read' = read + 1 /\ read < Len(text)
          /\ ok = "reading" /\ ok' = ok /\ digits' = digits /\ code' = code
          /\ Rune.class = "separator"
      BY <1>2 DEF SkipSeparator, More
    <2>2. Typed(Prefix') = Typed(Prefix)
      BY <2>1, NextRune DEF Prefix, IsDigit
    <2>3. \A i \in 1 .. read + 1 : text[i].class # "other"
      <3>1. \A i \in 1 .. read + 1 : i \in 1 .. read \/ i = read + 1
        BY <1>0
      <3> QED
        BY <2>1, <3>1 DEF Rune
    <2>4. (Typed(Prefix))' = Typed(Prefix')
      BY DEF Typed
    <2> QED
      BY <1>0, <2>1, <2>2, <2>3, <2>4
  <1>3. CASE Refuse
    <2>1. /\ text' = text /\ read' = read /\ read < Len(text) /\ digits' = digits
          /\ ok = "reading" /\ ok' = "no" /\ code' = 0
      BY <1>3 DEF Refuse, More
    <2>2. ~WellFormed(text)
      <3>1. CASE IsDigit(Rune) /\ digits = CodeLen
        <4>1. /\ Rune \in Runes /\ Typed(Prefix) \in Seq(Numerals)
              /\ Len(Append(Typed(Prefix), Rune.digit)) <= Len(Typed(text))
          BY <2>1, <3>1, NextRune
        <4>2. Rune.digit \in Numerals
          BY <4>1, BaseAssumption DEF Runes, Numerals
        <4>3. Len(Append(Typed(Prefix), Rune.digit)) = CodeLen + 1
          <5>1. Len(Typed(Prefix)) = CodeLen
            BY <3>1
          <5> QED
            BY <4>1, <4>2, <5>1, AppendProperties
        <4>4. Len(Typed(text)) # CodeLen
          <5>1. Len(Typed(text)) \in Nat
            BY <1>0, TypedIs
          <5> QED
            BY <1>0, <4>1, <4>3, <5>1
        <4> QED
          BY <4>4 DEF WellFormed
      <3>2. CASE ~IsDigit(Rune) /\ Rune.class # "separator"
        <4>1. Rune \in Runes
          BY <2>1, NextRune
        <4>2. Rune.class = "other"
          BY <3>2, <4>1 DEF Runes, IsDigit
        <4>3. read + 1 \in 1 .. Len(text)
          BY <1>0, <2>1
        <4> QED
          BY <4>2, <4>3 DEF WellFormed, Rune
      <3> QED
        BY <1>3, <3>1, <3>2 DEF Refuse
    <2>3. digits \in Nat /\ 0 < Codes(digits)
      <3>1. Typed(Prefix) \in Seq(Numerals)
        BY <2>1, NextRune
      <3>2. digits \in Nat
        BY <3>1
      <3>3. Codes(digits) \in Nat \ {0}
        BY <3>2, CodesIs
      <3> QED
        BY <3>2, <3>3
    <2>4. (Typed(Prefix))' = Typed(Prefix) /\ WellFormed(text)' = WellFormed(text)
          /\ Codes(digits)' = Codes(digits)
      <3>1. (Typed(Prefix))' = Typed(Prefix)
        BY <2>1, Zenon DEF Prefix
      <3>2. WellFormed(text)' = WellFormed(text)
        BY <2>1
      <3>3. Codes(digits)' = Codes(digits)
        BY <2>1
      <3> QED
        BY <3>1, <3>2, <3>3
    <2> QED
      BY <1>0, <2>1, <2>2, <2>3, <2>4
  <1>4. CASE Finish
    <2>1. /\ text' = text /\ read' = read /\ read = Len(text)
          /\ ok = "reading" /\ digits' = digits /\ code' = code
          /\ ok' = IF digits = CodeLen THEN "yes" ELSE "no"
      BY <1>4 DEF Finish
    <2>2. Prefix = text
      BY <1>0, <2>1, SubSeqFull DEF Prefix
    <2>3. digits = Len(Typed(text)) /\ code = Value(Typed(text))
      BY <2>1, <2>2
    <2>4. digits \in Nat /\ code \in Nat /\ code < Codes(digits)
      <3>1. Typed(text) \in Seq(Numerals)
        BY <1>0, TypedIs
      <3> QED
        BY <2>3, <3>1, ValueFits
    <2>5. digits # CodeLen => ~WellFormed(text)
      BY <2>3 DEF WellFormed
    <2>6. (Typed(Prefix))' = Typed(Prefix) /\ WellFormed(text)' = WellFormed(text)
          /\ Codes(digits)' = Codes(digits)
      <3>1. Prefix' = Prefix
        BY <2>1 DEF Prefix
      <3>2. (Typed(Prefix))' = Typed(Prefix')
        BY DEF Typed
      <3>3. WellFormed(text)' = WellFormed(text')
        BY DEF WellFormed, Typed
      <3>4. Codes(digits)' = Codes(digits')
        BY DEF Codes
      <3> QED
        BY <2>1, <3>1, <3>2, <3>3, <3>4
    <2>7. Value(Typed(Prefix))' = Value((Typed(Prefix))')
      BY DEF Value
    <2> QED
      BY <1>0, <2>1, <2>4, <2>5, <2>6, <2>7
  <1> QED
    BY <1>1, <1>2, <1>3, <1>4

(* While the search runs nothing more is read.                             *)
LEMMA SameParse == ParseInv /\ UNCHANGED parseVars => ParseInv'
  <1> SUFFICES ASSUME ParseInv, UNCHANGED parseVars PROVE ParseInv'
    OBVIOUS
  <1>1. /\ text' = text /\ read' = read /\ code' = code /\ digits' = digits
        /\ ok' = ok
    BY DEF parseVars
  <1>2. Prefix' = Prefix
    BY <1>1 DEF Prefix
  <1>3. (Typed(Prefix))' = Typed(Prefix')
    BY DEF Typed
  <1>4. WellFormed(text)' = WellFormed(text')
    BY DEF WellFormed, Typed
  <1>5. Codes(digits)' = Codes(digits')
    BY DEF Codes
  <1>6. Value(Typed(Prefix))' = Value((Typed(Prefix))')
    BY DEF Value
  <1> QED
    BY <1>1, <1>2, <1>3, <1>4, <1>5, <1>6 DEF ParseInv

(* The number of a text that is accepted is the one its digits spell.      *)
LEMMA ParseInvExact == ParseInv => ParseIsExact
  <1> SUFFICES ASSUME ParseInv PROVE ParseIsExact
    OBVIOUS
  <1> USE DEF ParseInv
  <1>1. Typed(Prefix) \in Seq(Numerals)
    BY TypedIs DEF Prefix
  <1>2. ok # "no" => code < Codes(digits) /\ Digits(code, digits) = Typed(Prefix)
    BY <1>1, ValueFits
  <1>3. ASSUME ok = "yes"
        PROVE  /\ WellFormed(text)
               /\ code = CodeOf(text)
               /\ Digits(code, CodeLen) = Typed(text)
    <2>1. Prefix = text
      BY <1>3, SubSeqFull DEF Prefix
    <2> QED
      BY <1>2, <1>3, <2>1 DEF WellFormed, CodeOf
  <1> QED
    BY <1>2, <1>3 DEF ParseIsExact

-----------------------------------------------------------------------------
(* Before the first rune the search stands on an empty column.             *)
LEMMA InitLookup == LookupInit => LookupInv
  <1> SUFFICES ASSUME LookupInit PROVE LookupInv
    OBVIOUS
  <1>1. ParseInv /\ IInv
    BY InitParse, InitIInv DEF LookupInit
  <1>2. n = 0 /\ lo = 0 /\ start = 0 /\ end = 0 /\ pc = "search" /\ ok = "reading"
    BY DEF LookupInit, Init, ParseInit
  <1> QED
    BY <1>1, <1>2 DEF LookupInv

(* The search begins with the whole of a sorted column as its bracket.     *)
LEMMA SearchBegins == LookupInv /\ Search => LookupInv'
  <1> SUFFICES ASSUME LookupInv, Search PROVE LookupInv'
    OBVIOUS
  <1>1. Finish /\ ok' = "yes" /\ ok = "reading" /\ code' = code
    BY DEF Search, Finish
  <1>2. ParseInv'
    BY <1>1, StepParse DEF LookupInv
  <1>3. zip' = code' /\ hi' = n' /\ n' \in 0 .. MaxRecords
        /\ lo' = 0 /\ start' = 0 /\ end' = 0 /\ pc' = "search"
    BY <1>1 DEF Search, LookupInv
  <1>4. n' \in Nat
    BY <1>3, MaxRecordsAssumption
  <1>5. zip' \in 0 .. MaxZip
    <2>1. Typed(Prefix)' \in Seq(Numerals)
      <3>1. text' \in Seq(Runes) /\ read' \in 0 .. Len(text')
        BY <1>2 DEF ParseInv
      <3>2. Typed(SubSeq(text', 1, read')) \in Seq(Numerals)
        BY <3>1, TypedIs
      <3>3. Typed(Prefix)' = Typed(SubSeq(text', 1, read'))
        BY DEF Typed, Prefix
      <3> QED
        BY <3>2, <3>3
    <2>2. code' = Value(Typed(Prefix)') /\ Len(Typed(Prefix)') = CodeLen
      <3>1. (code = Value(Typed(Prefix)))' /\ (digits = Len(Typed(Prefix)))'
            /\ digits' = CodeLen
        BY <1>1, <1>2 DEF ParseInv
      <3>2. Value(Typed(Prefix))' = Value(Typed(Prefix)')
        BY DEF Value
      <3> QED
        BY <3>1, <3>2
    <2>3. code' \in Nat /\ code' < Codes(CodeLen)
      BY <2>1, <2>2, ValueFits
    <2>4. Codes(CodeLen) \in Nat \ {0}
      BY CodeLenAssumption, CodesIs
    <2> QED
      BY <1>3, <2>3, <2>4, LookupAssumption
  <1>6. PICK m : m = n'
    OBVIOUS
  <1>7. TypeOK' /\ Ascending'
    <2>1. zips' \in [0 .. m - 1 -> 0 .. MaxZip]
          /\ \A i, j \in 0 .. m - 1 : i <= j => zips'[i] <= zips'[j]
      BY <1>6 DEF Search
    <2>2. Ascending'
      BY <1>6, <2>1 DEF Ascending, Indices
    <2>3. 0 \in 0 .. m /\ m \in 0 .. m
      BY <1>4, <1>6
    <2> QED
      BY <1>3, <1>4, <1>5, <1>6, <2>1, <2>2, <2>3 DEF TypeOK
  <1>8. Bracketed' /\ Scanned' /\ (pc = "done" => ~InRun)'
    <2>1. Bracketed'
      <3>0. m \in Nat
        BY <1>4, <1>6
      <3>1. \A i \in 0 .. m - 1 : ~(i < 0) /\ ~(i >= m)
        BY <3>0
      <3>2. lo' <= hi' /\ lo' = 0 /\ hi' = m
        BY <1>3, <1>4, <1>6
      <3> QED
        BY <1>6, <3>1, <3>2 DEF Bracketed, Indices
    <2>2. Scanned'
      BY <1>3 DEF Scanned
    <2>3. pc' # "done"
      BY <1>3
    <2> QED
      BY <2>1, <2>2, <2>3
  <1> QED
    BY <1>1, <1>2, <1>3, <1>7, <1>8 DEF LookupInv, IInv

(* Every step of Lookup keeps both parts as they should be.                *)
LEMMA StepLookup == LookupInv /\ [LookupNext]_<<vars, parseVars>> => LookupInv'
  <1> SUFFICES ASSUME LookupInv, [LookupNext]_<<vars, parseVars>>
               PROVE  LookupInv'
    OBVIOUS
  <1>0. ParseInv /\ IInv
    BY DEF LookupInv
  <1>1. CASE ReadRune
    <2>1. ParseInv'
      BY <1>0, <1>1, StepParse DEF ReadRune
    <2>2. IInv'
      BY <1>0, <1>1, NextIInv DEF ReadRune
    <2>3. ok = "reading" /\ ok' # "yes"
      BY <1>1 DEF ReadRune, ReadDigit, SkipSeparator, Refuse, More
    <2> QED
      BY <1>1, <2>1, <2>2, <2>3 DEF LookupInv, ReadRune, vars
  <1>2. CASE NoCode
    <2>1. ParseInv'
      BY <1>0, <1>2, StepParse DEF NoCode
    <2>2. IInv'
      BY <1>0, <1>2, NextIInv DEF NoCode
    <2>3. ok = "reading" /\ ok' = "no"
      BY <1>2 DEF NoCode, Finish
    <2> QED
      BY <1>2, <2>1, <2>2, <2>3 DEF LookupInv, NoCode, vars
  <1>3. CASE Search
    BY <1>3, SearchBegins
  <1>4. CASE RangeStep
    <2>1. IInv' /\ zip' = zip
      <3>1. IInv'
        BY <1>0, <1>4, NextIInv DEF RangeStep
      <3>2. zip' = zip
        BY <1>4 DEF RangeStep, Next, ProbeHigh, ProbeLow, Found, Extend, Return
      <3> QED
        BY <3>1, <3>2
    <2>2. ok = "yes" /\ UNCHANGED parseVars
      BY <1>4 DEF RangeStep
    <2>3. ParseInv'
      BY <1>0, <2>2, SameParse
    <2> QED
      BY <2>1, <2>2, <2>3 DEF LookupInv, parseVars
  <1>5. CASE UNCHANGED <<vars, parseVars>>
    <2>1. IInv' /\ UNCHANGED vars /\ UNCHANGED parseVars
      BY <1>0, <1>5, NextIInv
    <2>2. ParseInv'
      BY <1>0, <2>1, SameParse
    <2> QED
      BY <2>1, <2>2 DEF LookupInv, vars, parseVars
  <1> QED
    BY <1>1, <1>2, <1>3, <1>4, <1>5 DEF LookupNext

(* The records found are those whose code prints as what was typed: no two *)
(* codes of the column print alike.                                        *)
LEMMA LookupInvExact == LookupInv => LookupExact
  <1> SUFFICES ASSUME LookupInv, pc = "done", NEW i \in Indices
               PROVE  Digits(zips[i], CodeLen) = Typed(text)
                         <=> start <= i /\ i < end
    BY DEF LookupExact
  <1>1. ParseInv /\ IInv /\ ok = "yes" /\ zip = code /\ ParseIsExact /\ RangeIsExact
    BY ParseInvExact, IInvExact DEF LookupInv
  <1>2. zips[i] = zip <=> start <= i /\ i < end
    BY <1>1 DEF RangeIsExact
  <1>3. Digits(zip, CodeLen) = Typed(text) /\ zip = Value(Typed(text))
    BY <1>1 DEF ParseIsExact, CodeOf
  <1>4. zips[i] \in Nat /\ zips[i] < Codes(CodeLen)
    <2>1. Codes(CodeLen) \in Nat \ {0}
      BY CodeLenAssumption, CodesIs
    <2>2. zips[i] \in 0 .. MaxZip
      BY <1>1 DEF IInv, TypeOK, Indices
    <2> QED
      BY <2>1, <2>2, LookupAssumption
  <1>5. Value(Digits(zips[i], CodeLen)) = zips[i]
    BY <1>4, CodeLenAssumption, DigitsSpell
  <1> QED
    BY <1>2, <1>3, <1>5

(* A text is accepted exactly when it is a code, and the number is the one *)
(* it spells, for texts of every length and codes of every width.          *)
THEOREM ParseCorrect == LookupSpec => []ParseIsExact
  <1>1. LookupInv => ParseIsExact
    BY ParseInvExact DEF LookupInv
  <1> QED
    BY <1>1, InitLookup, StepLookup, PTL DEF LookupSpec

(* Within a lookup too, the search returns the records of its code.        *)
THEOREM LookupRange == LookupSpec => [](IInv /\ RangeIsExact)
  <1>1. LookupInv => IInv /\ RangeIsExact
    BY IInvExact DEF LookupInv
  <1> QED
    BY <1>1, InitLookup, StepLookup, PTL DEF LookupSpec

(* From the text to the records: Lookup returns the records that print as  *)
(* what was typed, all of them and no other.                               *)
THEOREM LookupCorrect == LookupSpec => []LookupExact
  BY LookupInvExact, InitLookup, StepLookup, PTL DEF LookupSpec
=============================================================================
