---------------------------- MODULE Foundations -----------------------------
(***************************************************************************)
(* What the proofs of several modules rest on.                             *)
(*                                                                         *)
(* Induction over the natural numbers, functions defined by recursion, the *)
(* places of numbers in a set and of elements in an order, and sequences   *)
(* laid end to end: stated of sets and functions, so that first-order      *)
(* provers can use them.  What carries the argument is that no finite set  *)
(* is mapped one-to-one to a smaller one.                                  *)
(*                                                                         *)
(* And codes and their digits (CodeText), for every base and every width:  *)
(* the digits of a number spell it, and digits are those of the number     *)
(* they spell.                                                             *)
(***************************************************************************)
EXTENDS CodeText, FiniteSetsExt, SequencesExt, FiniteSetTheorems,
        SequenceTheorems, TLAPS

(* A set of natural numbers has an element whose predecessor is not in it: *)
(* otherwise taking the predecessor would map the elements up to any one   *)
(* into those below it.                                                    *)
LEMMA LeastElement ==
    ASSUME NEW S \in SUBSET Nat, NEW m \in S
    PROVE  \E i \in S : i = 0 \/ i - 1 \notin S
  <1> SUFFICES ASSUME \A i \in S : i # 0 /\ i - 1 \in S
               PROVE  FALSE
    OBVIOUS
  <1> DEFINE B == S \cap (0 .. m)
             f == [i \in B |-> i - 1]
  <1>1. IsFiniteSet(B)
    <2>1. IsFiniteSet(0 .. m)
      BY FS_Interval
    <2> QED
      BY <2>1, FS_Subset
  <1>2. /\ IsFiniteSet(B \ {m})
        /\ Cardinality(B \ {m}) = Cardinality(B) - 1
        /\ Cardinality(B) \in Nat
    <2>1. m \in B
      OBVIOUS
    <2> HIDE DEF B
    <2> QED
      BY <1>1, <2>1, FS_RemoveElement, FS_CardinalityType
  <1>3. f \in [B -> B \ {m}]
    OBVIOUS
  <1>4. \E i, j \in B : i # j /\ f[i] = f[j]
    <2> HIDE DEF B, f
    <2>1. Cardinality(B \ {m}) < Cardinality(B)
      BY <1>2
    <2> QED
      BY <1>1, <1>2, <2>1, <1>3, FS_PigeonHole
  <1> QED
    BY <1>4

(* A set that holds zero, and with a number the next one, holds them all. *)
THEOREM SetInduction ==
    ASSUME NEW S, 0 \in S, \A i \in Nat : i \in S => i + 1 \in S
    PROVE  Nat \subseteq S
  <1> DEFINE T == Nat \ S
  <1> SUFFICES ASSUME NEW m \in T PROVE FALSE
    OBVIOUS
  <1>1. PICK i \in T : i = 0 \/ i - 1 \notin T
    BY LeastElement
  <1> QED
    BY <1>1

(* The same up to a bound. *)
LEMMA BoundedInduction ==
    ASSUME NEW S, NEW m \in Nat, 0 \in S,
           \A i \in 0 .. m - 1 : i \in S => i + 1 \in S
    PROVE  0 .. m \subseteq S
  <1> DEFINE T == S \cup {i \in Nat : i > m}
  <1>1. 0 \in T /\ \A i \in Nat : i \in T => i + 1 \in T
    OBVIOUS
  <1>2. Nat \subseteq T
    <2> HIDE DEF T
    <2> QED
      BY <1>1, SetInduction
  <1> QED
    BY <1>2

(* Two functions that start alike and go on alike agree. *)
LEMMA Agreement ==
    ASSUME NEW f, NEW g, NEW m \in Nat, f[0] = g[0],
           \A k \in 1 .. m : f[k - 1] = g[k - 1] => f[k] = g[k]
    PROVE  \A k \in 0 .. m : f[k] = g[k]
  <1> DEFINE S == {k \in 0 .. m : f[k] = g[k]}
  <1>1. 0 \in S
    OBVIOUS
  <1>2. \A k \in 0 .. m - 1 : k \in S => k + 1 \in S
    <2> SUFFICES ASSUME NEW k \in 0 .. m - 1, k \in S PROVE k + 1 \in S
      OBVIOUS
    <2>1. k + 1 \in 1 .. m /\ (k + 1) - 1 = k
      OBVIOUS
    <2>2. f[k] = g[k] => f[k + 1] = g[k + 1]
      BY <2>1
    <2> QED
      BY <2>1, <2>2
  <1> HIDE DEF S
  <1>3. 0 .. m \subseteq S
    BY <1>1, <1>2, BoundedInduction
  <1> QED
    BY <1>3 DEF S

(* What computes the value of a function from the one before, and a        *)
(* function computed so.                                                   *)
Steps(T, m) == [1 .. m -> [T -> T]]

Computed(f, T, a, m, step) ==
    /\ f \in [0 .. m -> T]
    /\ f[0] = a
    /\ \A k \in 1 .. m : f[k] = step[k][f[k - 1]]

(* There is a function with a given value at zero, each value of which     *)
(* follows from the one before.                                            *)
LEMMA Recursion ==
    ASSUME NEW T, NEW a \in T, NEW m \in Nat, NEW step \in Steps(T, m)
    PROVE  \E f : Computed(f, T, a, m, step)
  <1> DEFINE Upto(f, k) ==
                /\ f \in [0 .. k -> T] /\ f[0] = a
                /\ \A j \in 1 .. k : f[j] = step[j][f[j - 1]]
             S == {k \in 0 .. m : \E f : Upto(f, k)}
  <1>0. ASSUME NEW f, NEW k, Upto(f, k)
        PROVE  /\ f \in [0 .. k -> T] /\ f[0] = a
               /\ \A j \in 1 .. k : f[j] = step[j][f[j - 1]]
    BY <1>0
  <1>1. ASSUME NEW f, NEW k, f \in [0 .. k -> T], f[0] = a,
               \A j \in 1 .. k : f[j] = step[j][f[j - 1]]
        PROVE  Upto(f, k)
    BY <1>1
  <1> HIDE DEF Upto
  <1>2. 0 \in S
    <2> DEFINE g == [j \in 0 .. 0 |-> a]
    <2>2. g \in [0 .. 0 -> T] /\ g[0] = a /\ \A j \in 1 .. 0 : g[j] = step[j][g[j - 1]]
      OBVIOUS
    <2> HIDE DEF g
    <2>1. Upto(g, 0)
      BY <1>1, <2>2
    <2> QED
      BY <2>1
  <1>3. ASSUME NEW k \in 0 .. m - 1, k \in S
        PROVE  k + 1 \in S
    <2>1. PICK f : Upto(f, k)
      BY <1>3
    <2> DEFINE g == [j \in 0 .. k + 1 |->
                        IF j = k + 1 THEN step[j][f[k]] ELSE f[j]]
    <2>2. f \in [0 .. k -> T] /\ f[0] = a
          /\ \A j \in 1 .. k : f[j] = step[j][f[j - 1]]
      BY <2>1, <1>0
    <2>3. g \in [0 .. k + 1 -> T] /\ g[0] = a
      BY <2>2 DEF Steps
    <2>4. ASSUME NEW j \in 1 .. k + 1
          PROVE  g[j] = step[j][g[j - 1]]
      <3>1. CASE j = k + 1
        BY <3>1
      <3>2. CASE j \in 1 .. k
        BY <3>2, <2>2
      <3> QED
        BY <3>1, <3>2
    <2> HIDE DEF g
    <2>5. Upto(g, k + 1)
      BY <2>3, <2>4, <1>1
    <2> QED
      BY <2>5
  <1>4. m \in S
    <2> HIDE DEF S
    <2>1. \A k \in 0 .. m - 1 : k \in S => k + 1 \in S
      BY <1>3
    <2>2. 0 .. m \subseteq S
      BY <1>2, <2>1, BoundedInduction
    <2> QED
      BY <2>2
  <1>5. PICK f : Upto(f, m)
    BY <1>4
  <1> QED
    BY <1>5, <1>0 DEF Computed

(* The same of functions that begin at one. *)
LEMMA AgreementFromOne ==
    ASSUME NEW f, NEW g, NEW m \in Nat, m > 0 => f[1] = g[1],
           \A k \in 2 .. m : f[k - 1] = g[k - 1] => f[k] = g[k]
    PROVE  \A k \in 1 .. m : f[k] = g[k]
  <1>1. CASE m = 0
    BY <1>1
  <1>2. CASE m > 0
    <2> DEFINE ff == [k \in 0 .. m - 1 |-> f[k + 1]]
               gg == [k \in 0 .. m - 1 |-> g[k + 1]]
    <2>0. m - 1 \in Nat
      BY <1>2
    <2>1. ff[0] = gg[0]
      BY <1>2
    <2>2. ASSUME NEW k \in 1 .. m - 1, ff[k - 1] = gg[k - 1]
          PROVE  ff[k] = gg[k]
      <3>1. k + 1 \in 2 .. m /\ (k + 1) - 1 = k /\ (k - 1) + 1 = k
        OBVIOUS
      <3>2. f[k] = g[k]
        BY <2>2, <3>1
      <3> QED
        BY <3>1, <3>2
    <2>3. \A k \in 0 .. m - 1 : ff[k] = gg[k]
      <3> HIDE DEF ff, gg
      <3> QED
        BY <2>0, <2>1, <2>2, Agreement
    <2>4. ASSUME NEW k \in 1 .. m PROVE f[k] = g[k]
      <3>1. k - 1 \in 0 .. m - 1 /\ (k - 1) + 1 = k
        OBVIOUS
      <3> QED
        BY <2>3, <3>1
    <2> QED
      BY <2>4
  <1> QED
    BY <1>1, <1>2

StepsFromOne(T, m) == [2 .. m -> [T -> T]]

ComputedFromOne(f, T, a, m, step) ==
    /\ f \in [1 .. m -> T]
    /\ m > 0 => f[1] = a
    /\ \A k \in 2 .. m : f[k] = step[k][f[k - 1]]

(* The same for a function that begins at one.                             *)
LEMMA RecursionFromOne ==
    ASSUME NEW T, NEW a \in T, NEW m \in Nat, NEW step \in StepsFromOne(T, m)
    PROVE  \E f : ComputedFromOne(f, T, a, m, step)
  <1> USE DEF StepsFromOne, ComputedFromOne
  <1>1. CASE m = 0
    <2> DEFINE f == [k \in 1 .. m |-> a]
    <2>1. f \in [1 .. m -> T]
      OBVIOUS
    <2>2. \A k \in 2 .. m : f[k] = step[k][f[k - 1]]
      BY <1>1
    <2>3. m > 0 => f[1] = a
      BY <1>1
    <2> HIDE DEF f
    <2> QED
      BY <2>1, <2>2, <2>3
  <1>2. CASE m > 0
    <2> DEFINE next == [k \in 1 .. m - 1 |-> step[k + 1]]
    <2>0. m - 1 \in Nat
      BY <1>2
    <2>1. next \in Steps(T, m - 1)
      <3>1. \A k \in 1 .. m - 1 : k + 1 \in 2 .. m
        BY <1>2
      <3> QED
        BY <3>1 DEF Steps
    <2>2. \A k \in 1 .. m - 1 : next[k] = step[k + 1]
      OBVIOUS
    <2> HIDE DEF next
    <2>3. PICK g : Computed(g, T, a, m - 1, next)
      BY <2>0, <2>1, Recursion
    <2>4. /\ g \in [0 .. m - 1 -> T] /\ g[0] = a
          /\ \A k \in 1 .. m - 1 : g[k] = step[k + 1][g[k - 1]]
      BY <2>2, <2>3 DEF Computed
    <2> DEFINE f == [k \in 1 .. m |-> g[k - 1]]
    <2>5. f \in [1 .. m -> T] /\ f[1] = a
      BY <1>2, <2>4
    <2>6. ASSUME NEW k \in 2 .. m PROVE f[k] = step[k][f[k - 1]]
      <3>1. k - 1 \in 1 .. m - 1 /\ (k - 1) + 1 = k
        OBVIOUS
      <3>2. g[k - 1] = step[k][g[(k - 1) - 1]]
        BY <2>4, <3>1
      <3> QED
        BY <3>1, <3>2
    <2> HIDE DEF f
    <2> QED
      BY <2>5, <2>6
  <1> QED
    BY <1>1, <1>2

-----------------------------------------------------------------------------
(* A set of numbers that is not empty has a least one. *)
LEMMA LeastOf ==
    ASSUME NEW S \in SUBSET Nat, S # {}
    PROVE  /\ Min(S) \in S
           /\ \A y \in S : Min(S) <= y
  <1> DEFINE Above == {i \in Nat : \E x \in S : x <= i}
  <1>1. PICK s \in S : TRUE
    OBVIOUS
  <1>2. PICK i \in Above : i = 0 \/ i - 1 \notin Above
    <2>1. s \in Above /\ Above \subseteq Nat
      BY <1>1
    <2> HIDE DEF Above
    <2> QED
      BY <2>1, LeastElement
  <1>3. PICK x \in S : x <= i
    OBVIOUS
  <1>4. ASSUME NEW y \in S PROVE x <= y
    <2> SUFFICES ASSUME y < x PROVE FALSE
      OBVIOUS
    <2>1. i - 1 \in Nat /\ y <= i - 1
      BY <1>3
    <2> QED
      BY <1>2, <2>1
  <1> QED
    BY <1>4 DEF Min

(* The greatest of a set of numbers with a bound. *)
LEMMA GreatestOf ==
    ASSUME NEW m \in Nat, NEW S \in SUBSET (0 .. m), S # {}
    PROVE  /\ Max(S) \in S
           /\ \A y \in S : y <= Max(S)
  <1> DEFINE D == {i \in Nat : \E x \in S : i = m - x}
  <1>1. D # {} /\ D \subseteq Nat
    <2>1. PICK x \in S : TRUE
      OBVIOUS
    <2>2. m - x \in D
      BY <2>1
    <2> QED
      BY <2>2
  <1>2. Min(D) \in D /\ \A y \in D : Min(D) <= y
    <2> HIDE DEF D
    <2> QED
      BY <1>1, LeastOf
  <1> DEFINE d == Min(D)
  <1> HIDE DEF d
  <1>3. PICK x \in S : d = m - x
    BY <1>2 DEF d
  <1>4. ASSUME NEW y \in S PROVE y <= x
    <2>1. m - y \in D
      OBVIOUS
    <2>2. d <= m - y
      BY <1>2, <2>1 DEF d
    <2> QED
      BY <1>3, <2>2
  <1> QED
    BY <1>4 DEF Max

(* A number has at most as many below it as there are others; *)
LEMMA RankBound ==
    ASSUME NEW S \in SUBSET Nat, IsFiniteSet(S), NEW x \in S
    PROVE  Cardinality({k \in S : k < x}) \in 0 .. Cardinality(S) - 1
  <1> DEFINE B == {k \in S : k < x}
  <1>1. B \subseteq S /\ x \notin B
    OBVIOUS
  <1> HIDE DEF B
  <1>2. IsFiniteSet(B) /\ Cardinality(B) <= Cardinality(S)
        /\ (Cardinality(S) = Cardinality(B) => S = B)
    BY <1>1, FS_Subset
  <1>3. Cardinality(B) \in Nat /\ Cardinality(S) \in Nat
    BY <1>2, FS_CardinalityType
  <1> QED
    BY <1>1, <1>2, <1>3 DEF B

(* the greater of two numbers has more; *)
LEMMA RankMonotone ==
    ASSUME NEW S \in SUBSET Nat, IsFiniteSet(S), NEW x \in S, NEW y \in S, x < y
    PROVE  Cardinality({k \in S : k < x}) < Cardinality({k \in S : k < y})
  <1> DEFINE A == {k \in S : k < x}
             B == {k \in S : k < y}
  <1>1. A \subseteq B /\ B \subseteq S /\ x \notin A /\ x \in B
    <2>1. x \in Nat /\ y \in Nat /\ \A k \in S : k \in Nat
      OBVIOUS
    <2>2. \A k \in S : k < x => k < y
      BY <2>1
    <2>3. ~(x < x)
      BY <2>1
    <2> QED
      BY <2>2, <2>3
  <1> HIDE DEF A, B
  <1>2. IsFiniteSet(B)
    BY <1>1, FS_Subset
  <1>3. IsFiniteSet(A) /\ Cardinality(A) <= Cardinality(B)
        /\ (Cardinality(B) = Cardinality(A) => B = A)
    BY <1>1, <1>2, FS_Subset
  <1>4. Cardinality(A) \in Nat /\ Cardinality(B) \in Nat
    BY <1>2, <1>3, FS_CardinalityType
  <1> QED
    BY <1>1, <1>3, <1>4 DEF A, B

(* and every place is that of one of the numbers. *)
LEMMA RankOnto ==
    ASSUME NEW S \in SUBSET Nat, IsFiniteSet(S),
           NEW n \in 0 .. Cardinality(S) - 1
    PROVE  \E x \in S : Cardinality({k \in S : k < x}) = n
  <1> DEFINE f == [x \in S |-> Cardinality({k \in S : k < x})]
             T == 0 .. Cardinality(S) - 1
  <1>1. Cardinality(S) \in Nat
    BY FS_CardinalityType
  <1>2. IsFiniteSet(T) /\ Cardinality(T) = Cardinality(S)
    <2>1. /\ IsFiniteSet(T)
          /\ Cardinality(T) = IF 0 > Cardinality(S) - 1 THEN 0
                              ELSE Cardinality(S) - 1 - 0 + 1
      <3>1. 0 \in Int /\ Cardinality(S) - 1 \in Int
        BY <1>1
      <3> QED
        BY <3>1, FS_Interval, Zenon
    <2> QED
      BY <1>1, <2>1
  <1>3. f \in [S -> T]
    BY RankBound
  <1>4. ASSUME NEW x \in S, NEW y \in S, f[x] = f[y] PROVE x = y
    <2>1. x < y => f[x] < f[y]
      BY RankMonotone
    <2>2. y < x => f[y] < f[x]
      BY RankMonotone
    <2>3. f[x] \in Nat /\ x \in Nat /\ y \in Nat
      BY <1>1, <1>3
    <2> HIDE DEF f
    <2> QED
      BY <1>4, <2>1, <2>2, <2>3
  <1>5. f \in Injection(S, T)
    <2> HIDE DEF f, T
    <2> QED
      BY <1>3, <1>4 DEF Injection, IsInjective
  <1>6. f \in Surjection(S, T)
    <2> HIDE DEF f, T
    <2> QED
      BY <1>2, <1>5, FS_Injection
  <1>7. \E x \in S : f[x] = n
    <2> HIDE DEF f
    <2> QED
      BY <1>6 DEF Surjection
  <1> QED
    BY <1>7
-----------------------------------------------------------------------------
(* Quotients and remainders. *)

(* What an integer quotient is.                                            *)
LEMMA Division ==
    ASSUME NEW b \in Nat \ {0}, NEW x \in Nat
    PROVE  /\ x \div b \in Nat
           /\ x % b \in 0 .. b - 1
           /\ x = (x \div b) * b + (x % b)
  OBVIOUS

(* Multiples of a number keep their order.                                 *)
LEMMA Multiples ==
    ASSUME NEW p \in Nat, NEW q \in Nat, NEW b \in Nat
    PROVE  /\ p * b \in Nat
           /\ p <= q => p * b <= q * b
           /\ p < q => (p + 1) * b <= q * b /\ (p + 1) * b = p * b + b
  <1>1. p * b \in Nat /\ (p + 1) * b = p * b + b
    OBVIOUS
  <1>2. ASSUME NEW k \in Nat, k <= q PROVE k * b <= q * b
    <2>1. (q - k) * b >= 0 /\ (q - k) * b = q * b - k * b
      BY <1>2
    <2>2. q * b \in Nat /\ k * b \in Nat
      OBVIOUS
    <2> QED
      BY <2>1, <2>2
  <1>3. p < q => p + 1 \in Nat /\ p + 1 <= q
    OBVIOUS
  <1> QED
    BY <1>1, <1>2, <1>3

(* A quotient and a remainder are the only ones. *)
LEMMA QuotientAndRemainder ==
    ASSUME NEW b \in Nat \ {0}, NEW q \in Nat, NEW r \in 0 .. b - 1
    PROVE  /\ q * b + r \in Nat
           /\ (q * b + r) \div b = q
           /\ (q * b + r) % b = r
  <1> DEFINE x == q * b + r
             p == x \div b
             m == x % b
  <1>1. x \in Nat
    OBVIOUS
  <1>2. p \in Nat /\ m \in 0 .. b - 1 /\ x = p * b + m
    BY <1>1
  <1> HIDE DEF p, m
  <1>3. q * b + r = p * b + m
    BY <1>2
  <1>4. (q - p) * b = m - r
    BY <1>2, <1>3
  <1>5. ASSUME NEW k \in Nat, k >= 1 PROVE k * b >= b
    BY <1>5
  <1>6. ~(q > p)
    <2> SUFFICES ASSUME q > p PROVE FALSE
      OBVIOUS
    <2>1. q - p \in Nat /\ q - p >= 1
      BY <1>2
    <2> QED
      BY <1>2, <1>4, <1>5, <2>1
  <1>7. ~(q < p)
    <2> SUFFICES ASSUME q < p PROVE FALSE
      OBVIOUS
    <2>1. p - q \in Nat /\ p - q >= 1 /\ (p - q) * b = r - m
      BY <1>2, <1>4
    <2> QED
      BY <1>2, <1>5, <2>1
  <1>8. q = p
    BY <1>2, <1>6, <1>7
  <1> QED
    BY <1>1, <1>2, <1>3, <1>8 DEF p, m

(* A number below b * c leaves a quotient by b below c. *)
LEMMA QuotientBelow ==
    ASSUME NEW b \in Nat \ {0}, NEW c \in Nat, NEW x \in Nat, x < c * b
    PROVE  x \div b < c
  <1> DEFINE q == x \div b
  <1>1. q \in Nat /\ x % b \in 0 .. b - 1 /\ x = q * b + (x % b)
    BY Division
  <1> HIDE DEF q
  <1> SUFFICES ASSUME c <= q PROVE FALSE
    BY <1>1 DEF q
  <1>2. c * b <= q * b /\ q * b \in Nat /\ c * b \in Nat
    BY <1>1, Multiples
  <1> QED
    BY <1>1, <1>2

-----------------------------------------------------------------------------
(* Ranks in a strict total order, given by what is below each element. *)

Orders(below, S) ==
    /\ IsFiniteSet(S)
    /\ below \in [S -> SUBSET S]
    /\ \A x \in S : x \notin below[x]
    /\ \A x, y, z \in S : x \in below[y] /\ y \in below[z] => x \in below[z]
    /\ \A x, y \in S : x # y => x \in below[y] \/ y \in below[x]

(* In a finite total order every rank below the number of elements is that *)
(* of exactly one element, and ranks grow with the order.                  *)
LEMMA OrderRanks ==
    ASSUME NEW S, NEW below, Orders(below, S)
    PROVE  /\ Cardinality(S) \in Nat
           /\ \A x \in S : Cardinality(below[x]) \in 0 .. Cardinality(S) - 1
           /\ \A x, y \in S : x \in below[y] =>
                 Cardinality(below[x]) < Cardinality(below[y])
           /\ \A k \in 0 .. Cardinality(S) - 1 :
                 \E x \in S : Cardinality(below[x]) = k
  <1>0. /\ IsFiniteSet(S)
        /\ \A x \in S : below[x] \subseteq S
        /\ \A x \in S : x \notin below[x]
        /\ \A x, y, z \in S : x \in below[y] /\ y \in below[z] => x \in below[z]
        /\ \A x, y \in S : x # y => x \in below[y] \/ y \in below[x]
    BY DEF Orders
  <1>1. Cardinality(S) \in Nat
    BY <1>0, FS_CardinalityType
  <1>2. ASSUME NEW x \in S
        PROVE  /\ IsFiniteSet(below[x])
               /\ Cardinality(below[x]) \in 0 .. Cardinality(S) - 1
    <2>1. below[x] \in SUBSET S
      BY <1>0
    <2>2. /\ IsFiniteSet(below[x]) /\ Cardinality(below[x]) <= Cardinality(S)
          /\ (Cardinality(S) = Cardinality(below[x]) => S = below[x])
      BY <1>0, <2>1, FS_Subset
    <2>3. S # below[x]
      BY <1>0
    <2>4. Cardinality(below[x]) \in Nat
      BY <2>2, FS_CardinalityType
    <2> QED
      BY <1>1, <2>2, <2>3, <2>4
  <1>3. ASSUME NEW x \in S, NEW y \in S, x \in below[y]
        PROVE  Cardinality(below[x]) < Cardinality(below[y])
    <2>1. below[x] \in SUBSET below[y]
      BY <1>0, <1>3
    <2>2. /\ Cardinality(below[x]) <= Cardinality(below[y])
          /\ (Cardinality(below[y]) = Cardinality(below[x]) => below[y] = below[x])
      BY <1>2, <2>1, FS_Subset
    <2>3. below[y] # below[x]
      BY <1>0, <1>3
    <2>4. Cardinality(below[x]) \in Nat /\ Cardinality(below[y]) \in Nat
      BY <1>2, FS_CardinalityType
    <2> QED
      BY <2>2, <2>3, <2>4
  <1> DEFINE rank == [x \in S |-> Cardinality(below[x])]
             T == 0 .. Cardinality(S) - 1
  <1>4. IsFiniteSet(T) /\ Cardinality(T) = Cardinality(S)
    <2>1. 0 \in Int /\ Cardinality(S) - 1 \in Int
      BY <1>1
    <2>2. /\ IsFiniteSet(T)
          /\ Cardinality(T) = IF 0 > Cardinality(S) - 1 THEN 0
                              ELSE Cardinality(S) - 1 - 0 + 1
      BY <2>1, FS_Interval, Zenon
    <2> QED
      BY <1>1, <2>2
  <1>5. rank \in [S -> T]
    BY <1>2
  <1>6. ASSUME NEW x \in S, NEW y \in S, rank[x] = rank[y] PROVE x = y
    <2>1. rank[x] = Cardinality(below[x]) /\ rank[y] = Cardinality(below[y])
      OBVIOUS
    <2>2. Cardinality(below[x]) \in Nat /\ Cardinality(below[y]) \in Nat
      BY <1>2, FS_CardinalityType
    <2> HIDE DEF rank
    <2> SUFFICES ASSUME x # y PROVE FALSE
      OBVIOUS
    <2>3. x \in below[y] \/ y \in below[x]
      BY <1>0
    <2>4. rank[x] < rank[y] \/ rank[y] < rank[x]
      BY <1>3, <2>1, <2>3
    <2> QED
      BY <1>6, <2>1, <2>2, <2>4
  <1>7. rank \in Injection(S, T)
    <2> HIDE DEF rank, T
    <2> QED
      BY <1>5, <1>6 DEF Injection, IsInjective
  <1>8. rank \in Surjection(S, T)
    <2> HIDE DEF rank, T
    <2> QED
      BY <1>4, <1>7, FS_Injection
  <1>9. ASSUME NEW k \in T PROVE \E x \in S : rank[x] = k
    <2> HIDE DEF rank, T
    <2> QED
      BY <1>8 DEF Surjection
  <1> QED
    BY <1>1, <1>2, <1>3, <1>9

(* What is finite. *)
LEMMA FiniteImage ==
    ASSUME NEW D, IsFiniteSet(D), NEW f, DOMAIN f = D
    PROVE  IsFiniteSet({f[x] : x \in D})
  <1> DEFINE R == {f[x] : x \in D}
             g == [x \in D |-> f[x]]
  <1>1. g \in Surjection(D, R)
    BY DEF Surjection
  <1>2. IsFiniteSet(R)
    <2> HIDE DEF g, R
    <2> QED
      BY <1>1, FS_Surjection
  <1> QED
    BY <1>2

(* The union of finitely many finite sets is finite.                       *)
LEMMA FiniteParts ==
    ASSUME NEW m \in Nat, NEW T, NEW f \in [1 .. m -> SUBSET T],
           \A i \in 1 .. m : IsFiniteSet(f[i])
    PROVE  /\ IsFiniteSet(UNION {f[i] : i \in 1 .. m})
           /\ UNION {f[i] : i \in 1 .. m} \subseteq T
  <1>1. IsFiniteSet(1 .. m)
    BY FS_Interval
  <1>2. IsFiniteSet({f[i] : i \in 1 .. m})
    BY <1>1, FiniteImage
  <1>3. \A P \in {f[i] : i \in 1 .. m} : IsFiniteSet(P)
    OBVIOUS
  <1>4. IsFiniteSet(UNION {f[i] : i \in 1 .. m})
    BY <1>2, <1>3, FS_UNION
  <1> QED
    BY <1>4

(* The strings of one name are few.                                        *)

-----------------------------------------------------------------------------
(* Sequences written one after the other. *)

(* A buffer goes on with the bytes of s after its first p, as far as it goes. *)
Continues(buf, p, s) ==
    \A i \in 1 .. Len(s) : p + i <= Len(buf) => buf[p + i] = s[i]

(* What goes on with two sequences goes on with the first, and then with   *)
(* the second.                                                             *)
LEMMA ContinuesConcat ==
    ASSUME NEW T, NEW s \in Seq(T), NEW t \in Seq(T),
           NEW buf, Len(buf) \in Nat, NEW p \in Nat, Continues(buf, p, s \o t)
    PROVE  Continues(buf, p, s) /\ Continues(buf, p + Len(s), t)
  <1>1. /\ Len(s) \in Nat /\ Len(t) \in Nat
        /\ Len(s \o t) = Len(s) + Len(t)
        /\ \A i \in 1 .. Len(s) + Len(t) :
              (s \o t)[i] = IF i <= Len(s) THEN s[i] ELSE t[i - Len(s)]
    BY ConcatProperties, LenProperties
  <1>2. \A i \in 1 .. Len(s) + Len(t) :
            p + i <= Len(buf) => buf[p + i] = (s \o t)[i]
    BY <1>1 DEF Continues
  <1>3. ASSUME NEW i \in 1 .. Len(s), p + i <= Len(buf) PROVE buf[p + i] = s[i]
    <2>1. i \in 1 .. Len(s) + Len(t) /\ i <= Len(s)
      BY <1>1
    <2> QED
      BY <1>1, <1>2, <1>3, <2>1
  <1>4. ASSUME NEW i \in 1 .. Len(t), (p + Len(s)) + i <= Len(buf)
        PROVE  buf[(p + Len(s)) + i] = t[i]
    <2> DEFINE j == Len(s) + i
    <2>1. /\ j \in 1 .. Len(s) + Len(t) /\ ~(j <= Len(s)) /\ j - Len(s) = i
          /\ p + j = (p + Len(s)) + i
      BY <1>1
    <2> HIDE DEF j
    <2> QED
      BY <1>1, <1>2, <1>4, <2>1
  <1> QED
    BY <1>3, <1>4 DEF Continues

(* What goes on with a sequence goes on with what the sequence has inside. *)
LEMMA ContinuesInside ==
    ASSUME NEW buf, Len(buf) \in Nat, NEW p \in Nat, NEW q \in Nat,
           NEW s, Len(s) \in Nat, NEW t, Len(t) \in Nat,
           Continues(buf, p, s), Continues(s, q, t), q + Len(t) <= Len(s)
    PROVE  Continues(buf, p + q, t)
  <1>1. ASSUME NEW i \in 1 .. Len(t), (p + q) + i <= Len(buf)
        PROVE  buf[(p + q) + i] = t[i]
    <2>1. /\ q + i \in 1 .. Len(s) /\ q + i <= Len(s)
          /\ p + (q + i) = (p + q) + i
      OBVIOUS
    <2>2. s[q + i] = t[i]
      BY <2>1 DEF Continues
    <2>3. buf[p + (q + i)] = s[q + i]
      BY <1>1, <2>1 DEF Continues
    <2> QED
      BY <2>1, <2>2, <2>3
  <1> QED
    BY <1>1 DEF Continues

(* Where each of the sequences begins. *)
Offsets(ss) ==
    LET off[k \in 0 .. Len(ss)] ==
            IF k = 0 THEN 0 ELSE off[k - 1] + Len(ss[k])
    IN  off

(* Where each of them ends is where the one before it ended, and its       *)
(* length further.                                                         *)
LEMMA OffsetsAre ==
    ASSUME NEW T, NEW ss \in Seq(Seq(T))
    PROVE  LET off == Offsets(ss)
           IN  /\ off \in [0 .. Len(ss) -> Nat]
               /\ off[0] = 0
               /\ \A k \in 1 .. Len(ss) : off[k] = off[k - 1] + Len(ss[k])
  <1> DEFINE m == Len(ss)
             step == [k \in 1 .. m |-> [x \in Nat |-> x + Len(ss[k])]]
  <1>0. m \in Nat /\ \A k \in 1 .. m : ss[k] \in Seq(T) /\ Len(ss[k]) \in Nat
    BY LenProperties, ElementOfSeq
  <1>1. step \in Steps(Nat, m)
    BY <1>0 DEF Steps
  <1>2. \A k \in 1 .. m : \A x \in Nat : step[k][x] = x + Len(ss[k])
    OBVIOUS
  <1> HIDE DEF step, m
  <1>3. PICK f : Computed(f, Nat, 0, m, step)
    BY <1>0, <1>1, Recursion
  <1>4. /\ f \in [0 .. m -> Nat]
        /\ f[0] = 0
        /\ \A k \in 1 .. m : f[k] = step[k][f[k - 1]]
    BY <1>3 DEF Computed
  <1>5. \A k \in 1 .. m : f[k] = f[k - 1] + Len(ss[k])
    <2>1. \A k \in 1 .. m : f[k - 1] \in Nat
      BY <1>0, <1>4
    <2> QED
      BY <1>2, <1>4, <2>1
  <1>6. f = [k \in 0 .. m |-> IF k = 0 THEN 0 ELSE f[k - 1] + Len(ss[k])]
    BY <1>4, <1>5
  <1> DEFINE off == CHOOSE off : off =
                      [k \in 0 .. m |->
                         IF k = 0 THEN 0 ELSE off[k - 1] + Len(ss[k])]
  <1>7. off = [k \in 0 .. m |-> IF k = 0 THEN 0 ELSE off[k - 1] + Len(ss[k])]
    BY <1>6, Zenon
  <1>8. Offsets(ss) = off
    BY DEF Offsets, m
  <1> HIDE DEF off
  <1>9. off[0] = 0 /\ \A k \in 1 .. m : off[k] = off[k - 1] + Len(ss[k])
    <2>1. ASSUME NEW k \in 1 .. m PROVE off[k] = off[k - 1] + Len(ss[k])
      <3>1. k \in 0 .. m /\ k # 0
        BY <1>0
      <3> QED
        BY <1>7, <3>1
    <2> QED
      BY <1>0, <1>7, <2>1
  <1>10. \A k \in 0 .. m : off[k] = f[k]
    <2>1. \A k \in 1 .. m : off[k - 1] = f[k - 1] => off[k] = f[k]
      BY <1>5, <1>9
    <2>2. off[0] = f[0]
      BY <1>4, <1>9
    <2> QED
      BY <1>0, <2>1, <2>2, Agreement, ZenonT(60)
  <1>11. off \in [0 .. m -> Nat]
    BY <1>4, <1>7, <1>10
  <1> QED
    BY <1>8, <1>9, <1>11 DEF m

(* Later ones end later.                                                   *)
LEMMA OffsetsGrow ==
    ASSUME NEW T, NEW ss \in Seq(Seq(T)), NEW i \in 0 .. Len(ss)
    PROVE  \A j \in i .. Len(ss) : Offsets(ss)[i] <= Offsets(ss)[j]
  <1> DEFINE off == Offsets(ss)
             m == Len(ss)
             S == {d \in 0 .. m - i : off[i] <= off[i + d]}
  <1>0. m \in Nat /\ \A k \in 1 .. m : Len(ss[k]) \in Nat
    BY LenProperties, ElementOfSeq
  <1>1. /\ off \in [0 .. m -> Nat]
        /\ \A k \in 1 .. m : off[k] = off[k - 1] + Len(ss[k])
    BY OffsetsAre
  <1> HIDE DEF off, m
  <1>2. i \in 0 .. m
    BY DEF m
  <1>3. 0 \in S
    BY <1>0, <1>1, <1>2
  <1>4. ASSUME NEW d \in 0 .. (m - i) - 1, d \in S PROVE d + 1 \in S
    <2>1. i + d \in 0 .. m /\ i + (d + 1) \in 1 .. m /\ i + (d + 1) - 1 = i + d
          /\ i + (d + 1) \in 0 .. m /\ d + 1 \in 0 .. m - i
      BY <1>0, <1>2
    <2>2. off[i + (d + 1)] = off[i + d] + Len(ss[i + (d + 1)])
      BY <1>1, <2>1
    <2>3. off[i] <= off[i + d] /\ off[i + d] \in Nat /\ off[i] \in Nat
      BY <1>1, <1>2, <1>4, <2>1
    <2> QED
      BY <1>0, <2>1, <2>2, <2>3
  <1>5. m - i \in Nat
    BY <1>0, <1>2
  <1> HIDE DEF S
  <1>6. 0 .. m - i \subseteq S
    BY <1>3, <1>4, <1>5, BoundedInduction
  <1> SUFFICES ASSUME NEW j \in i .. m PROVE off[i] <= off[j]
    BY DEF off, m
  <1>7. j - i \in 0 .. m - i /\ i + (j - i) = j
    BY <1>0, <1>2
  <1> QED
    BY <1>6, <1>7 DEF S

(* What FlattenSeq computes. *)
LEMMA FlattenIs ==
    ASSUME NEW T, NEW ss \in Seq(Seq(T))
    PROVE  \E f : /\ f \in [1 .. Len(ss) -> Seq(T)]
                  /\ Len(ss) > 0 => f[1] = ss[1]
                  /\ \A k \in 2 .. Len(ss) : f[k] = f[k - 1] \o ss[k]
                  /\ FlattenSeq(ss) = IF Len(ss) = 0 THEN <<>> ELSE f[Len(ss)]
  <1> DEFINE m == Len(ss)
             step == [k \in 2 .. m |-> [x \in Seq(T) |-> x \o ss[k]]]
  <1>0. m \in Nat /\ \A k \in 1 .. m : ss[k] \in Seq(T)
    BY LenProperties, ElementOfSeq
  <1>e. CASE m = 0
    <2>1. ss = <<>>
      BY <1>e, EmptySeq
    <2> DEFINE f == [k \in 1 .. m |-> <<>>]
    <2>2. f \in [1 .. m -> Seq(T)]
      BY EmptySeq
    <2>3. FlattenSeq(ss) = <<>>
      BY <1>e, <2>1 DEF FlattenSeq
    <2>4. \A k \in 2 .. m : f[k] = f[k - 1] \o ss[k]
      BY <1>e
    <2>5. /\ f \in [1 .. Len(ss) -> Seq(T)]
          /\ Len(ss) > 0 => f[1] = ss[1]
          /\ \A k \in 2 .. Len(ss) : f[k] = f[k - 1] \o ss[k]
          /\ FlattenSeq(ss) = IF Len(ss) = 0 THEN <<>> ELSE f[Len(ss)]
      BY <1>e, <2>2, <2>3, <2>4
    <2> HIDE DEF f
    <2> QED
      BY <2>5, Zenon
  <1>n. CASE m > 0
    <2>1. step \in StepsFromOne(Seq(T), m)
      <3>1. \A k \in 2 .. m : k \in 1 .. m
        BY <1>0
      <3>2. ASSUME NEW k \in 2 .. m, NEW x \in Seq(T) PROVE x \o ss[k] \in Seq(T)
        BY <1>0, <3>1, ConcatProperties
      <3> QED
        BY <3>2 DEF StepsFromOne
    <2>2. \A k \in 2 .. m : \A x \in Seq(T) : step[k][x] = x \o ss[k]
      OBVIOUS
    <2>3. ss[1] \in Seq(T)
      BY <1>0, <1>n
    <2>4. FlattenSeq(ss) =
            (CHOOSE flat : flat = [k \in 1 .. m |->
                                     IF k = 1 THEN ss[k] ELSE flat[k - 1] \o ss[k]])[m]
      BY <1>0, <1>n DEF FlattenSeq
    <2> HIDE DEF step, m
    <2>5. PICK f : ComputedFromOne(f, Seq(T), ss[1], m, step)
      BY <1>0, <2>1, <2>3, RecursionFromOne
    <2>6. /\ f \in [1 .. m -> Seq(T)]
          /\ f[1] = ss[1]
          /\ \A k \in 2 .. m : f[k] = step[k][f[k - 1]]
      BY <1>n, <2>5 DEF ComputedFromOne
    <2>7. \A k \in 2 .. m : f[k] = f[k - 1] \o ss[k]
      <3>1. \A k \in 2 .. m : k - 1 \in 1 .. m
        BY <1>0
      <3>2. \A k \in 2 .. m : f[k - 1] \in Seq(T)
        BY <2>6, <3>1
      <3> QED
        BY <2>2, <2>6, <3>2
    <2>8. f = [k \in 1 .. m |-> IF k = 1 THEN ss[k] ELSE f[k - 1] \o ss[k]]
      <3>1. \A k \in 1 .. m : k = 1 \/ k \in 2 .. m
        BY <1>0
      <3>2. \A k \in 1 .. m :
               f[k] = IF k = 1 THEN ss[k] ELSE f[k - 1] \o ss[k]
        BY <2>6, <2>7, <3>1
      <3> QED
        BY <2>6, <3>2
    <2> DEFINE flat == CHOOSE flat : flat =
                         [k \in 1 .. m |->
                            IF k = 1 THEN ss[k] ELSE flat[k - 1] \o ss[k]]
    <2>9. flat = [k \in 1 .. m |-> IF k = 1 THEN ss[k] ELSE flat[k - 1] \o ss[k]]
      BY <2>8, Zenon
    <2>10. FlattenSeq(ss) = flat[m]
      BY <2>4
    <2> HIDE DEF flat
    <2>11. flat[1] = ss[1] /\ \A k \in 2 .. m : flat[k] = flat[k - 1] \o ss[k]
      <3>1. 1 \in 1 .. m /\ \A k \in 2 .. m : k \in 1 .. m /\ k # 1
        BY <1>0, <1>n
      <3>2. flat[1] = ss[1]
        BY <2>9, <3>1
      <3>3. ASSUME NEW k \in 2 .. m PROVE flat[k] = flat[k - 1] \o ss[k]
        BY <2>9, <3>1
      <3> QED
        BY <3>2, <3>3
    <2>12. \A k \in 1 .. m : flat[k] = f[k]
      <3>1. m > 0 => flat[1] = f[1]
        BY <2>6, <2>11
      <3>2. \A k \in 2 .. m : flat[k - 1] = f[k - 1] => flat[k] = f[k]
        BY <2>7, <2>11
      <3>3. m \in Nat
        BY <1>0
      <3> QED
        BY <3>1, <3>2, <3>3, AgreementFromOne, SMTT(60)
    <2>13. FlattenSeq(ss) = IF m = 0 THEN <<>> ELSE f[m]
      BY <1>0, <1>n, <2>10, <2>12
    <2> QED
      BY <1>n, <2>6, <2>7, <2>13 DEF m
  <1>c. m = 0 \/ m > 0
    BY <1>0
  <1> QED
    BY <1>c, <1>e, <1>n, Zenon

(* Each sequence begins at its offset. *)
LEMMA Flattened ==
    ASSUME NEW T, NEW ss \in Seq(Seq(T))
    PROVE  /\ FlattenSeq(ss) \in Seq(T)
           /\ Len(FlattenSeq(ss)) = Offsets(ss)[Len(ss)]
           /\ \A k \in 1 .. Len(ss) :
                 Continues(FlattenSeq(ss), Offsets(ss)[k - 1], ss[k])
  <1> DEFINE m == Len(ss)
             off == Offsets(ss)
             flat == FlattenSeq(ss)
  <1>0. m \in Nat /\ \A k \in 1 .. m : ss[k] \in Seq(T) /\ Len(ss[k]) \in Nat
    BY LenProperties, ElementOfSeq
  <1>1. /\ off \in [0 .. m -> Nat]
        /\ off[0] = 0
        /\ \A k \in 1 .. m : off[k] = off[k - 1] + Len(ss[k])
    BY OffsetsAre
  <1>2. PICK f : /\ f \in [1 .. m -> Seq(T)]
                 /\ m > 0 => f[1] = ss[1]
                 /\ \A k \in 2 .. m : f[k] = f[k - 1] \o ss[k]
                 /\ flat = IF m = 0 THEN <<>> ELSE f[m]
    BY FlattenIs
  <1>g. \A i \in 0 .. m : \A j \in i .. m : off[i] <= off[j]
    BY OffsetsGrow
  <1> HIDE DEF m, off, flat
  <1> DEFINE Good(k) == /\ Len(f[k]) = off[k]
                        /\ \A j \in 1 .. k : Continues(f[k], off[j - 1], ss[j])
             S == {k \in 0 .. m : k > 0 => Good(k)}
  <1>3. ASSUME NEW k \in 0 .. m - 1, k \in S PROVE k + 1 \in S
    <2>1. CASE k = 0
      <3>1. k + 1 = 1 /\ 1 \in 0 .. m /\ 1 \in 1 .. m /\ m > 0
        BY <1>0, <2>1
      <3>2. f[1] = ss[1] /\ Len(f[1]) = off[1] /\ ss[1] \in Seq(T)
        BY <1>0, <1>1, <1>2, <3>1
      <3>3. \A j \in 1 .. 1 : Continues(f[1], off[j - 1], ss[j])
        <4>1. Continues(f[1], 0, ss[1])
          BY <1>0, <3>1, <3>2 DEF Continues
        <4> QED
          BY <1>1, <4>1
      <3> QED
        BY <3>1, <3>2, <3>3
    <2>2. CASE k > 0
      <3>1. /\ k + 1 \in 2 .. m /\ k + 1 \in 1 .. m /\ (k + 1) - 1 = k
            /\ k \in 1 .. m /\ k + 1 \in 0 .. m
        BY <1>0, <2>2
      <3>2. /\ f[k + 1] = f[k] \o ss[k + 1] /\ f[k] \in Seq(T)
            /\ ss[k + 1] \in Seq(T)
        BY <1>0, <1>2, <3>1
      <3>3. /\ Len(f[k]) = off[k]
            /\ \A j \in 1 .. k : Continues(f[k], off[j - 1], ss[j])
        BY <1>3, <2>2
      <3>4. /\ Len(f[k + 1]) = off[k] + Len(ss[k + 1])
            /\ \A i \in 1 .. off[k] + Len(ss[k + 1]) : f[k + 1][i] =
                  IF i <= off[k] THEN f[k][i] ELSE ss[k + 1][i - off[k]]
        <4>1. /\ Len(f[k] \o ss[k + 1]) = Len(f[k]) + Len(ss[k + 1])
              /\ \A i \in 1 .. Len(f[k]) + Len(ss[k + 1]) :
                    (f[k] \o ss[k + 1])[i] =
                       IF i <= Len(f[k]) THEN f[k][i] ELSE ss[k + 1][i - Len(f[k])]
          BY <3>2, ConcatProperties
        <4> QED
          BY <3>2, <3>3, <4>1
      <3>5. Len(f[k + 1]) = off[k + 1]
        BY <1>1, <3>1, <3>4
      <3>6. off[k] \in Nat /\ Len(ss[k + 1]) \in Nat
        BY <1>0, <1>1, <3>1
      <3>7. Continues(f[k + 1], off[k], ss[k + 1])
        <4>1. ASSUME NEW i \in 1 .. Len(ss[k + 1])
              PROVE  f[k + 1][off[k] + i] = ss[k + 1][i]
          <5>1. /\ off[k] + i \in 1 .. off[k] + Len(ss[k + 1])
                /\ ~(off[k] + i <= off[k]) /\ (off[k] + i) - off[k] = i
            BY <3>6
          <5> QED
            BY <3>4, <5>1
        <4> QED
          BY <4>1 DEF Continues
      <3>8. ASSUME NEW j \in 1 .. k PROVE Continues(f[k + 1], off[j - 1], ss[j])
        <4>1. /\ j \in 1 .. m /\ j \in 0 .. m /\ k \in j .. m /\ j - 1 \in 0 .. m
          BY <1>0, <3>1
        <4>2. /\ off[j] <= off[k] /\ off[j] = off[j - 1] + Len(ss[j])
              /\ off[j - 1] \in Nat /\ Len(ss[j]) \in Nat
          BY <1>0, <1>1, <1>g, <4>1
        <4>3. \A i \in 1 .. Len(ss[j]) : f[k][off[j - 1] + i] = ss[j][i]
          <5>1. Continues(f[k], off[j - 1], ss[j])
            BY <3>3
          <5> QED
            BY <3>3, <3>6, <4>2, <5>1, SMTT(60) DEF Continues
        <4>4. ASSUME NEW i \in 1 .. Len(ss[j])
              PROVE  f[k + 1][off[j - 1] + i] = ss[j][i]
          <5> DEFINE a == off[j - 1]
                     c == Len(ss[j])
                     d == off[k]
                     e == Len(ss[k + 1])
          <5>0. a \in Nat /\ c \in Nat /\ d \in Nat /\ e \in Nat /\ a + c <= d
                /\ i \in 1 .. c
            BY <3>6, <4>2
          <5> HIDE DEF a, c, d, e
          <5>2. a + i \in 1 .. d + e /\ a + i <= d
            BY <5>0
          <5>1. /\ off[j - 1] + i \in 1 .. off[k] + Len(ss[k + 1])
                /\ off[j - 1] + i <= off[k]
            BY <5>2 DEF a, c, d, e
          <5> DEFINE x == off[j - 1] + i
          <5>3. f[k][x] = ss[j][i]
            BY <4>3
          <5>4. x \in 1 .. off[k] + Len(ss[k + 1]) /\ x <= off[k]
            BY <5>1
          <5> HIDE DEF x
          <5>5. f[k + 1][x] = f[k][x]
            BY <3>4, <5>4
          <5> QED
            BY <5>3, <5>5 DEF x
        <4> QED
          BY <4>4 DEF Continues
      <3>9. \A j \in 1 .. k + 1 : Continues(f[k + 1], off[j - 1], ss[j])
        <4>1. \A j \in 1 .. k + 1 : j \in 1 .. k \/ j = k + 1
          BY <3>1
        <4> QED
          BY <3>1, <3>7, <3>8, <4>1
      <3> QED
        BY <3>1, <3>5, <3>9
    <2> QED
      BY <2>1, <2>2
  <1>4. 0 \in S
    BY <1>0
  <1>5. m > 0 => Good(m)
    <2> HIDE DEF S
    <2>1. 0 .. m \subseteq S
      BY <1>0, <1>3, <1>4, BoundedInduction
    <2>2. m \in S
      BY <1>0, <2>1
    <2> QED
      BY <2>2 DEF S
  <1>6. /\ flat \in Seq(T) /\ Len(flat) = off[m]
        /\ \A k \in 1 .. m : Continues(flat, off[k - 1], ss[k])
    <2>1. CASE m = 0
      BY <1>1, <1>2, <2>1, EmptySeq
    <2>2. CASE m > 0
      <3>1. flat = f[m] /\ m \in 1 .. m
        BY <1>0, <1>2, <2>2
      <3> QED
        BY <1>2, <1>5, <2>2, <3>1
    <2> QED
      BY <1>0, <2>1, <2>2
  <1> QED
    BY <1>6 DEF m, off, flat

-----------------------------------------------------------------------------
(* Codes and their digits (lookup.go:107-128, address.go:170-177). *)

Numerals == 0 .. Base - 1

(* The functions the operators of CodeText are defined by. *)
Power(w) ==
    CHOOSE power : power =
        [k \in 0 .. w |-> IF k = 0 THEN 1 ELSE power[k - 1] * Base]

Left(v, w) ==
    CHOOSE left : left =
        [k \in 0 .. w |-> IF k = 0 THEN v ELSE left[k - 1] \div Base]

TypedSoFar(s) ==
    CHOOSE typed : typed =
        [k \in 0 .. Len(s) |->
            IF k = 0 THEN <<>>
            ELSE IF s[k].class \in {"ascii", "wide"}
            THEN Append(typed[k - 1], s[k].digit) ELSE typed[k - 1]]

Values(ds) ==
    CHOOSE value : value =
        [k \in 0 .. Len(ds) |->
            IF k = 0 THEN 0 ELSE value[k - 1] * Base + ds[k]]

-----------------------------------------------------------------------------
(* The recursion of Codes has a solution. *)
LEMMA PowerIs ==
    ASSUME NEW w \in Nat
    PROVE  /\ Power(w) \in [0 .. w -> Nat]
           /\ Power(w)[0] = 1
           /\ \A k \in 1 .. w : Power(w)[k] = Power(w)[k - 1] * Base
  <1> DEFINE step == [k \in 1 .. w |-> [x \in Nat |-> x * Base]]
  <1>1. step \in Steps(Nat, w)
    BY BaseAssumption DEF Steps
  <1>2. PICK f : Computed(f, Nat, 1, w, step)
    <2> HIDE DEF step
    <2> QED
      BY <1>1, Recursion
  <1>3. f \in [0 .. w -> Nat] /\ f[0] = 1
    BY <1>2 DEF Computed
  <1>4. ASSUME NEW k \in 1 .. w PROVE f[k] = f[k - 1] * Base
    <2>1. f[k - 1] \in Nat
      BY <1>3
    <2>2. f[k] = step[k][f[k - 1]]
      BY <1>2 DEF Computed
    <2> QED
      BY <2>1, <2>2
  <1> HIDE DEF step
  <1>5. f = [k \in 0 .. w |-> IF k = 0 THEN 1 ELSE f[k - 1] * Base]
    BY <1>3, <1>4
  <1>6. Power(w) = [k \in 0 .. w |-> IF k = 0 THEN 1 ELSE Power(w)[k - 1] * Base]
    BY <1>5, Zenon DEF Power
  <1> DEFINE g == Power(w)
  <1>7. g[0] = 1 /\ \A k \in 1 .. w : g[k] = g[k - 1] * Base
    <2>1. g = [k \in 0 .. w |-> IF k = 0 THEN 1 ELSE g[k - 1] * Base]
      BY <1>6
    <2> HIDE DEF g
    <2>2. g[0] = 1
      BY <2>1
    <2>3. ASSUME NEW k \in 1 .. w PROVE g[k] = g[k - 1] * Base
      <3>1. k \in 0 .. w /\ k # 0
        OBVIOUS
      <3> QED
        BY <2>1, <3>1
    <2> QED
      BY <2>2, <2>3
  <1> HIDE DEF g
  <1>8. \A k \in 0 .. w : g[k] = f[k]
    <2>1. g[0] = f[0]
      BY <1>3, <1>7
    <2>2. \A k \in 1 .. w : g[k - 1] = f[k - 1] => g[k] = f[k]
      BY <1>4, <1>7
    <2> QED
      BY <2>1, <2>2, Agreement, ZenonT(60)
  <1>9. g \in [0 .. w -> Nat]
    BY <1>3, <1>6, <1>8 DEF g
  <1> QED
    BY <1>7, <1>9 DEF g

(* Each digit multiplies the codes by the base. *)
LEMMA CodesIs ==
    ASSUME NEW w \in Nat
    PROVE  /\ Codes(0) = 1
           /\ Codes(w) \in Nat \ {0}
           /\ Codes(w + 1) = Codes(w) * Base
  <1>0. Base \in Nat \ {0, 1}
    BY BaseAssumption
  <1>1. \A i \in Nat : Codes(i) = Power(i)[i]
    BY DEF Codes, Power
  <1>2. Codes(0) = 1
    BY <1>1, PowerIs
  <1>3. ASSUME NEW i \in Nat PROVE Codes(i + 1) = Codes(i) * Base
    <2> DEFINE f == Power(i)
               g == Power(i + 1)
    <2>1. f[0] = 1 /\ \A k \in 1 .. i : f[k] = f[k - 1] * Base
      BY PowerIs
    <2>2. i + 1 \in Nat /\ i + 1 - 1 = i
      OBVIOUS
    <2>3. g[0] = 1 /\ \A k \in 1 .. i + 1 : g[k] = g[k - 1] * Base
      BY <2>2, PowerIs
    <2> HIDE DEF f, g
    <2>4. \A k \in 0 .. i : f[k] = g[k]
      BY <2>1, <2>3, Agreement
    <2>5. g[i + 1] = f[i] * Base
      BY <2>2, <2>3, <2>4
    <2> QED
      BY <1>1, <2>2, <2>5 DEF f, g
  <1> DEFINE S == {i \in Nat : Codes(i) \in Nat \ {0}}
  <1>4. 0 \in S
    BY <1>2
  <1>5. \A i \in Nat : i \in S => i + 1 \in S
    BY <1>0, <1>3
  <1>6. Nat \subseteq S
    <2> HIDE DEF S
    <2> QED
      BY <1>4, <1>5, SetInduction
  <1> QED
    BY <1>2, <1>3, <1>6

-----------------------------------------------------------------------------
(* The recursion of Digits has a solution. *)
LEMMA LeftIs ==
    ASSUME NEW v \in Nat, NEW w \in Nat
    PROVE  /\ Left(v, w) \in [0 .. w -> Nat]
           /\ Left(v, w)[0] = v
           /\ \A k \in 1 .. w : Left(v, w)[k] = Left(v, w)[k - 1] \div Base
  <1> DEFINE step == [k \in 1 .. w |-> [x \in Nat |-> x \div Base]]
  <1>1. step \in Steps(Nat, w)
    BY BaseAssumption DEF Steps
  <1>2. PICK f : Computed(f, Nat, v, w, step)
    <2> HIDE DEF step
    <2> QED
      BY <1>1, Recursion
  <1>3. f \in [0 .. w -> Nat] /\ f[0] = v
    BY <1>2 DEF Computed
  <1>4. ASSUME NEW k \in 1 .. w PROVE f[k] = f[k - 1] \div Base
    <2>1. f[k - 1] \in Nat
      BY <1>3
    <2>2. f[k] = step[k][f[k - 1]]
      BY <1>2 DEF Computed
    <2> QED
      BY <2>1, <2>2
  <1> HIDE DEF step
  <1>5. f = [k \in 0 .. w |-> IF k = 0 THEN v ELSE f[k - 1] \div Base]
    BY <1>3, <1>4
  <1>6. Left(v, w) = [k \in 0 .. w |->
                        IF k = 0 THEN v ELSE Left(v, w)[k - 1] \div Base]
    BY <1>5, Zenon DEF Left
  <1> DEFINE g == Left(v, w)
  <1>7. g[0] = v /\ \A k \in 1 .. w : g[k] = g[k - 1] \div Base
    <2>1. g = [k \in 0 .. w |-> IF k = 0 THEN v ELSE g[k - 1] \div Base]
      BY <1>6
    <2> HIDE DEF g
    <2>2. g[0] = v
      BY <2>1
    <2>3. ASSUME NEW k \in 1 .. w PROVE g[k] = g[k - 1] \div Base
      <3>1. k \in 0 .. w /\ k # 0
        OBVIOUS
      <3> QED
        BY <2>1, <3>1
    <2> QED
      BY <2>2, <2>3
  <1> HIDE DEF g
  <1>8. \A k \in 0 .. w : g[k] = f[k]
    <2>1. g[0] = f[0]
      BY <1>3, <1>7
    <2>2. \A k \in 1 .. w : g[k - 1] = f[k - 1] => g[k] = f[k]
      BY <1>4, <1>7
    <2> QED
      BY <2>1, <2>2, Agreement, ZenonT(60)
  <1>9. g \in [0 .. w -> Nat]
    BY <1>3, <1>6, <1>8 DEF g
  <1> QED
    BY <1>7, <1>9 DEF g

(* Digits are numerals, the last one the remainder by the base, and those  *)
(* before it the digits of the quotient.                                   *)
LEMMA DigitsIs ==
    ASSUME NEW v \in Nat, NEW w \in Nat
    PROVE  /\ Digits(v, w) \in [1 .. w -> Numerals]
           /\ Digits(v, w + 1) = Append(Digits(v \div Base, w), v % Base)
  <1>0. Base \in Nat \ {0, 1}
    BY BaseAssumption
  <1>1. \A x \in Nat : x % Base \in Numerals /\ x \div Base \in Nat
    BY <1>0 DEF Numerals
  <1>2. \A x, i : Digits(x, i) = [j \in 1 .. i |-> Left(x, i)[i - j] % Base]
    BY DEF Digits, Left
  <1>3. ASSUME NEW x \in Nat, NEW i \in Nat
        PROVE  Digits(x, i) \in [1 .. i -> Numerals]
    <2>1. Left(x, i) \in [0 .. i -> Nat]
      BY LeftIs
    <2>2. \A j \in 1 .. i : Left(x, i)[i - j] % Base \in Numerals
      BY <1>1, <2>1
    <2> QED
      BY <1>2, <2>2
  <1> DEFINE q == v \div Base
             f == Left(q, w)
             g == Left(v, w + 1)
             h == [k \in 0 .. w |-> g[k + 1]]
  <1>4. q \in Nat /\ w + 1 \in Nat
    BY <1>1
  <1>5. /\ f \in [0 .. w -> Nat] /\ f[0] = q
        /\ \A k \in 1 .. w : f[k] = f[k - 1] \div Base
    BY <1>4, LeftIs
  <1>6. /\ g \in [0 .. w + 1 -> Nat] /\ g[0] = v
        /\ \A k \in 1 .. w + 1 : g[k] = g[k - 1] \div Base
    BY <1>4, LeftIs
  <1> HIDE DEF f, g
  <1>7. \A k \in 0 .. w : f[k] = h[k]
    <2>1. h[0] = f[0]
      BY <1>5, <1>6
    <2>2. \A k \in 1 .. w : h[k] = h[k - 1] \div Base
      BY <1>6
    <2> HIDE DEF h
    <2>3. \A k \in 1 .. w : f[k - 1] = h[k - 1] => f[k] = h[k]
      BY <1>5, <2>2
    <2> QED
      BY <2>1, <2>3, Agreement, ZenonT(60)
  <1>8. Digits(q, w) = [j \in 1 .. w |-> f[w - j] % Base]
    BY <1>2 DEF f
  <1>9. Digits(v, w + 1) = [j \in 1 .. w + 1 |-> g[w + 1 - j] % Base]
    BY <1>2 DEF g
  <1>10. Digits(q, w) \in [1 .. w -> Numerals] /\ v % Base \in Numerals
    BY <1>1, <1>3, <1>4
  <1> DEFINE a == Append(Digits(q, w), v % Base)
             d == Digits(v, w + 1)
  <1>11. /\ a \in [1 .. w + 1 -> Numerals]
         /\ a[w + 1] = v % Base
         /\ \A j \in 1 .. w : a[j] = Digits(q, w)[j]
    <2>1. Digits(q, w) \in Seq(Numerals) /\ Len(Digits(q, w)) = w
      BY <1>10
    <2> HIDE DEF q
    <2>2. a \in Seq(Numerals) /\ Len(a) = w + 1
      BY <1>10, <2>1, AppendProperties
    <2>3. a[w + 1] = v % Base /\ \A j \in 1 .. w : a[j] = Digits(q, w)[j]
      BY <1>10, <2>1, AppendProperties
    <2> HIDE DEF a
    <2> QED
      BY <2>2, <2>3
  <1>12. ASSUME NEW j \in 1 .. w + 1 PROVE d[j] = a[j]
    <2>1. CASE j = w + 1
      <3>1. d[j] = g[w + 1 - j] % Base /\ w + 1 - j = 0
        BY <1>9, <2>1
      <3> QED
        BY <1>6, <1>11, <2>1, <3>1
    <2>2. CASE j \in 1 .. w
      <3>1. w - j \in 0 .. w /\ (w - j) + 1 = w + 1 - j
        BY <2>2
      <3>2. g[w + 1 - j] = f[w - j]
        BY <1>7, <3>1
      <3>3. d[j] = g[w + 1 - j] % Base
        BY <1>9
      <3>4. a[j] = f[w - j] % Base
        <4>1. a[j] = Digits(q, w)[j]
          BY <1>11, <2>2
        <4>2. Digits(q, w)[j] = f[w - j] % Base
          BY <1>8, <2>2
        <4> QED
          BY <4>1, <4>2
      <3> QED
        BY <3>2, <3>3, <3>4
    <2>3. j = w + 1 \/ j \in 1 .. w
      OBVIOUS
    <2> QED
      BY <2>1, <2>2, <2>3
  <1>13. d = a
    <2>1. d = [j \in 1 .. w + 1 |-> d[j]]
      BY <1>9
    <2>2. a = [j \in 1 .. w + 1 |-> a[j]]
      BY <1>11
    <2> HIDE DEF d, a
    <2> QED
      BY <1>12, <2>1, <2>2
  <1> QED
    BY <1>3, <1>13

-----------------------------------------------------------------------------
(* The recursion of Value has a solution. *)
LEMMA ValuesIs ==
    ASSUME NEW ds \in Seq(Nat)
    PROVE  /\ Values(ds) \in [0 .. Len(ds) -> Nat]
           /\ Values(ds)[0] = 0
           /\ \A k \in 1 .. Len(ds) :
                 Values(ds)[k] = Values(ds)[k - 1] * Base + ds[k]
  <1> DEFINE w == Len(ds)
             step == [k \in 1 .. w |-> [x \in Nat |-> x * Base + ds[k]]]
  <1>0. Base \in Nat /\ w \in Nat /\ \A k \in 1 .. w : ds[k] \in Nat
    BY BaseAssumption
  <1> HIDE DEF w
  <1>1. step \in Steps(Nat, w)
    <2>1. ASSUME NEW k \in 1 .. w, NEW x \in Nat PROVE x * Base + ds[k] \in Nat
      BY <1>0
    <2> QED
      BY <2>1 DEF Steps
  <1>2. PICK f : Computed(f, Nat, 0, w, step)
    <2> HIDE DEF step
    <2> QED
      BY <1>0, <1>1, Recursion
  <1>3. f \in [0 .. w -> Nat] /\ f[0] = 0
    BY <1>2 DEF Computed
  <1>4. ASSUME NEW k \in 1 .. w PROVE f[k] = f[k - 1] * Base + ds[k]
    <2>1. f[k - 1] \in Nat
      BY <1>0, <1>3
    <2>2. f[k] = step[k][f[k - 1]]
      BY <1>2 DEF Computed
    <2> QED
      BY <2>1, <2>2
  <1> HIDE DEF step
  <1>5. f = [k \in 0 .. w |-> IF k = 0 THEN 0 ELSE f[k - 1] * Base + ds[k]]
    BY <1>0, <1>3, <1>4
  <1>6. Values(ds) = [k \in 0 .. w |->
                        IF k = 0 THEN 0 ELSE Values(ds)[k - 1] * Base + ds[k]]
    BY <1>5, Zenon DEF Values, w
  <1> DEFINE g == Values(ds)
  <1>7. g[0] = 0 /\ \A k \in 1 .. w : g[k] = g[k - 1] * Base + ds[k]
    <2>1. g = [k \in 0 .. w |-> IF k = 0 THEN 0 ELSE g[k - 1] * Base + ds[k]]
      BY <1>6
    <2> HIDE DEF g
    <2>2. g[0] = 0
      BY <1>0, <2>1
    <2>3. ASSUME NEW k \in 1 .. w PROVE g[k] = g[k - 1] * Base + ds[k]
      <3>1. k \in 0 .. w /\ k # 0
        BY <1>0
      <3> QED
        BY <2>1, <3>1
    <2> QED
      BY <2>2, <2>3
  <1> HIDE DEF g
  <1>8. \A k \in 0 .. w : g[k] = f[k]
    <2>1. g[0] = f[0]
      BY <1>3, <1>7
    <2>2. \A k \in 1 .. w : g[k - 1] = f[k - 1] => g[k] = f[k]
      BY <1>4, <1>7
    <2> QED
      BY <1>0, <2>1, <2>2, Agreement, ZenonT(60)
  <1>9. g \in [0 .. w -> Nat]
    BY <1>3, <1>6, <1>8 DEF g
  <1> QED
    BY <1>7, <1>9 DEF g, w

(* One more digit multiplies by the base and adds to it. *)
LEMMA ValueIs ==
    ASSUME NEW ds \in Seq(Nat), NEW d \in Nat
    PROVE  /\ Value(<<>>) = 0
           /\ Value(ds) \in Nat
           /\ Value(Append(ds, d)) = Value(ds) * Base + d
  <1>1. \A s : Value(s) = Values(s)[Len(s)]
    BY DEF Value, Values
  <1>2. Value(<<>>) = 0
    <2>1. <<>> \in Seq(Nat) /\ Len(<<>>) = 0
      OBVIOUS
    <2> QED
      BY <1>1, <2>1, ValuesIs
  <1> DEFINE w == Len(ds)
             t == Append(ds, d)
             f == Values(ds)
             g == Values(t)
  <1>3. /\ w \in Nat /\ t \in Seq(Nat) /\ Len(t) = w + 1 /\ t[w + 1] = d
        /\ \A k \in 1 .. w : t[k] = ds[k]
    BY AppendProperties
  <1>4. f \in [0 .. w -> Nat] /\ f[0] = 0
        /\ \A k \in 1 .. w : f[k] = f[k - 1] * Base + ds[k]
    BY ValuesIs
  <1> HIDE DEF t, w
  <1>5. g[0] = 0 /\ \A k \in 1 .. w + 1 : g[k] = g[k - 1] * Base + t[k]
    BY <1>3, ValuesIs
  <1> HIDE DEF f, g
  <1>6. \A k \in 0 .. w : f[k] = g[k]
    <2>1. ASSUME NEW k \in 1 .. w, f[k - 1] = g[k - 1] PROVE f[k] = g[k]
      <3>1. k \in 1 .. w + 1 /\ t[k] = ds[k]
        BY <1>3
      <3> QED
        BY <1>4, <1>5, <2>1, <3>1
    <2>2. f[0] = g[0] /\ w \in Nat
      BY <1>3, <1>4, <1>5
    <2> QED
      BY <2>1, <2>2, Agreement, ZenonT(60)
  <1>7. w + 1 \in 1 .. w + 1 /\ w + 1 - 1 = w /\ w \in 0 .. w
    BY <1>3
  <1>8. g[w + 1] = f[w] * Base + d
    BY <1>3, <1>5, <1>6, <1>7, SMTT(60)
  <1>9. Value(ds) = f[w] /\ Value(t) = g[w + 1] /\ f[w] \in Nat
    BY <1>1, <1>3, <1>4, <1>7 DEF f, g, w
  <1> QED
    BY <1>2, <1>8, <1>9 DEF t

-----------------------------------------------------------------------------
(* The recursion of Typed has a solution. *)
LEMMA ReadingIs ==
    ASSUME NEW s \in Seq(Runes)
    PROVE  /\ TypedSoFar(s) \in [0 .. Len(s) -> Seq(Numerals)]
           /\ TypedSoFar(s)[0] = <<>>
           /\ \A k \in 1 .. Len(s) :
                 TypedSoFar(s)[k] = IF s[k].class \in {"ascii", "wide"}
                                 THEN Append(TypedSoFar(s)[k - 1], s[k].digit)
                                 ELSE TypedSoFar(s)[k - 1]
  <1> DEFINE w == Len(s)
             T == Seq(Numerals)
             is(k) == s[k].class \in {"ascii", "wide"}
             step == [k \in 1 .. w |-> [x \in T |->
                         IF is(k) THEN Append(x, s[k].digit) ELSE x]]
  <1>0. w \in Nat /\ <<>> \in T /\ \A k \in 1 .. w : s[k].digit \in Numerals
    <2>1. Base \in Nat \ {0, 1}
      BY BaseAssumption
    <2>2. \A k \in 1 .. w : s[k] \in Runes
      OBVIOUS
    <2>3. \A r \in Runes : r.digit \in Numerals
      BY <2>1 DEF Runes, Numerals
    <2> QED
      BY <2>2, <2>3
  <1>1. step \in Steps(T, w)
    <2>1. ASSUME NEW k \in 1 .. w, NEW x \in T
          PROVE  (IF is(k) THEN Append(x, s[k].digit) ELSE x) \in T
      BY <1>0, AppendProperties
    <2> HIDE DEF T, is
    <2> QED
      BY <2>1 DEF Steps
  <1> HIDE DEF w, T
  <1>2. PICK f : Computed(f, T, <<>>, w, step)
    <2> HIDE DEF step
    <2> QED
      BY <1>0, <1>1, Recursion
  <1>3. f \in [0 .. w -> T] /\ f[0] = <<>>
    BY <1>2 DEF Computed
  <1>4. ASSUME NEW k \in 1 .. w
        PROVE  f[k] = IF is(k) THEN Append(f[k - 1], s[k].digit) ELSE f[k - 1]
    <2>1. f[k - 1] \in T
      BY <1>0, <1>3
    <2>2. f[k] = step[k][f[k - 1]]
      BY <1>2 DEF Computed
    <2> HIDE DEF is
    <2> QED
      BY <2>1, <2>2
  <1> HIDE DEF step, is
  <1>5. f = [k \in 0 .. w |-> IF k = 0 THEN <<>>
                              ELSE IF is(k) THEN Append(f[k - 1], s[k].digit)
                              ELSE f[k - 1]]
    <2>1. ASSUME NEW k \in 0 .. w
          PROVE  f[k] = IF k = 0 THEN <<>>
                        ELSE IF is(k) THEN Append(f[k - 1], s[k].digit)
                        ELSE f[k - 1]
      <3>1. CASE k = 0
        BY <1>3, <3>1
      <3>2. CASE k # 0
        <4>1. k \in 1 .. w
          BY <1>0, <3>2
        <4> QED
          BY <1>4, <3>2, <4>1, Zenon
      <3> QED
        BY <3>1, <3>2
    <2> QED
      BY <1>3, <2>1, Zenon
  <1> DEFINE g == TypedSoFar(s)
  <1>6. g = [k \in 0 .. w |-> IF k = 0 THEN <<>>
                              ELSE IF is(k) THEN Append(g[k - 1], s[k].digit)
                              ELSE g[k - 1]]
    BY <1>5, Zenon DEF TypedSoFar, w, is
  <1> HIDE DEF g
  <1>7. g[0] = <<>>
    BY <1>0, <1>6
  <1>8. ASSUME NEW k \in 1 .. w
        PROVE  g[k] = IF is(k) THEN Append(g[k - 1], s[k].digit) ELSE g[k - 1]
    <2>1. k \in 0 .. w /\ k # 0
      BY <1>0
    <2> QED
      BY <1>6, <2>1
  <1>9. \A k \in 0 .. w : g[k] = f[k]
    <2>1. g[0] = f[0]
      BY <1>3, <1>7
    <2>2. \A k \in 1 .. w : g[k - 1] = f[k - 1] => g[k] = f[k]
      BY <1>4, <1>8
    <2> QED
      BY <1>0, <2>1, <2>2, Agreement, ZenonT(60)
  <1>10. g \in [0 .. w -> T]
    <2>1. g = [k \in 0 .. w |-> g[k]]
      BY <1>6
    <2> QED
      BY <1>3, <1>9, <2>1
  <1> QED
    BY <1>7, <1>8, <1>10 DEF g, w, T, is

(* What is typed is read off rune by rune: the reading of the first k      *)
(* runes is the k-th value of the reading of the whole text.               *)
LEMMA TypedPrefix ==
    ASSUME NEW s \in Seq(Runes), NEW k \in 0 .. Len(s)
    PROVE  Typed(SubSeq(s, 1, k)) = TypedSoFar(s)[k]
  <1> DEFINE t == SubSeq(s, 1, k)
             f == TypedSoFar(s)
             g == TypedSoFar(t)
  <1>1. t \in Seq(Runes) /\ Len(t) = k /\ \A i \in 1 .. k : t[i] = s[i]
    OBVIOUS
  <1>2. f[0] = <<>> /\ \A i \in 1 .. Len(s) :
           f[i] = IF s[i].class \in {"ascii", "wide"}
                  THEN Append(f[i - 1], s[i].digit) ELSE f[i - 1]
    BY ReadingIs
  <1> HIDE DEF t
  <1>3. g[0] = <<>> /\ \A i \in 1 .. k :
           g[i] = IF t[i].class \in {"ascii", "wide"}
                  THEN Append(g[i - 1], t[i].digit) ELSE g[i - 1]
    BY <1>1, ReadingIs
  <1> HIDE DEF f, g
  <1>4. \A i \in 0 .. k : f[i] = g[i]
    <2>1. ASSUME NEW i \in 1 .. k, f[i - 1] = g[i - 1] PROVE f[i] = g[i]
      <3>1. i \in 1 .. Len(s) /\ t[i] = s[i]
        BY <1>1
      <3> QED
        BY <1>2, <1>3, <2>1, <3>1, Zenon
    <2>2. f[0] = g[0] /\ k \in Nat
      BY <1>2, <1>3
    <2> QED
      BY <2>1, <2>2, Agreement, ZenonT(60)
  <1>5. Typed(t) = g[k]
    BY <1>1 DEF Typed, TypedSoFar, g
  <1> QED
    BY <1>4, <1>5 DEF t, f

(* Digits are what the reading of a text collects, and nothing else.       *)
LEMMA TypedIs ==
    ASSUME NEW s \in Seq(Runes)
    PROVE  /\ Typed(s) \in Seq(Numerals)
           /\ Typed(SubSeq(s, 1, 0)) = <<>>
           /\ \A k \in 1 .. Len(s) :
                 Typed(SubSeq(s, 1, k)) =
                    IF s[k].class \in {"ascii", "wide"}
                    THEN Append(Typed(SubSeq(s, 1, k - 1)), s[k].digit)
                    ELSE Typed(SubSeq(s, 1, k - 1))
           /\ \A k \in 0 .. Len(s) : Typed(SubSeq(s, 1, k)) \in Seq(Numerals)
  <1>1. /\ TypedSoFar(s) \in [0 .. Len(s) -> Seq(Numerals)]
        /\ TypedSoFar(s)[0] = <<>>
        /\ \A k \in 1 .. Len(s) :
              TypedSoFar(s)[k] = IF s[k].class \in {"ascii", "wide"}
                              THEN Append(TypedSoFar(s)[k - 1], s[k].digit)
                              ELSE TypedSoFar(s)[k - 1]
    BY ReadingIs
  <1>2. \A k \in 0 .. Len(s) : Typed(SubSeq(s, 1, k)) = TypedSoFar(s)[k]
    BY TypedPrefix
  <1>3. \A k \in 1 .. Len(s) : k \in 0 .. Len(s) /\ k - 1 \in 0 .. Len(s)
    OBVIOUS
  <1>4. 0 \in 0 .. Len(s) /\ Len(s) \in 0 .. Len(s)
    OBVIOUS
  <1>5. SubSeq(s, 1, Len(s)) = s
    BY SubSeqFull
  <1>6. \A k \in 0 .. Len(s) : Typed(SubSeq(s, 1, k)) \in Seq(Numerals)
    BY <1>1, <1>2, Zenon
  <1>7. \A k \in 1 .. Len(s) :
           Typed(SubSeq(s, 1, k)) =
              IF s[k].class \in {"ascii", "wide"}
              THEN Append(Typed(SubSeq(s, 1, k - 1)), s[k].digit)
              ELSE Typed(SubSeq(s, 1, k - 1))
    BY <1>1, <1>2, <1>3, Zenon
  <1>8. Typed(SubSeq(s, 1, 0)) = <<>>
    BY <1>1, <1>2, <1>4, Zenon
  <1>9. Typed(s) \in Seq(Numerals)
    BY <1>4, <1>5, <1>6
  <1> QED
    BY <1>6, <1>7, <1>8, <1>9, Zenon

(* A text holds at least the digits of any beginning of it.                *)
LEMMA TypedGrows ==
    ASSUME NEW s \in Seq(Runes), NEW k \in 0 .. Len(s)
    PROVE  Len(Typed(SubSeq(s, 1, k))) <= Len(Typed(s))
  <1> DEFINE len(i) == Len(Typed(SubSeq(s, 1, i)))
             S == {i \in 0 .. Len(s) - k : len(k) <= len(k + i)}
  <1>1. \A i \in 0 .. Len(s) : len(i) \in Nat
    BY TypedIs
  <1>2. ASSUME NEW i \in 1 .. Len(s) PROVE len(i - 1) <= len(i)
    <2> DEFINE a == Typed(SubSeq(s, 1, i - 1))
    <2>1. i - 1 \in 0 .. Len(s)
      OBVIOUS
    <2>2. a \in Seq(Numerals)
      BY <2>1, TypedIs
    <2>3. s[i] \in Runes
      OBVIOUS
    <2>4. s[i].digit \in Numerals
      BY <2>3, BaseAssumption DEF Runes, Numerals
    <2>5. Typed(SubSeq(s, 1, i)) = Append(a, s[i].digit) \/ Typed(SubSeq(s, 1, i)) = a
      BY TypedIs
    <2> HIDE DEF a
    <2>6. Len(Append(a, s[i].digit)) = Len(a) + 1 /\ Len(a) \in Nat
      BY <2>2, <2>4, AppendProperties
    <2> QED
      BY <2>5, <2>6 DEF a
  <1> HIDE DEF len
  <1>3. 0 \in S
    BY <1>1
  <1>4. \A i \in 0 .. Len(s) - k - 1 : i \in S => i + 1 \in S
    <2> SUFFICES ASSUME NEW i \in 0 .. Len(s) - k - 1, i \in S PROVE i + 1 \in S
      OBVIOUS
    <2>1. k + i + 1 \in 1 .. Len(s) /\ k + i + 1 - 1 = k + i /\ k + i \in 0 .. Len(s)
      OBVIOUS
    <2>2. len(k + i) <= len(k + i + 1) /\ len(k) <= len(k + i)
      BY <1>2, <2>1
    <2>3. len(k) <= len(k + i + 1)
      BY <1>1, <2>1, <2>2
    <2>4. k + (i + 1) = k + i + 1
      OBVIOUS
    <2> QED
      BY <2>3, <2>4
  <1>5. Len(s) - k \in S
    <2>1. Len(s) - k \in Nat
      OBVIOUS
    <2> HIDE DEF S
    <2>2. 0 .. (Len(s) - k) \subseteq S
      BY <1>3, <1>4, <2>1, BoundedInduction
    <2> QED
      BY <2>1, <2>2
  <1>6. k + (Len(s) - k) = Len(s) /\ SubSeq(s, 1, Len(s)) = s
    BY SubSeqFull
  <1> QED
    BY <1>5, <1>6 DEF len

-----------------------------------------------------------------------------
(* Digits spell a number below the codes of their width, and are the       *)
(* digits of that number.                                                  *)
LEMMA ValueFits ==
    ASSUME NEW ds \in Seq(Numerals)
    PROVE  Value(ds) \in Nat /\ Value(ds) < Codes(Len(ds))
           /\ Digits(Value(ds), Len(ds)) = ds
  <1>0. Base \in Nat \ {0, 1} /\ Numerals \subseteq Nat
    BY BaseAssumption DEF Numerals
  <1> DEFINE Fits(s) == Value(s) \in Nat /\ Value(s) < Codes(Len(s))
                        /\ Digits(Value(s), Len(s)) = s
             S == {w \in Nat : \A s \in Seq(Numerals) : Len(s) = w => Fits(s)}
  <1>1. 0 \in S
    <2> SUFFICES ASSUME NEW s \in Seq(Numerals), Len(s) = 0 PROVE Fits(s)
      OBVIOUS
    <2>1. s = <<>>
      BY EmptySeq
    <2>2. Value(s) = 0 /\ Codes(0) = 1
      <3>1. <<>> \in Seq(Nat) /\ 0 \in Nat
        OBVIOUS
      <3> QED
        BY <2>1, <3>1, ValueIs, CodesIs, Zenon
    <2>3. Digits(0, 0) = <<>>
      BY DEF Digits
    <2> QED
      BY <2>1, <2>2, <2>3
  <1>2. \A w \in Nat : w \in S => w + 1 \in S
    <2> SUFFICES ASSUME NEW w \in Nat, w \in S,
                        NEW s \in Seq(Numerals), Len(s) = w + 1
                 PROVE  Fits(s)
      OBVIOUS
    <2> DEFINE front == SubSeq(s, 1, w)
               last == s[w + 1]
               v == Value(front)
    <2>1. front \in Seq(Numerals) /\ last \in Numerals /\ Len(front) = w
      OBVIOUS
    <2>2. s = Append(front, last)
      OBVIOUS
    <2>3. v \in Nat /\ v < Codes(w) /\ Digits(v, w) = front
      BY <2>1
    <2> HIDE DEF front, last
    <2>4. Value(s) = v * Base + last
      <3>1. front \in Seq(Nat) /\ last \in Nat
        BY <1>0, <2>1, SeqMonotonic
      <3> QED
        BY <2>2, <3>1, ValueIs
    <2> HIDE DEF v
    <2>5. Value(s) < Codes(w + 1)
      <3>1. Codes(w + 1) = Codes(w) * Base /\ Codes(w) \in Nat
        BY CodesIs
      <3>2. v + 1 <= Codes(w) /\ last <= Base - 1 /\ last \in Nat
        BY <2>1, <2>3, <3>1 DEF Numerals
      <3>3. (v + 1) * Base <= Codes(w) * Base
        BY <1>0, <2>3, <3>1, <3>2
      <3>4. (v + 1) * Base = v * Base + Base
        BY <1>0, <2>3
      <3> QED
        BY <1>0, <2>3, <2>4, <3>1, <3>2, <3>3, <3>4
    <2>6. Value(s) \in Nat /\ Value(s) \div Base = v /\ Value(s) % Base = last
      <3>1. last \in 0 .. Base - 1
        BY <2>1 DEF Numerals
      <3>2. Base \in Nat \ {0} /\ v \in Nat
        BY <1>0, <2>3
      <3>3. v * Base + last \in Nat /\ (v * Base + last) \div Base = v
            /\ (v * Base + last) % Base = last
        BY <3>1, <3>2, QuotientAndRemainder
      <3> QED
        BY <2>4, <3>3
    <2>7. Digits(Value(s), w + 1) = Append(Digits(v, w), last)
      BY <2>6, DigitsIs
    <2> QED
      BY <2>2, <2>3, <2>5, <2>6, <2>7
  <1>3. Nat \subseteq S
    <2> HIDE DEF S
    <2> QED
      BY <1>1, <1>2, SetInduction
  <1> QED
    BY <1>3

(* The digits of a number below the codes of a width spell it.             *)
LEMMA DigitsSpell ==
    ASSUME NEW w \in Nat, NEW v \in Nat, v < Codes(w)
    PROVE  Value(Digits(v, w)) = v
  <1>0. Base \in Nat \ {0, 1} /\ Numerals \subseteq Nat
    BY BaseAssumption DEF Numerals
  <1> DEFINE S == {i \in Nat : \A x \in Nat :
                      x < Codes(i) => Value(Digits(x, i)) = x}
  <1>1. 0 \in S
    <2>1. Codes(0) = 1 /\ Value(<<>>) = 0
      <3>1. <<>> \in Seq(Nat) /\ 0 \in Nat
        OBVIOUS
      <3> QED
        BY <3>1, ValueIs, CodesIs, Zenon
    <2>2. \A x : Digits(x, 0) = <<>>
      BY DEF Digits
    <2> QED
      BY <2>1, <2>2
  <1>2. \A i \in Nat : i \in S => i + 1 \in S
    <2> SUFFICES ASSUME NEW i \in Nat, i \in S, NEW x \in Nat, x < Codes(i + 1)
                 PROVE  Value(Digits(x, i + 1)) = x
      OBVIOUS
    <2> DEFINE q == x \div Base
               r == x % Base
    <2>1. q \in Nat /\ r \in Nat /\ x = q * Base + r
      BY <1>0
    <2> HIDE DEF q, r
    <2>2. q < Codes(i)
      <3>1. Codes(i + 1) = Codes(i) * Base /\ Codes(i) \in Nat
        BY CodesIs
      <3>2. q >= Codes(i) => q * Base >= Codes(i) * Base
        BY <1>0, <2>1, <3>1
      <3> QED
        BY <1>0, <2>1, <3>1, <3>2
    <2>3. Value(Digits(q, i)) = q
      BY <2>1, <2>2
    <2>4. Digits(x, i + 1) = Append(Digits(q, i), r)
      BY DigitsIs DEF q, r
    <2>5. Digits(q, i) \in Seq(Nat)
      <3>1. Digits(q, i) \in [1 .. i -> Numerals]
        BY <2>1, DigitsIs
      <3>2. Digits(q, i) \in [1 .. i -> Nat]
        BY <1>0, <3>1
      <3> QED
        BY <3>2
    <2>6. Value(Append(Digits(q, i), r)) = Value(Digits(q, i)) * Base + r
      BY <2>1, <2>5, ValueIs
    <2> QED
      BY <2>1, <2>3, <2>4, <2>6
  <1>3. Nat \subseteq S
    <2> HIDE DEF S
    <2> QED
      BY <1>1, <1>2, SetInduction
  <1> QED
    BY <1>3
=============================================================================
