--------------------------- MODULE LibraryProofs ----------------------------
(***************************************************************************)
(* The lazy load is correct for any number of goroutines, any database and *)
(* any nesting of calls.  The inductive invariant is IInv of Library: the  *)
(* owner of the mutex is the one caller inside sync.Once, and LoadedSoFar  *)
(* says, for each place it can be at, how far loading has come.            *)
(*                                                                         *)
(* And the package implements ZipService: forgetting where a call is,      *)
(* every step of Library is a step of the service or changes nothing a     *)
(* caller can see.                                                         *)
(***************************************************************************)
EXTENDS Library, Foundations

-----------------------------------------------------------------------------
(* Stacks of calls. *)

(* The innermost call changes, and nothing below it does. *)
LEMMA ReplaceTop ==
    ASSUME NEW s \in Seq(Frame), s # <<>>, NEW f \in Frame
    PROVE  LET t == <<f>> \o Tail(s)
           IN  /\ t \in Seq(Frame)
               /\ Len(t) = Len(s)
               /\ t # <<>>
               /\ Head(t) = f
               /\ \A i \in 2 .. Len(t) : t[i] = s[i]
  OBVIOUS

(* A call begins inside the ones under way. *)
LEMMA Push ==
    ASSUME NEW s \in Seq(Frame), NEW f \in Frame
    PROVE  LET t == <<f>> \o s
           IN  /\ t \in Seq(Frame)
               /\ Len(t) = Len(s) + 1
               /\ t # <<>>
               /\ Head(t) = f
               /\ \A i \in 2 .. Len(t) : t[i] = s[i - 1]
  OBVIOUS

(* A call ends, and the one it ran in goes on. *)
LEMMA Pop ==
    ASSUME NEW s \in Seq(Frame), s # <<>>
    PROVE  /\ Tail(s) \in Seq(Frame)
           /\ Len(Tail(s)) = Len(s) - 1
           /\ \A i \in 1 .. Len(Tail(s)) : Tail(s)[i] = s[i + 1]
           /\ Tail(s) # <<>> => Len(s) > 1 /\ Head(Tail(s)) = s[2]
  OBVIOUS

LEMMA TopIsFrame ==
    ASSUME NEW s \in Seq(Frame), s # <<>>
    PROVE  Head(s) \in Frame
  OBVIOUS

-----------------------------------------------------------------------------
(* What the moves of a caller do to the stacks. *)

(* The caller's innermost call moves on; nobody else's does. *)
LEMMA BecomeMoves ==
    ASSUME TypeOK, NEW c \in Callers, stack[c] # <<>>,
           NEW f \in Frame, Become(c, f)
    PROVE  /\ stack' \in [Callers -> Seq(Frame)]
           /\ stack'[c] # <<>> /\ Head(stack'[c]) = f
           /\ Len(stack'[c]) = Len(stack[c])
           /\ \A i \in 2 .. Len(stack'[c]) : stack'[c][i] = stack[c][i]
           /\ \A d \in Callers : d # c => stack'[d] = stack[d]
  <1>1. stack[c] \in Seq(Frame)
    BY DEF TypeOK
  <1>2. stack' = [stack EXCEPT ![c] = <<f>> \o Tail(stack[c])]
    BY DEF Become, TypeOK
  <1>3. stack'[c] = <<f>> \o Tail(stack[c])
    BY <1>2 DEF TypeOK
  <1> QED
    BY <1>1, <1>2, <1>3, ReplaceTop DEF TypeOK

(* The call keeps its operation and its argument. *)
LEMMA GotoMoves ==
    ASSUME TypeOK, NEW c \in Callers, stack[c] # <<>>,
           NEW pc \in PCs, Goto(c, pc)
    PROVE  /\ stack' \in [Callers -> Seq(Frame)]
           /\ stack'[c] # <<>> /\ Head(stack'[c]).pc = pc
           /\ Len(stack'[c]) = Len(stack[c])
           /\ \A i \in 2 .. Len(stack'[c]) : stack'[c][i] = stack[c][i]
           /\ \A d \in Callers : d # c => stack'[d] = stack[d]
  <1> DEFINE f == [Head(stack[c]) EXCEPT !.pc = pc]
  <1>1. f \in Frame /\ f.pc = pc
    BY TopIsFrame DEF TypeOK, Frame
  <1>2. Become(c, f)
    BY DEF Goto
  <1> QED
    BY <1>1, <1>2, BecomeMoves

(* A call returns to the iteration it was made in, or to its caller. *)
LEMMA FinishMoves ==
    ASSUME TypeOK, NEW c \in Callers, stack[c] # <<>>, NEW r, Finish(c, r)
    PROVE  /\ stack' \in [Callers -> Seq(Frame)]
           /\ Len(stack'[c]) = Len(stack[c]) - 1
           /\ stack'[c] # <<>> => Len(stack[c]) > 1 /\ Head(stack'[c]) = stack[c][2]
           /\ \A i \in 1 .. Len(stack'[c]) : stack'[c][i] = stack[c][i + 1]
           /\ \A d \in Callers : d # c => stack'[d] = stack[d]
           /\ UNCHANGED <<readable, once>>
  <1>1. stack[c] \in Seq(Frame)
    BY DEF TypeOK
  <1>2. stack' = [stack EXCEPT ![c] = Tail(stack[c])]
    BY DEF Finish, TypeOK
  <1>3. stack'[c] = Tail(stack[c])
    BY <1>2 DEF TypeOK
  <1> QED
    BY <1>1, <1>2, <1>3, Pop DEF TypeOK, Finish

-----------------------------------------------------------------------------
(* The others. *)

(* A caller that does not move, and that is not inside sync.Once unless    *)
(* nothing moves there, keeps its part of the invariant.                   *)
LEMMA OthersKeep ==
    ASSUME IInv, NEW d \in Callers,
           stack'[d] = stack[d], readable' = readable, done => done',
           mutex = d => UNCHANGED once
    PROVE  LoadedSoFar(d)' /\ Nesting(d)'
  <1>1. LoadedSoFar(d) /\ Nesting(d)
    BY DEF IInv
  <1>2. CASE mutex = d
    BY <1>1, <1>2 DEF once, LoadedSoFar, Nesting, Running, NotBegun, Loaded,
                      Decoded
  <1>3. CASE mutex # d
    <2>1. stack[d] # <<>> => Head(stack[d]).pc \notin Critical
      BY <1>3 DEF IInv, MutexHeld
    <2> QED
      BY <1>1, <2>1 DEF LoadedSoFar, Nesting, Running, Critical
  <1> QED
    BY <1>2, <1>3

(* A move that loads nothing leaves the mutex and the database as they     *)
(* were: what is left to show is about the caller that moved.              *)
LEMMA IdleMove ==
    ASSUME IInv, NEW c \in Callers, UNCHANGED <<readable, once>>,
           stack' \in [Callers -> Seq(Frame)],
           \A d \in Callers : d # c => stack'[d] = stack[d],
           Len(stack'[c]) <= MaxDepth,
           mutex = c <=> stack'[c] # <<>> /\ Head(stack'[c]).pc \in Critical,
           LoadedSoFar(c)' /\ Nesting(c)'
    PROVE  IInv'
  <1>1. TypeOK'
    BY DEF IInv, TypeOK, once
  <1>2. MutexHeld'
    BY DEF IInv, MutexHeld, once
  <1>3. (done => Loaded)' /\ (~done /\ mutex = Nobody => NotBegun)'
    BY DEF IInv, Loaded, Decoded, NotBegun, once
  <1>4. ASSUME NEW d \in Callers PROVE LoadedSoFar(d)' /\ Nesting(d)'
    BY <1>4, OthersKeep DEF once
  <1> QED
    BY <1>1, <1>2, <1>3, <1>4 DEF IInv

-----------------------------------------------------------------------------
(* Nothing is loaded and no call is under way at the start. *)
LEMMA InitIInv == Init => IInv
  <1> SUFFICES ASSUME Init PROVE IInv
    OBVIOUS
  <1>1. TypeOK
    <2>1. prefectures \in [1 .. Len(Published) -> Names]
      BY DEF Init, Names
    <2>2. stack \in [Callers -> Seq(Frame)]
          /\ \A c \in Callers : Len(stack[c]) <= MaxDepth
      BY MaxDepthAssumption DEF Init
    <2>3. readable \in BOOLEAN /\ done \in BOOLEAN
      BY DEF Init
    <2>4. /\ mutex \in Callers \cup {Nobody}
          /\ outcome \in {"none", "db", "err"}
          /\ derived \in 0 .. Len(Published)
          /\ decodes \in Nat
      BY LengthsAssumption DEF Init
    <2> QED
      BY <2>1, <2>2, <2>3, <2>4 DEF TypeOK
  <1>2. MutexHeld
    BY CallersAssumption DEF Init, MutexHeld
  <1>3. NotBegun /\ ~done
    BY DEF Init, NotBegun
  <1>4. ASSUME NEW c \in Callers PROVE LoadedSoFar(c) /\ Nesting(c)
    BY <1>4 DEF Init, LoadedSoFar, Nesting, Running
  <1> QED
    BY <1>1, <1>2, <1>3, <1>4 DEF IInv

(* A call begins. *)
LEMMA BeginIInv ==
    ASSUME IInv, NEW c \in Callers, Begin(c)
    PROVE  IInv'
  <1>0. PICK op \in Operations :
          \E arg \in ArgumentsOf(op) : stack' = [stack EXCEPT ![c] =
             <<[op |-> op, arg |-> arg, pc |-> "parse", yielded |-> 0]>> \o @]
    BY DEF Begin
  <1>1. PICK arg \in ArgumentsOf(op) : stack' = [stack EXCEPT ![c] =
             <<[op |-> op, arg |-> arg, pc |-> "parse", yielded |-> 0]>> \o @]
    BY <1>0
  <1> DEFINE f == [op |-> op, arg |-> arg, pc |-> "parse", yielded |-> 0]
  <1>2. arg \in Arguments
    BY DEF ArgumentsOf, Arguments
  <1>3. f \in Frame
    BY <1>2, LengthsAssumption DEF Frame, PCs, Count
  <1>4. stack[c] \in Seq(Frame) /\ stack'[c] = <<f>> \o stack[c]
    BY <1>1 DEF IInv, TypeOK
  <1>5. /\ stack'[c] \in Seq(Frame)
        /\ Len(stack'[c]) = Len(stack[c]) + 1
        /\ stack'[c] # <<>> /\ Head(stack'[c]).pc = "parse"
        /\ \A i \in 2 .. Len(stack'[c]) : stack'[c][i] = stack[c][i - 1]
    BY <1>3, <1>4, Push
  <1>6. stack' \in [Callers -> Seq(Frame)]
        /\ \A d \in Callers : d # c => stack'[d] = stack[d]
    BY <1>1, <1>4, <1>5 DEF IInv, TypeOK
  <1>7. mutex # c
    BY DEF Begin, InOwnCode, Running, IInv, MutexHeld, Critical
  <1>8. stack[c] # <<>> => done /\ Head(stack[c]).pc = "iterate"
    BY DEF Begin, InOwnCode, Running, IInv, LoadedSoFar
  <1>9. LoadedSoFar(c)'
    BY <1>5 DEF LoadedSoFar, Running
  <1>10. Nesting(c)'
    <2>1. ASSUME NEW i \in 2 .. Len(stack'[c]) PROVE stack'[c][i].pc = "iterate"
      <3>1. stack[c] # <<>> /\ Nesting(c) /\ Head(stack[c]) = stack[c][1]
        BY <1>4, <1>5, <2>1 DEF IInv
      <3> QED
        BY <1>4, <1>5, <1>8, <2>1, <3>1 DEF Nesting
    <2>2. Len(stack'[c]) > 1 => done'
      BY <1>4, <1>5, <1>8 DEF Begin, once
    <2> QED
      BY <1>5, <2>1, <2>2 DEF Nesting, Critical
  <1>11. UNCHANGED <<readable, once>> /\ Len(stack'[c]) <= MaxDepth
    BY <1>4, <1>5, MaxDepthAssumption DEF Begin
  <1>12. mutex = c <=> stack'[c] # <<>> /\ Head(stack'[c]).pc \in Critical
    BY <1>5, <1>7 DEF Critical
  <1> QED
    BY <1>6, <1>9, <1>10, <1>11, <1>12, IdleMove

-----------------------------------------------------------------------------
(* The steps that load nothing. *)

(* A call that goes on to another place outside sync.Once. *)
LEMMA GotoIInv ==
    ASSUME IInv, NEW c \in Callers, stack[c] # <<>>,
           Head(stack[c]).pc \notin Critical,
           NEW pc \in PCs \ Critical, Goto(c, pc),
           pc = "lock" => ~done, pc \in {"use", "iterate"} => done,
           UNCHANGED <<readable, once>>
    PROVE  IInv'
  <1>1. /\ stack' \in [Callers -> Seq(Frame)]
        /\ stack'[c] # <<>> /\ Head(stack'[c]).pc = pc
        /\ Len(stack'[c]) = Len(stack[c])
        /\ \A i \in 2 .. Len(stack'[c]) : stack'[c][i] = stack[c][i]
        /\ \A d \in Callers : d # c => stack'[d] = stack[d]
    BY GotoMoves DEF IInv
  <1>2. mutex # c
    BY DEF IInv, MutexHeld
  <1>3. LoadedSoFar(c)'
    BY <1>1 DEF LoadedSoFar, Running, Critical, once
  <1>4. Nesting(c)'
    BY <1>1 DEF IInv, Nesting, once
  <1>5. Len(stack'[c]) <= MaxDepth
    BY <1>1 DEF IInv, TypeOK
  <1> QED
    BY <1>1, <1>2, <1>3, <1>4, <1>5, IdleMove

(* A call that ends. *)
LEMMA FinishIInv ==
    ASSUME IInv, NEW c \in Callers, stack[c] # <<>>,
           Head(stack[c]).pc \notin Critical, NEW r, Finish(c, r)
    PROVE  IInv'
  <1>1. /\ stack' \in [Callers -> Seq(Frame)]
        /\ Len(stack'[c]) = Len(stack[c]) - 1
        /\ stack'[c] # <<>> => Len(stack[c]) > 1 /\ Head(stack'[c]) = stack[c][2]
        /\ \A i \in 1 .. Len(stack'[c]) : stack'[c][i] = stack[c][i + 1]
        /\ \A d \in Callers : d # c => stack'[d] = stack[d]
        /\ UNCHANGED <<readable, once>>
    BY FinishMoves DEF IInv
  <1>2. stack[c] \in Seq(Frame) /\ stack'[c] \in Seq(Frame)
    BY <1>1 DEF IInv, TypeOK
  <1>3. mutex # c
    BY DEF IInv, MutexHeld
  <1>4. stack'[c] # <<>> => Head(stack'[c]).pc = "iterate" /\ done
    BY <1>1, <1>2 DEF IInv, Nesting
  <1>5. LoadedSoFar(c)'
    BY <1>1, <1>4 DEF LoadedSoFar, Running, once
  <1>6. Nesting(c)'
    <2>1. ASSUME NEW i \in 2 .. Len(stack'[c]) PROVE stack'[c][i].pc = "iterate"
      BY <1>1, <1>2, <2>1 DEF IInv, Nesting
    <2>2. Len(stack'[c]) > 1 => done' /\ Head(stack'[c]).pc = "iterate"
      BY <1>1, <1>2, <1>4 DEF once
    <2> QED
      BY <2>1, <2>2 DEF Nesting, Critical
  <1>7. Len(stack'[c]) <= MaxDepth
    BY <1>1, <1>2, MaxDepthAssumption DEF IInv, TypeOK
  <1>8. mutex = c <=> stack'[c] # <<>> /\ Head(stack'[c]).pc \in Critical
    BY <1>3, <1>4 DEF Critical
  <1> QED
    BY <1>1, <1>5, <1>6, <1>7, <1>8, IdleMove

(* One more address is handed out. *)
LEMMA YieldIInv ==
    ASSUME IInv, NEW c \in Callers, YieldNext(c)
    PROVE  IInv'
  <1> DEFINE f == [Head(stack[c]) EXCEPT !.yielded = @ + 1]
  <1>1. Head(stack[c]) \in Frame /\ stack[c] # <<>>
        /\ Head(stack[c]).pc = "iterate"
    BY TopIsFrame DEF IInv, TypeOK, YieldNext, Running
  <1>2. f \in Frame /\ f.pc = "iterate"
    BY <1>1, LengthsAssumption DEF Frame, YieldNext, Count
  <1>3. /\ stack' \in [Callers -> Seq(Frame)]
        /\ stack'[c] # <<>> /\ Head(stack'[c]) = f
        /\ Len(stack'[c]) = Len(stack[c])
        /\ \A i \in 2 .. Len(stack'[c]) : stack'[c][i] = stack[c][i]
        /\ \A d \in Callers : d # c => stack'[d] = stack[d]
    BY <1>1, <1>2, BecomeMoves DEF IInv, YieldNext
  <1>4. done /\ mutex # c
    BY <1>1 DEF IInv, LoadedSoFar, Running, MutexHeld, Critical
  <1>5. UNCHANGED <<readable, once>>
    BY DEF YieldNext
  <1>6. LoadedSoFar(c)'
    BY <1>2, <1>3, <1>4, <1>5 DEF LoadedSoFar, Running, once
  <1>7. Nesting(c)'
    BY <1>2, <1>3, <1>4, <1>5, ZenonT(60) DEF IInv, Nesting, Critical, once
  <1>8. Len(stack'[c]) <= MaxDepth
    BY <1>3 DEF IInv, TypeOK
  <1>9. mutex = c <=> stack'[c] # <<>> /\ Head(stack'[c]).pc \in Critical
    BY <1>2, <1>3, <1>4 DEF Critical
  <1> QED
    BY <1>3, <1>5, <1>6, <1>7, <1>8, <1>9, IdleMove

-----------------------------------------------------------------------------
(* The steps of sync.Once.  Only an outermost call takes them. *)

LoadState ==
    /\ mutex \in Callers \cup {Nobody}
    /\ done \in BOOLEAN
    /\ outcome \in {"none", "db", "err"}
    /\ prefectures \in [1 .. Len(Published) -> Names]
    /\ derived \in 0 .. Len(Published)
    /\ decodes \in Nat

LEMMA Outermost ==
    ASSUME IInv, NEW c \in Callers, stack[c] # <<>>,
           Head(stack[c]).pc \in Critical \cup {"lock"}
    PROVE  Len(stack[c]) = 1
  <1>1. stack[c] \in Seq(Frame) /\ Nesting(c)
    BY DEF IInv, TypeOK
  <1>2. Len(stack[c]) \in Nat \ {0}
    BY <1>1
  <1>3. ~(Len(stack[c]) > 1)
    BY <1>1 DEF Nesting
  <1>4. \A k \in Nat \ {0} : ~(k > 1) => k = 1
    OBVIOUS
  <1> QED
    BY <1>2, <1>3, <1>4, Zenon

(* What a step of the owner of the mutex, or of the caller that becomes    *)
(* it, has to show.                                                        *)
LEMMA OwnerMove ==
    ASSUME IInv, NEW c \in Callers, stack[c] # <<>>,
           Head(stack[c]).pc \in Critical \cup {"lock"},
           NEW pc \in PCs, Goto(c, pc),
           readable' = readable, done => done',
           \A d \in Callers : d # c => mutex # d /\ mutex' # d,
           mutex' = c <=> pc \in Critical,
           LoadState', (done => Loaded)',
           (~done /\ mutex = Nobody => NotBegun)',
           LoadedSoFar(c)'
    PROVE  IInv'
  <1>1. /\ stack' \in [Callers -> Seq(Frame)]
        /\ stack'[c] # <<>> /\ Head(stack'[c]).pc = pc
        /\ Len(stack'[c]) = 1
        /\ \A d \in Callers : d # c => stack'[d] = stack[d]
    BY GotoMoves, Outermost DEF IInv
  <1>2. TypeOK'
    <2>1. \A d \in Callers : Len(stack'[d]) <= MaxDepth
      BY <1>1, MaxDepthAssumption DEF IInv, TypeOK
    <2>2. readable' \in BOOLEAN
      BY DEF IInv, TypeOK
    <2> QED
      BY <1>1, <2>1, <2>2 DEF TypeOK, LoadState
  <1>3. MutexHeld'
    <2>1. ASSUME NEW d \in Callers, d # c
          PROVE  ~(stack'[d] # <<>> /\ Head(stack'[d]).pc \in Critical)
      BY <1>1, <2>1 DEF IInv, MutexHeld
    <2> QED
      BY <1>1, <2>1 DEF MutexHeld
  <1>4. Nesting(c)'
    BY <1>1 DEF Nesting
  <1>5. ASSUME NEW d \in Callers PROVE LoadedSoFar(d)' /\ Nesting(d)'
    <2>1. CASE d = c
      BY <1>4, <2>1
    <2>2. CASE d # c
      BY <1>1, <2>2, OthersKeep
    <2> QED
      BY <2>1, <2>2
  <1> QED
    BY <1>2, <1>3, <1>5 DEF IInv

(* Where a Goto leaves its caller. *)
LEMMA NowAt ==
    ASSUME IInv, NEW c \in Callers, stack[c] # <<>>, NEW pc \in PCs, Goto(c, pc)
    PROVE  \A p : Running(c, p)' <=> p = pc
  BY GotoMoves DEF IInv, Running

(* The owner is alone. *)
LEMMA OwnerAlone ==
    ASSUME IInv, NEW c \in Callers, stack[c] # <<>>, Head(stack[c]).pc \in Critical
    PROVE  mutex = c /\ LoadState /\ LoadedSoFar(c)
  BY DEF IInv, MutexHeld, TypeOK, LoadState

LEMMA LockIInv ==
    ASSUME IInv, NEW c \in Callers, Lock(c)
    PROVE  IInv'
  <1> USE DEF Lock, Running
  <1>1. Goto(c, "recheck") /\ "recheck" \in PCs
    BY DEF PCs, Critical
  <1>2. \A p : Running(c, p)' <=> p = "recheck"
    BY <1>1, NowAt
  <1>3. \A d \in Callers : d # c => mutex # d /\ mutex' # d
    BY CallersAssumption
  <1>4. LoadState'
    BY DEF IInv, TypeOK, LoadState
  <1>5. (done => Loaded)' /\ (~done /\ mutex = Nobody => NotBegun)'
    BY CallersAssumption DEF IInv, Loaded, Decoded, NotBegun
  <1>6. LoadedSoFar(c)'
    BY <1>2 DEF LoadedSoFar, IInv, NotBegun
  <1> QED
    BY <1>1, <1>3, <1>4, <1>5, <1>6, OwnerMove DEF Critical

LEMMA RecheckIInv ==
    ASSUME IInv, NEW c \in Callers, Recheck(c)
    PROVE  IInv'
  <1> DEFINE pc == IF done THEN "unlock" ELSE "decode"
  <1>1. Goto(c, pc) /\ pc \in PCs /\ pc \in Critical
    BY DEF Recheck, PCs, Critical
  <1>2. stack[c] # <<>> /\ Head(stack[c]).pc = "recheck"
    BY DEF Recheck, Running
  <1>3. UNCHANGED <<readable, once>>
    BY DEF Recheck
  <1>4. mutex = c /\ LoadState /\ LoadedSoFar(c)
    BY <1>2, OwnerAlone DEF Critical
  <1>5. \A p : Running(c, p)' <=> p = pc
    BY <1>1, <1>2, NowAt
  <1>6. ~done => NotBegun
    BY <1>2, <1>4 DEF LoadedSoFar, Running
  <1>7. LoadedSoFar(c)'
    BY <1>3, <1>5, <1>6 DEF LoadedSoFar, NotBegun, once
  <1>8. LoadState' /\ (done => Loaded)' /\ (~done /\ mutex = Nobody => NotBegun)'
    BY <1>3, <1>4 DEF IInv, LoadState, Loaded, Decoded, NotBegun, once
  <1>9. (mutex' = c) /\ (\A d \in Callers : d # c => mutex # d /\ mutex' # d)
    BY <1>3, <1>4 DEF once
  <1>10. readable' = readable /\ done' = done
    BY <1>3 DEF once
  <1> HIDE DEF pc
  <1> QED
    BY <1>1, <1>2, <1>7, <1>8, <1>9, <1>10, OwnerMove DEF Critical

LEMMA DecodeIInv ==
    ASSUME IInv, NEW c \in Callers, Decode(c)
    PROVE  IInv'
  <1> DEFINE pc == IF readable THEN "derive" ELSE "store"
  <1>1. Goto(c, pc) /\ pc \in PCs /\ pc \in Critical
    BY DEF Decode, PCs, Critical
  <1>2. stack[c] # <<>> /\ Head(stack[c]).pc = "decode"
    BY DEF Decode, Running
  <1>3. /\ UNCHANGED <<readable, done, mutex, outcome>>
        /\ decodes' = decodes + 1 /\ derived' = 0
        /\ prefectures' = [i \in 1 .. Len(Published) |-> NoName]
    BY DEF Decode
  <1>4. mutex = c /\ LoadState /\ LoadedSoFar(c)
    BY <1>2, OwnerAlone DEF Critical
  <1>5. \A p : Running(c, p)' <=> p = pc
    BY <1>1, <1>2, NowAt
  <1>6. ~done /\ NotBegun
    BY <1>2, <1>4 DEF LoadedSoFar, Running
  <1>7. LoadedSoFar(c)'
    BY <1>3, <1>5, <1>6 DEF LoadedSoFar, NotBegun, Decoded
  <1>8. LoadState'
    BY <1>3, <1>4, LengthsAssumption DEF LoadState, Names
  <1>9. (done => Loaded)' /\ (~done /\ mutex = Nobody => NotBegun)'
    BY <1>3, <1>4, <1>6, CallersAssumption
  <1>10. mutex' = c /\ (\A d \in Callers : d # c => mutex # d /\ mutex' # d)
    BY <1>3, <1>4
  <1> HIDE DEF pc
  <1> QED
    BY <1>1, <1>2, <1>3, <1>7, <1>8, <1>9, <1>10, OwnerMove DEF Critical

LEMMA DeriveIInv ==
    ASSUME IInv, NEW c \in Callers, Derive(c)
    PROVE  IInv'
  <1>1. stack[c] # <<>> /\ Head(stack[c]).pc = "derive"
    BY DEF Derive, Running
  <1>2. mutex = c /\ LoadState /\ LoadedSoFar(c)
    BY <1>1, OwnerAlone DEF Critical
  <1>3. ~done /\ readable /\ outcome = "none" /\ Decoded(derived)
    BY <1>1, <1>2 DEF LoadedSoFar, Running
  <1>4. /\ UNCHANGED <<readable, done, mutex, outcome, decodes, stack>>
        /\ derived < Len(Published) /\ derived' = derived + 1
        /\ prefectures' = [prefectures EXCEPT
              ![derived + 1] = DerivedName(derived + 1)]
    BY DEF Derive
  <1>5. derived + 1 \in 1 .. Len(Published)
    BY <1>2, <1>4, LengthsAssumption DEF LoadState
  <1>6. prefectures' \in [1 .. Len(Published) -> Names]
    BY <1>2, <1>4, <1>5 DEF LoadState, Names
  <1>7. TypeOK'
    BY <1>4, <1>5, <1>6, LengthsAssumption DEF IInv, TypeOK
  <1>8. Decoded(derived)'
    <2>1. ASSUME NEW i \in 1 .. derived + 1
          PROVE  prefectures'[i] = DerivedName(i)
      BY <1>2, <1>3, <1>4, <1>5, <2>1, LengthsAssumption DEF LoadState, Decoded
    <2> QED
      BY <1>3, <1>4, <2>1 DEF Decoded
  <1>9. MutexHeld'
    BY <1>4 DEF IInv, MutexHeld
  <1>10. LoadedSoFar(c)' /\ Nesting(c)'
    BY <1>1, <1>3, <1>4, <1>8 DEF IInv, LoadedSoFar, Running, Nesting
  <1>11. ASSUME NEW d \in Callers, d # c
         PROVE  LoadedSoFar(d)' /\ Nesting(d)'
    BY <1>2, <1>4, <1>11, OthersKeep
  <1>12. (done => Loaded)' /\ (~done /\ mutex = Nobody => NotBegun)'
    BY <1>2, <1>3, <1>4, CallersAssumption
  <1> QED
    BY <1>7, <1>9, <1>10, <1>11, <1>12 DEF IInv

LEMMA EndDeriveIInv ==
    ASSUME IInv, NEW c \in Callers, EndDerive(c)
    PROVE  IInv'
  <1>1. stack[c] # <<>> /\ Head(stack[c]).pc = "derive"
    BY DEF EndDerive, Running
  <1>2. mutex = c /\ LoadState /\ LoadedSoFar(c)
    BY <1>1, OwnerAlone DEF Critical
  <1>3. ~done /\ readable /\ outcome = "none" /\ Decoded(Len(Published))
    BY <1>1, <1>2 DEF LoadedSoFar, Running, EndDerive, DerivedAll
  <1>4. Goto(c, "store") /\ "store" \in PCs /\ UNCHANGED <<readable, once>>
    BY DEF EndDerive, PCs, Critical
  <1>5. \A p : Running(c, p)' <=> p = "store"
    BY <1>1, <1>4, NowAt
  <1>6. LoadedSoFar(c)'
    BY <1>3, <1>4, <1>5 DEF LoadedSoFar, Decoded, once
  <1>7. LoadState' /\ (done => Loaded)' /\ (~done /\ mutex = Nobody => NotBegun)'
    BY <1>2, <1>3, <1>4, CallersAssumption DEF LoadState, once
  <1>8. mutex' = c /\ done' = done
        /\ \A d \in Callers : d # c => mutex # d /\ mutex' # d
    BY <1>2, <1>4 DEF once
  <1> QED
    BY <1>1, <1>4, <1>6, <1>7, <1>8, OwnerMove DEF Critical

LEMMA StoreResultsIInv ==
    ASSUME IInv, NEW c \in Callers, StoreResults(c)
    PROVE  IInv'
  <1>1. stack[c] # <<>> /\ Head(stack[c]).pc = "store"
    BY DEF StoreResults, Running
  <1>2. mutex = c /\ LoadState /\ LoadedSoFar(c)
    BY <1>1, OwnerAlone DEF Critical
  <1>3. ~done /\ Decoded(Len(Published))
    BY <1>1, <1>2 DEF LoadedSoFar, Running
  <1>4. /\ Goto(c, "setDone") /\ "setDone" \in PCs
        /\ UNCHANGED <<readable, done, mutex, prefectures, derived, decodes>>
        /\ outcome' = IF readable THEN "db" ELSE "err"
    BY DEF StoreResults, PCs, Critical
  <1>5. \A p : Running(c, p)' <=> p = "setDone"
    BY <1>1, <1>4, NowAt
  <1>6. LoadedSoFar(c)'
    BY <1>3, <1>4, <1>5 DEF LoadedSoFar, Loaded, Decoded
  <1>7. LoadState' /\ (done => Loaded)' /\ (~done /\ mutex = Nobody => NotBegun)'
    BY <1>2, <1>3, <1>4, CallersAssumption DEF LoadState
  <1>8. mutex' = c /\ \A d \in Callers : d # c => mutex # d /\ mutex' # d
    BY <1>2, <1>4
  <1> QED
    BY <1>1, <1>4, <1>6, <1>7, <1>8, OwnerMove DEF Critical

LEMMA SetDoneIInv ==
    ASSUME IInv, NEW c \in Callers, SetDone(c)
    PROVE  IInv'
  <1>1. stack[c] # <<>> /\ Head(stack[c]).pc = "setDone"
    BY DEF SetDone, Running
  <1>2. mutex = c /\ LoadState /\ LoadedSoFar(c)
    BY <1>1, OwnerAlone DEF Critical
  <1>3. Loaded
    BY <1>1, <1>2 DEF LoadedSoFar, Running
  <1>4. /\ Goto(c, "unlock") /\ "unlock" \in PCs /\ done' = TRUE
        /\ UNCHANGED <<readable, mutex, outcome, prefectures, derived, decodes>>
    BY DEF SetDone, PCs, Critical
  <1>5. \A p : Running(c, p)' <=> p = "unlock"
    BY <1>1, <1>4, NowAt
  <1>6. LoadedSoFar(c)'
    BY <1>4, <1>5 DEF LoadedSoFar
  <1>7. LoadState' /\ (done => Loaded)' /\ (~done /\ mutex = Nobody => NotBegun)'
    BY <1>2, <1>3, <1>4 DEF LoadState, Loaded, Decoded
  <1>8. mutex' = c /\ \A d \in Callers : d # c => mutex # d /\ mutex' # d
    BY <1>2, <1>4
  <1> QED
    BY <1>1, <1>4, <1>6, <1>7, <1>8, OwnerMove DEF Critical

LEMMA UnlockIInv ==
    ASSUME IInv, NEW c \in Callers, Unlock(c)
    PROVE  IInv'
  <1>1. stack[c] # <<>> /\ Head(stack[c]).pc = "unlock"
    BY DEF Unlock, Running
  <1>2. mutex = c /\ LoadState /\ LoadedSoFar(c)
    BY <1>1, OwnerAlone DEF Critical
  <1>3. done /\ Loaded
    BY <1>1, <1>2 DEF IInv, LoadedSoFar, Running
  <1>4. /\ Goto(c, "use") /\ "use" \in PCs /\ "use" \notin Critical
        /\ mutex' = Nobody
        /\ UNCHANGED <<readable, done, outcome, prefectures, derived, decodes>>
    BY DEF Unlock, PCs, Critical
  <1>5. \A p : Running(c, p)' <=> p = "use"
    BY <1>1, <1>4, NowAt
  <1>6. LoadedSoFar(c)'
    BY <1>3, <1>4, <1>5 DEF LoadedSoFar
  <1>7. LoadState' /\ (done => Loaded)' /\ (~done /\ mutex = Nobody => NotBegun)'
    BY <1>2, <1>3, <1>4 DEF LoadState, Loaded, Decoded
  <1>8. mutex' # c /\ \A d \in Callers : d # c => mutex # d /\ mutex' # d
    BY <1>2, <1>4, CallersAssumption
  <1> QED
    BY <1>1, <1>4, <1>6, <1>7, <1>8, OwnerMove DEF Critical

-----------------------------------------------------------------------------
(* Every step of every caller keeps the invariant. *)
LEMMA NextIInv == IInv /\ [Next]_vars => IInv'
  <1> SUFFICES ASSUME IInv, [Next]_vars PROVE IInv'
    OBVIOUS
  <1>1. ASSUME NEW c \in Callers, RefuseCode(c) PROVE IInv'
    BY <1>1, FinishIInv DEF RefuseCode, Running, Critical
  <1>2. ASSUME NEW c \in Callers, NeedDatabase(c) PROVE IInv'
    <2>1. /\ stack[c] # <<>> /\ Head(stack[c]).pc \notin Critical
          /\ Goto(c, "once") /\ UNCHANGED <<readable, once>>
      BY <1>2 DEF NeedDatabase, Running, Critical
    <2>2. "once" \in PCs \ Critical
      BY DEF PCs, Critical
    <2> QED
      BY <2>1, <2>2, GotoIInv
  <1>3. ASSUME NEW c \in Callers, FastPath(c) PROVE IInv'
    <2> DEFINE pc == IF done THEN "use" ELSE "lock"
    <2>1. /\ stack[c] # <<>> /\ Head(stack[c]).pc \notin Critical
          /\ Goto(c, pc) /\ UNCHANGED <<readable, once>>
      BY <1>3 DEF FastPath, Running, Critical
    <2>2. pc \in PCs \ Critical
      BY DEF PCs, Critical
    <2>3. (pc = "lock" => ~done) /\ (pc \in {"use", "iterate"} => done)
      OBVIOUS
    <2> HIDE DEF pc
    <2> QED
      BY <2>1, <2>2, <2>3, GotoIInv
  <1>4. ASSUME NEW c \in Callers, Use(c) PROVE IInv'
    <2>1. stack[c] # <<>> /\ Head(stack[c]).pc \notin Critical
      BY <1>4 DEF Use, Running, Critical
    <2>2. PICK r : Finish(c, r)
      BY <1>4 DEF Use
    <2> QED
      BY <2>1, <2>2, FinishIInv
  <1>5. ASSUME NEW c \in Callers, StartIteration(c) PROVE IInv'
    <2>1. /\ stack[c] # <<>> /\ Head(stack[c]).pc \notin Critical
          /\ Goto(c, "iterate") /\ UNCHANGED <<readable, once>>
      BY <1>5 DEF StartIteration, Running, Critical
    <2>2. "iterate" \in PCs \ Critical
      BY DEF PCs, Critical
    <2>3. done
      BY <1>5 DEF StartIteration, IInv, LoadedSoFar
    <2> QED
      BY <2>1, <2>2, <2>3, GotoIInv
  <1>6. ASSUME NEW c \in Callers, EndIteration(c) PROVE IInv'
    BY <1>6, FinishIInv DEF EndIteration, Running, Critical
  <1>7. CASE UNCHANGED vars
    <2>1. UNCHANGED <<readable, done, mutex, outcome, prefectures, derived,
                      decodes, stack>>
      BY <1>7 DEF vars, once
    <2>2. TypeOK' /\ MutexHeld'
      BY <2>1 DEF IInv, TypeOK, MutexHeld
    <2>3. (done => Loaded)' /\ (~done /\ mutex = Nobody => NotBegun)'
      BY <2>1 DEF IInv, Loaded, Decoded, NotBegun
    <2>4. ASSUME NEW d \in Callers PROVE LoadedSoFar(d)' /\ Nesting(d)'
      BY <2>1, <2>4, OthersKeep DEF once
    <2> QED
      BY <2>2, <2>3, <2>4 DEF IInv
  <1>8. ASSUME NEW c \in Callers, Begin(c) \/ Run(c) PROVE IInv'
    BY <1>1, <1>2, <1>3, <1>4, <1>5, <1>6, <1>8, BeginIInv, YieldIInv,
       LockIInv, RecheckIInv, DecodeIInv, DeriveIInv, EndDeriveIInv,
       StoreResultsIInv, SetDoneIInv, UnlockIInv DEF Run
  <1> QED
    BY <1>7, <1>8 DEF Next

-----------------------------------------------------------------------------
(* What the invariant says of the properties. *)

LEMMA IInvOnce == IInv => DecodedOnce
  <1> SUFFICES ASSUME IInv PROVE DecodedOnce
    OBVIOUS
  <1>1. CASE done
    BY <1>1 DEF IInv, Loaded, Decoded, DecodedOnce
  <1>2. CASE ~done /\ mutex = Nobody
    BY <1>2 DEF IInv, NotBegun, DecodedOnce
  <1>3. CASE ~done /\ mutex # Nobody
    <2>1. mutex \in Callers /\ stack[mutex] # <<>>
          /\ Head(stack[mutex]).pc \in Critical /\ LoadedSoFar(mutex)
      BY <1>3 DEF IInv, TypeOK, MutexHeld
    <2>2. NotBegun \/ decodes = 1
      BY <1>3, <2>1 DEF LoadedSoFar, Running, Critical, Loaded, Decoded
    <2> QED
      BY <1>3, <2>2 DEF NotBegun, DecodedOnce
  <1> QED
    BY <1>1, <1>2, <1>3

LEMMA IInvComplete == IInv => PublishedComplete
  <1> SUFFICES ASSUME IInv PROVE PublishedComplete
    OBVIOUS
  <1>1. ASSUME outcome = "db"
        PROVE  \A i \in 1 .. Len(Published) : prefectures[i] = DerivedName(i)
    <2>1. CASE done
      BY <1>1, <2>1 DEF IInv, Loaded, Decoded
    <2>2. CASE ~done
      <3>1. mutex # Nobody
        BY <1>1, <2>2 DEF IInv, NotBegun
      <3>2. mutex \in Callers /\ stack[mutex] # <<>>
            /\ Head(stack[mutex]).pc \in Critical /\ LoadedSoFar(mutex)
        BY <3>1 DEF IInv, TypeOK, MutexHeld
      <3>3. Loaded
        BY <1>1, <2>2, <3>2 DEF LoadedSoFar, Running, Critical, NotBegun
      <3> QED
        BY <1>1, <3>3 DEF Loaded, Decoded
    <2> QED
      BY <2>1, <2>2
  <1>2. ASSUME NEW c \in Callers, stack[c] # <<>>,
               Head(stack[c]).pc \in {"use", "iterate"}
        PROVE  done /\ outcome = IF readable THEN "db" ELSE "err"
    <2>1. done
      BY <1>2 DEF IInv, LoadedSoFar, Running
    <2> QED
      BY <2>1 DEF IInv, Loaded
  <1> QED
    BY <1>1, <1>2 DEF PublishedComplete

(* Once the flag is set nobody is inside the function of OnceValues. *)
LEMMA PublishedStep ==
    IInv /\ [Next]_vars =>
        [done => UNCHANGED <<done, outcome, prefectures, decodes>>]_vars
  <1> SUFFICES ASSUME IInv, Next, done
               PROVE  UNCHANGED <<done, outcome, prefectures, decodes>>
    OBVIOUS
  <1> PICK c \in Callers : Begin(c) \/ Run(c)
    BY DEF Next
  <1>1. LoadedSoFar(c)
    BY DEF IInv
  <1>2. ~Decode(c) /\ ~Derive(c) /\ ~StoreResults(c) /\ ~SetDone(c)
    BY <1>1 DEF LoadedSoFar, Decode, Derive, StoreResults, SetDone
  <1>3. Lock(c) \/ Unlock(c) => UNCHANGED <<done, outcome, prefectures, decodes>>
    BY DEF Lock, Unlock
  <1>4. \/ Lock(c) \/ Unlock(c) \/ UNCHANGED <<readable, once>>
    BY <1>2 DEF Run, Begin, RefuseCode, NeedDatabase, FastPath, Recheck,
                EndDerive, Use, StartIteration, YieldNext, EndIteration, Finish
  <1> QED
    BY <1>3, <1>4 DEF once

-----------------------------------------------------------------------------
(* The state of the package stays well typed, calls nest no deeper than    *)
(* the bound, in iterations only and once all is loaded, and each one has  *)
(* seen of the loading what its place in the code says (data.go:26-36).    *)
THEOREM Inductive == Spec => []IInv
  BY InitIInv, NextIInv, PTL DEF Spec

(* However many goroutines race to the first call, the mutex of sync.Once  *)
(* admits one (data.go:26).                                                *)
THEOREM Exclusion == Spec => []MutexHeld
  <1>1. IInv => MutexHeld
    BY DEF IInv
  <1> QED
    BY InitIInv, NextIInv, <1>1, PTL DEF Spec

(* The embedded file is decoded at most once in the life of the process,   *)
(* also when it cannot be read (data.go:26-36).                            *)
THEOREM AtMostOneDecode == Spec => []DecodedOnce
  BY InitIInv, NextIInv, IInvOnce, PTL DEF Spec

(* Nobody reads a database before every prefecture of it is derived        *)
(* (data.go:31-35).                                                        *)
THEOREM Publication == Spec => []PublishedComplete
  BY InitIInv, NextIInv, IInvComplete, PTL DEF Spec

(* A call made by the body of an iteration never waits for the loader,     *)
(* however deep the calls nest (lookup.go:84-94).                          *)
THEOREM NoWaitInBodies == Spec => []BodiesNeverWait
  <1>1. IInv => BodiesNeverWait
    BY DEF IInv, Nesting, BodiesNeverWait
  <1> QED
    BY InitIInv, NextIInv, <1>1, PTL DEF Spec

(* A published database never changes under its readers (data.go:35).      *)
THEOREM Immutable == Spec => PublishedForGood
  BY InitIInv, NextIInv, PublishedStep, PTL DEF Spec, PublishedForGood

-----------------------------------------------------------------------------
(* Store.Range and the addresses of a code. *)

(* Neighbours in order are all in order. *)
LEMMA Sorted ==
    ASSUME NEW i \in 1 .. Count, NEW j \in i .. Count
    PROVE  Records[i].zip <= Records[j].zip
  <1> DEFINE bad == {k \in i .. Count : ~(Records[i].zip <= Records[k].zip)}
  <1> SUFFICES ASSUME bad # {} PROVE FALSE
    OBVIOUS
  <1> DEFINE m == Min(bad)
  <1>0. Count \in Nat
    BY LengthsAssumption DEF Count
  <1>1. m \in bad /\ \A y \in bad : m <= y
    BY <1>0, LeastOf
  <1> HIDE DEF m
  <1>2. \A k \in 1 .. Count : Records[k].zip \in Nat
    BY RecordsAssumption DEF Count
  <1>3. m # i
    BY <1>1, <1>2
  <1>4. m - 1 \in i .. Count /\ m - 1 \notin bad
    BY <1>0, <1>1, <1>3
  <1>5. Records[m - 1].zip <= Records[m - 1 + 1].zip
    BY <1>0, <1>1, <1>3, SortedAssumption DEF Count
  <1>6. m - 1 + 1 = m /\ m \in 1 .. Count /\ m - 1 \in 1 .. Count
    BY <1>0, <1>1, <1>4
  <1> QED
    BY <1>1, <1>2, <1>4, <1>5, <1>6

(* The records from RangeStart to RangeEnd are those that carry the code. *)
LEMMA RangeIsThePositions ==
    ASSUME NEW zip \in Nat
    PROVE  /\ RangeStart(zip) \in 0 .. Count
           /\ RangeEnd(zip) \in RangeStart(zip) .. Count
           /\ {i \in 1 .. Len(Records) : Records[i].zip = zip} =
                 RangeStart(zip) + 1 .. RangeEnd(zip)
  <1> DEFINE s == RangeStart(zip)
             e == RangeEnd(zip)
             S == {i \in 0 .. Count : i < Count => Records[i + 1].zip >= zip}
             E == {i \in s .. Count : i < Count => Records[i + 1].zip # zip}
  <1>0. Count \in Nat /\ Count = Len(Records)
    BY LengthsAssumption DEF Count
  <1>z. \A k \in 1 .. Count : Records[k].zip \in Nat
    BY RecordsAssumption DEF Count
  <1>1. Count \in S /\ S \subseteq Nat
    BY <1>0
  <1>2. s \in S /\ \A y \in S : s <= y
    BY <1>1, LeastOf DEF RangeStart
  <1>3. s \in 0 .. Count
    BY <1>2
  <1> HIDE DEF s
  <1>4. Count \in E /\ E \subseteq Nat
    BY <1>0, <1>3
  <1>5. e \in E /\ \A y \in E : e <= y
    BY <1>4, LeastOf DEF RangeEnd, s
  <1>6. e \in s .. Count
    BY <1>5
  <1> HIDE DEF e
  <1>7. ASSUME NEW i \in 1 .. Count
        PROVE  Records[i].zip = zip <=> i \in s + 1 .. e
    <2>0. i - 1 \in 0 .. Count /\ i - 1 + 1 = i /\ i - 1 < Count
      BY <1>0
    <2>1. CASE i <= s
      <3>1. i - 1 \notin S
        BY <1>2, <1>3, <2>0, <2>1
      <3> QED
        BY <1>3, <1>z, <2>0, <2>1, <3>1
    <2>2. CASE s < i /\ i <= e
      <3>1. i - 1 \in s .. Count /\ i - 1 \notin E
        BY <1>0, <1>3, <1>5, <1>6, <2>0, <2>2
      <3> QED
        BY <1>0, <1>3, <1>6, <2>0, <2>2, <3>1
    <2>3. CASE e < i
      <3>1. e < Count /\ s < Count /\ e + 1 \in 1 .. Count /\ s + 1 \in 1 .. Count
        BY <1>0, <1>3, <1>6, <2>3
      <3>2. Records[e + 1].zip # zip /\ Records[s + 1].zip >= zip
        BY <1>2, <1>5, <3>1
      <3>3. Records[s + 1].zip <= Records[e + 1].zip
            /\ Records[e + 1].zip <= Records[i].zip
        <4>1. e + 1 \in s + 1 .. Count /\ i \in e + 1 .. Count
          BY <1>0, <1>3, <1>6, <2>3, <3>1
        <4> QED
          BY <3>1, <4>1, Sorted
      <3> QED
        BY <1>z, <1>3, <1>6, <2>3, <3>1, <3>2, <3>3
    <2> QED
      BY <1>3, <1>6, <2>1, <2>2, <2>3
  <1>8. s + 1 .. e \subseteq 1 .. Count
    BY <1>0, <1>3, <1>6
  <1>9. {i \in 1 .. Len(Records) : Records[i].zip = zip} = s + 1 .. e
    BY <1>0, <1>7, <1>8
  <1> QED
    BY <1>3, <1>6, <1>9 DEF s, e

LEMMA KthOfInterval ==
    ASSUME NEW a \in Nat, NEW b \in Nat, NEW k \in 1 .. b - a
    PROVE  Kth(a + 1 .. b, k) = a + k
  <1>1. ASSUME NEW i \in a + 1 .. b
        PROVE  Cardinality({j \in a + 1 .. b : j <= i}) = i - a
    <2>1. {j \in a + 1 .. b : j <= i} = a + 1 .. i
      OBVIOUS
    <2>2. Cardinality(a + 1 .. i) = IF a + 1 > i THEN 0 ELSE i - (a + 1) + 1
      BY FS_Interval
    <2>3. Cardinality({j \in a + 1 .. b : j <= i}) = Cardinality(a + 1 .. i)
      BY <2>1
    <2>4. (IF a + 1 > i THEN 0 ELSE i - (a + 1) + 1) = i - a
      OBVIOUS
    <2> QED
      BY <2>2, <2>3, <2>4
  <1>2. a + k \in a + 1 .. b
    OBVIOUS
  <1>3. \A i \in a + 1 .. b :
            Cardinality({j \in a + 1 .. b : j <= i}) = k <=> i = a + k
    BY <1>1
  <1> QED
    BY <1>2, <1>3 DEF Kth

(* A database whose prefectures are all derived. *)
Complete ==
    prefectures = [i \in 1 .. Len(Published) |-> PrefectureName(Published[i])]

LEMMA AddressAtIsAddress ==
    ASSUME Complete, NEW i \in 0 .. Count - 1
    PROVE  AddressAt(i) = Addresses[i + 1]
  <1>1. i + 1 \in 1 .. Len(Records)
    BY LengthsAssumption DEF Count
  <1>2. Records[i + 1].pref + 1 \in 1 .. Len(Published)
    BY <1>1, RecordsAssumption, LengthsAssumption
  <1>3. prefectures[Records[i + 1].pref + 1] =
            PrefectureName(Published[Records[i + 1].pref + 1])
    BY <1>2 DEF Complete
  <1>4. Addresses[i + 1] = AddressOf(Records[i + 1])
    BY <1>1 DEF Addresses
  <1> QED
    BY <1>3, <1>4 DEF AddressAt, AddressOf

LEMMA AddressesAtRange ==
    ASSUME NEW zip \in Nat
    PROVE  AddressesAt(zip) =
             [k \in 1 .. RangeEnd(zip) - RangeStart(zip) |->
                 Addresses[RangeStart(zip) + k]]
  <1> DEFINE s == RangeStart(zip)
             e == RangeEnd(zip)
             at == {i \in 1 .. Len(Records) : Records[i].zip = zip}
  <1>0. s \in 0 .. Count /\ e \in s .. Count /\ at = s + 1 .. e
    BY RangeIsThePositions
  <1> HIDE DEF s, e, at
  <1>1. s \in Nat /\ e \in Nat /\ s <= e /\ at = s + 1 .. e
    BY <1>0, LengthsAssumption DEF Count
  <1>2. Cardinality(at) = e - s
    <2>1. Cardinality(s + 1 .. e) = IF s + 1 > e THEN 0 ELSE e - (s + 1) + 1
      BY <1>1, FS_Interval
    <2>2. (IF s + 1 > e THEN 0 ELSE e - (s + 1) + 1) = e - s
      BY <1>1
    <2> QED
      BY <1>1, <2>1, <2>2
  <1>3. \A k \in 1 .. e - s : Kth(at, k) = s + k
    BY <1>1, KthOfInterval
  <1>4. AddressesAt(zip) = [k \in 1 .. Cardinality(at) |-> Addresses[Kth(at, k)]]
    BY DEF AddressesAt, at
  <1>5. AddressesAt(zip) = [k \in 1 .. e - s |-> Addresses[s + k]]
    BY <1>2, <1>3, <1>4
  <1> QED
    BY <1>5 DEF s, e

(* Lookup and LookupAll answer what the service promises. *)
LEMMA FoundIsPromised ==
    ASSUME Complete, NEW text, WellFormed(text), CodeOf(text) \in Nat,
           NEW op \in {"Lookup", "LookupAll"}
    PROVE  FoundBy(op, CodeOf(text)) = CodeReply(op, text)
  <1> DEFINE zip == CodeOf(text)
             s == RangeStart(zip)
             e == RangeEnd(zip)
             found == AddressesAt(zip)
  <1> HIDE DEF zip
  <1>0. zip \in Nat
    BY DEF zip
  <1>2. found = [k \in 1 .. e - s |-> Addresses[s + k]]
    BY <1>0, AddressesAtRange
  <1>a. s \in 0 .. Count /\ e \in s .. Count
    BY <1>0, RangeIsThePositions
  <1> HIDE DEF s, e, found
  <1>1. s \in Nat /\ e \in Nat /\ s <= e /\ e <= Count /\ Count \in Nat
    BY <1>a, LengthsAssumption DEF Count
  <1>3. Len(found) = e - s
    BY <1>1, <1>2
  <1>4. \A i \in 0 .. Count - 1 : AddressAt(i) = Addresses[i + 1]
    BY AddressAtIsAddress
  <1>5. CASE s = e
    <2>1. FoundBy(op, zip) = Reply("ErrNotFound", <<>>)
      BY <1>5 DEF FoundBy, s, e
    <2>2. Len(found) = 0
      BY <1>1, <1>3, <1>5
    <2>3. CodeReply(op, text) = Reply("ErrNotFound", <<>>)
      BY <2>2 DEF CodeReply, found, zip
    <2> QED
      BY <2>1, <2>3 DEF zip
  <1>6. CASE s # e
    <2>1. FoundBy(op, zip) =
            IF op = "Lookup" THEN Reply("ok", <<AddressAt(s)>>)
            ELSE Reply("ok", [i \in 1 .. e - s |-> AddressAt(s + i - 1)])
      BY <1>6 DEF FoundBy, s, e
    <2>2. Len(found) > 0 /\ Len(found) # 0
      BY <1>1, <1>3, <1>6
    <2>3. CodeReply(op, text) =
            Reply("ok", IF op = "Lookup" THEN <<found[1]>> ELSE found)
      BY <2>2 DEF CodeReply, found, zip
    <2>4. AddressAt(s) = found[1]
      <3>1. s \in 0 .. Count - 1 /\ 1 \in 1 .. e - s
        BY <1>1, <1>6
      <3> QED
        BY <1>2, <1>4, <3>1
    <2>5. [i \in 1 .. e - s |-> AddressAt(s + i - 1)] = found
      <3>1. ASSUME NEW i \in 1 .. e - s
            PROVE  AddressAt(s + i - 1) = Addresses[s + i]
        <4>1. s + i - 1 \in 0 .. Count - 1 /\ s + i - 1 + 1 = s + i
          BY <1>1
        <4> QED
          BY <1>4, <4>1
      <3> QED
        BY <1>2, <3>1
    <2>6. CASE op = "Lookup"
      BY <2>1, <2>3, <2>4, <2>6, Zenon DEF zip
    <2>7. CASE op # "Lookup"
      BY <2>1, <2>3, <2>5, <2>7, Zenon DEF zip
    <2> QED
      BY <2>6, <2>7
  <1> QED
    BY <1>5, <1>6

-----------------------------------------------------------------------------
(* The service answers from the database of the package. *)

LEMMA SameReply ==
    ASSUME NEW kind, NEW value
    PROVE  Promise!Reply(kind, value) = Reply(kind, value)
  BY DEF Promise!Reply, Reply

LEMMA SameTyped == ASSUME NEW s PROVE Promise!Typed(s) = Typed(s)
  BY Zenon DEF Promise!Typed, Typed

LEMMA SameCodeOf == ASSUME NEW s PROVE Promise!CodeOf(s) = CodeOf(s)
  <1>1. ASSUME NEW ds PROVE Promise!Value(ds) = Value(ds)
    BY Zenon DEF Promise!Value, Value
  <1> QED
    BY <1>1, SameTyped DEF Promise!CodeOf, CodeOf

LEMMA SameWellFormed ==
    ASSUME NEW s
    PROVE  Promise!WellFormed(s) <=> WellFormed(s)
  BY SameTyped DEF Promise!WellFormed, WellFormed

LEMMA SamePrefectureName ==
    ASSUME NEW p
    PROVE  Promise!PrefectureName(p) = PrefectureName(p)
  BY Zenon DEF Promise!PrefectureName, PrefectureName, Promise!TitleCase,
               TitleCase, Promise!UnitWords, UnitWords, Promise!Upper, Upper

LEMMA SameAddresses == Promise!Addresses = Addresses
  <1>1. ASSUME NEW v, NEW width
        PROVE  Promise!Digits(v, width) = Digits(v, width)
    BY Zenon DEF Promise!Digits, Digits
  <1>2. ASSUME NEW r PROVE Promise!AddressOf(r) = AddressOf(r)
    BY <1>1, SamePrefectureName DEF Promise!AddressOf, AddressOf
  <1> QED
    BY <1>2, Zenon DEF Promise!Addresses, Addresses

LEMMA SameAddressesAt ==
    ASSUME NEW zip
    PROVE  Promise!AddressesAt(zip) = AddressesAt(zip)
  <1>1. ASSUME NEW S PROVE Promise!Cardinality(S) = Cardinality(S)
    BY Zenon DEF Promise!Cardinality, Cardinality
  <1>2. ASSUME NEW positions, NEW k
        PROVE  Promise!Kth(positions, k) = Kth(positions, k)
    BY <1>1, Zenon DEF Promise!Kth, Kth
  <1> QED
    BY <1>1, <1>2, SameAddresses, Zenon DEF Promise!AddressesAt, AddressesAt

LEMMA SameCodeReply ==
    ASSUME NEW op, NEW text
    PROVE  Promise!CodeReply(op, text) = CodeReply(op, text)
  BY SameAddressesAt, SameCodeOf, SameWellFormed, SameReply
     DEF Promise!CodeReply, CodeReply

LEMMA SameRomajiReply ==
    ASSUME NEW kanji
    PROVE  Promise!RomajiReply(kanji) = RomajiReply(kanji)
  BY SameReply DEF Promise!RomajiReply, RomajiReply, Promise!Min, Min

(* Every operation but All answers from a readable database in one reply. *)
LEMMA SameAnswerOf ==
    ASSUME NEW op \in Operations \ {"All"}, NEW arg
    PROVE  Promise!AnswerOf(op, arg) = AnswerOf(op, arg)
  <1>1. [i \in 1 .. Len(Published) |-> Promise!PrefectureName(Published[i])] =
        [i \in 1 .. Len(Published) |-> PrefectureName(Published[i])]
    BY SamePrefectureName, Zenon
  <1> QED
    BY <1>1, SameReply, SameCodeReply, SameRomajiReply, OperationsAssumption
       DEF Promise!AnswerOf, AnswerOf

LEMMA SameUnreadableAnswerOf ==
    ASSUME NEW op \in Operations, NEW arg
    PROVE  Promise!UnreadableAnswerOf(op, arg) = UnreadableAnswerOf(op, arg)
  BY SameReply, SameWellFormed
     DEF Promise!UnreadableAnswerOf, UnreadableAnswerOf

-----------------------------------------------------------------------------
(* What a caller sees of its calls. *)

Call == [op : Operations, arg : Arguments, yielded : 0 .. Count]

Seen(f) == [op |-> f.op, arg |-> f.arg, yielded |-> f.yielded]

SeenOf(s) == [i \in 1 .. Len(s) |-> Seen(s[i])]

LEMMA SeenIsCall == ASSUME NEW f \in Frame PROVE Seen(f) \in Call
  BY DEF Seen, Call, Frame

LEMMA SeenOfSeq ==
    ASSUME NEW s \in Seq(Frame)
    PROVE  /\ SeenOf(s) \in Seq(Call)
           /\ Len(SeenOf(s)) = Len(s)
           /\ \A i \in 1 .. Len(s) : SeenOf(s)[i] = Seen(s[i])
           /\ SeenOf(s) = <<>> <=> s = <<>>
           /\ s # <<>> => Head(SeenOf(s)) = Seen(Head(s))
  <1>1. Len(s) \in Nat /\ \A i \in 1 .. Len(s) : s[i] \in Frame
    OBVIOUS
  <1>2. SeenOf(s) \in [1 .. Len(s) -> Call]
    BY <1>1, SeenIsCall DEF SeenOf
  <1>3. SeenOf(s) \in Seq(Call) /\ Len(SeenOf(s)) = Len(s)
    BY <1>1, <1>2
  <1>4. \A i \in 1 .. Len(s) : SeenOf(s)[i] = Seen(s[i])
    BY DEF SeenOf
  <1>5. SeenOf(s) = <<>> <=> s = <<>>
    BY <1>3
  <1>6. s # <<>> => Head(SeenOf(s)) = Seen(Head(s))
    BY <1>3, <1>4, <1>5
  <1> QED
    BY <1>3, <1>4, <1>5, <1>6

LEMMA SeenOfTail ==
    ASSUME NEW s \in Seq(Frame), s # <<>>
    PROVE  SeenOf(Tail(s)) = Tail(SeenOf(s))
  <1> DEFINE t == Tail(s)
             u == Tail(SeenOf(s))
  <1>1. t \in Seq(Frame) /\ Len(t) = Len(s) - 1
        /\ \A i \in 1 .. Len(t) : t[i] = s[i + 1]
    OBVIOUS
  <1>2. u \in Seq(Call) /\ Len(u) = Len(s) - 1
        /\ \A i \in 1 .. Len(u) : u[i] = SeenOf(s)[i + 1]
    <2> DEFINE w == SeenOf(s)
    <2>1. w \in Seq(Call) /\ Len(w) = Len(s) /\ w # <<>>
      BY SeenOfSeq
    <2> HIDE DEF w
    <2>2. Tail(w) \in Seq(Call) /\ Len(Tail(w)) = Len(w) - 1
          /\ \A i \in 1 .. Len(Tail(w)) : Tail(w)[i] = w[i + 1]
      BY <2>1
    <2> QED
      BY <2>1, <2>2 DEF w
  <1>3. \A i \in 1 .. Len(s) - 1 : SeenOf(t)[i] = u[i]
    <2>1. ASSUME NEW i \in 1 .. Len(s) - 1 PROVE SeenOf(t)[i] = u[i]
      <3>1. i + 1 \in 1 .. Len(s)
        OBVIOUS
      <3>2. SeenOf(t)[i] = Seen(t[i]) /\ SeenOf(s)[i + 1] = Seen(s[i + 1])
        BY <1>1, <3>1, SeenOfSeq
      <3> QED
        BY <1>1, <1>2, <3>2
    <2> QED
      BY <2>1
  <1>4. SeenOf(t) \in Seq(Call) /\ Len(SeenOf(t)) = Len(s) - 1
    BY <1>1, SeenOfSeq
  <1> HIDE DEF t, u
  <1>5. SeenOf(t) = u
    BY <1>2, <1>3, <1>4, SeqEqual
  <1> QED
    BY <1>5 DEF t, u

LEMMA SeenOfPush ==
    ASSUME NEW s \in Seq(Frame), NEW f \in Frame
    PROVE  SeenOf(<<f>> \o s) = <<Seen(f)>> \o SeenOf(s)
  <1> DEFINE t == <<f>> \o s
             w == SeenOf(s)
             u == <<Seen(f)>> \o w
  <1>1. t \in Seq(Frame) /\ Len(t) = Len(s) + 1 /\ t[1] = f
        /\ \A i \in 2 .. Len(t) : t[i] = s[i - 1]
    OBVIOUS
  <1>2. w \in Seq(Call) /\ Len(w) = Len(s)
    BY SeenOfSeq
  <1> HIDE DEF w
  <1>3. u \in Seq(Call) /\ Len(u) = Len(s) + 1 /\ u[1] = Seen(f)
        /\ \A i \in 2 .. Len(u) : u[i] = w[i - 1]
    BY <1>2, SeenIsCall
  <1>4. ASSUME NEW i \in 1 .. Len(s) + 1 PROVE SeenOf(t)[i] = u[i]
    <2>1. SeenOf(t)[i] = Seen(t[i])
      BY <1>1, SeenOfSeq
    <2>2. CASE i = 1
      BY <1>1, <1>3, <2>1, <2>2
    <2>3. CASE i # 1
      <3>1. i - 1 \in 1 .. Len(s) /\ i \in 2 .. Len(s) + 1
        BY <2>3
      <3>2. w[i - 1] = Seen(s[i - 1])
        BY <3>1, SeenOfSeq DEF w
      <3> QED
        BY <1>1, <1>3, <2>1, <3>1, <3>2
    <2> QED
      BY <2>2, <2>3
  <1>5. SeenOf(t) \in Seq(Call) /\ Len(SeenOf(t)) = Len(s) + 1
    BY <1>1, SeenOfSeq
  <1> HIDE DEF t, u
  <1>6. SeenOf(t) = u
    BY <1>3, <1>4, <1>5, SeqEqual
  <1> QED
    BY <1>6 DEF t, u, w

-----------------------------------------------------------------------------
(* What calls know of their arguments and of the database once they are    *)
(* past the checks.                                                        *)

CallOK(f) ==
    /\ f.op \in {"Lookup", "LookupAll"} =>
          f.arg \in Texts /\ (f.pc # "parse" => WellFormed(f.arg))
    /\ f.pc = "iterate" => f.op = "All" /\ readable

CallsOK == \A c \in Callers : \A i \in 1 .. Len(stack[c]) : CallOK(stack[c][i])

(* The innermost call changes. *)
LEMMA BecomeCallsOK ==
    ASSUME TypeOK, CallsOK, NEW c \in Callers, stack[c] # <<>>,
           NEW f \in Frame, Become(c, f), readable' = readable, CallOK(f)
    PROVE  CallsOK'
  <1>1. /\ stack'[c] # <<>> /\ Head(stack'[c]) = f
        /\ Len(stack'[c]) = Len(stack[c])
        /\ \A i \in 2 .. Len(stack'[c]) : stack'[c][i] = stack[c][i]
        /\ \A d \in Callers : d # c => stack'[d] = stack[d]
        /\ stack'[c] \in Seq(Frame)
    BY BecomeMoves
  <1>2. stack'[c][1] = f
    BY <1>1
  <1>3. ASSUME NEW g PROVE CallOK(g)' <=> CallOK(g)
    BY DEF CallOK
  <1> QED
    BY <1>1, <1>2, <1>3 DEF CallsOK

LEMMA GotoCallsOK ==
    ASSUME TypeOK, CallsOK, NEW c \in Callers, stack[c] # <<>>,
           NEW pc \in PCs, Goto(c, pc), readable' = readable,
           pc = "iterate" => Op(c) = "All" /\ readable,
           Head(stack[c]).pc = "parse" => (IsCodeLookup(c) => WellFormed(Arg(c))),
           pc # "parse"
    PROVE  CallsOK'
  <1> DEFINE f == [Head(stack[c]) EXCEPT !.pc = pc]
  <1>1. Head(stack[c]) \in Frame /\ CallOK(Head(stack[c]))
    BY TopIsFrame DEF TypeOK, CallsOK
  <1>2. f \in Frame /\ f.pc = pc /\ f.op = Op(c) /\ f.arg = Arg(c)
    BY <1>1 DEF Frame, Op, Arg
  <1>3. CallOK(f)
    BY <1>1, <1>2 DEF CallOK, IsCodeLookup, Op, Arg
  <1>4. Become(c, f)
    BY DEF Goto
  <1> HIDE DEF f
  <1> QED
    BY <1>2, <1>3, <1>4, BecomeCallsOK

LEMMA FinishCallsOK ==
    ASSUME TypeOK, CallsOK, NEW c \in Callers, stack[c] # <<>>,
           NEW r, Finish(c, r)
    PROVE  CallsOK'
  <1>1. /\ Len(stack'[c]) = Len(stack[c]) - 1
        /\ \A i \in 1 .. Len(stack'[c]) : stack'[c][i] = stack[c][i + 1]
        /\ \A d \in Callers : d # c => stack'[d] = stack[d]
        /\ readable' = readable
    BY FinishMoves
  <1>2. Len(stack[c]) \in Nat
    BY DEF TypeOK
  <1>3. ASSUME NEW g PROVE CallOK(g)' <=> CallOK(g)
    BY <1>1 DEF CallOK
  <1> QED
    BY <1>1, <1>2, <1>3 DEF CallsOK

LEMMA BeginCallsOK ==
    ASSUME TypeOK, CallsOK, NEW c \in Callers, Begin(c)
    PROVE  CallsOK'
  <1>0. PICK op \in Operations :
          \E arg \in ArgumentsOf(op) : stack' = [stack EXCEPT ![c] =
             <<[op |-> op, arg |-> arg, pc |-> "parse", yielded |-> 0]>> \o @]
    BY DEF Begin
  <1>1. PICK arg \in ArgumentsOf(op) : stack' = [stack EXCEPT ![c] =
             <<[op |-> op, arg |-> arg, pc |-> "parse", yielded |-> 0]>> \o @]
    BY <1>0
  <1> DEFINE f == [op |-> op, arg |-> arg, pc |-> "parse", yielded |-> 0]
  <1>2. arg \in Arguments
    BY DEF ArgumentsOf, Arguments
  <1>3. f \in Frame
    BY <1>2, LengthsAssumption DEF Frame, PCs, Count
  <1>4. CallOK(f)
    BY DEF CallOK, ArgumentsOf
  <1>5. stack[c] \in Seq(Frame) /\ stack'[c] = <<f>> \o stack[c]
        /\ \A d \in Callers : d # c => stack'[d] = stack[d]
    BY <1>1 DEF TypeOK
  <1> HIDE DEF f
  <1>6. /\ Len(stack'[c]) = Len(stack[c]) + 1 /\ stack'[c][1] = f
        /\ \A i \in 2 .. Len(stack'[c]) : stack'[c][i] = stack[c][i - 1]
    BY <1>3, <1>5
  <1>7. ASSUME NEW g PROVE CallOK(g)' <=> CallOK(g)
    BY DEF CallOK, Begin
  <1>8. ASSUME NEW i \in 1 .. Len(stack'[c]) PROVE CallOK(stack'[c][i])
    <2>1. CASE i = 1
      BY <1>4, <1>6, <2>1
    <2>2. CASE i # 1
      <3>1. i \in 2 .. Len(stack'[c]) /\ i - 1 \in 1 .. Len(stack[c])
        BY <1>5, <1>6, <2>2
      <3> QED
        BY <1>6, <3>1 DEF CallsOK
    <2> QED
      BY <2>1, <2>2
  <1> QED
    BY <1>5, <1>7, <1>8 DEF CallsOK

LEMMA NextCallsOK == IInv /\ CallsOK /\ [Next]_vars => CallsOK'
  <1> SUFFICES ASSUME IInv, CallsOK, [Next]_vars PROVE CallsOK'
    OBVIOUS
  <1>t. TypeOK
    BY DEF IInv
  <1>1. ASSUME NEW c \in Callers, RefuseCode(c) \/ Use(c) \/ EndIteration(c)
        PROVE  CallsOK'
    <2>1. stack[c] # <<>> /\ \E r : Finish(c, r)
      BY <1>1 DEF RefuseCode, Use, EndIteration, Running
    <2> QED
      BY <1>t, <2>1, FinishCallsOK
  <1>2. ASSUME NEW c \in Callers, NeedDatabase(c) PROVE CallsOK'
    BY <1>t, <1>2, GotoCallsOK DEF NeedDatabase, Running, PCs
  <1>3. ASSUME NEW c \in Callers,
               \/ FastPath(c) \/ Lock(c) \/ Recheck(c) \/ Decode(c)
               \/ EndDerive(c) \/ StoreResults(c) \/ SetDone(c) \/ Unlock(c)
        PROVE  CallsOK'
    <2>1. stack[c] # <<>> /\ Head(stack[c]).pc # "parse" /\ readable' = readable
      BY <1>3 DEF FastPath, Lock, Recheck, Decode, EndDerive, StoreResults,
                  SetDone, Unlock, Running
    <2>2. \E pc \in PCs \ {"parse", "iterate"} : Goto(c, pc)
      BY <1>3 DEF FastPath, Lock, Recheck, Decode, EndDerive, StoreResults,
                  SetDone, Unlock, PCs, Critical
    <2> QED
      BY <1>t, <2>1, <2>2, GotoCallsOK
  <1>4. ASSUME NEW c \in Callers, StartIteration(c) PROVE CallsOK'
    <2>1. readable
      BY <1>4 DEF StartIteration, IInv, LoadedSoFar, Loaded
    <2> QED
      BY <1>t, <1>4, <2>1, GotoCallsOK DEF StartIteration, Running, PCs
  <1>5. ASSUME NEW c \in Callers, YieldNext(c) PROVE CallsOK'
    <2> DEFINE f == [Head(stack[c]) EXCEPT !.yielded = @ + 1]
    <2>0. stack[c] # <<>>
      BY <1>5 DEF YieldNext, Running
    <2>1. Head(stack[c]) \in Frame /\ stack[c] # <<>> /\ CallOK(Head(stack[c]))
      BY <1>t, <2>0, TopIsFrame DEF TypeOK, CallsOK
    <2>2. f \in Frame
      BY <1>5, <2>1, LengthsAssumption DEF Frame, YieldNext, Count
    <2>3. CallOK(f)
      BY <2>1 DEF CallOK, Frame
    <2>4. Become(c, f) /\ readable' = readable
      BY <1>5 DEF YieldNext
    <2> HIDE DEF f
    <2> QED
      BY <1>t, <2>1, <2>2, <2>3, <2>4, BecomeCallsOK
  <1>6. ASSUME NEW c \in Callers, Derive(c) PROVE CallsOK'
    BY <1>6 DEF Derive, CallsOK, CallOK
  <1>7. CASE UNCHANGED vars
    BY <1>7 DEF vars, CallsOK, CallOK
  <1>8. ASSUME NEW c \in Callers, Begin(c) \/ Run(c) PROVE CallsOK'
    BY <1>t, <1>1, <1>2, <1>3, <1>4, <1>5, <1>6, <1>8, BeginCallsOK DEF Run
  <1> QED
    BY <1>7, <1>8 DEF Next
-----------------------------------------------------------------------------
(* The steps. *)

Calls == [c \in Callers |-> CallsOf(c)]

LEMMA CallsAreSeen ==
    /\ Calls = [c \in Callers |-> SeenOf(stack[c])]
    /\ Calls' = [c \in Callers |-> SeenOf(stack'[c])]
  BY DEF Calls, CallsOf, SeenOf, Seen

(* A call that moves on in the package has not moved for the service. *)
LEMMA GotoStutters ==
    ASSUME TypeOK, NEW c \in Callers, stack[c] # <<>>,
           NEW pc \in PCs, Goto(c, pc)
    PROVE  Calls' = Calls
  <1> DEFINE f == [Head(stack[c]) EXCEPT !.pc = pc]
  <1>1. Head(stack[c]) \in Frame /\ stack[c] \in Seq(Frame)
    BY TopIsFrame DEF TypeOK
  <1>2. f \in Frame /\ Seen(f) = Seen(Head(stack[c]))
    BY <1>1 DEF Frame, Seen
  <1>3. Become(c, f)
    BY DEF Goto
  <1> HIDE DEF f
  <1>4. /\ stack' \in [Callers -> Seq(Frame)]
        /\ stack'[c] # <<>> /\ Head(stack'[c]) = f
        /\ Len(stack'[c]) = Len(stack[c])
        /\ \A i \in 2 .. Len(stack'[c]) : stack'[c][i] = stack[c][i]
        /\ \A d \in Callers : d # c => stack'[d] = stack[d]
    BY <1>2, <1>3, BecomeMoves
  <1>5. \A i \in 1 .. Len(stack[c]) : Seen(stack'[c][i]) = Seen(stack[c][i])
    <2>1. stack'[c][1] = f /\ stack[c][1] = Head(stack[c])
      BY <1>1, <1>4
    <2> QED
      BY <1>2, <1>4, <2>1
  <1>6. SeenOf(stack'[c]) = SeenOf(stack[c])
    BY <1>4, <1>5 DEF SeenOf
  <1> QED
    BY <1>4, <1>6, CallsAreSeen

LEMMA FinishFinishes ==
    ASSUME TypeOK, NEW c \in Callers, stack[c] # <<>>, NEW r, Finish(c, r)
    PROVE  Promise!Finish(c, r)
  <1>1. stack[c] \in Seq(Frame) /\ stack' = [stack EXCEPT ![c] = Tail(stack[c])]
    BY DEF TypeOK, Finish
  <1>2. SeenOf(stack'[c]) = Tail(SeenOf(stack[c]))
        /\ \A d \in Callers : d # c => stack'[d] = stack[d]
    BY <1>1, SeenOfTail DEF TypeOK
  <1>3. Calls' = [Calls EXCEPT ![c] = Tail(@)]
    BY <1>2, CallsAreSeen
  <1> QED
    BY <1>3 DEF Promise!Finish, Finish, Calls

LEMMA BeginBegins ==
    ASSUME TypeOK, NEW c \in Callers, Begin(c)
    PROVE  Promise!Begin(c)
  <1>0. PICK op \in Operations :
          \E arg \in ArgumentsOf(op) : stack' = [stack EXCEPT ![c] =
             <<[op |-> op, arg |-> arg, pc |-> "parse", yielded |-> 0]>> \o @]
    BY DEF Begin
  <1>1. PICK arg \in ArgumentsOf(op) : stack' = [stack EXCEPT ![c] =
             <<[op |-> op, arg |-> arg, pc |-> "parse", yielded |-> 0]>> \o @]
    BY <1>0
  <1> DEFINE f == [op |-> op, arg |-> arg, pc |-> "parse", yielded |-> 0]
  <1>2. arg \in Arguments /\ arg \in Promise!ArgumentsOf(op)
    BY DEF ArgumentsOf, Arguments, Promise!ArgumentsOf, NoArgument, Promise!NoArgument
  <1>3. f \in Frame /\ Seen(f) = [op |-> op, arg |-> arg, yielded |-> 0]
    BY <1>2, LengthsAssumption DEF Frame, PCs, Count, Seen
  <1>4. stack[c] \in Seq(Frame) /\ stack'[c] = <<f>> \o stack[c]
        /\ \A d \in Callers : d # c => stack'[d] = stack[d]
    BY <1>1 DEF TypeOK
  <1> HIDE DEF f
  <1>5. SeenOf(stack'[c]) = <<Seen(f)>> \o SeenOf(stack[c])
    BY <1>3, <1>4, SeenOfPush
  <1>6. Calls' = [Calls EXCEPT ![c] = <<Seen(f)>> \o @]
    BY <1>4, <1>5, CallsAreSeen
  <1>7. Calls[c] = SeenOf(stack[c])
    BY CallsAreSeen
  <1>8. Promise!InOwnCode(c)
    <2>1. CASE stack[c] = <<>>
      BY <1>4, <1>7, <2>1, SeenOfSeq DEF Promise!InOwnCode, Calls
    <2>2. CASE stack[c] # <<>>
      <3>1. Head(stack[c]).yielded > 0
        BY <2>2 DEF Begin, InOwnCode
      <3>2. Head(Calls[c]) = Seen(Head(stack[c]))
        BY <1>4, <1>7, <2>2, SeenOfSeq
      <3> QED
        BY <3>1, <3>2 DEF Promise!InOwnCode, Calls, Seen
    <2> QED
      BY <2>1, <2>2
  <1>9. Len(Calls[c]) < MaxDepth
    BY <1>4, <1>7, SeenOfSeq DEF Begin
  <1>10. answer' = [answer EXCEPT ![c] = Promise!Unanswered] /\ readable' = readable
    BY SameReply DEF Begin, Unanswered, Promise!Unanswered
  <1> QED
    BY <1>2, <1>3, <1>6, <1>8, <1>9, <1>10 DEF Promise!Begin, Calls

LEMMA YieldYields ==
    ASSUME TypeOK, CallsOK, Complete, NEW c \in Callers, YieldNext(c)
    PROVE  Promise!YieldNext(c)
  <1> DEFINE f == [Head(stack[c]) EXCEPT !.yielded = @ + 1]
             y == Head(stack[c]).yielded
  <1>1. stack[c] # <<>> /\ Head(stack[c]).pc = "iterate"
        /\ answer' = [answer EXCEPT ![c] = Reply("yield", <<AddressAt(y)>>)]
        /\ y < Count /\ Become(c, f) /\ readable' = readable
    BY DEF YieldNext, Running
  <1>2. Head(stack[c]) \in Frame /\ stack[c] \in Seq(Frame)
        /\ Head(stack[c]) = stack[c][1]
    BY <1>1, TopIsFrame DEF TypeOK
  <1>3. Head(stack[c]).op = "All" /\ readable
    BY <1>1, <1>2 DEF CallsOK, CallOK
  <1>4. y \in 0 .. Count - 1 /\ Count \in Nat /\ Count = Len(Records)
    BY <1>1, <1>2, LengthsAssumption DEF Frame, Count
  <1>5. f \in Frame /\ Seen(f) = [Seen(Head(stack[c])) EXCEPT !.yielded = @ + 1]
    BY <1>2, <1>4 DEF Frame, Seen
  <1>6. AddressAt(y) = Addresses[y + 1] /\ Len(Addresses) = Count
    BY <1>4, AddressAtIsAddress DEF Addresses
  <1> HIDE DEF f
  <1>7. /\ stack'[c] \in Seq(Frame)
        /\ stack'[c] # <<>> /\ Head(stack'[c]) = f
        /\ Len(stack'[c]) = Len(stack[c])
        /\ \A i \in 2 .. Len(stack'[c]) : stack'[c][i] = stack[c][i]
        /\ \A d \in Callers : d # c => stack'[d] = stack[d]
    BY <1>1, <1>5, BecomeMoves
  <1>8. SeenOf(stack'[c]) = [SeenOf(stack[c]) EXCEPT ![1].yielded = @ + 1]
    <2> DEFINE s == SeenOf(stack[c])
               t == [s EXCEPT ![1].yielded = @ + 1]
    <2>1. s = [i \in 1 .. Len(stack[c]) |-> Seen(stack[c][i])]
          /\ 1 \in 1 .. Len(stack[c])
      BY <1>1, <1>2 DEF SeenOf
    <2>2. t = [i \in 1 .. Len(stack[c]) |->
                  IF i = 1 THEN [s[1] EXCEPT !.yielded = @ + 1] ELSE s[i]]
      BY <2>1
    <2>3. stack'[c][1] = f
      BY <1>7
    <2>4. \A i \in 1 .. Len(stack[c]) :
              Seen(stack'[c][i]) =
                IF i = 1 THEN [s[1] EXCEPT !.yielded = @ + 1] ELSE s[i]
      BY <1>2, <1>5, <1>7, <2>1, <2>3
    <2> QED
      BY <1>7, <2>2, <2>4 DEF SeenOf
  <1>9. Calls' = [Calls EXCEPT ![c][1].yielded = @ + 1]
    BY <1>7, <1>8, CallsAreSeen
  <1>10. Calls[c] # <<>> /\ Head(Calls[c]) = Seen(Head(stack[c]))
    BY <1>1, <1>2, CallsAreSeen, SeenOfSeq
  <1>11. Head(Calls[c]).op = "All" /\ Head(Calls[c]).yielded = y
    BY <1>3, <1>10 DEF Seen
  <1>12. answer' = [answer EXCEPT
           ![c] = Promise!Reply("yield", <<Promise!Addresses[y + 1]>>)]
    BY <1>1, <1>6, SameReply, SameAddresses
  <1>13. y < Len(Promise!Addresses)
    BY <1>4, <1>6, SameAddresses
  <1> HIDE DEF y
  <1> QED
    BY <1>1, <1>3, <1>9, <1>10, <1>11, <1>12, <1>13 DEF Promise!YieldNext, Calls
(* A call that gives its answer, and the service giving the same. *)
LEMMA ReturnReturns ==
    ASSUME TypeOK, NEW c \in Callers, stack[c] # <<>>, NEW r, Finish(c, r),
           \/ ~readable /\ r = UnreadableAnswerOf(Op(c), Arg(c))
           \/ readable /\ Op(c) # "All" /\ r = AnswerOf(Op(c), Arg(c))
    PROVE  Promise!Return(c)
  <1>1. stack[c] \in Seq(Frame) /\ Head(stack[c]) \in Frame
    BY TopIsFrame DEF TypeOK
  <1>2. Calls[c] # <<>> /\ Head(Calls[c]) = Seen(Head(stack[c]))
    BY <1>1, CallsAreSeen, SeenOfSeq
  <1>3. Head(Calls[c]).op = Op(c) /\ Head(Calls[c]).arg = Arg(c)
        /\ Op(c) \in Operations
    BY <1>1, <1>2 DEF Seen, Op, Arg, Frame
  <1>4. Promise!Finish(c, r)
    BY FinishFinishes
  <1>5. CASE ~readable /\ r = UnreadableAnswerOf(Op(c), Arg(c))
    <2>1. r = Promise!UnreadableAnswerOf(Op(c), Arg(c))
      BY <1>3, <1>5, SameUnreadableAnswerOf
    <2> QED
      BY <1>2, <1>3, <1>4, <1>5, <2>1 DEF Promise!Return, Calls
  <1>6. CASE readable /\ Op(c) # "All" /\ r = AnswerOf(Op(c), Arg(c))
    <2>1. r = Promise!AnswerOf(Op(c), Arg(c))
      BY <1>3, <1>6, SameAnswerOf
    <2> QED
      BY <1>2, <1>3, <1>4, <1>6, <2>1 DEF Promise!Return, Calls
  <1> QED
    BY <1>5, <1>6

(* A malformed code is refused, whether or not the database is readable. *)
LEMMA RefusalReturns ==
    ASSUME TypeOK, NEW c \in Callers, RefuseCode(c)
    PROVE  Promise!Return(c)
  <1> DEFINE r == Reply("ErrInvalidCode", <<>>)
  <1>1. stack[c] # <<>> /\ Op(c) \in {"Lookup", "LookupAll"}
        /\ ~WellFormed(Arg(c)) /\ Finish(c, r)
    BY DEF RefuseCode, Running, IsCodeLookup
  <1>2. r = UnreadableAnswerOf(Op(c), Arg(c))
    BY <1>1 DEF UnreadableAnswerOf
  <1>3. r = CodeReply(Op(c), Arg(c))
    BY <1>1 DEF CodeReply
  <1>4. r = AnswerOf(Op(c), Arg(c))
    BY <1>1, <1>3 DEF AnswerOf
  <1>5. readable \in BOOLEAN
    BY DEF TypeOK
  <1> HIDE DEF r
  <1> QED
    BY <1>1, <1>2, <1>4, <1>5, ReturnReturns

(* What a call reads from a complete database is what the service answers. *)
LEMMA ReadIsPromised ==
    ASSUME TypeOK, CallsOK, Complete, NEW c \in Callers, stack[c] # <<>>,
           Head(stack[c]).pc = "use", Op(c) # "All"
    PROVE  Read(c) = AnswerOf(Op(c), Arg(c))
  <1>1. Head(stack[c]) \in Frame /\ Head(stack[c]) = stack[c][1]
        /\ 1 \in 1 .. Len(stack[c])
    BY TopIsFrame DEF TypeOK
  <1>2. Op(c) \in {"Load", "Lookup", "LookupAll", "Prefectures",
                   "PublishedPrefectureRomaji", "Len", "DataUpdated"}
    BY <1>1, OperationsAssumption DEF Frame, Op
  <1>3. CASE Op(c) \in {"Lookup", "LookupAll"}
    <2>1. Arg(c) \in Texts /\ WellFormed(Arg(c))
      BY <1>1, <1>3 DEF CallsOK, CallOK, Op, Arg
    <2>2. FoundBy(Op(c), CodeOf(Arg(c))) = CodeReply(Op(c), Arg(c))
      <3>1. Typed(Arg(c)) \in Seq(Numerals)
        BY <2>1, TextsAssumption, TypedIs
      <3>2. CodeOf(Arg(c)) \in Nat
        BY <3>1, ValueFits DEF CodeOf
      <3> QED
        BY <1>3, <2>1, <3>2, FoundIsPromised
    <2> QED
      BY <1>3, <2>2 DEF Read, AnswerOf, IsCodeLookup
  <1>4. CASE Op(c) = "PublishedPrefectureRomaji"
    BY <1>4 DEF Read, AnswerOf, IsCodeLookup, RomajiOf, RomajiReply
  <1>5. CASE Op(c) = "Prefectures"
    BY <1>5 DEF Read, AnswerOf, IsCodeLookup, Complete
  <1>6. CASE Op(c) \in {"Load", "Len", "DataUpdated"}
    BY <1>6 DEF Read, AnswerOf, IsCodeLookup, Count
  <1> QED
    BY <1>2, <1>3, <1>4, <1>5, <1>6

(* Whoever uses the database, the one of the file, or the error it gave. *)
LEMMA UsersFindAll ==
    ASSUME IInv, NEW c \in Callers, Running(c, "use") \/ Running(c, "iterate")
    PROVE  /\ outcome = IF readable THEN "db" ELSE "err"
           /\ readable => Complete
  <1>1. Loaded
    BY DEF IInv, LoadedSoFar
  <1>2. readable => \A i \in 1 .. Len(Published) : prefectures[i] = DerivedName(i)
    BY <1>1 DEF Loaded, Decoded
  <1>3. prefectures \in [1 .. Len(Published) -> Names]
    BY DEF IInv, TypeOK
  <1>4. readable => Complete
    BY <1>2, <1>3 DEF Complete, DerivedName
  <1> QED
    BY <1>1, <1>4 DEF Loaded

LEMMA UseReturns ==
    ASSUME IInv, CallsOK, NEW c \in Callers, Use(c)
    PROVE  Promise!Return(c)
  <1>1. stack[c] # <<>> /\ Head(stack[c]).pc = "use" /\ TypeOK /\ readable \in BOOLEAN
    BY DEF Use, Running, IInv, TypeOK
  <1>2. /\ outcome = IF readable THEN "db" ELSE "err"
        /\ readable => Complete
    BY UsersFindAll DEF Use
  <1>3. CASE readable
    <2>1. Op(c) # "All" /\ Finish(c, Read(c))
      BY <1>2, <1>3 DEF Use
    <2>2. Read(c) = AnswerOf(Op(c), Arg(c))
      BY <1>1, <1>2, <1>3, <2>1, ReadIsPromised
    <2> QED
      BY <1>1, <1>3, <2>1, <2>2, ReturnReturns
  <1>4. CASE ~readable
    <2>1. Finish(c, Unreadable(c))
      BY <1>2, <1>4 DEF Use
    <2>2. Head(stack[c]) = stack[c][1] /\ 1 \in 1 .. Len(stack[c])
      BY <1>1 DEF TypeOK
    <2>3. Op(c) \in {"Lookup", "LookupAll"} => WellFormed(Arg(c))
      BY <1>1, <2>2 DEF CallsOK, CallOK, Op, Arg
    <2>4. Unreadable(c) = UnreadableAnswerOf(Op(c), Arg(c))
      BY <2>3 DEF Unreadable, UnreadableAnswerOf
    <2> QED
      BY <1>1, <1>4, <2>1, <2>4, ReturnReturns
  <1> QED
    BY <1>1, <1>3, <1>4

LEMMA EndEnds ==
    ASSUME TypeOK, CallsOK, NEW c \in Callers, EndIteration(c)
    PROVE  Promise!EndIteration(c)
  <1>1. stack[c] # <<>> /\ Head(stack[c]).pc = "iterate"
        /\ Finish(c, Reply("end", <<>>))
        /\ (Head(stack[c]).yielded > 0 \/ Len(Records) = 0)
    BY DEF EndIteration, Running, Count
  <1>2. stack[c] \in Seq(Frame) /\ Head(stack[c]) = stack[c][1]
        /\ 1 \in 1 .. Len(stack[c])
    BY <1>1 DEF TypeOK
  <1>3. Head(stack[c]).op = "All" /\ readable
    BY <1>1, <1>2 DEF CallsOK, CallOK
  <1>4. Calls[c] # <<>> /\ Head(Calls[c]) = Seen(Head(stack[c]))
    BY <1>1, <1>2, CallsAreSeen, SeenOfSeq
  <1>5. Head(Calls[c]).op = "All"
        /\ Head(Calls[c]).yielded = Head(stack[c]).yielded
    BY <1>3, <1>4 DEF Seen
  <1>6. Promise!Finish(c, Promise!Reply("end", <<>>))
    BY <1>1, FinishFinishes, SameReply
  <1> QED
    BY <1>1, <1>3, <1>4, <1>5, <1>6 DEF Promise!EndIteration, Calls

(* Everything else happens inside the package. *)
LEMMA LoadingIsUnseen ==
    ASSUME IInv, NEW c \in Callers,
           \/ NeedDatabase(c) \/ FastPath(c) \/ Lock(c) \/ Recheck(c)
           \/ Decode(c) \/ Derive(c) \/ EndDerive(c) \/ StoreResults(c)
           \/ SetDone(c) \/ Unlock(c) \/ StartIteration(c)
    PROVE  UNCHANGED <<readable, Calls, answer>>
  <1>1. readable' = readable /\ answer' = answer
    BY DEF NeedDatabase, FastPath, Lock, Recheck, Decode, Derive, EndDerive,
           StoreResults, SetDone, Unlock, StartIteration
  <1>2. CASE Derive(c)
    BY <1>1, <1>2, CallsAreSeen DEF Derive
  <1>3. CASE ~Derive(c)
    <2>1. stack[c] # <<>>
      BY <1>3 DEF NeedDatabase, FastPath, Lock, Recheck, Decode, EndDerive,
                  StoreResults, SetDone, Unlock, StartIteration, Running
    <2>2. \E pc \in PCs : Goto(c, pc)
      BY <1>3 DEF NeedDatabase, FastPath, Lock, Recheck, Decode, EndDerive,
                  StoreResults, SetDone, Unlock, StartIteration, PCs, Critical
    <2>3. Calls' = Calls
      BY <2>1, <2>2, GotoStutters DEF IInv
    <2> QED
      BY <1>1, <2>3
  <1> QED
    BY <1>2, <1>3

-----------------------------------------------------------------------------
(* The package answers as a service whose database was always there, for   *)
(* any goroutines, any database and any nesting of calls, whether or not   *)
(* the file is readable (lookup.go, data.go:20-57).                        *)
THEOREM Refinement == Spec => ImplementsService
  <1>1. Init => Promise!ServiceInit /\ CallsOK
    <2> SUFFICES ASSUME Init PROVE Promise!ServiceInit /\ CallsOK
      OBVIOUS
    <2>1. Calls = [c \in Callers |-> <<>>]
      BY DEF Init, Calls, CallsOf
    <2>2. Unanswered = Promise!Unanswered
      BY SameReply DEF Unanswered, Promise!Unanswered
    <2>3. Promise!ServiceInit
      BY <2>1, <2>2 DEF Init, Promise!ServiceInit, Calls
    <2> QED
      BY <2>3 DEF Init, CallsOK
  <1>2. IInv /\ CallsOK /\ [Next]_vars =>
            [Promise!ServiceNext]_(Promise!serviceVars)
    <2> SUFFICES ASSUME IInv, CallsOK, [Next]_vars
                 PROVE  Promise!ServiceNext \/ UNCHANGED <<readable, Calls, answer>>
      BY DEF Promise!serviceVars, Calls
    <2>1. CASE UNCHANGED vars
      BY <2>1, CallsAreSeen DEF vars
    <2>2. ASSUME NEW c \in Callers, Begin(c) \/ Run(c)
          PROVE  Promise!ServiceNext \/ UNCHANGED <<readable, Calls, answer>>
      <3>1. CASE Begin(c)
        BY <3>1, BeginBegins DEF IInv, Promise!ServiceNext
      <3>2. CASE RefuseCode(c) \/ Use(c)
        BY <3>2, RefusalReturns, UseReturns DEF IInv, Promise!ServiceNext
      <3>3. CASE YieldNext(c)
        <4>1. Complete
          <5>1. Running(c, "iterate")
            BY <3>3 DEF YieldNext
          <5>2. readable
            <6>1. stack[c] # <<>> /\ Head(stack[c]) = stack[c][1]
                  /\ 1 \in 1 .. Len(stack[c])
              BY <5>1 DEF Running, IInv, TypeOK
            <6> QED
              BY <5>1, <6>1 DEF Running, CallsOK, CallOK
          <5> QED
            BY <5>1, <5>2, UsersFindAll
        <4> QED
          BY <3>3, <4>1, YieldYields DEF IInv, Promise!ServiceNext
      <3>4. CASE EndIteration(c)
        BY <3>4, EndEnds DEF IInv, Promise!ServiceNext
      <3> QED
        BY <2>2, <3>1, <3>2, <3>3, <3>4, LoadingIsUnseen DEF Run
    <2> QED
      BY <2>1, <2>2 DEF Next
  <1> QED
    BY <1>1, <1>2, InitIInv, NextIInv, NextCallsOK, PTL
       DEF Spec, ImplementsService, Promise!Service
=============================================================================
