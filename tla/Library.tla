------------------------------ MODULE Library -------------------------------
(***************************************************************************)
(* The package as its callers meet it (data.go, lookup.go): goroutines     *)
(* call it at any time, the first call that needs the database decodes the *)
(* embedded file under sync.OnceValues, and everything after reads what    *)
(* that call published.  An iteration runs its body between two reads, and *)
(* the body may call the package again.                                    *)
(*                                                                         *)
(* sync.OnceValues is external: an atomic flag read without the mutex, and *)
(* read again under it; the flag is set after the function has returned    *)
(* and its results are stored, and before the mutex is released.           *)
(***************************************************************************)
EXTENDS ZipDatabase

CONSTANTS
    Callers,     \* goroutines
    Texts,       \* the texts looked up
    Kanji,       \* the prefecture names asked for
    MaxDepth,    \* bound: how deep calls nest inside iteration bodies
    Operations   \* the operations callers use

Nobody == "nobody"

ASSUME CallersAssumption == Nobody \notin Callers
ASSUME TextsAssumption == Texts \subseteq Seq(Runes)
ASSUME MaxDepthAssumption == MaxDepth \in Nat \ {0}

ASSUME OperationsAssumption ==
    Operations \subseteq
        {"Load", "Lookup", "LookupAll", "Prefectures",
         "PublishedPrefectureRomaji", "All", "Len", "DataUpdated"}

VARIABLES
    readable,      \* whether binfmt.Decode accepts the embedded file
    done, mutex,   \* sync.Once
    outcome,       \* the stored results: "none", "db" or "err"
    prefectures,   \* database.prefectures of the database being built
    derived,       \* how many of them the loop of decode has set
    decodes,       \* how often the function of OnceValues has run
    stack,         \* the calls under way of each caller, innermost first
    answer         \* the last thing a call gave to each caller

once == <<done, mutex, outcome, prefectures, derived, decodes>>
vars == <<readable, once, stack, answer>>

NoName == [kanji |-> "", romaji |-> <<>>]

NoArgument == <<>>

ArgumentsOf(op) ==
    IF op \in {"Lookup", "LookupAll"} THEN Texts
    ELSE IF op = "PublishedPrefectureRomaji" THEN Kanji
    ELSE {NoArgument}

Unanswered == Reply("none", <<>>)

Init ==
    /\ readable \in BOOLEAN
    /\ done = FALSE
    /\ mutex = Nobody
    /\ outcome = "none"
    /\ prefectures = [i \in 1 .. Len(Published) |-> NoName]
    /\ derived = 0
    /\ decodes = 0
    /\ stack = [c \in Callers |-> <<>>]
    /\ answer = [c \in Callers |-> Unanswered]

-----------------------------------------------------------------------------
(* The innermost call of a caller: where it is, and where it goes. *)

Running(c, pc) == stack[c] # <<>> /\ Head(stack[c]).pc = pc

(* The innermost call becomes f. *)
Become(c, f) == stack' = [stack EXCEPT ![c] = <<f>> \o Tail(@)]

Goto(c, pc) == Become(c, [Head(stack[c]) EXCEPT !.pc = pc])

Op(c) == Head(stack[c]).op

Arg(c) == Head(stack[c]).arg

Finish(c, reply) ==
    /\ stack' = [stack EXCEPT ![c] = Tail(@)]
    /\ answer' = [answer EXCEPT ![c] = reply]
    /\ UNCHANGED <<readable, once>>

InOwnCode(c) ==
    stack[c] = <<>> \/ (Running(c, "iterate") /\ Head(stack[c]).yielded > 0)

Begin(c) ==
    /\ InOwnCode(c)
    /\ Len(stack[c]) < MaxDepth
    /\ \E op \in Operations : \E arg \in ArgumentsOf(op) :
          stack' = [stack EXCEPT
              ![c] = <<[op |-> op, arg |-> arg, pc |-> "parse",
                        yielded |-> 0]>> \o @]
    /\ answer' = [answer EXCEPT ![c] = Unanswered]
    /\ UNCHANGED <<readable, once>>

IsCodeLookup(c) == Op(c) \in {"Lookup", "LookupAll"}

(* A malformed code is refused before the database is touched. *)
RefuseCode(c) ==
    /\ Running(c, "parse")
    /\ IsCodeLookup(c) /\ ~WellFormed(Arg(c))
    /\ Finish(c, Reply("ErrInvalidCode", <<>>))

NeedDatabase(c) ==
    /\ Running(c, "parse")
    /\ IsCodeLookup(c) => WellFormed(Arg(c))
    /\ Goto(c, "once")
    /\ UNCHANGED <<readable, once, answer>>

-----------------------------------------------------------------------------
(* sync.Once.Do *)

(* Mutant: the flag is only read under the mutex. *)
MutantFastPath(c) ==
    /\ Running(c, "once")
    /\ Goto(c, "lock")
    /\ UNCHANGED <<readable, once, answer>>

FastPath(c) ==
    /\ Running(c, "once")
    /\ Goto(c, IF done THEN "use" ELSE "lock")
    /\ UNCHANGED <<readable, once, answer>>

(* Mutant: the mutex does not exclude. *)
MutantLock(c) ==
    /\ Running(c, "lock")
    /\ mutex' = c
    /\ Goto(c, "recheck")
    /\ UNCHANGED <<readable, done, outcome, prefectures, derived, decodes,
                   answer>>

Lock(c) ==
    /\ Running(c, "lock")
    /\ mutex = Nobody
    /\ mutex' = c
    /\ Goto(c, "recheck")
    /\ UNCHANGED <<readable, done, outcome, prefectures, derived, decodes,
                   answer>>

(* Mutant: the flag is not read again. *)
MutantRecheck(c) ==
    /\ Running(c, "recheck")
    /\ Goto(c, "decode")
    /\ UNCHANGED <<readable, once, answer>>

(* A caller that waited for the mutex finds the flag set. *)
Recheck(c) ==
    /\ Running(c, "recheck")
    /\ Goto(c, IF done THEN "unlock" ELSE "decode")
    /\ UNCHANGED <<readable, once, answer>>

(* The function given to OnceValues: decode the file, then derive the      *)
(* display spelling of every prefecture into the new database.             *)
Decode(c) ==
    /\ Running(c, "decode")
    /\ decodes' = decodes + 1
    /\ prefectures' = [i \in 1 .. Len(Published) |-> NoName]
    /\ derived' = 0
    /\ Goto(c, IF readable THEN "derive" ELSE "store")
    /\ UNCHANGED <<readable, done, mutex, outcome, answer>>

DerivedName(i) == PrefectureName(Published[i])

Derive(c) ==
    /\ Running(c, "derive")
    /\ derived < Len(Published)
    /\ prefectures' = [prefectures EXCEPT
          ![derived + 1] = DerivedName(derived + 1)]
    /\ derived' = derived + 1
    /\ UNCHANGED <<readable, done, mutex, outcome, decodes, stack, answer>>

(* Mutant: the last prefecture is missed. *)
MutantDerivedAll == derived + 1 >= Len(Published)

DerivedAll == derived = Len(Published)

EndDerive(c) ==
    /\ Running(c, "derive")
    /\ DerivedAll
    /\ Goto(c, "store")
    /\ UNCHANGED <<readable, once, answer>>

(* The results are stored before the flag is set. *)
StoreResults(c) ==
    /\ Running(c, "store")
    /\ outcome' = IF readable THEN "db" ELSE "err"
    /\ Goto(c, "setDone")
    /\ UNCHANGED <<readable, done, mutex, prefectures, derived, decodes, answer>>

SetDone(c) ==
    /\ Running(c, "setDone")
    /\ done' = TRUE
    /\ Goto(c, "unlock")
    /\ UNCHANGED <<readable, mutex, outcome, prefectures, derived, decodes,
                   answer>>

(* Mutant: the mutex is kept. *)
MutantUnlock(c) ==
    /\ Running(c, "unlock")
    /\ Goto(c, "use")
    /\ UNCHANGED <<readable, once, answer>>

Unlock(c) ==
    /\ Running(c, "unlock")
    /\ mutex' = Nobody
    /\ Goto(c, "use")
    /\ UNCHANGED <<readable, done, outcome, prefectures, derived, decodes,
                   answer>>

-----------------------------------------------------------------------------
(* What the operations do with what OnceValues returns. *)

Count == Len(Records)

(* Store.Range, as StoreRange computes it. *)
RangeStart(zip) ==
    Min({i \in 0 .. Count : i < Count => Records[i + 1].zip >= zip})

RangeEnd(zip) ==
    Min({i \in RangeStart(zip) .. Count :
            i < Count => Records[i + 1].zip # zip})

(* database.address of Store.At(i) *)
AddressAt(i) ==
    [code |-> Digits(Records[i + 1].zip, CodeLen),
     prefecture |-> prefectures[Records[i + 1].pref + 1],
     town |-> Records[i + 1].town]

(* Neither result is set: the dereference of a nil database. *)
NilDatabase == Reply("nil", <<>>)

Unreadable(c) ==
    IF Op(c) \in {"Load", "Lookup", "LookupAll"}
    THEN Reply("error", <<>>) ELSE Reply("panic", <<>>)

FoundBy(op, zip) ==
    LET start == RangeStart(zip)
        end == RangeEnd(zip)
    IN  IF start = end THEN Reply("ErrNotFound", <<>>)
        ELSE IF op = "Lookup" THEN Reply("ok", <<AddressAt(start)>>)
        ELSE Reply("ok", [i \in 1 .. end - start |-> AddressAt(start + i - 1)])

(* Store.PublishedPrefectureRomaji: the first of that name. *)
RomajiOf(kanji) ==
    LET named == {i \in 1 .. Len(Published) : Published[i].kanji = kanji}
    IN  IF named = {} THEN Reply("unknown", <<>>)
        ELSE Reply("ok", <<Published[Min(named)].romaji>>)

Read(c) ==
    CASE Op(c) = "Load" -> Reply("ok", <<>>)
      [] IsCodeLookup(c) -> FoundBy(Op(c), CodeOf(Arg(c)))
      [] Op(c) = "Prefectures" -> Reply("ok", prefectures)
      [] Op(c) = "PublishedPrefectureRomaji" -> RomajiOf(Arg(c))
      [] Op(c) = "Len" -> Reply("ok", <<Count>>)
      [] Op(c) = "DataUpdated" -> Reply("ok", Updated)

Use(c) ==
    /\ Running(c, "use")
    /\ outcome = "db" => Op(c) # "All"
    /\ Finish(c, CASE outcome = "err" -> Unreadable(c)
                   [] outcome = "none" -> NilDatabase
                   [] outcome = "db" -> Read(c))

StartIteration(c) ==
    /\ Running(c, "use")
    /\ outcome = "db"
    /\ Op(c) = "All"
    /\ Goto(c, "iterate")
    /\ UNCHANGED <<readable, once, answer>>

(* Mutant: every other record is skipped. *)
MutantYieldNext(c) ==
    /\ Running(c, "iterate")
    /\ Head(stack[c]).yielded < Count
    /\ answer' = [answer EXCEPT
          ![c] = Reply("yield", <<AddressAt(Head(stack[c]).yielded)>>)]
    /\ Become(c, [Head(stack[c]) EXCEPT !.yielded = @ + 2])
    /\ UNCHANGED <<readable, once>>

(* One turn of the loop of All, the first or after the body asked for more. *)
YieldNext(c) ==
    /\ Running(c, "iterate")
    /\ Head(stack[c]).yielded < Count
    /\ answer' = [answer EXCEPT
          ![c] = Reply("yield", <<AddressAt(Head(stack[c]).yielded)>>)]
    /\ Become(c, [Head(stack[c]) EXCEPT !.yielded = @ + 1])
    /\ UNCHANGED <<readable, once>>

(* The body breaks out, or there are no more records. *)
EndIteration(c) ==
    /\ Running(c, "iterate")
    /\ Head(stack[c]).yielded > 0 \/ Count = 0
    /\ Finish(c, Reply("end", <<>>))

(* A call under way, and an iteration whose body has come back to it. *)
Run(c) ==
    \/ RefuseCode(c) \/ NeedDatabase(c)
    \/ FastPath(c) \/ Lock(c) \/ Recheck(c)
    \/ Decode(c) \/ Derive(c) \/ EndDerive(c)
    \/ StoreResults(c) \/ SetDone(c) \/ Unlock(c)
    \/ Use(c) \/ StartIteration(c) \/ YieldNext(c) \/ EndIteration(c)

Next == \E c \in Callers : Begin(c) \/ Run(c)

(* The scheduler runs every goroutine; nobody has to call anything. *)
Spec == Init /\ [][Next]_vars /\ \A c \in Callers : WF_vars(Run(c))

-----------------------------------------------------------------------------
Critical == {"recheck", "decode", "derive", "store", "setDone", "unlock"}

PCs == Critical \cup {"parse", "once", "lock", "use", "iterate"}

Arguments == Texts \cup Kanji \cup {NoArgument}

Frame == [op : Operations, arg : Arguments, pc : PCs, yielded : 0 .. Count]

Names == {NoName} \cup {DerivedName(i) : i \in 1 .. Len(Published)}

(* The state is well typed. *)
TypeOK ==
    /\ readable \in BOOLEAN
    /\ done \in BOOLEAN
    /\ mutex \in Callers \cup {Nobody}
    /\ outcome \in {"none", "db", "err"}
    /\ prefectures \in [1 .. Len(Published) -> Names]
    /\ derived \in 0 .. Len(Published)
    /\ decodes \in Nat
    /\ stack \in [Callers -> Seq(Frame)]
    /\ \A c \in Callers : Len(stack[c]) <= MaxDepth

(* One caller at a time is past the mutex, and it is the one the mutex     *)
(* says (data.go:26).                                                      *)
MutexHeld ==
    \A c \in Callers :
        mutex = c <=> stack[c] # <<>> /\ Head(stack[c]).pc \in Critical

(* The body of an iteration never waits for the loader, whatever the       *)
(* others do: a call made inside a range over All reads what is published, *)
(* and cannot deadlock on the iteration it runs in (lookup.go:84-94).      *)
BodiesNeverWait ==
    \A c \in Callers :
        Len(stack[c]) > 1 => Head(stack[c]).pc \notin Critical \cup {"lock"}

(* However many goroutines arrive first, the embedded file is decoded at   *)
(* most once, also when decoding fails: the failure is remembered          *)
(* (data.go:26-36).                                                        *)
DecodedOnce == decodes <= 1 /\ (done => decodes = 1)

(* Whoever gets to read the database reads all of it: no prefecture is     *)
(* still waiting to be derived, and no goroutine meets a nil database      *)
(* (data.go:31-35).                                                        *)
PublishedComplete ==
    /\ outcome = "db" =>
          \A i \in 1 .. Len(Published) : prefectures[i] = DerivedName(i)
    /\ \A c \in Callers :
          stack[c] # <<>> /\ Head(stack[c]).pc \in {"use", "iterate"} =>
              done /\ outcome = IF readable THEN "db" ELSE "err"

(* Once published, the database never changes under its readers: their     *)
(* addresses share its strings and prefectures.                            *)
PublishedForGood ==
    [][done => UNCHANGED <<done, outcome, prefectures, decodes>>]_vars

(* Why the properties above hold: how far loading has come, for each place *)
(* its one runner can be at.                                               *)
NotBegun == decodes = 0 /\ outcome = "none"

Decoded(upTo) ==
    /\ decodes = 1
    /\ readable => \A i \in 1 .. upTo : prefectures[i] = DerivedName(i)

Loaded ==
    /\ Decoded(Len(Published))
    /\ outcome = IF readable THEN "db" ELSE "err"

LoadedSoFar(c) ==
    /\ Running(c, "recheck") /\ ~done => NotBegun
    /\ Running(c, "decode") => ~done /\ NotBegun
    /\ Running(c, "derive") =>
          ~done /\ readable /\ outcome = "none" /\ Decoded(derived)
    /\ Running(c, "store") =>
          ~done /\ outcome = "none" /\ Decoded(Len(Published))
    /\ Running(c, "setDone") => ~done /\ Loaded
    /\ Running(c, "unlock") => done
    /\ Running(c, "use") \/ Running(c, "iterate") => done

(* Calls nest in iterations only, and iterations run once all is loaded.   *)
Nesting(c) ==
    /\ \A i \in 2 .. Len(stack[c]) : stack[c][i].pc = "iterate"
    /\ Len(stack[c]) > 1 =>
          done /\ Head(stack[c]).pc \notin Critical \cup {"lock"}

(* The inductive invariant of the package (data.go:26-36).                 *)
IInv ==
    /\ TypeOK
    /\ MutexHeld
    /\ done => Loaded
    /\ ~done /\ mutex = Nobody => NotBegun
    /\ \A c \in Callers : LoadedSoFar(c) /\ Nesting(c)

(* A call always comes back: no goroutine waits for the mutex for ever,    *)
(* whatever the others do, and whether or not the file is readable.        *)
CallsReturn == \A c \in Callers : ~InOwnCode(c) ~> InOwnCode(c)

(* The package gives its callers the answers the service promises.         *)
CallsOf(c) ==
    [i \in 1 .. Len(stack[c]) |->
        [op |-> stack[c][i].op, arg |-> stack[c][i].arg,
         yielded |-> stack[c][i].yielded]]

Promise == INSTANCE ZipService WITH calls <- [c \in Callers |-> CallsOf(c)]

(* Every behaviour of the package, loading included, is a behaviour of a   *)
(* service whose database was always there (lookup.go, data.go:38-42).     *)
ImplementsService == Promise!Service
=============================================================================
