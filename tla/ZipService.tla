----------------------------- MODULE ZipService -----------------------------
(***************************************************************************)
(* What the package promises its callers, from the documentation comments  *)
(* of lookup.go and data.go: every call answers from one complete database *)
(* that never changes, or says that the database is unreadable, and calls  *)
(* of different goroutines do not disturb each other.  An iteration hands  *)
(* out one address at a time, and its body may call the package again.     *)
(*                                                                         *)
(* Nothing here says how or when the database is loaded.                   *)
(***************************************************************************)
EXTENDS ZipDatabase

CONSTANTS
    Callers,     \* goroutines
    Texts,       \* the texts looked up
    Kanji,       \* the prefecture names asked for
    MaxDepth,    \* bound: how deep calls nest inside iteration bodies
    Operations   \* the operations callers use

NoArgument == <<>>

ArgumentsOf(op) ==
    CASE op \in {"Lookup", "LookupAll"} -> Texts
      [] op = "PublishedPrefectureRomaji" -> Kanji
      [] OTHER -> {NoArgument}

VARIABLES
    readable,    \* whether the embedded data decodes
    calls,       \* the calls under way of each caller, innermost first
    answer       \* the last thing a call gave to each caller

serviceVars == <<readable, calls, answer>>

Unanswered == Reply("none", <<>>)

ServiceInit ==
    /\ readable \in BOOLEAN
    /\ calls = [c \in Callers |-> <<>>]
    /\ answer = [c \in Callers |-> Unanswered]

(* A caller is in its own code when no call is under way, or when the      *)
(* innermost one is an iteration that has yielded to its body.             *)
InOwnCode(c) == calls[c] = <<>> \/ Head(calls[c]).yielded > 0

Begin(c) ==
    /\ InOwnCode(c)
    /\ Len(calls[c]) < MaxDepth
    /\ \E op \in Operations : \E arg \in ArgumentsOf(op) :
          calls' = [calls EXCEPT
              ![c] = <<[op |-> op, arg |-> arg, yielded |-> 0]>> \o @]
    /\ answer' = [answer EXCEPT ![c] = Unanswered]
    /\ UNCHANGED readable

Finish(c, reply) ==
    /\ answer' = [answer EXCEPT ![c] = reply]
    /\ calls' = [calls EXCEPT ![c] = Tail(@)]
    /\ UNCHANGED readable

Return(c) ==
    /\ calls[c] # <<>>
    /\ LET call == Head(calls[c])
       IN  \/ /\ ~readable
              /\ Finish(c, UnreadableAnswerOf(call.op, call.arg))
           \/ /\ readable
              /\ call.op # "All"
              /\ Finish(c, AnswerOf(call.op, call.arg))

(* The next address, in order: none is skipped, none handed out twice. *)
YieldNext(c) ==
    /\ readable
    /\ calls[c] # <<>>
    /\ Head(calls[c]).op = "All"
    /\ Head(calls[c]).yielded < Len(Addresses)
    /\ answer' = [answer EXCEPT
          ![c] = Reply("yield", <<Addresses[Head(calls[c]).yielded + 1]>>)]
    /\ calls' = [calls EXCEPT ![c][1].yielded = @ + 1]
    /\ UNCHANGED readable

(* The body breaks out, or the last address has been handed out. *)
EndIteration(c) ==
    /\ readable
    /\ calls[c] # <<>>
    /\ Head(calls[c]).op = "All"
    /\ Head(calls[c]).yielded > 0 \/ Len(Records) = 0
    /\ Finish(c, Reply("end", <<>>))

ServiceNext ==
    \E c \in Callers : Begin(c) \/ Return(c) \/ YieldNext(c) \/ EndIteration(c)

Service == ServiceInit /\ [][ServiceNext]_serviceVars
=============================================================================
