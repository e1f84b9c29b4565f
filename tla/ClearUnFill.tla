---------------------------- MODULE ClearUnFill -----------------------------
(***************************************************************************)
(* The handshake of ClearUnFillMessage.  A caller hands a function over to *)
(* the goroutine of a head (cleanUnFillMsgFunc, unbuffered) and waits for  *)
(* a result (cleanUnFillMsgRes, unbuffered) or for its context to end; the *)
(* goroutine runs the function and offers the result to whoever waits.     *)
(***************************************************************************)
EXTENDS Integers, FiniteSets

CONSTANTS
    Caller,     \* calls of ClearUnFillMessage
    Goroutine   \* calls of delaySelectMessage, one for each new head

ASSUME FiniteAssumption == IsFiniteSet(Caller) /\ IsFiniteSet(Goroutine)

VARIABLES
    caller,     \* caller[c]: "idle", "sending", "waiting", "answered" or "gaveUp"
    worker      \* worker[h]: [pc, req]: where the goroutine of a head is, and whose function it took

clearVars == <<caller, worker>>

NoReq == [pc |-> "idle", req |-> {}]

ClearInit ==
    /\ caller = [c \in Caller |-> "idle"]
    /\ worker = [h \in Goroutine |-> NoReq]

(* The call begins: it blocks on cleanUnFillMsgFunc, whatever becomes of its context. *)
ClearUnFillMessage(c) ==
    /\ caller[c] = "idle"
    /\ caller' = [caller EXCEPT ![c] = "sending"]
    /\ UNCHANGED worker

(* tryClearUnFillMsg: take a waiting function if there is one, else go on to SelectMessage. *)
TryClearUnFillMsg(h) ==
    /\ worker[h].pc = "idle"
    /\ \/ \E c \in Caller :
            /\ caller[c] = "sending"
            /\ caller' = [caller EXCEPT ![c] = "waiting"]
            /\ worker' = [worker EXCEPT ![h] = [pc |-> "running", req |-> {c}]]
       \/ /\ \A c \in Caller : caller[c] # "sending"
          /\ worker' = [worker EXCEPT ![h].pc = "selecting"]
          /\ UNCHANGED caller

(* The function returns, with a count or with an error. *)
RunClear(h) ==
    /\ worker[h].pc = "running"
    /\ worker' = [worker EXCEPT ![h].pc = "offering"]
    /\ UNCHANGED caller

(* Mutant: the result is sent only if somebody is there to take it. *)
SendOrDrop(h) ==
    /\ worker[h].pc = "offering"
    /\ worker' = [worker EXCEPT ![h].pc = "selecting"]
    /\ \/ \E c \in Caller : caller[c] = "waiting" /\ caller' = [caller EXCEPT ![c] = "answered"]
       \/ UNCHANGED caller

(* Any waiting caller may take the result, the one whose function it was or another. *)
SendResult(h) ==
    /\ worker[h].pc = "offering"
    /\ \E c \in Caller :
         /\ caller[c] = "waiting"
         /\ caller' = [caller EXCEPT ![c] = "answered"]
    /\ worker' = [worker EXCEPT ![h].pc = "selecting"]

(* ctx.Done: seen only after the function was taken. *)
GiveUp(c) ==
    /\ caller[c] = "waiting"
    /\ caller' = [caller EXCEPT ![c] = "gaveUp"]
    /\ UNCHANGED worker

Callers(state) == {c \in Caller : caller[c] = state}
Held == {h \in Goroutine : worker[h].pc \in {"running", "offering"}}

(* Every goroutine held by a function or its result is owed to one caller that waits or gave up:
   the selection of a head is lost (its goroutine blocked for good) only for a caller that gave up,
   and a caller that waits will find a result even if an earlier caller took the one of its own. *)
AnswersConserved == Cardinality(Held) = Cardinality(Callers("waiting")) + Cardinality(Callers("gaveUp"))
=============================================================================
