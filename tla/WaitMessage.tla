---------------------------- MODULE WaitMessage -----------------------------
(***************************************************************************)
(* The loop of WaitMessage: a token in doneCh (one place) makes it look at *)
(* the message, a tick of the ticker puts the token back.                  *)
(***************************************************************************)
EXTENDS Integers

VARIABLE wait    \* [pc, token, tick, head]

NotWaiting == [pc |-> "idle", token |-> FALSE, tick |-> FALSE, head |-> 0]

IsChainMsg(state) == state \in {"OnChain", "NonceConflict"}

StartWait ==
    /\ wait.pc = "idle"
    /\ wait' = [pc |-> "select", token |-> TRUE, tick |-> FALSE, head |-> 0]

(* The ticker fires; a tick nobody took is dropped. *)
Tick ==
    /\ wait.pc \in {"select", "row"}
    /\ ~wait.tick
    /\ wait' = [wait EXCEPT !.tick = TRUE]

(* case <-doneCh: GetMessageByUid asks the node for its head first; an error ends the call. *)
TakeToken(head) ==
    /\ wait.pc = "select"
    /\ wait.token
    /\ \/ wait' = [wait EXCEPT !.pc = "row", !.token = FALSE, !.head = head]
       \/ wait' = [wait EXCEPT !.pc = "returned"]

(* Then the row is read: the call ends if the message failed or lies deep enough under that head. *)
ReadRow(state, height, confidence) ==
    /\ wait.pc = "row"
    /\ wait' = [wait EXCEPT !.pc = IF \/ state = "Failed"
                                      \/ IsChainMsg(state) /\ wait.head - height > confidence
                                   THEN "returned" ELSE "select"]

(* case <-tm.C: with a token in doneCh already the loop blocks on the channel only it reads. *)
TakeTick ==
    /\ wait.pc = "select"
    /\ wait.tick
    /\ wait' = [wait EXCEPT !.tick = FALSE, !.token = TRUE, !.pc = IF wait.token THEN "blocked" ELSE "select"]

CtxDone ==
    /\ wait.pc = "select"
    /\ wait' = [wait EXCEPT !.pc = "returned"]
=============================================================================
