--------------------------- MODULE MCMsgSelector ---------------------------
(* Instances of MsgSelector for TLC. *)
EXTENDS MsgSelector, TLC

CONSTANT a1

(* All messages are a1's. *)
OneSender == [m \in MsgId |-> a1]

(* Goroutines, and works of one address, are interchangeable. *)
Symmetry == Permutations(Task) \cup Permutations(Gen)
=============================================================================
