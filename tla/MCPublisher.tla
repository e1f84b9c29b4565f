---------------------------- MODULE MCPublisher ----------------------------
(* Instances of Publisher for TLC: messages 1 and 2 of sender a, 3 of sender b. *)
EXTENDS Publisher

Sender == <<"a", "a", "b">>
Nonce == <<1, 2, 1>>

Scene == [offers |-> <<>>, nodes |-> {}, changes |-> 0, hung |-> {}, useCache |-> TRUE, multi |-> TRUE, p2p |-> FALSE]

(* Repeated batches of which the cache drops all or some, and no node but the main one. *)
Caches == {[Scene EXCEPT !.offers = <<<<2, 1, 3>>, <<2, 1>>, <<2>>, <<2, 1>>>>, !.multi = FALSE]}

(* Workers that meet at the nodes' threads while nodes come and go. *)
Nodes == {[Scene EXCEPT !.offers = <<<<2, 1, 3>>, <<2>>>>, !.nodes = {"n"}, !.changes = 2, !.useCache = FALSE]}

(* A node that hangs, and as many batches as the others stand. *)
Hangs == {[Scene EXCEPT !.offers = <<<<1>>, <<2>>, <<3>>>>, !.nodes = {"n"}, !.hung = {"n"}, !.useCache = FALSE]}

Gossips == {[Scene EXCEPT !.offers = <<<<2, 1, 3>>>>, !.nodes = {"n"}, !.p2p = TRUE]}

AllScenes == Caches \cup Nodes \cup Hangs \cup Gossips
=============================================================================
