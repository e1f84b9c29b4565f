--------------------------- MODULE NonceAllocator ---------------------------
(***************************************************************************)
(* What message selection promises its users, and nothing about how.       *)
(*                                                                         *)
(* Every message is given at most one nonce, no nonce of a sender is given *)
(* twice, a sender's nonces are given out in increasing order, and only a  *)
(* message that has been given a nonce is published, under that nonce.     *)
(***************************************************************************)
EXTENDS Naturals

CONSTANTS Addr, MsgId, From

VARIABLES
    next,        \* per sender, the first nonce not given out
    allocated,   \* the pairs of a message and its nonce
    published    \* the pairs that were handed to the network

allocVars == <<next, allocated, published>>

Init ==
    /\ next = [a \in Addr |-> 0]
    /\ allocated = {}
    /\ published = {}

(* One selection gives fresh nonces to some messages of one sender, all at once. *)
Allocate(a) ==
    LET batch == allocated' \ allocated
    IN  /\ allocated \subseteq allocated'
        /\ \A b \in batch : From[b.id] = a /\ next[a] <= b.nonce /\ b.nonce < next'[a]
        /\ \A b \in batch, c \in allocated' : b.id = c.id => b = c
        /\ \A b, c \in batch : b.nonce = c.nonce => b = c
        /\ next' = [next EXCEPT ![a] = next'[a]]
        /\ next[a] <= next'[a]
        /\ published' = published

(* Nonces that somebody else has used on the chain are skipped. *)
Skip(a) ==
    /\ next[a] < next'[a]
    /\ next' = [next EXCEPT ![a] = next'[a]]
    /\ UNCHANGED <<allocated, published>>

Publish ==
    /\ published \subseteq published'
    /\ published' \subseteq allocated
    /\ UNCHANGED <<next, allocated>>

Next == Publish \/ \E a \in Addr : Allocate(a) \/ Skip(a)

Spec == Init /\ [][Next]_allocVars
=============================================================================
