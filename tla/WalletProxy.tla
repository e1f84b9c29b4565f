---------------------------- MODULE WalletProxy ----------------------------
(***************************************************************************)
(* The client of the wallet gateways (gateway/gateway_client.go), for one  *)
(* sender.  A signature is asked of the gateway that answered last, and if *)
(* that fails of the first of all gateways that says it holds the key.     *)
(* Callers interleave: the lock protects the cache, not the choice.        *)
(***************************************************************************)
CONSTANTS
    Client,   \* the gateways
    Signer,   \* the calls of WalletSign
    NoClient  \* no gateway

ASSUME NoClient \notin Client

VARIABLES
    cached,  \* avaliabeClientCache, for the sender
    holds,   \* the gateways that answer and have a wallet with the key
    sign     \* sign[s]: a call of WalletSign

walletVars == <<cached, holds, sign>>

(* quiet: no wallet came or went since the call began. *)
NoSign == [pc |-> "idle", client |-> NoClient, useCached |-> FALSE, quiet |-> TRUE]

WalletInit(H) ==
    /\ cached = NoClient
    /\ holds \in H
    /\ sign = [s \in Signer |-> NoSign]

(* WalletSign: the cached gateway, or a choice. *)
WalletSign(s) ==
    /\ sign[s].pc = "idle"
    /\ sign' = [sign EXCEPT ![s] =
            [pc |-> IF cached = NoClient THEN "select" ELSE "try", client |-> cached,
             useCached |-> cached # NoClient, quiet |-> TRUE]]
    /\ UNCHANGED <<cached, holds>>

(* fastSelectAvaGatewayClient: the gateways are asked at once, and the first that has the key wins
   and is put in the cache.  While wallets come and go every one may have said no. *)
FastSelect(s) ==
    /\ sign[s].pc = "select"
    /\ \/ \E c \in holds :
            /\ sign' = [sign EXCEPT ![s].pc = "try", ![s].client = c]
            /\ cached' = c
       \/ /\ holds = {} \/ ~sign[s].quiet
          /\ sign' = [sign EXCEPT ![s].pc = "failed"]
          /\ UNCHANGED cached
    /\ UNCHANGED holds

(* Mutant: a failure is final. *)
TryOnce(s) ==
    /\ sign[s].pc = "try"
    /\ sign' = [sign EXCEPT ![s].pc = IF sign[s].client \in holds THEN "signed" ELSE "failed"]
    /\ UNCHANGED <<cached, holds>>

(* The gateway signs.  If it was the cached one and fails, it (or the one that took its place in
   the cache) is forgotten, and another is chosen and asked once. *)
TrySign(s) ==
    /\ sign[s].pc = "try"
    /\ IF sign[s].client \in holds
       THEN sign' = [sign EXCEPT ![s].pc = "signed"] /\ UNCHANGED cached
       ELSE IF sign[s].useCached
       THEN /\ sign' = [sign EXCEPT ![s].pc = "select", ![s].useCached = FALSE]
            /\ cached' = NoClient
       ELSE sign' = [sign EXCEPT ![s].pc = "failed"] /\ UNCHANGED cached
    /\ UNCHANGED holds

(* WalletHas, asked when a message is pushed: true if a gateway is cached, else one is chosen. *)
WalletHas ==
    /\ cached = NoClient
    /\ cached' \in holds
    /\ UNCHANGED <<holds, sign>>

(* A wallet, or the connection to a gateway, comes or goes. *)
WalletChanges(c) ==
    /\ holds' = IF c \in holds THEN holds \ {c} ELSE holds \cup {c}
    /\ sign' = [s \in Signer |-> [sign[s] EXCEPT !.quiet = FALSE]]
    /\ UNCHANGED cached

-----------------------------------------------------------------------------
(* WalletSign fails only if no gateway has the key, or wallets came and went meanwhile: neither a
   stale cache nor another call that forgets or replaces the cached gateway makes it fail. *)
SignRetrySuffices ==
    \A s \in Signer : sign[s].pc = "failed" /\ sign[s].quiet => holds = {}
=============================================================================
