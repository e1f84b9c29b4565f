--------------------------- MODULE ReplaceMessage ---------------------------
(***************************************************************************)
(* One message from its selection to the chain, with the gas that          *)
(* selection and ReplaceMessage give it.  The selection, calls of          *)
(* ReplaceMessage, the refresh of states from the chain and operators      *)
(* write the same row; each reads it, calls the node and the wallets, and  *)
(* writes it later.  Signatures come from WalletProxy.                     *)
(***************************************************************************)
EXTENDS WalletProxy, Integers, Sequences

CONSTANTS
    Replacer,   \* calls of ReplaceMessage
    Select,     \* the selection, as a caller of WalletSign
    Estimate,   \* gas the node may estimate: [limit, cap, prem]
    BaseFee,    \* base fees the chain may have
    RBFRatio,   \* ReplaceByFeeRatio of the node's message pool
    Version,    \* network versions, each with another code of the receiver
    Scenes      \* see scene

(* The calls sign for themselves, wallets are at gateways, and versions are numbers. *)
ASSUME SignersAssumption == Select \in Signer /\ Replacer \subseteq Signer
ASSUME ScenesAssumption == \A s \in Scenes : s.holds \subseteq SUBSET Client /\ s.moving \subseteq Client
ASSUME VersionAssumption == 1 \in Version /\ Version \subseteq Nat

(* What a level of the fees may set. *)
Fields == {"maxFee", "feeCap", "baseFee", "overEst", "overPrem"}

(* Gas is counted in whole units.  The node never estimates a gas limit of 0. *)
ASSUME EstimateAssumption == Estimate \subseteq [limit : Nat \ {0}, cap : Nat, prem : Nat] /\ RBFRatio \in Nat
ASSUME FeesAssumption ==
    \A s \in Scenes :
        /\ {s.fees.meta, s.fees.addr, s.fees.shared} \subseteq [Fields -> Nat]
        /\ s.fees.cfg \in [Version -> [Fields -> Nat]]
        /\ \A c \in Replacer :
             s.params[c] # <<>> => s.params[c] \in [auto : BOOLEAN, maxFee : Nat, overPrem : Nat, limit : Nat, cap : Nat, prem : Nat]

VARIABLES
    scene,       \* what bounds a behaviour: the fee levels, params[c], the operators' calls, wallet changes
    row,         \* the row of the message
    sel,         \* the selection
    rep,         \* rep[c]: a call of ReplaceMessage
    nv,          \* network version at the head
    actorCache,  \* actorCache[v]: the code cached under version v
    published,   \* messages handed to the publisher
    refresh,     \* the refresh of the message's state
    applied,     \* what the refresh has processed and the chain has not reverted: <<message>> or <<>>
    mixed        \* a replacement of a row that it had read without a signature was stored

gasVars == <<scene, row, sel, rep, nv, actorCache, published, refresh, applied, mixed>>
vars == <<gasVars, walletVars>>

(* Nonce of the sender on the chain and in its row. *)
ChainNonce == 1

NoRow == [state |-> "UnFill", nonce |-> 0, limit |-> 0, cap |-> 0, prem |-> 0, sig |-> <<>>]
NoCall == [pc |-> "idle", msg |-> NoRow, nv |-> 0, code |-> 0, maxFee |-> 0, minRBF |-> 0]

(* What is signed. *)
Content(m) == [nonce |-> m.nonce, limit |-> m.limit, cap |-> m.cap, prem |-> m.prem]

Init ==
    /\ scene \in Scenes
    /\ row = NoRow
    /\ sel = NoCall
    /\ rep = [c \in Replacer |-> NoCall]
    /\ nv = 1
    /\ actorCache = [v \in Version |-> 0]
    /\ published = {}
    /\ refresh = [pc |-> "idle", msg |-> <<>>, local |-> <<>>]
    /\ applied = <<>>
    /\ mixed = FALSE
    /\ WalletInit(scene.holds)

-----------------------------------------------------------------------------
(* Gas *)

Lesser(a, b) == IF a < b THEN a ELSE b
Greater(a, b) == IF a > b THEN a ELSE b

(* The first value that is set, in order of precedence. *)
FirstSet(s) == IF \E i \in DOMAIN s : s[i] # 0
               THEN s[CHOOSE i \in DOMAIN s : s[i] # 0 /\ \A j \in 1..i-1 : s[j] = 0] ELSE 0

(* mergeMsgSpec: msg > addr > actor > global.  The message itself has a fee cap and no base fee. *)
mergeMsgSpec(m, code) ==
    LET meta == [scene.fees.meta EXCEPT !.feeCap = m.cap, !.baseFee = 0]
    IN  [f \in Fields |-> FirstSet(<<meta[f], scene.fees.addr[f], scene.fees.cfg[code][f], scene.fees.shared[f]>>)]

(* CapGasFee: the fee cap is lowered to what the maximal fee pays for, the premium to the fee cap. *)
CapGasFee(m, maxFee) ==
    IF maxFee = 0 THEN m
    ELSE LET cap == IF m.cap * m.limit <= maxFee THEN m.cap ELSE maxFee \div m.limit
         IN  [m EXCEPT !.cap = cap, !.prem = Lesser(cap, m.prem)]

(* The node's estimate fills what the message leaves open, and is capped by the node too. *)
NodeEstimate(m, g, maxFee, overEst, overPrem) ==
    CapGasFee([m EXCEPT !.limit = IF @ = 0 THEN g.limit * Greater(overEst, 1) ELSE @,
                        !.prem  = IF @ = 0 THEN g.prem * Greater(overPrem, 1) ELSE @,
                        !.cap   = IF @ = 0 THEN Greater(g.cap, g.prem * Greater(overPrem, 1)) ELSE @], maxFee)

computeRBF(prem) == (prem * Greater(RBFRatio, 110)) \div 100 + 1

-----------------------------------------------------------------------------
(* Selection of the message *)

SelRead ==
    /\ sel.pc = "idle" /\ row.state = "UnFill"
    /\ sel' = [NoCall EXCEPT !.pc = "version", !.msg = row]
    /\ UNCHANGED <<scene, row, rep, nv, actorCache, published, refresh, applied, mixed, walletVars>>

(* estimateMessage asks for the network version first. *)
SelVersion ==
    /\ sel.pc = "version"
    /\ sel' = [sel EXCEPT !.pc = "actor", !.nv = nv]
    /\ UNCHANGED <<scene, row, rep, nv, actorCache, published, refresh, applied, mixed, walletVars>>

(* Mutant: the cache is not told that the network was upgraded. *)
CacheIgnoresVersion ==
    /\ sel.pc = "actor"
    /\ LET code == IF actorCache[1] = 0 THEN nv ELSE actorCache[1] IN
       /\ actorCache' = [actorCache EXCEPT ![1] = code]
       /\ sel' = [sel EXCEPT !.pc = "estimate", !.code = code]
    /\ UNCHANGED <<scene, row, rep, nv, published, refresh, applied, mixed, walletVars>>

(* getActorCfg: the receiver's actor at the head, cached under the version read before. *)
getActorCfg ==
    /\ sel.pc = "actor"
    /\ LET code == IF actorCache[sel.nv] = 0 THEN nv ELSE actorCache[sel.nv] IN
       /\ actorCache' = [actorCache EXCEPT ![sel.nv] = code]
       /\ sel' = [sel EXCEPT !.pc = "estimate", !.code = code]
    /\ UNCHANGED <<scene, row, rep, nv, published, refresh, applied, mixed, walletVars>>

(* The rest of estimateMessage, and the assignment of the nonce and the gas.  The message is left
   for later if the base fee is too high or the node cannot estimate it; else it goes to the wallet. *)
estimateMessage ==
    /\ sel.pc = "estimate"
    /\ LET spec == mergeMsgSpec(sel.msg, sel.code)
           m == [sel.msg EXCEPT !.cap = spec.feeCap]
       IN  \/ /\ \E b \in BaseFee : spec.baseFee = 0 \/ b <= spec.baseFee
              /\ \E g \in Estimate :
                   sel' = [sel EXCEPT !.pc = "sign", !.maxFee = spec.maxFee,
                       !.msg = [NodeEstimate(m, g, spec.maxFee, spec.overEst, spec.overPrem) EXCEPT !.nonce = ChainNonce]]
              /\ WalletSign(Select)
           \/ sel' = NoCall /\ UNCHANGED walletVars
    /\ UNCHANGED <<scene, row, rep, nv, actorCache, published, refresh, applied, mixed>>

(* signMessage, and after it the row as read is stored whole and published. *)
SelSave ==
    /\ sel.pc = "sign"
    /\ sign[Select].pc \in {"signed", "failed"}
    /\ IF sign[Select].pc = "signed"
       THEN /\ row' = [sel.msg EXCEPT !.state = "Fill", !.sig = <<Content(sel.msg)>>]
            /\ published' = published \cup {[msg |-> Content(sel.msg), sig |-> Content(sel.msg)]}
       ELSE UNCHANGED <<row, published>>
    /\ sel' = NoCall
    /\ sign' = [sign EXCEPT ![Select] = NoSign]
    /\ UNCHANGED <<scene, rep, nv, actorCache, refresh, applied, mixed, cached, holds>>

-----------------------------------------------------------------------------
(* ReplaceMessage *)

(* The row is read, and refused if on chain.  With auto the old gas gives the least premium; with
   parameters it is the old fee cap and premium that are compared, and the new ones are taken. *)
RepRead(c) ==
    LET p == scene.params[c] IN
    /\ rep[c].pc = "idle" /\ p # <<>>
    /\ row.state # "OnChain"
    /\ IF p.auto
       THEN /\ rep' = [rep EXCEPT ![c] = [NoCall EXCEPT !.pc = "estimate", !.msg = row, !.minRBF = computeRBF(row.prem)]]
            /\ UNCHANGED walletVars
       ELSE /\ p.prem > 0 /\ p.cap > 0 /\ row.cap >= row.prem
            /\ rep' = [rep EXCEPT ![c] = [NoCall EXCEPT !.pc = "sign",
                   !.msg = [row EXCEPT !.limit = IF p.limit > 0 THEN p.limit ELSE @, !.prem = p.prem, !.cap = p.cap]]]
            /\ WalletSign(c)
    /\ UNCHANGED <<scene, row, sel, nv, actorCache, published, refresh, applied, mixed>>

(* The maximal fee of a replacement: of the call, or else of the address, the actor, the shared
   parameters.  The message's own maximal fee is not asked. *)
ReplaceMaxFee(p, code) ==
    FirstSet(<<p.maxFee, scene.fees.addr.maxFee, scene.fees.cfg[code].maxFee, scene.fees.shared.maxFee>>)

(* Mutant: the premium is capped before it is raised to the least premium. *)
RaiseAfterCap(m, est, minRBF, maxFee) ==
    LET capped == CapGasFee(est, maxFee)
        prem == Greater(capped.prem, minRBF)
    IN  [m EXCEPT !.prem = prem, !.cap = Greater(capped.cap, prem)]

(* The estimated premium is raised to the least one a pool accepts, the fee cap to the premium, and
   both are cut to the maximal fee.  The gas limit is not touched. *)
AutoGas(m, est, minRBF, maxFee) ==
    LET prem == Greater(est.prem, minRBF)
    IN  CapGasFee([m EXCEPT !.prem = prem, !.cap = Greater(est.cap, prem)], maxFee)

(* The node estimates the gas of the message as if it had none; a failure ends the call. *)
RepEstimate(c) ==
    LET p == scene.params[c]
        m == rep[c].msg
        maxFee == ReplaceMaxFee(p, nv)
    IN  /\ rep[c].pc = "estimate"
        /\ \/ /\ \E g \in Estimate :
                   LET est == NodeEstimate([m EXCEPT !.cap = 0, !.prem = 0], g, p.maxFee, 0, p.overPrem) IN
                   rep' = [rep EXCEPT ![c].pc = "sign", ![c].maxFee = maxFee,
                                      ![c].msg = AutoGas(m, est, rep[c].minRBF, maxFee)]
              /\ WalletSign(c)
           \/ rep' = [rep EXCEPT ![c].pc = "done"] /\ UNCHANGED walletVars
        /\ UNCHANGED <<scene, row, sel, nv, actorCache, published, refresh, applied, mixed>>

(* Mutant: the new premium is not stored. *)
KeepsPremium(r, m) ==
    [r EXCEPT !.nonce = IF m.nonce = 0 THEN @ ELSE m.nonce, !.limit = IF m.limit = 0 THEN @ ELSE m.limit,
              !.cap = m.cap, !.sig = <<Content(m)>>]

(* Mutant: whatever the state of the row. *)
ReplaceAnyState(r, m) ==
    [r EXCEPT !.nonce = IF m.nonce = 0 THEN @ ELSE m.nonce, !.limit = IF m.limit = 0 THEN @ ELSE m.limit,
              !.cap = m.cap, !.prem = m.prem, !.sig = <<Content(m)>>, !.state = "Fill"]

(* UpdateMessageByState after ToSignedMsg: only a row in Fill, and no zero is stored over a number. *)
UpdateMessageByState(r, m) ==
    IF r.state # "Fill" THEN r
    ELSE [r EXCEPT !.nonce = IF m.nonce = 0 THEN @ ELSE m.nonce, !.limit = IF m.limit = 0 THEN @ ELSE m.limit,
                   !.cap = m.cap, !.prem = m.prem, !.sig = <<Content(m)>>]

RepSave(c) ==
    /\ rep[c].pc = "sign"
    /\ sign[c].pc \in {"signed", "failed"}
    /\ IF sign[c].pc = "signed"
       THEN /\ row' = UpdateMessageByState(row, rep[c].msg)
            /\ rep' = [rep EXCEPT ![c].pc = "publish"]
            /\ mixed' = (mixed \/ (row.state = "Fill" /\ rep[c].msg.sig = <<>>))
       ELSE /\ rep' = [rep EXCEPT ![c].pc = "done"]
            /\ UNCHANGED <<row, mixed>>
    /\ sign' = [sign EXCEPT ![c] = NoSign]
    /\ UNCHANGED <<scene, sel, nv, actorCache, published, refresh, applied, cached, holds>>

(* RepublishMessage: the row is read again, and refused unless in Fill; the publisher may be busy. *)
RepublishMessage(c) ==
    /\ rep[c].pc = "publish"
    /\ \/ /\ row.state = "Fill"
          /\ published' = published \cup {[msg |-> Content(row), sig |-> row.sig[1]]}
       \/ UNCHANGED published
    /\ rep' = [rep EXCEPT ![c].pc = "done"]
    /\ UNCHANGED <<scene, row, sel, nv, actorCache, refresh, applied, mixed, walletVars>>

-----------------------------------------------------------------------------
(* The chain, and the refresh of the state *)

(* The chain has executed a published message whose signature is valid, and updateMessageState looks
   for the sender's message in Fill with its nonce.  The transaction it does so in takes no lock to
   read on MySQL, so others may write the row before its update; sqlite's one connection keeps
   them waiting. *)
RefreshRead ==
    /\ refresh.pc = "idle" /\ applied = <<>>
    /\ \E p \in published :
         /\ p.sig = p.msg /\ p.msg.nonce = ChainNonce
         /\ refresh' = [pc |-> "write", msg |-> <<p.msg>>,
                local |-> IF row.state = "Fill" /\ row.nonce = ChainNonce THEN <<row>> ELSE <<>>]
    /\ UNCHANGED <<scene, row, sel, rep, nv, actorCache, published, applied, mixed, walletVars>>

(* Mutant: the row is found by its sender and nonce, not by its cid. *)
UpdateByNonce(r, local, msg) ==
    IF local = <<>> THEN r
    ELSE IF local[1].sig # msg THEN [local[1] EXCEPT !.state = "NonceConflict"]
    ELSE [r EXCEPT !.state = "OnChain"]

(* The rest of it: a row signed otherwise lost its nonce to the executed message and is stored as
   read; else the row that still has the cid is on chain. *)
UpdateExecuted(r, local, msg) ==
    IF local = <<>> THEN r
    ELSE IF local[1].sig # msg THEN [local[1] EXCEPT !.state = "NonceConflict"]
    ELSE IF r.sig = msg THEN [r EXCEPT !.state = "OnChain"] ELSE r

RefreshWrite ==
    /\ refresh.pc = "write"
    /\ row' = UpdateExecuted(row, refresh.local, refresh.msg)
    /\ applied' = refresh.msg
    /\ refresh' = [pc |-> "idle", msg |-> <<>>, local |-> <<>>]
    /\ UNCHANGED <<scene, sel, rep, nv, actorCache, published, mixed, walletVars>>

(* A reorganisation: the messages on chain at the height go back to Fill, by their cids. *)
RefreshRevert ==
    /\ refresh.pc = "idle" /\ applied # <<>>
    /\ applied' = <<>>
    /\ row' = IF row.state = "OnChain" THEN [row EXCEPT !.state = "Fill"] ELSE row
    /\ UNCHANGED <<scene, sel, rep, nv, actorCache, published, refresh, mixed, walletVars>>

MarkBadMessage ==
    /\ "markBad" \in scene.calls
    /\ row.state # "Failed"
    /\ row' = [row EXCEPT !.state = "Failed"]
    /\ UNCHANGED <<scene, sel, rep, nv, actorCache, published, refresh, applied, mixed, walletVars>>

(* RecoverFailedMsg: a signed failed message whose nonce the chain had not used when asked. *)
RecoverFailedMsg ==
    /\ "recover" \in scene.calls
    /\ row.state = "Failed" /\ row.sig # <<>> /\ applied = <<>>
    /\ row' = [row EXCEPT !.state = "Fill"]
    /\ UNCHANGED <<scene, sel, rep, nv, actorCache, published, refresh, applied, mixed, walletVars>>

Upgrade ==
    /\ "upgrade" \in scene.calls
    /\ nv + 1 \in Version
    /\ nv' = nv + 1
    /\ UNCHANGED <<scene, row, sel, rep, actorCache, published, refresh, applied, mixed, walletVars>>

Wallets ==
    /\ \/ \E s \in Signer : FastSelect(s) \/ TrySign(s)
       \/ "push" \in scene.calls /\ WalletHas
       \/ \E c \in scene.moving : WalletChanges(c)
    /\ UNCHANGED gasVars

Next ==
    \/ SelRead \/ SelVersion \/ getActorCfg \/ estimateMessage \/ SelSave
    \/ \E c \in Replacer : RepRead(c) \/ RepEstimate(c) \/ RepSave(c) \/ RepublishMessage(c)
    \/ RefreshRead \/ RefreshWrite \/ RefreshRevert
    \/ MarkBadMessage \/ RecoverFailedMsg \/ Upgrade
    \/ Wallets

Spec == Init /\ [][Next]_vars

-----------------------------------------------------------------------------
(* Properties *)

(* The signature of the row, and of every message handed to the publisher, is over its content,
   whoever replaced the message last: unless the replacement had read the row before the selection
   signed it, when a nonce and a gas limit of 0 are signed and not stored. *)
SignatureCovers ==
    \/ mixed
    \/ /\ row.sig # <<>> => row.sig = <<Content(row)>>
       /\ \A p \in published : p.sig = p.msg

(* A message shown as on chain is the one the chain executed, not one that replaced it meanwhile. *)
OnChainIsExecuted == row.state = "OnChain" => applied = row.sig

(* ReplaceMessage, begun before the message was executed, never takes it back from the state the
   refresh gave it; only a reorganisation or an operator does. *)
SettledStays ==
    [][row.state \in {"OnChain", "NonceConflict"} /\ applied' = applied
           => row'.state \in {row.state, "Failed"} /\ (row'.state = row.state => row' = row)]_vars

(* An automatic replacement has a premium within its fee cap and a fee within the maximal fee, and
   its premium beats that of the message it replaces by the pool's ratio, unless the maximal fee
   does not pay for that or another replacement was stored since it read the row. *)
ReplacementAcceptable ==
    [][\A c \in Replacer :
         (/\ row' # row /\ rep[c].pc = "sign" /\ rep'[c].pc = "publish"
          /\ scene.params[c].auto /\ ~mixed')
         => /\ row'.prem <= row'.cap
            /\ rep[c].maxFee # 0 => row'.cap * row'.limit <= rep[c].maxFee
            /\ \/ row.sig # rep[c].msg.sig
               \/ row'.prem * 100 > row.prem * RBFRatio
               \/ rep[c].maxFee # 0 /\ (row'.cap + 1) * row'.limit > rep[c].maxFee]_vars

(* The selection never takes the fees of an actor's code from before the upgrade whose version it
   read. *)
CodeIsCurrent == sel.code # 0 => sel.code >= sel.nv

(* A message whose execution has been processed does not remain in Fill. *)
ExecutedIsSettled == applied # <<>> /\ row.nonce = ChainNonce /\ ~mixed => row.state # "Fill"
=============================================================================
