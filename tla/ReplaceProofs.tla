---------------------------- MODULE ReplaceProofs ----------------------------
(***************************************************************************)
(* Proofs about one message under selection, replacements, refresh and     *)
(* operators, and about the wallets that sign it, for any number of        *)
(* replacements and gateways, any gas and any network versions.            *)
(***************************************************************************)
EXTENDS ReplaceMessage, TLAPS

-----------------------------------------------------------------------------
(* Wallets *)

WalletType ==
    /\ holds \subseteq Client
    /\ cached \in Client \cup {NoClient}
    /\ sign \in [Signer -> [pc : {"idle", "select", "try", "signed", "failed"}, client : Client \cup {NoClient},
                            useCached : BOOLEAN, quiet : BOOLEAN]]

(* A gateway chosen by this call, not taken from the cache, still has the key while no wallet moves. *)
ChosenHolds ==
    \A s \in Signer : sign[s].pc = "try" /\ ~sign[s].useCached /\ sign[s].quiet => sign[s].client \in holds

WalletInv == WalletType /\ ChosenHolds /\ SignRetrySuffices

LEMMA WalletSignKeeps ==
    ASSUME WalletInv, NEW s \in Signer, WalletSign(s)
    PROVE  WalletInv'
  BY DEF WalletInv, WalletType, ChosenHolds, SignRetrySuffices, WalletSign

LEMMA FastSelectKeeps ==
    ASSUME WalletInv, NEW s \in Signer, FastSelect(s)
    PROVE  WalletInv'
  BY DEF WalletInv, WalletType, ChosenHolds, SignRetrySuffices, FastSelect

LEMMA TrySignKeeps ==
    ASSUME WalletInv, NEW s \in Signer, TrySign(s)
    PROVE  WalletInv'
  BY DEF WalletInv, WalletType, ChosenHolds, SignRetrySuffices, TrySign

LEMMA WalletHasKeeps ==
    ASSUME WalletInv, WalletHas
    PROVE  WalletInv'
  BY DEF WalletInv, WalletType, ChosenHolds, SignRetrySuffices, WalletHas

LEMMA WalletChangesKeeps ==
    ASSUME WalletInv, NEW c \in Client, WalletChanges(c)
    PROVE  WalletInv'
  BY ZenonT(60) DEF WalletInv, WalletType, ChosenHolds, SignRetrySuffices, WalletChanges

LEMMA ForgetsSignKeeps ==
    ASSUME WalletInv, NEW s \in Signer, sign' = [sign EXCEPT ![s] = NoSign], UNCHANGED <<cached, holds>>
    PROVE  WalletInv'
  BY DEF WalletInv, WalletType, ChosenHolds, SignRetrySuffices, NoSign

-----------------------------------------------------------------------------
(* Every step, as far as the wallets are concerned *)

LEMMA WalletInit0 ==
    ASSUME Init
    PROVE  scene \in Scenes /\ WalletInv
<1>1. holds \subseteq Client
  BY ScenesAssumption DEF Init, WalletInit
<1> QED
  BY <1>1 DEF Init, WalletInit, WalletInv, WalletType, ChosenHolds, SignRetrySuffices, NoSign

LEMMA WalletStep ==
    ASSUME scene \in Scenes, WalletInv, [Next]_vars
    PROVE  scene' \in Scenes /\ WalletInv'
<1> USE SignersAssumption
<1>1. ASSUME scene' = scene, UNCHANGED walletVars
      PROVE  scene' \in Scenes /\ WalletInv'
  BY <1>1 DEF walletVars, WalletInv, WalletType, ChosenHolds, SignRetrySuffices
<1>2. CASE estimateMessage
  BY <1>2, <1>1, WalletSignKeeps DEF estimateMessage
<1>3. CASE SelSave
  BY <1>3, ForgetsSignKeeps DEF SelSave
<1>4. ASSUME NEW c \in Replacer, RepRead(c)
      PROVE  scene' \in Scenes /\ WalletInv'
  BY <1>4, <1>1, WalletSignKeeps DEF RepRead
<1>5. ASSUME NEW c \in Replacer, RepEstimate(c)
      PROVE  scene' \in Scenes /\ WalletInv'
  BY <1>5, <1>1, WalletSignKeeps DEF RepEstimate
<1>6. ASSUME NEW c \in Replacer, RepSave(c)
      PROVE  scene' \in Scenes /\ WalletInv'
  BY <1>6, ForgetsSignKeeps DEF RepSave
<1>7. ASSUME NEW c \in Replacer, RepublishMessage(c)
      PROVE  scene' \in Scenes /\ WalletInv'
  BY <1>7, <1>1 DEF RepublishMessage
<1>8. CASE SelRead \/ SelVersion \/ getActorCfg
  BY <1>8, <1>1 DEF SelRead, SelVersion, getActorCfg
<1>9. CASE RefreshRead \/ RefreshWrite \/ RefreshRevert \/ MarkBadMessage \/ RecoverFailedMsg \/ Upgrade
  BY <1>9, <1>1 DEF RefreshRead, RefreshWrite, RefreshRevert, MarkBadMessage, RecoverFailedMsg, Upgrade
<1>10. CASE Wallets
  <2>1. scene' = scene /\ scene.moving \subseteq Client
    BY <1>10, ScenesAssumption DEF Wallets, gasVars
  <2>2. WalletInv'
    BY <1>10, <2>1, FastSelectKeeps, TrySignKeeps, WalletHasKeeps, WalletChangesKeeps DEF Wallets
  <2> QED
    BY <2>1, <2>2
<1>11. CASE UNCHANGED vars
  BY <1>11, <1>1 DEF vars, gasVars
<1> QED
  BY <1>2, <1>3, <1>4, <1>5, <1>6, <1>7, <1>8, <1>9, <1>10, <1>11 DEF Next

(* WalletSign fails only if no gateway has the key, or wallets came and went during the call: the
   one retry after a failure of the cached gateway is enough, whatever other calls do to the cache
   of WalletProxy. *)
THEOREM SignRetryEnough == Spec => []SignRetrySuffices
<1>1. Init => scene \in Scenes /\ WalletInv
  BY WalletInit0
<1>2. scene \in Scenes /\ WalletInv /\ [Next]_vars => (scene \in Scenes /\ WalletInv)'
  BY WalletStep
<1>3. WalletInv => SignRetrySuffices
  BY DEF WalletInv
<1> QED
  BY <1>1, <1>2, <1>3, PTL DEF Spec

-----------------------------------------------------------------------------
(* The row of the message *)

(* Records of the shape of a row, and of a selection under way. *)
IsRow(r) ==
    /\ DOMAIN r = {"state", "nonce", "limit", "cap", "prem", "sig"}
    /\ r = [x \in {"state", "nonce", "limit", "cap", "prem", "sig"} |-> r[x]]

IsCall(k) ==
    /\ DOMAIN k = {"pc", "msg", "nv", "code", "maxFee", "minRBF"}
    /\ k = [x \in {"pc", "msg", "nv", "code", "maxFee", "minRBF"} |-> k[x]]

(* The row is signed when it has been selected, and selected at most once. *)
SignedOnce ==
    /\ row.state = "UnFill" => row.sig = <<>>
    /\ row.state \in {"Fill", "OnChain", "NonceConflict"} => row.sig # <<>>
    /\ sel.pc # "idle" => row.sig = <<>>

(* The refresh works on what the chain executed and on a row that is signed by then; meanwhile
   nothing has been applied, and nobody else settles the row. *)
RefreshPending ==
    refresh.pc = "write" =>
        /\ applied = <<>>
        /\ refresh.msg # <<>>
        /\ refresh.local # <<>> => row.sig # <<>> /\ IsRow(refresh.local[1]) /\ refresh.local[1].sig # <<>>

RowInv ==
    /\ IsRow(row) /\ IsCall(sel) /\ IsRow(sel.msg)
    /\ SignedOnce
    /\ RefreshPending
    /\ row.state = "OnChain" => applied = row.sig

LEMMA RowInit ==
    ASSUME Init
    PROVE  RowInv
BY DEF Init, RowInv, IsRow, IsCall, SignedOnce, RefreshPending, NoRow, NoCall

(* What the updates of several columns make of a row. *)
LEMMA RowUpdates ==
    ASSUME NEW m, IsRow(m), NEW a, NEW b, NEW c
    PROVE  /\ IsRow([m EXCEPT !.nonce = a])
           /\ IsRow([m EXCEPT !.cap = a])
           /\ IsRow([m EXCEPT !.cap = a, !.prem = b])
           /\ IsRow([m EXCEPT !.limit = a, !.prem = b, !.cap = c])
BY DEF IsRow

LEMMA CapKeepsRow ==
    ASSUME NEW m, IsRow(m), NEW f
    PROVE  IsRow(CapGasFee(m, f))
<1> DEFINE cap == IF m.cap * m.limit <= f THEN m.cap ELSE f \div m.limit
           prem == Lesser(cap, m.prem)
<1>1. IsRow([m EXCEPT !.cap = cap, !.prem = prem])
  <2> HIDE DEF cap, prem
  <2> QED
    BY RowUpdates
<1> QED
  BY <1>1, Zenon DEF CapGasFee

LEMMA GasKeepsRow ==
    ASSUME NEW m, IsRow(m), NEW g, NEW f, NEW o, NEW p, NEW n
    PROVE  IsRow([NodeEstimate(m, g, f, o, p) EXCEPT !.nonce = n])
<1> DEFINE limit == IF m.limit = 0 THEN g.limit * Greater(o, 1) ELSE m.limit
           prem == IF m.prem = 0 THEN g.prem * Greater(p, 1) ELSE m.prem
           cap == IF m.cap = 0 THEN Greater(g.cap, g.prem * Greater(p, 1)) ELSE m.cap
           est == [m EXCEPT !.limit = limit, !.prem = prem, !.cap = cap]
<1>1. IsRow(est)
  <2> HIDE DEF limit, prem, cap
  <2> QED
    BY RowUpdates
<1>2. NodeEstimate(m, g, f, o, p) = CapGasFee(est, f)
  BY Zenon DEF NodeEstimate
<1> HIDE DEF est
<1> QED
  BY <1>1, <1>2, CapKeepsRow, RowUpdates

(* Selection changes what it works on, or stores a signed row in Fill. *)

LEMMA SelectionStep ==
    ASSUME RowInv, SelRead \/ SelVersion \/ getActorCfg \/ estimateMessage \/ SelSave
    PROVE  RowInv'
<1>1. CASE SelRead
  BY <1>1 DEF SelRead, RowInv, IsRow, IsCall, SignedOnce, RefreshPending, NoCall
<1>2. CASE SelVersion
  BY <1>2 DEF SelVersion, RowInv, IsRow, IsCall, SignedOnce, RefreshPending
<1>3. CASE getActorCfg
  BY <1>3 DEF getActorCfg, RowInv, IsRow, IsCall, SignedOnce, RefreshPending
<1>4. CASE estimateMessage
  <2>1. IsCall(sel') /\ IsRow(sel'.msg)
    <3>1. CASE sel' = NoCall
      BY <3>1 DEF NoCall, NoRow, IsCall, IsRow
    <3>2. CASE sel' # NoCall
      <4> DEFINE spec == mergeMsgSpec(sel.msg, sel.code)
                 m == [sel.msg EXCEPT !.cap = spec.feeCap]
      <4>1. PICK g \in Estimate :
              sel' = [sel EXCEPT !.pc = "sign", !.maxFee = spec.maxFee,
                  !.msg = [NodeEstimate(m, g, spec.maxFee, spec.overEst, spec.overPrem) EXCEPT !.nonce = ChainNonce]]
        BY <1>4, <3>2 DEF estimateMessage
      <4>2. IsRow(m)
        BY RowUpdates DEF RowInv
      <4>3. IsRow([NodeEstimate(m, g, spec.maxFee, spec.overEst, spec.overPrem) EXCEPT !.nonce = ChainNonce])
        BY <4>2, GasKeepsRow
      <4> HIDE DEF spec, m
      <4> QED
        BY <4>1, <4>3 DEF RowInv, IsCall
    <3> QED
      BY <3>1, <3>2
  <2>2. UNCHANGED <<row, refresh, applied>> /\ sel.pc # "idle"
    BY <1>4 DEF estimateMessage
  <2> QED
    BY <2>1, <2>2 DEF RowInv, IsRow, SignedOnce, RefreshPending
<1>5. CASE SelSave
  <2>1. IsCall(sel') /\ IsRow(sel'.msg) /\ sel'.pc = "idle"
    BY <1>5 DEF SelSave, NoCall, NoRow, IsCall, IsRow
  <2>2. UNCHANGED <<refresh, applied>> /\ row.sig = <<>> /\ row.state # "OnChain"
    BY <1>5 DEF SelSave, RowInv, SignedOnce
  <2>3. IsRow(row') /\ (row' = row \/ (row'.state = "Fill" /\ row'.sig # <<>>))
    <3>1. CASE row' = row
      BY <3>1 DEF RowInv
    <3>2. CASE row' = [sel.msg EXCEPT !.state = "Fill", !.sig = <<Content(sel.msg)>>]
      <4>1. IsRow(row') /\ row'.state = "Fill" /\ row'.sig = <<Content(sel.msg)>>
        BY <3>2 DEF RowInv, IsRow
      <4> QED
        BY <4>1
    <3> QED
      BY <1>5, <3>1, <3>2 DEF SelSave
  <2> QED
    BY <2>1, <2>2, <2>3 DEF RowInv, SignedOnce, RefreshPending
<1> QED
  BY <1>1, <1>2, <1>3, <1>4, <1>5

(* A replacement signs a row in Fill anew, or leaves it alone. *)
LEMMA ReplacementStep ==
    ASSUME RowInv, NEW c \in Replacer, RepRead(c) \/ RepEstimate(c) \/ RepSave(c) \/ RepublishMessage(c)
    PROVE  /\ RowInv'
           /\ row' = row \/ row.state = "Fill"
<1>1. UNCHANGED <<sel, refresh, applied>>
  BY DEF RepRead, RepEstimate, RepSave, RepublishMessage
<1>2. \/ row' = row
      \/ row.state = "Fill" /\ row'.state = "Fill" /\ row'.sig # <<>> /\ IsRow(row')
  <2>1. CASE RepSave(c)
    <3> DEFINE m == rep[c].msg
    <3>1. \/ row' = row
          \/ /\ row.state = "Fill"
             /\ row' = [row EXCEPT !.nonce = IF m.nonce = 0 THEN @ ELSE m.nonce,
                                   !.limit = IF m.limit = 0 THEN @ ELSE m.limit,
                                   !.cap = m.cap, !.prem = m.prem, !.sig = <<Content(m)>>]
      BY <2>1 DEF RepSave, UpdateMessageByState
    <3>2. CASE row' # row
      <4>1. IsRow(row') /\ row'.state = row.state /\ row'.sig = <<Content(m)>>
        <5> DEFINE a == IF m.nonce = 0 THEN row.nonce ELSE m.nonce
                   b == IF m.limit = 0 THEN row.limit ELSE m.limit
                   sg == <<Content(m)>>
        <5>1. row' = [row EXCEPT !.nonce = a, !.limit = b, !.cap = m.cap, !.prem = m.prem, !.sig = sg] /\ IsRow(row)
          BY <3>1, <3>2 DEF RowInv
        <5> HIDE DEF a, b, sg, m
        <5>2. IsRow(row') /\ row'.state = row.state /\ row'.sig = sg
          BY <5>1 DEF IsRow
        <5> QED
          BY <5>2 DEF sg, m
      <4> QED
        BY <4>1, <3>1, <3>2
    <3> QED
      BY <3>2
  <2> QED
    BY <2>1 DEF RepRead, RepEstimate, RepublishMessage
<1> QED
  BY <1>1, <1>2 DEF RowInv, SignedOnce, RefreshPending

LEMMA RefreshStep ==
    ASSUME RowInv, RefreshRead \/ RefreshWrite \/ RefreshRevert
    PROVE  /\ RowInv'
           /\ row' # row => applied' # applied
<1>1. CASE RefreshRead
  <2>1. UNCHANGED <<row, sel, applied>> /\ applied = <<>> /\ refresh'.msg # <<>>
    BY <1>1 DEF RefreshRead
  <2>2. refresh'.local # <<>> => refresh'.local = <<row>> /\ row.state = "Fill"
    BY <1>1 DEF RefreshRead
  <2> QED
    BY <2>1, <2>2 DEF RowInv, SignedOnce, RefreshPending
<1>2. CASE RefreshWrite
  <2>1. /\ UNCHANGED sel /\ applied = <<>> /\ applied' = refresh.msg /\ refresh.msg # <<>> /\ refresh'.pc # "write"
        /\ row.state # "OnChain"
    BY <1>2 DEF RefreshWrite, RowInv, SignedOnce, RefreshPending
  <2>2. CASE refresh.local = <<>>
    BY <1>2, <2>1, <2>2 DEF RefreshWrite, UpdateExecuted, RowInv, SignedOnce, RefreshPending
  <2>3. CASE refresh.local # <<>> /\ refresh.local[1].sig # refresh.msg
    BY <1>2, <2>1, <2>3 DEF RefreshWrite, UpdateExecuted, RowInv, IsRow, SignedOnce, RefreshPending
  <2>4. CASE refresh.local # <<>> /\ refresh.local[1].sig = refresh.msg
    BY <1>2, <2>1, <2>4 DEF RefreshWrite, UpdateExecuted, RowInv, IsRow, SignedOnce, RefreshPending
  <2> QED
    BY <2>1, <2>2, <2>3, <2>4
<1>3. CASE RefreshRevert
  BY <1>3 DEF RefreshRevert, RowInv, IsRow, SignedOnce, RefreshPending
<1> QED
  BY <1>1, <1>2, <1>3

LEMMA OperatorStep ==
    ASSUME RowInv, MarkBadMessage \/ RecoverFailedMsg
    PROVE  /\ RowInv'
           /\ row.state # "Failed" => row'.state = "Failed"
<1>1. CASE MarkBadMessage
  BY <1>1 DEF MarkBadMessage, RowInv, IsRow, SignedOnce, RefreshPending
<1>2. CASE RecoverFailedMsg
  BY <1>2 DEF RecoverFailedMsg, RowInv, IsRow, SignedOnce, RefreshPending
<1> QED
  BY <1>1, <1>2

Settled == row.state \in {"OnChain", "NonceConflict"}

StaysSettled ==
    Settled /\ applied' = applied => row'.state \in {row.state, "Failed"} /\ (row'.state = row.state => row' = row)

LEMMA RowStep ==
    ASSUME RowInv, [Next]_vars
    PROVE  RowInv' /\ StaysSettled
<1>1. ASSUME UNCHANGED <<row, sel, refresh, applied>>
      PROVE  RowInv' /\ StaysSettled
  BY <1>1 DEF RowInv, IsRow, IsCall, SignedOnce, RefreshPending, Settled, StaysSettled
<1>2. CASE SelRead \/ SelVersion \/ getActorCfg \/ estimateMessage \/ SelSave
  <2>1. row' = row \/ row.sig = <<>>
    BY <1>2 DEF SelRead, SelVersion, getActorCfg, estimateMessage, SelSave, RowInv, SignedOnce
  <2>2. StaysSettled
    BY <2>1 DEF RowInv, SignedOnce, Settled, StaysSettled
  <2> QED
    BY <1>2, <2>2, SelectionStep
<1>3. ASSUME NEW c \in Replacer, RepRead(c) \/ RepEstimate(c) \/ RepSave(c) \/ RepublishMessage(c)
      PROVE  RowInv' /\ StaysSettled
  BY <1>3, ReplacementStep DEF Settled, StaysSettled
<1>4. CASE RefreshRead \/ RefreshWrite \/ RefreshRevert
  BY <1>4, RefreshStep DEF Settled, StaysSettled
<1>5. CASE MarkBadMessage \/ RecoverFailedMsg
  BY <1>5, OperatorStep DEF Settled, StaysSettled
<1>6. CASE Upgrade \/ Wallets \/ UNCHANGED vars
  BY <1>6, <1>1 DEF Upgrade, Wallets, vars, gasVars
<1> QED
  BY <1>2, <1>3, <1>4, <1>5, <1>6 DEF Next

(* A message shown as on chain is the one the chain executed: ReplaceMessage and the two steps of
   updateMessageState, in any order, never mark a message that replaced the executed one. *)
THEOREM OnChainExecuted == Spec => []OnChainIsExecuted
<1>1. Init => RowInv
  BY RowInit
<1>2. RowInv /\ [Next]_vars => RowInv'
  BY RowStep
<1>3. RowInv => OnChainIsExecuted
  BY DEF RowInv, OnChainIsExecuted
<1> QED
  BY <1>1, <1>2, <1>3, PTL DEF Spec

(* No selection and no ReplaceMessage, however long ago it read the row, takes a message back from
   the state that updateMessageState gave it; only a reorganisation or an operator does. *)
THEOREM SettledNeverTakenBack == Spec => SettledStays
<1>1. Init => RowInv
  BY RowInit
<1>2. RowInv /\ [Next]_vars => RowInv'
  BY RowStep
<1>3. RowInv /\ [Next]_vars
      => [row.state \in {"OnChain", "NonceConflict"} /\ applied' = applied
              => row'.state \in {row.state, "Failed"} /\ (row'.state = row.state => row' = row)]_vars
  BY RowStep DEF StaysSettled, Settled
<1> QED
  BY <1>1, <1>2, <1>3, PTL DEF Spec, SettledStays

-----------------------------------------------------------------------------
(* The cache of actors *)

(* What is cached under a version is the code of that version or of a later one. *)
CacheCurrent ==
    /\ actorCache \in [Version -> Version \cup {0}]
    /\ \A v \in Version : actorCache[v] # 0 => actorCache[v] >= v

CodeInv ==
    /\ nv \in Version
    /\ sel.nv \in Int /\ sel.nv <= nv
    /\ sel.pc = "actor" => sel.nv \in Version
    /\ sel.pc = "version" => sel.code = 0
    /\ sel.pc = "estimate" => sel.code \in Version
    /\ CacheCurrent
    /\ CodeIsCurrent

LEMMA CodeInit ==
    ASSUME Init
    PROVE  CodeInv
BY VersionAssumption DEF Init, CodeInv, CacheCurrent, CodeIsCurrent, NoCall

LEMMA CodeStep ==
    ASSUME RowInv, CodeInv, [Next]_vars
    PROVE  CodeInv'
<1> USE VersionAssumption
<1>1. ASSUME UNCHANGED <<sel, nv, actorCache>>
      PROVE  CodeInv'
  BY <1>1 DEF CodeInv, CacheCurrent, CodeIsCurrent
<1>2. ASSUME sel' = NoCall, UNCHANGED <<nv, actorCache>>
      PROVE  CodeInv'
  BY <1>2 DEF CodeInv, CacheCurrent, CodeIsCurrent, NoCall
<1>3. CASE SelRead
  BY <1>3 DEF SelRead, CodeInv, CacheCurrent, CodeIsCurrent, NoCall
<1>4. CASE SelVersion
  <2>1. sel'.pc = "actor" /\ sel'.nv = nv /\ sel'.code = 0
    BY <1>4 DEF SelVersion, CodeInv, RowInv, IsCall
  <2> QED
    BY <1>4, <2>1 DEF SelVersion, CodeInv, CacheCurrent, CodeIsCurrent
<1>5. CASE getActorCfg
  <2> DEFINE code == IF actorCache[sel.nv] = 0 THEN nv ELSE actorCache[sel.nv]
  <2>1. sel.nv \in Version /\ code \in Version /\ code >= sel.nv
    BY <1>5 DEF getActorCfg, CodeInv, CacheCurrent
  <2>2. /\ actorCache' = [actorCache EXCEPT ![sel.nv] = code]
        /\ sel' = [sel EXCEPT !.pc = "estimate", !.code = code] /\ nv' = nv
    BY <1>5 DEF getActorCfg
  <2> HIDE DEF code
  <2>3. sel'.pc = "estimate" /\ sel'.code = code /\ sel'.nv = sel.nv
    BY <2>2 DEF RowInv, IsCall
  <2> QED
    BY <2>1, <2>2, <2>3 DEF CodeInv, CacheCurrent, CodeIsCurrent
<1>6. CASE estimateMessage
  <2>1. UNCHANGED <<nv, actorCache>>
    BY <1>6 DEF estimateMessage
  <2>2. CASE sel' # NoCall
    <3>1. sel'.nv = sel.nv /\ sel'.code = sel.code /\ sel'.pc = "sign"
      BY <1>6, <2>2 DEF estimateMessage, RowInv, IsCall
    <3> QED
      BY <2>1, <3>1 DEF CodeInv, CacheCurrent, CodeIsCurrent
  <2> QED
    BY <1>2, <2>1, <2>2
<1>7. CASE SelSave
  BY <1>7, <1>2 DEF SelSave
<1>8. ASSUME NEW c \in Replacer, RepRead(c) \/ RepEstimate(c) \/ RepSave(c) \/ RepublishMessage(c)
      PROVE  CodeInv'
  BY <1>8, <1>1 DEF RepRead, RepEstimate, RepSave, RepublishMessage
<1>9. CASE RefreshRead \/ RefreshWrite \/ RefreshRevert \/ MarkBadMessage \/ RecoverFailedMsg
  BY <1>9, <1>1 DEF RefreshRead, RefreshWrite, RefreshRevert, MarkBadMessage, RecoverFailedMsg
<1>10. CASE Upgrade
  BY <1>10 DEF Upgrade, CodeInv, CacheCurrent, CodeIsCurrent
<1>11. CASE Wallets \/ UNCHANGED vars
  BY <1>11, <1>1 DEF Wallets, vars, gasVars
<1> QED
  BY <1>3, <1>4, <1>5, <1>6, <1>7, <1>8, <1>9, <1>10, <1>11 DEF Next

(* estimateMessage never uses the fees of an actor's code from before the network version that it
   read, although getActorCfg asks for the actor later and caches the answer under that version. *)
THEOREM CodeNeverStale == Spec => []CodeIsCurrent
<1>1. Init => RowInv /\ CodeInv
  BY RowInit, CodeInit
<1>2. RowInv /\ CodeInv /\ [Next]_vars => (RowInv /\ CodeInv)'
  BY RowStep, CodeStep
<1>3. CodeInv => CodeIsCurrent
  BY DEF CodeInv
<1> QED
  BY <1>1, <1>2, <1>3, PTL DEF Spec

-----------------------------------------------------------------------------
(* Gas: what CapGasFee, the node's estimate and an automatic replacement make of a message *)

Numbers(m) == m.nonce \in Nat /\ m.limit \in Nat /\ m.cap \in Nat /\ m.prem \in Nat

(* The fee fits the maximal fee, and the premium the fee cap. *)
FeeFits(k, f) ==
    /\ k.prem <= k.cap
    /\ f # 0 => k.cap * k.limit <= f

(* The next higher fee cap would exceed the maximal fee. *)
FeeExhausted(k, f) == f # 0 /\ (k.cap + 1) * k.limit > f

SameMessage(k, m) == k.state = m.state /\ k.nonce = m.nonce /\ k.limit = m.limit /\ k.sig = m.sig

LEMMA DivisionBounds ==
    ASSUME NEW a \in Nat, NEW b \in Nat \ {0}
    PROVE  a \div b \in Nat /\ (a \div b) * b <= a /\ ((a \div b) + 1) * b > a
  BY SMT

LEMMA CapFits ==
    ASSUME NEW m, IsRow(m), Numbers(m), NEW f \in Nat, NEW k, k = CapGasFee(m, f)
    PROVE  /\ IsRow(k) /\ Numbers(k) /\ SameMessage(k, m)
           /\ m.prem <= m.cap => FeeFits(k, f)
           /\ m.prem <= m.cap => k.prem = m.prem \/ FeeExhausted(k, f)
<1>1. CASE f = 0
  BY <1>1 DEF CapGasFee, SameMessage, FeeFits
<1>2. CASE f # 0
  <2> DEFINE cap == IF m.cap * m.limit <= f THEN m.cap ELSE f \div m.limit
             prem == Lesser(cap, m.prem)
  <2>1. k = [m EXCEPT !.cap = cap, !.prem = prem]
    BY <1>2 DEF CapGasFee
  <2>2. CASE m.cap * m.limit <= f
    <3>1. cap = m.cap
      BY <2>2
    <3>2. prem \in Nat /\ prem <= cap /\ (m.prem <= m.cap => prem = m.prem)
      BY <3>1 DEF Numbers, Lesser
    <3> HIDE DEF cap, prem
    <3>3. IsRow(k) /\ SameMessage(k, m) /\ k.cap = cap /\ k.prem = prem
      BY <2>1 DEF IsRow, SameMessage
    <3> QED
      BY <3>1, <3>2, <3>3, <2>2 DEF Numbers, SameMessage, FeeFits
  <2>3. CASE ~(m.cap * m.limit <= f)
    <3>1. m.limit \in Nat \ {0}
      BY <2>3 DEF Numbers
    <3>2. cap \in Nat /\ cap * m.limit <= f /\ (cap + 1) * m.limit > f
      BY <2>3, <3>1, DivisionBounds
    <3> HIDE DEF cap
    <3>3. prem \in Nat /\ prem <= cap
      BY <3>2 DEF Numbers, Lesser
    <3> HIDE DEF prem
    <3>4. IsRow(k) /\ SameMessage(k, m) /\ k.cap = cap /\ k.prem = prem
      BY <2>1 DEF IsRow, SameMessage
    <3> QED
      BY <3>2, <3>3, <3>4, <1>2 DEF Numbers, SameMessage, FeeFits, FeeExhausted
  <2> QED
    BY <2>2, <2>3
<1> QED
  BY <1>1, <1>2

LEMMA EstimateFills ==
    ASSUME NEW m, IsRow(m), Numbers(m), NEW g \in Estimate, NEW f \in Nat, NEW o \in Nat, NEW p \in Nat,
           NEW k, k = NodeEstimate(m, g, f, o, p)
    PROVE  IsRow(k) /\ Numbers(k) /\ k.limit # 0
<1> DEFINE limit == IF m.limit = 0 THEN g.limit * Greater(o, 1) ELSE m.limit
           prem == IF m.prem = 0 THEN g.prem * Greater(p, 1) ELSE m.prem
           cap == IF m.cap = 0 THEN Greater(g.cap, g.prem * Greater(p, 1)) ELSE m.cap
           est == [m EXCEPT !.limit = limit, !.prem = prem, !.cap = cap]
<1>1. g.limit \in Nat \ {0} /\ g.cap \in Nat /\ g.prem \in Nat
  BY EstimateAssumption
<1>2. Greater(o, 1) \in Nat \ {0} /\ Greater(p, 1) \in Nat
  BY DEF Greater
<1>3. g.limit * Greater(o, 1) \in Nat \ {0} /\ g.prem * Greater(p, 1) \in Nat
  BY <1>1, <1>2, SMT
<1>4. limit \in Nat \ {0} /\ prem \in Nat /\ cap \in Nat
  BY <1>1, <1>3 DEF Numbers, Greater
<1>5. k = CapGasFee(est, f)
  BY Zenon DEF NodeEstimate
<1> HIDE DEF limit, prem, cap
<1>6. IsRow(est) /\ Numbers(est) /\ est.limit # 0
  BY <1>4 DEF IsRow, Numbers
<1> HIDE DEF est
<1> QED
  BY <1>5, <1>6, CapFits DEF SameMessage

LEMMA AutoGasFits ==
    ASSUME NEW m, IsRow(m), Numbers(m), NEW est, Numbers(est), NEW n \in Nat, NEW f \in Nat,
           NEW k, k = AutoGas(m, est, n, f)
    PROVE  /\ IsRow(k) /\ Numbers(k) /\ SameMessage(k, m) /\ FeeFits(k, f)
           /\ k.prem >= n \/ FeeExhausted(k, f)
<1> DEFINE prem == Greater(est.prem, n)
           cap == Greater(est.cap, prem)
           r == [m EXCEPT !.prem = prem, !.cap = cap]
<1>1. prem \in Nat /\ cap \in Nat /\ prem >= n /\ prem <= cap
  BY DEF Greater, Numbers
<1>2. k = CapGasFee(r, f)
  BY Zenon DEF AutoGas
<1> HIDE DEF prem, cap
<1>3. IsRow(r) /\ Numbers(r) /\ SameMessage(r, m) /\ r.prem = prem /\ r.cap = cap
  BY <1>1 DEF IsRow, Numbers, SameMessage
<1> HIDE DEF r
<1>4. IsRow(k) /\ Numbers(k) /\ SameMessage(k, r) /\ FeeFits(k, f) /\ (k.prem = r.prem \/ FeeExhausted(k, f))
  BY <1>1, <1>2, <1>3, CapFits
<1> QED
  BY <1>1, <1>3, <1>4 DEF SameMessage

LEMMA FirstSetNat ==
    ASSUME NEW a \in Nat, NEW b \in Nat, NEW c \in Nat, NEW d \in Nat
    PROVE  FirstSet(<<a, b, c, d>>) \in Nat
<1> DEFINE s == <<a, b, c, d>>
           First(i) == s[i] # 0 /\ \A j \in 1..i-1 : s[j] = 0
<1>1. ASSUME \E i \in DOMAIN s : s[i] # 0
      PROVE  \E i \in DOMAIN s : First(i)
  <2>1. CASE a # 0
    BY <2>1, First(1)
  <2>2. CASE a = 0 /\ b # 0
    BY <2>2, First(2)
  <2>3. CASE a = 0 /\ b = 0 /\ c # 0
    BY <2>3, First(3)
  <2>4. CASE a = 0 /\ b = 0 /\ c = 0 /\ d # 0
    BY <2>4, First(4)
  <2> QED
    BY <1>1, <2>1, <2>2, <2>3, <2>4
<1>2. DOMAIN s = 1..4 /\ \A i \in DOMAIN s : s[i] \in Nat
  OBVIOUS
<1>3. ASSUME \E i \in DOMAIN s : s[i] # 0
      PROVE  (CHOOSE i \in DOMAIN s : First(i)) \in DOMAIN s
  BY <1>1, <1>3
<1>4. FirstSet(s) = IF \E i \in DOMAIN s : s[i] # 0 THEN s[CHOOSE i \in DOMAIN s : First(i)] ELSE 0
  BY Zenon DEF FirstSet
<1> HIDE DEF s, First
<1>5. FirstSet(s) \in Nat
  <2>1. CASE \E i \in DOMAIN s : s[i] # 0
    <3> DEFINE i == CHOOSE i \in DOMAIN s : First(i)
    <3>1. i \in DOMAIN s /\ FirstSet(s) = s[i]
      BY <1>3, <1>4, <2>1, Zenon
    <3> HIDE DEF i
    <3> QED
      BY <3>1, <1>2
  <2>2. CASE ~ \E i \in DOMAIN s : s[i] # 0
    <3>1. FirstSet(s) = 0
      BY <1>4, <2>2, Zenon
    <3> QED
      BY <3>1
  <2> QED
    BY <2>1, <2>2
<1> QED
  BY <1>5 DEF s

-----------------------------------------------------------------------------
(* Signatures *)

(* The signature of a selected message is over its content; no number of it is 0, which an update
   of the row would not store. *)
Covered(m) == m.sig = <<Content(m)>> /\ m.nonce # 0 /\ m.limit # 0

(* A call of ReplaceMessage with parameters p: gas that fits once it is ready to be signed, *)
Priced(k, p) ==
    /\ IsCall(k) /\ IsRow(k.msg) /\ Numbers(k.msg) /\ k.maxFee \in Nat /\ k.minRBF \in Nat
    /\ k.pc \in {"estimate", "sign"} => p # <<>>
    /\ k.pc = "sign" /\ p.auto => FeeFits(k.msg, k.maxFee) /\ (k.msg.prem >= k.minRBF \/ FeeExhausted(k.msg, k.maxFee))

(* and, if it read a signed row, the numbers of that row and the least premium over its premium. *)
FromSigned(k, p) ==
    k.pc \in {"estimate", "sign"} /\ k.msg.sig # <<>> =>
        /\ k.msg.nonce # 0 /\ k.msg.limit # 0
        /\ k.msg.sig[1].prem \in Nat
        /\ p.auto => k.minRBF = computeRBF(k.msg.sig[1].prem)

CallInv ==
    /\ rep = [c \in Replacer |-> rep[c]]
    /\ \A c \in Replacer : Priced(rep[c], scene.params[c])
    /\ ~mixed => \A c \in Replacer : FromSigned(rep[c], scene.params[c])

SelInv ==
    /\ Numbers(sel.msg)
    /\ sel.pc = "sign" => sel.msg.nonce # 0 /\ sel.msg.limit # 0

RefreshReads == refresh.pc = "write" /\ refresh.local # <<>>

CoverInv ==
    /\ Numbers(row)
    /\ RefreshReads => Numbers(refresh.local[1])
    /\ mixed \in BOOLEAN
    /\ ~mixed => /\ row.sig # <<>> => Covered(row)
                 /\ RefreshReads => Covered(refresh.local[1])
                 /\ \A p \in published : p.sig = p.msg

SignatureInv == SelInv /\ CallInv /\ CoverInv

LEMMA SignatureInit ==
    ASSUME Init
    PROVE  SignatureInv
<1>1. SelInv /\ CoverInv
  BY DEF Init, SelInv, CoverInv, Numbers, RefreshReads, NoRow, NoCall
<1>2. \A p : Priced(NoCall, p) /\ FromSigned(NoCall, p)
  BY DEF Priced, FromSigned, NoCall, NoRow, IsCall, IsRow, Numbers
<1>3. CallInv
  BY <1>2 DEF Init, CallInv
<1> QED
  BY <1>1, <1>3 DEF SignatureInv

(* Selection *)

LEMMA SpecNumbers ==
    ASSUME scene \in Scenes, NEW m, Numbers(m), NEW code \in Version, NEW f \in Fields
    PROVE  mergeMsgSpec(m, code)[f] \in Nat
<1> DEFINE meta == [scene.fees.meta EXCEPT !.feeCap = m.cap, !.baseFee = 0]
<1>1. /\ scene.fees.meta \in [Fields -> Nat] /\ scene.fees.addr[f] \in Nat
      /\ scene.fees.cfg[code][f] \in Nat /\ scene.fees.shared[f] \in Nat
  BY FeesAssumption
<1>2. meta[f] \in Nat
  BY <1>1 DEF Numbers, Fields
<1>3. mergeMsgSpec(m, code)[f] = FirstSet(<<meta[f], scene.fees.addr[f], scene.fees.cfg[code][f], scene.fees.shared[f]>>)
  BY DEF mergeMsgSpec
<1> HIDE DEF meta
<1>4. FirstSet(<<meta[f], scene.fees.addr[f], scene.fees.cfg[code][f], scene.fees.shared[f]>>) \in Nat
  BY <1>1, <1>2, FirstSetNat
<1> QED
  BY <1>3, <1>4, Zenon

LEMMA SelectionSigns ==
    ASSUME scene \in Scenes, RowInv, CodeInv, SignatureInv, SelRead \/ SelVersion \/ getActorCfg \/ estimateMessage \/ SelSave
    PROVE  SignatureInv'
<1>1. UNCHANGED <<rep, scene, mixed, refresh>>
  BY DEF SelRead, SelVersion, getActorCfg, estimateMessage, SelSave
<1>2. CallInv'
  BY <1>1 DEF SignatureInv, CallInv, Priced, FromSigned
<1>3. ASSUME UNCHANGED <<row, published>>
      PROVE  CoverInv'
  BY <1>1, <1>3 DEF SignatureInv, CoverInv, RefreshReads, Covered
<1>4. ASSUME sel' = NoCall
      PROVE  SelInv'
  BY <1>4 DEF SelInv, NoCall, NoRow, Numbers
<1>5. CASE SelRead
  BY <1>5, <1>2, <1>3 DEF SelRead, SignatureInv, SelInv, CoverInv, NoCall
<1>6. CASE SelVersion
  BY <1>6, <1>2, <1>3 DEF SelVersion, SignatureInv, SelInv, RowInv, IsCall
<1>7. CASE getActorCfg
  BY <1>7, <1>2, <1>3 DEF getActorCfg, SignatureInv, SelInv, RowInv, IsCall
<1>8. CASE estimateMessage
  <2> DEFINE spec == mergeMsgSpec(sel.msg, sel.code)
             m == [sel.msg EXCEPT !.cap = spec.feeCap]
  <2>1. ASSUME sel' # NoCall
        PROVE  SelInv'
    <3>1. PICK g \in Estimate :
            sel' = [sel EXCEPT !.pc = "sign", !.maxFee = spec.maxFee,
                !.msg = [NodeEstimate(m, g, spec.maxFee, spec.overEst, spec.overPrem) EXCEPT !.nonce = ChainNonce]]
      BY ZenonT(60), <1>8, <2>1 DEF estimateMessage
    <3>2. spec.feeCap \in Nat /\ spec.maxFee \in Nat /\ spec.overEst \in Nat /\ spec.overPrem \in Nat
      BY <1>8, SpecNumbers DEF estimateMessage, SignatureInv, SelInv, CodeInv, Fields
    <3> HIDE DEF spec
    <3>3. IsRow(m) /\ Numbers(m)
      BY <3>2 DEF RowInv, IsRow, SignatureInv, SelInv, Numbers
    <3> HIDE DEF m
    <3> DEFINE e == NodeEstimate(m, g, spec.maxFee, spec.overEst, spec.overPrem)
    <3>4. IsRow(e) /\ Numbers(e) /\ e.limit # 0
      BY <3>2, <3>3, EstimateFills
    <3> HIDE DEF e
    <3> DEFINE n == [e EXCEPT !.nonce = ChainNonce]
    <3>5. Numbers(n) /\ n.limit # 0 /\ n.nonce # 0
      BY <3>4 DEF IsRow, Numbers, ChainNonce
    <3>6. sel' = [sel EXCEPT !.pc = "sign", !.maxFee = spec.maxFee, !.msg = n]
      BY <3>1 DEF e
    <3> HIDE DEF n
    <3>7. sel'.msg = n
      BY <3>6 DEF RowInv, IsCall
    <3> QED
      BY <3>5, <3>7 DEF SelInv
  <2> HIDE DEF spec, m
  <2>2. SelInv'
    BY <2>1, <1>4
  <2>3. UNCHANGED <<row, published>>
    BY <1>8 DEF estimateMessage
  <2> QED
    BY <2>2, <2>3, <1>2, <1>3 DEF SignatureInv
<1>9. CASE SelSave
  <2>1. SelInv'
    BY <1>9, <1>4 DEF SelSave
  <2>2. CASE UNCHANGED <<row, published>>
    BY <2>1, <2>2, <1>2, <1>3 DEF SignatureInv
  <2>3. CASE /\ row' = [sel.msg EXCEPT !.state = "Fill", !.sig = <<Content(sel.msg)>>]
             /\ published' = published \cup {[msg |-> Content(sel.msg), sig |-> Content(sel.msg)]}
    <3> DEFINE sg == <<Content(sel.msg)>>
    <3>1. sel.msg.nonce # 0 /\ sel.msg.limit # 0 /\ Numbers(sel.msg) /\ IsRow(sel.msg)
      BY <1>9 DEF SelSave, SignatureInv, SelInv, RowInv
    <3>2. row' = [sel.msg EXCEPT !.state = "Fill", !.sig = sg]
      BY <2>3
    <3> HIDE DEF sg
    <3>3. /\ row'.nonce = sel.msg.nonce /\ row'.limit = sel.msg.limit /\ row'.cap = sel.msg.cap
          /\ row'.prem = sel.msg.prem /\ row'.sig = sg
      BY <3>1, <3>2 DEF IsRow
    <3>4. Content(row') = Content(sel.msg)
      BY <3>3 DEF Content
    <3>5. Covered(row)' /\ Numbers(row)'
      BY <3>1, <3>3, <3>4 DEF Covered, Numbers, sg
    <3>6. CoverInv'
      BY <3>5, <2>3, <1>1 DEF SignatureInv, CoverInv, RefreshReads
    <3> QED
      BY <3>6, <2>1, <1>2 DEF SignatureInv
  <2> QED
    BY <2>2, <2>3, <1>9 DEF SelSave
<1> QED
  BY <1>5, <1>6, <1>7, <1>8, <1>9

(* ReplaceMessage *)

LEMMA LeastPremium ==
    ASSUME NEW x \in Nat
    PROVE  computeRBF(x) \in Nat /\ computeRBF(x) * 100 > x * RBFRatio
<1> DEFINE r == Greater(RBFRatio, 110)
<1>1. r \in Nat /\ RBFRatio \in Nat /\ RBFRatio <= r
  BY EstimateAssumption DEF Greater
<1> HIDE DEF r
<1>2. x * r \in Nat /\ x * RBFRatio \in Nat /\ x * RBFRatio <= x * r
  BY <1>1, SMT
<1> DEFINE y == x * r
<1>3. computeRBF(x) = (y \div 100) + 1
  BY DEF computeRBF, r
<1> HIDE DEF y
<1>4. y \in Nat /\ x * RBFRatio <= y
  BY <1>2 DEF y
<1> DEFINE z == x * RBFRatio
<1>5. z \in Nat /\ z <= y
  BY <1>2, <1>4
<1> HIDE DEF z
<1>6. y \div 100 \in Nat /\ ((y \div 100) + 1) * 100 > y
  BY <1>4, DivisionBounds
<1>7. computeRBF(x) \in Nat /\ computeRBF(x) * 100 > z
  BY <1>3, <1>4, <1>5, <1>6
<1> QED
  BY <1>7 DEF z

LEMMA SetCall ==
    ASSUME CallInv, NEW c \in Replacer, NEW k, rep' = [rep EXCEPT ![c] = k], scene' = scene, mixed => mixed',
           mixed \in BOOLEAN, mixed' \in BOOLEAN,
           Priced(k, scene.params[c]), ~mixed' => FromSigned(k, scene.params[c])
    PROVE  CallInv'
<1>1. rep' = [d \in Replacer |-> IF d = c THEN k ELSE rep[d]]
  BY DEF CallInv
<1>2. \A d \in Replacer : Priced(rep'[d], scene.params[d])
  BY <1>1 DEF CallInv
<1>3. ~mixed' => \A d \in Replacer : FromSigned(rep'[d], scene.params[d])
  BY <1>1 DEF CallInv
<1>4. rep' = [d \in Replacer |-> rep'[d]]
  BY <1>1
<1> HIDE DEF Priced, FromSigned
<1>5. (\A d \in Replacer : Priced(rep[d], scene.params[d]))'
  BY <1>2
<1>6. (~mixed => \A d \in Replacer : FromSigned(rep[d], scene.params[d]))'
  BY <1>3
<1> QED
  BY <1>4, <1>5, <1>6 DEF CallInv

LEMMA ReadPriced ==
    ASSUME scene \in Scenes, RowInv, SignatureInv, NEW c \in Replacer, RepRead(c)
    PROVE  CallInv'
<1> DEFINE p == scene.params[c]
           p0 == computeRBF(row.prem)
<1>1. /\ p # <<>> /\ UNCHANGED <<scene, mixed>> /\ mixed \in BOOLEAN
      /\ p \in [auto : BOOLEAN, maxFee : Nat, overPrem : Nat, limit : Nat, cap : Nat, prem : Nat]
  BY FeesAssumption DEF RepRead, SignatureInv, CoverInv
<1>2. IsRow(row) /\ Numbers(row) /\ p0 \in Nat
  BY LeastPremium DEF RowInv, SignatureInv, CoverInv, Numbers
<1>3. ~mixed /\ row.sig # <<>> => row.nonce # 0 /\ row.limit # 0 /\ row.sig[1].prem = row.prem
  BY DEF SignatureInv, CoverInv, Covered, Content
<1>4. CASE p.auto
  <2> DEFINE k == [NoCall EXCEPT !.pc = "estimate", !.msg = row, !.minRBF = p0]
  <2>1. rep' = [rep EXCEPT ![c] = k]
    BY <1>4 DEF RepRead
  <2>2. p0 = computeRBF(row.prem)
    OBVIOUS
  <2> HIDE DEF p, p0
  <2>3. IsCall(k) /\ k.pc = "estimate" /\ k.msg = row /\ k.maxFee = 0 /\ k.minRBF = p0
    BY DEF NoCall, IsCall
  <2> HIDE DEF k
  <2>4. Priced(k, p)
    BY <1>1, <1>2, <2>3 DEF Priced
  <2>5. ~mixed => FromSigned(k, p)
    BY <1>2, <1>3, <2>2, <2>3 DEF FromSigned, Numbers
  <2> QED
    BY <1>1, <2>1, <2>4, <2>5, SetCall DEF p, SignatureInv
<1>5. CASE ~p.auto
  <2> DEFINE limit == IF p.limit > 0 THEN p.limit ELSE row.limit
             m == [row EXCEPT !.limit = limit, !.prem = p.prem, !.cap = p.cap]
             k == [NoCall EXCEPT !.pc = "sign", !.msg = m]
  <2>1. rep' = [rep EXCEPT ![c] = k]
    BY <1>5 DEF RepRead
  <2>2. limit \in Nat /\ (row.limit # 0 => limit # 0)
    BY <1>1, <1>2 DEF Numbers
  <2> HIDE DEF p, limit
  <2>3. IsRow(m) /\ Numbers(m) /\ m.nonce = row.nonce /\ m.limit = limit /\ m.sig = row.sig
    BY <1>1, <1>2, <2>2 DEF IsRow, Numbers
  <2> HIDE DEF m
  <2>4. IsCall(k) /\ k.pc = "sign" /\ k.msg = m /\ k.maxFee = 0 /\ k.minRBF = 0
    BY DEF NoCall, IsCall
  <2> HIDE DEF k
  <2>5. Priced(k, p)
    BY <1>1, <1>5, <2>3, <2>4 DEF Priced
  <2>6. ~mixed => FromSigned(k, p)
    BY <1>2, <1>3, <1>5, <2>2, <2>3, <2>4 DEF FromSigned, Numbers
  <2> QED
    BY <1>1, <2>1, <2>5, <2>6, SetCall DEF p, SignatureInv
<1> QED
  BY <1>4, <1>5

LEMMA EstimatePriced ==
    ASSUME scene \in Scenes, nv \in Version, SignatureInv, NEW c \in Replacer, RepEstimate(c)
    PROVE  CallInv'
<1> DEFINE p == scene.params[c]
           k0 == rep[c]
           m == k0.msg
           maxFee == ReplaceMaxFee(p, nv)
<1>1. UNCHANGED <<scene, mixed>> /\ mixed \in BOOLEAN /\ rep = [d \in Replacer |-> rep[d]]
  BY DEF RepEstimate, SignatureInv, CoverInv, CallInv
<1>2. Priced(k0, p) /\ k0.pc = "estimate" /\ (~mixed => FromSigned(k0, p))
  BY DEF RepEstimate, SignatureInv, CallInv
<1>3. p # <<>>
  BY <1>2 DEF Priced
<1>4. p \in [auto : BOOLEAN, maxFee : Nat, overPrem : Nat, limit : Nat, cap : Nat, prem : Nat]
  BY <1>3, FeesAssumption
<1>5. maxFee \in Nat
  <2>1. /\ scene.fees.addr \in [Fields -> Nat] /\ scene.fees.shared \in [Fields -> Nat]
        /\ scene.fees.cfg[nv] \in [Fields -> Nat] /\ "maxFee" \in Fields
    BY FeesAssumption DEF Fields
  <2> QED
    BY <1>4, <2>1, FirstSetNat DEF ReplaceMaxFee
<1>6. CASE rep' = [rep EXCEPT ![c].pc = "done"]
  <2> DEFINE k == [k0 EXCEPT !.pc = "done"]
  <2>1. rep' = [rep EXCEPT ![c] = k]
    BY <1>6
  <2> HIDE DEF p, k0
  <2>2. Priced(k, p) /\ FromSigned(k, p)
    BY <1>2 DEF Priced, FromSigned, IsCall
  <2> HIDE DEF k
  <2> QED
    BY <1>1, <2>1, <2>2, SetCall DEF p, SignatureInv
<1>7. CASE rep' # [rep EXCEPT ![c].pc = "done"]
  <2>1. PICK g \in Estimate :
          LET est == NodeEstimate([m EXCEPT !.cap = 0, !.prem = 0], g, p.maxFee, 0, p.overPrem) IN
          rep' = [rep EXCEPT ![c].pc = "sign", ![c].maxFee = maxFee, ![c].msg = AutoGas(m, est, rep[c].minRBF, maxFee)]
    BY <1>7 DEF RepEstimate
  <2> DEFINE b == [m EXCEPT !.cap = 0, !.prem = 0]
             est == NodeEstimate(b, g, p.maxFee, 0, p.overPrem)
             n == AutoGas(m, est, k0.minRBF, maxFee)
             k == [k0 EXCEPT !.pc = "sign", !.maxFee = maxFee, !.msg = n]
  <2>2. rep' = [rep EXCEPT ![c].pc = "sign", ![c].maxFee = maxFee, ![c].msg = n]
    BY <2>1
  <2> HIDE DEF p, k0, maxFee
  <2>3. IsRow(m) /\ Numbers(m) /\ k0.minRBF \in Nat /\ IsCall(k0)
    BY <1>2 DEF Priced
  <2>4. IsRow(b) /\ Numbers(b)
    BY <2>3 DEF IsRow, Numbers
  <2> HIDE DEF b
  <2>5. p.maxFee \in Nat /\ p.overPrem \in Nat
    BY <1>4
  <2>6. Numbers(est)
    BY <2>4, <2>5, EstimateFills
  <2> HIDE DEF est
  <2>7. /\ IsRow(n) /\ Numbers(n) /\ SameMessage(n, m) /\ FeeFits(n, maxFee)
        /\ n.prem >= k0.minRBF \/ FeeExhausted(n, maxFee)
    BY <1>5, <2>3, <2>6, AutoGasFits
  <2> HIDE DEF n
  <2>8. rep' = [rep EXCEPT ![c] = k]
    BY <2>2, <1>1 DEF k0
  <2>9. IsCall(k) /\ k.pc = "sign" /\ k.msg = n /\ k.maxFee = maxFee /\ k.minRBF = k0.minRBF
    BY <2>3 DEF IsCall
  <2> HIDE DEF k
  <2>10. Priced(k, p)
    BY <1>3, <1>5, <2>3, <2>7, <2>9 DEF Priced
  <2>11. ~mixed => FromSigned(k, p)
    BY <1>2, <2>7, <2>9 DEF FromSigned, SameMessage
  <2> QED
    BY <1>1, <2>8, <2>10, <2>11, SetCall DEF p, SignatureInv
<1> QED
  BY <1>6, <1>7

(* What a replacement stores: all the numbers it signed, if it had read a signed row. *)
LEMMA SaveStores ==
    ASSUME RowInv, SignatureInv, NEW c \in Replacer, RepSave(c), row' # row
    PROVE  /\ row.state = "Fill" /\ Numbers(row)'
           /\ ~mixed' => /\ ~mixed /\ rep[c].msg.sig # <<>> /\ Covered(row)'
                         /\ row'.limit = rep[c].msg.limit /\ row'.cap = rep[c].msg.cap /\ row'.prem = rep[c].msg.prem
<1> DEFINE m == rep[c].msg
           a == IF m.nonce = 0 THEN row.nonce ELSE m.nonce
           b == IF m.limit = 0 THEN row.limit ELSE m.limit
           sg == <<Content(m)>>
<1>1. /\ row' = UpdateMessageByState(row, m) /\ rep[c].pc = "sign"
      /\ mixed' = (mixed \/ (row.state = "Fill" /\ m.sig = <<>>))
  BY DEF RepSave
<1>2. row.state = "Fill"
  BY <1>1 DEF UpdateMessageByState
<1>3. row' = [row EXCEPT !.nonce = a, !.limit = b, !.cap = m.cap, !.prem = m.prem, !.sig = sg]
  BY <1>1, <1>2 DEF UpdateMessageByState
<1>4. Numbers(m) /\ Numbers(row) /\ IsRow(row)
  BY DEF SignatureInv, CallInv, CoverInv, Priced, RowInv
<1>5. a \in Nat /\ b \in Nat /\ (m.nonce # 0 => a = m.nonce) /\ (m.limit # 0 => b = m.limit)
  BY <1>4 DEF Numbers
<1>6. ASSUME ~mixed'
      PROVE  ~mixed /\ m.sig # <<>> /\ m.nonce # 0 /\ m.limit # 0
  <2>1. ~mixed /\ m.sig # <<>>
    BY <1>1, <1>2, <1>6
  <2> QED
    BY <2>1, <1>1 DEF SignatureInv, CallInv, FromSigned
<1> HIDE DEF a, b, sg, m
<1>7. row'.nonce = a /\ row'.limit = b /\ row'.cap = m.cap /\ row'.prem = m.prem /\ row'.sig = sg
  BY <1>3, <1>4 DEF IsRow
<1>8. Numbers(row)'
  BY <1>4, <1>5, <1>7 DEF Numbers
<1>9. ASSUME ~mixed'
      PROVE  /\ ~mixed /\ m.sig # <<>> /\ Covered(row)'
             /\ row'.limit = m.limit /\ row'.cap = m.cap /\ row'.prem = m.prem
  <2>1. ~mixed /\ m.sig # <<>> /\ m.nonce # 0 /\ m.limit # 0 /\ row'.nonce = m.nonce /\ row'.limit = m.limit
    BY <1>5, <1>6, <1>7, <1>9
  <2>2. Content(row') = Content(m)
    BY <1>7, <2>1 DEF Content
  <2> QED
    BY <1>7, <2>1, <2>2 DEF Covered, sg
<1> QED
  BY <1>2, <1>8, <1>9 DEF m

LEMMA SaveSigns ==
    ASSUME RowInv, SignatureInv, NEW c \in Replacer, RepSave(c)
    PROVE  SignatureInv'
<1> DEFINE p == scene.params[c]
           k0 == rep[c]
<1>1. UNCHANGED <<scene, sel, published, refresh>> /\ mixed \in BOOLEAN
  BY DEF RepSave, SignatureInv, CoverInv
<1>2. mixed' \in BOOLEAN /\ (~mixed' => ~mixed)
  BY <1>1 DEF RepSave
<1>3. PICK q \in {"publish", "done"} : rep' = [rep EXCEPT ![c].pc = q]
  BY DEF RepSave
<1>4. CallInv'
  <2> DEFINE k == [k0 EXCEPT !.pc = q]
  <2>1. rep' = [rep EXCEPT ![c] = k]
    BY <1>3
  <2>2. Priced(k0, p)
    BY DEF SignatureInv, CallInv
  <2> HIDE DEF p, k0
  <2>3. Priced(k, p) /\ FromSigned(k, p)
    BY <2>2 DEF Priced, FromSigned, IsCall
  <2> HIDE DEF k
  <2> QED
    BY <1>1, <1>2, <2>1, <2>3, SetCall DEF p, SignatureInv
<1>5. CASE row' = row
  BY <1>1, <1>2, <1>4, <1>5 DEF SignatureInv, SelInv, CoverInv, RefreshReads
<1>6. CASE row' # row
  <2>1. Numbers(row)' /\ (~mixed' => Covered(row)')
    BY <1>6, SaveStores
  <2> QED
    BY <1>1, <1>2, <1>4, <2>1 DEF SignatureInv, SelInv, CoverInv, RefreshReads
<1> QED
  BY <1>5, <1>6

LEMMA RepublishSigns ==
    ASSUME RowInv, SignatureInv, NEW c \in Replacer, RepublishMessage(c)
    PROVE  SignatureInv'
<1> DEFINE p == scene.params[c]
           k0 == rep[c]
           k == [k0 EXCEPT !.pc = "done"]
<1>1. UNCHANGED <<scene, row, sel, refresh, mixed>> /\ mixed \in BOOLEAN /\ rep' = [rep EXCEPT ![c] = k]
  BY DEF RepublishMessage, SignatureInv, CoverInv
<1>2. CallInv'
  <2>1. Priced(k0, p)
    BY DEF SignatureInv, CallInv
  <2> HIDE DEF p, k0
  <2>2. Priced(k, p) /\ FromSigned(k, p)
    BY <2>1 DEF Priced, FromSigned, IsCall
  <2> HIDE DEF k
  <2> QED
    BY <1>1, <2>2, SetCall DEF p, SignatureInv
<1>3. ASSUME ~mixed, NEW q \in published'
      PROVE  q.sig = q.msg
  <2>1. CASE q \in published
    BY <1>3, <2>1 DEF SignatureInv, CoverInv
  <2>2. CASE q \notin published
    <3>1. row.state = "Fill" /\ q = [msg |-> Content(row), sig |-> row.sig[1]]
      BY <1>3, <2>2 DEF RepublishMessage
    <3>2. row.sig = <<Content(row)>>
      BY <1>3, <3>1 DEF RowInv, SignedOnce, SignatureInv, CoverInv, Covered
    <3>3. q.msg = Content(row) /\ q.sig = row.sig[1]
      BY <3>1
    <3> QED
      BY <3>2, <3>3
  <2> QED
    BY <2>1, <2>2
<1> HIDE DEF k, p, k0
<1> QED
  BY <1>1, <1>2, <1>3 DEF SignatureInv, SelInv, CoverInv, RefreshReads, Covered

(* The refresh and the operators *)

LEMMA ChainSigns ==
    ASSUME RowInv, SignatureInv,
           RefreshRead \/ RefreshWrite \/ RefreshRevert \/ MarkBadMessage \/ RecoverFailedMsg
    PROVE  SignatureInv'
<1>1. UNCHANGED <<scene, sel, rep, published, mixed>>
  BY DEF RefreshRead, RefreshWrite, RefreshRevert, MarkBadMessage, RecoverFailedMsg
<1>2. SelInv' /\ CallInv'
  BY <1>1 DEF SignatureInv, SelInv, CallInv, Priced, FromSigned
<1>3. ASSUME NEW r, IsRow(r), NEW s
      PROVE  LET u == [r EXCEPT !.state = s] IN
             /\ Numbers(r) => Numbers(u)
             /\ Covered(r) => Covered(u)
             /\ u.sig = r.sig
  BY <1>3 DEF IsRow, Numbers, Covered, Content
<1>4. CASE RefreshRead
  <2>1. row' = row /\ ((refresh'.local = <<row>> /\ row.state = "Fill") \/ refresh'.local = <<>>)
    BY <1>4 DEF RefreshRead
  <2>2. row.state = "Fill" => row.sig # <<>>
    BY DEF RowInv, SignedOnce
  <2> QED
    BY <1>1, <1>2, <2>1, <2>2 DEF SignatureInv, CoverInv, RefreshReads
<1>5. CASE RefreshWrite
  <2>1. /\ \/ row' = row
           \/ RefreshReads /\ row' = [refresh.local[1] EXCEPT !.state = "NonceConflict"]
           \/ row' = [row EXCEPT !.state = "OnChain"]
        /\ ~RefreshReads'
    BY <1>5 DEF RefreshWrite, UpdateExecuted, RefreshReads
  <2>2. Numbers(row)' /\ (~mixed => (row.sig # <<>> => Covered(row))')
    <3>1. CASE row' = row
      BY <3>1 DEF SignatureInv, CoverInv
    <3>2. CASE RefreshReads /\ row' = [refresh.local[1] EXCEPT !.state = "NonceConflict"]
      <4>1. IsRow(refresh.local[1]) /\ Numbers(refresh.local[1]) /\ (~mixed => Covered(refresh.local[1]))
        BY <3>2 DEF RowInv, RefreshPending, RefreshReads, SignatureInv, CoverInv
      <4> QED
        BY <1>3, <3>2, <4>1
    <3>3. CASE row' = [row EXCEPT !.state = "OnChain"]
      BY <1>3, <3>3 DEF RowInv, SignatureInv, CoverInv
    <3> QED
      BY <2>1, <3>1, <3>2, <3>3
  <2> QED
    BY <1>1, <1>2, <2>1, <2>2 DEF SignatureInv, CoverInv
<1>6. CASE RefreshRevert \/ MarkBadMessage \/ RecoverFailedMsg
  <2>1. PICK s : row' = row \/ row' = [row EXCEPT !.state = s]
    BY <1>6 DEF RefreshRevert, MarkBadMessage, RecoverFailedMsg
  <2>2. refresh' = refresh
    BY <1>6 DEF RefreshRevert, MarkBadMessage, RecoverFailedMsg
  <2>3. Numbers(row)' /\ (~mixed => (row.sig # <<>> => Covered(row))')
    <3>1. CASE row' = row
      BY <3>1 DEF SignatureInv, CoverInv
    <3>2. CASE row' = [row EXCEPT !.state = s]
      BY <1>3, <3>2 DEF RowInv, SignatureInv, CoverInv
    <3> QED
      BY <2>1, <3>1, <3>2
  <2> QED
    BY <1>1, <1>2, <2>2, <2>3 DEF SignatureInv, CoverInv, RefreshReads
<1> QED
  BY <1>4, <1>5, <1>6

LEMMA SignatureStep ==
    ASSUME scene \in Scenes, RowInv, CodeInv, SignatureInv, [Next]_vars
    PROVE  SignatureInv'
<1>1. CASE SelRead \/ SelVersion \/ getActorCfg \/ estimateMessage \/ SelSave
  BY <1>1, SelectionSigns
<1>2. ASSUME NEW c \in Replacer, RepRead(c) \/ RepEstimate(c)
      PROVE  SignatureInv'
  <2>1. UNCHANGED <<scene, row, sel, published, refresh, mixed>>
    BY <1>2 DEF RepRead, RepEstimate
  <2>2. CallInv'
    BY <1>2, ReadPriced, EstimatePriced DEF CodeInv
  <2> QED
    BY <2>1, <2>2 DEF SignatureInv, SelInv, CoverInv, RefreshReads
<1>3. ASSUME NEW c \in Replacer, RepSave(c) \/ RepublishMessage(c)
      PROVE  SignatureInv'
  BY <1>3, SaveSigns, RepublishSigns
<1>4. CASE RefreshRead \/ RefreshWrite \/ RefreshRevert \/ MarkBadMessage \/ RecoverFailedMsg
  BY <1>4, ChainSigns
<1>5. CASE Upgrade \/ Wallets \/ UNCHANGED vars
  <2>1. UNCHANGED <<scene, row, sel, rep, published, refresh, mixed>>
    BY <1>5 DEF Upgrade, Wallets, vars, gasVars
  <2> QED
    BY <2>1 DEF SignatureInv, SelInv, CallInv, CoverInv, RefreshReads
<1> QED
  BY <1>1, <1>2, <1>3, <1>4, <1>5 DEF Next

LEMMA SignatureInitAll ==
    ASSUME Init
    PROVE  scene \in Scenes /\ RowInv /\ CodeInv /\ SignatureInv
BY RowInit, CodeInit, SignatureInit, WalletInit0

LEMMA SignatureStepAll ==
    ASSUME scene \in Scenes, RowInv, CodeInv, SignatureInv, [Next]_vars
    PROVE  (scene \in Scenes /\ RowInv /\ CodeInv /\ SignatureInv)'
<1>1. scene' = scene
  <2>1. ASSUME NEW c \in Replacer, RepRead(c) \/ RepEstimate(c) \/ RepSave(c) \/ RepublishMessage(c)
        PROVE  scene' = scene
    BY <2>1 DEF RepRead, RepEstimate, RepSave, RepublishMessage
  <2>2. CASE SelRead \/ SelVersion \/ getActorCfg \/ estimateMessage \/ SelSave
    BY <2>2 DEF SelRead, SelVersion, getActorCfg, estimateMessage, SelSave
  <2>3. CASE \/ RefreshRead \/ RefreshWrite \/ RefreshRevert \/ MarkBadMessage \/ RecoverFailedMsg
             \/ Upgrade \/ Wallets \/ UNCHANGED vars
    BY <2>3 DEF RefreshRead, RefreshWrite, RefreshRevert, MarkBadMessage, RecoverFailedMsg, Upgrade, Wallets, vars, gasVars
  <2> QED
    BY <2>1, <2>2, <2>3 DEF Next
<1> QED
  BY <1>1, RowStep, CodeStep, SignatureStep

(* The signature of the row, and of every message handed to the publisher, is over its content,
   however the selection, replacements and the refresh write the row that each has read before:
   unless a replacement that had read the row unsigned was stored after the selection signed it. *)
THEOREM SignatureAlwaysCovers == Spec => []SignatureCovers
<1> DEFINE Inv == scene \in Scenes /\ RowInv /\ CodeInv /\ SignatureInv
<1>1. Init => Inv
  BY SignatureInitAll
<1>2. Inv /\ [Next]_vars => Inv'
  BY SignatureStepAll
<1>3. Inv => SignatureCovers
  BY DEF SignatureInv, CoverInv, Covered, SignatureCovers
<1> HIDE DEF Inv
<1> QED
  BY <1>1, <1>2, <1>3, PTL DEF Spec

-----------------------------------------------------------------------------
(* What a replacement pays *)

(* A call goes on to publish only by storing its own replacement. *)
LEMMA PublishAfterSave ==
    ASSUME CallInv, NEW c \in Replacer, [Next]_vars, rep[c].pc = "sign", rep'[c].pc = "publish"
    PROVE  RepSave(c)
<1>1. ASSUME rep' = rep
      PROVE  RepSave(c)
  BY <1>1
<1>2. CASE SelRead \/ SelVersion \/ getActorCfg \/ estimateMessage \/ SelSave
  BY <1>2, <1>1 DEF SelRead, SelVersion, getActorCfg, estimateMessage, SelSave
<1>3. CASE \/ RefreshRead \/ RefreshWrite \/ RefreshRevert \/ MarkBadMessage \/ RecoverFailedMsg
           \/ Upgrade \/ Wallets \/ UNCHANGED vars
  BY <1>3, <1>1 DEF RefreshRead, RefreshWrite, RefreshRevert, MarkBadMessage, RecoverFailedMsg, Upgrade, Wallets, vars, gasVars
<1>4. ASSUME NEW d \in Replacer, RepRead(d) \/ RepEstimate(d) \/ RepSave(d) \/ RepublishMessage(d)
      PROVE  RepSave(c)
  <2>1. CASE d # c
    <3>1. rep'[c] = rep[c]
      BY <1>4, <2>1 DEF RepRead, RepEstimate, RepSave, RepublishMessage, CallInv
    <3> QED
      BY <3>1
  <2>2. CASE d = c
    BY <1>4, <2>2 DEF RepRead, RepEstimate, RepublishMessage
  <2> QED
    BY <2>1, <2>2
<1> QED
  BY <1>2, <1>3, <1>4 DEF Next

LEMMA ReplacementFits ==
    ASSUME RowInv, SignatureInv, [Next]_vars, NEW c \in Replacer,
           row' # row, rep[c].pc = "sign", rep'[c].pc = "publish", scene.params[c].auto, ~mixed'
    PROVE  /\ row'.prem <= row'.cap
           /\ rep[c].maxFee # 0 => row'.cap * row'.limit <= rep[c].maxFee
           /\ \/ row.sig # rep[c].msg.sig
              \/ row'.prem * 100 > row.prem * RBFRatio
              \/ rep[c].maxFee # 0 /\ (row'.cap + 1) * row'.limit > rep[c].maxFee
<1> DEFINE k == rep[c]
           m == k.msg
<1>1. RepSave(c)
  BY PublishAfterSave DEF SignatureInv
<1>2. ~mixed /\ m.sig # <<>> /\ row'.limit = m.limit /\ row'.cap = m.cap /\ row'.prem = m.prem
  BY <1>1, SaveStores
<1>3. /\ Numbers(m) /\ k.minRBF \in Nat
      /\ FeeFits(m, k.maxFee) /\ (m.prem >= k.minRBF \/ FeeExhausted(m, k.maxFee))
  BY DEF SignatureInv, CallInv, Priced
<1>4. k.minRBF = computeRBF(m.sig[1].prem)
  BY <1>2 DEF SignatureInv, CallInv, FromSigned
<1>5. ASSUME row.sig = m.sig, m.prem >= k.minRBF
      PROVE  m.prem * 100 > row.prem * RBFRatio
  <2>1. row.sig = <<Content(row)>> /\ Numbers(row)
    BY <1>2, <1>5 DEF SignatureInv, CoverInv, Covered
  <2>2. m.sig[1].prem = row.prem
    BY <1>5, <2>1 DEF Content
  <2> DEFINE n == computeRBF(row.prem)
             z == row.prem * RBFRatio
  <2>3. k.minRBF = n /\ n * 100 > z /\ z \in Nat
    BY <1>4, <2>1, <2>2, LeastPremium, EstimateAssumption DEF Numbers
  <2> HIDE DEF n, z
  <2>4. m.prem * 100 > z
    BY <1>3, <1>5, <2>3 DEF Numbers
  <2> QED
    BY <2>4 DEF z
<1> QED
  BY <1>2, <1>3, <1>5 DEF FeeFits, FeeExhausted

(* An automatic replacement that is stored keeps its premium within its fee cap and its fee within
   the maximal fee, and beats the premium of the row it replaces by the ratio of the node's message
   pool, unless the maximal fee does not pay for that or the row was replaced since it was read. *)
THEOREM ReplacementPaysEnough == Spec => ReplacementAcceptable
<1> DEFINE Inv == scene \in Scenes /\ RowInv /\ CodeInv /\ SignatureInv
<1>1. Init => Inv
  BY SignatureInitAll
<1>2. Inv /\ [Next]_vars => Inv'
  BY SignatureStepAll
<1>3. Inv /\ [Next]_vars
      => [\A c \in Replacer :
            (/\ row' # row /\ rep[c].pc = "sign" /\ rep'[c].pc = "publish"
             /\ scene.params[c].auto /\ ~mixed')
            => /\ row'.prem <= row'.cap
               /\ rep[c].maxFee # 0 => row'.cap * row'.limit <= rep[c].maxFee
               /\ \/ row.sig # rep[c].msg.sig
                  \/ row'.prem * 100 > row.prem * RBFRatio
                  \/ rep[c].maxFee # 0 /\ (row'.cap + 1) * row'.limit > rep[c].maxFee]_vars
  BY ReplacementFits
<1> HIDE DEF Inv
<1> QED
  BY <1>1, <1>2, <1>3, PTL DEF Spec, ReplacementAcceptable
==============================================================================
