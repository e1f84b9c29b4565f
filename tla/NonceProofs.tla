---------------------------- MODULE NonceProofs ----------------------------
(***************************************************************************)
(* Nonces are unique: theorems about MsgSelector for any number of         *)
(* messages and addresses and any sequence of API calls, reorgs, failures  *)
(* and crashes, for selections that do not overlap and without calls that  *)
(* reset an address's nonce.                                               *)
(***************************************************************************)
EXTENDS MsgSelectorProofs

-----------------------------------------------------------------------------
(* What most steps do to the tables: nothing that matters to nonces *)

(* No message is signed, and none that is signed gets another nonce. *)
KeepsSigned ==
    \A m \in MsgId : msgs'[m].signed => msgs[m].signed /\ msgs'[m].nonce = msgs[m].nonce

(* No address row disappears or changes its nonce. *)
KeepsNonces ==
    \A a \in Addr : addrs[a].exists => addrs'[a].exists /\ addrs'[a].nonce = addrs[a].nonce

LEMMA StateUpdateKeepsSigned ==
    ASSUME TypeOK, NEW m \in MsgId, NEW s, msgs' = [msgs EXCEPT ![m].state = s]
    PROVE  KeepsSigned
BY DEF TypeOK, MsgRow, KeepsSigned

LEMMA SomeStatesUpdateKeepsSigned ==
    ASSUME TypeOK, NEW S, NEW s,
           msgs' = [m \in MsgId |-> IF m \in S THEN [msgs[m] EXCEPT !.state = s] ELSE msgs[m]]
    PROVE  KeepsSigned
BY DEF TypeOK, MsgRow, KeepsSigned

(* The invariant survives a step that keeps signed messages, nonces, tasks and goroutines. *)
LEMMA QuietStep ==
    ASSUME TypeOK, NonceInv, KeepsSigned, KeepsNonces, UNCHANGED <<tasks, jobs>>
    PROVE  NonceInv'
<1>1. NonceUnique' /\ NonceBehindAddress'
  BY ConstantsAssumption DEF NonceInv, NonceUnique, NonceBehindAddress, KeepsSigned, KeepsNonces
<1>2. ASSUME NEW t \in Task, NEW a \in Addr
      PROVE  (RunsInTask(t, a) /\ SelectsActive(t, a) /\ SnapFresh(t, a) /\ SelectionFresh(t, a))'
  <2>1. RunsInTask(t, a) /\ SelectsActive(t, a) /\ SnapFresh(t, a) /\ SelectionFresh(t, a)
    BY DEF NonceInv
  <2>2. (RunsInTask(t, a) /\ SelectsActive(t, a))'
    BY <2>1 DEF RunsInTask, SelectsActive, Selecting, SnapActive
  <2>3. SnapFresh(t, a)'
    BY <2>1 DEF SnapFresh, SnapActive, KeepsNonces
  <2>4. SelectionFresh(t, a)'
    <3>1. CASE jobs[t][a].pc \in {"list", "sign"}
      BY <2>1, <3>1 DEF SelectionFresh, KeepsNonces
    <3>2. CASE jobs[t][a].pc \notin {"list", "sign"}
      BY <2>1, <3>2 DEF SelectionFresh
    <3> QED
      BY <3>1, <3>2
  <2> QED
    BY <2>2, <2>3, <2>4
<1> QED
  BY <1>1, <1>2 DEF NonceInv

LEMMA MsgApiNonceInv ==
    ASSUME TypeOK, NonceInv, NEW m \in MsgId, MsgApi(m)
    PROVE  NonceInv'
<1>1. UNCHANGED <<tasks, jobs>>
  BY DEF MsgApi, PushPrepare, PushCreate, PushFails, MarkBadMessage, RepublishMessage, UpdateMessageStateByID
<1>2. KeepsNonces
  BY ConstantsAssumption DEF MsgApi, PushPrepare, PushCreate, PushFails, MarkBadMessage, RepublishMessage,
     UpdateMessageStateByID, KeepsNonces, dbVars, TypeOK
<1>3. KeepsSigned
  <2>1. CASE PushCreate(m)
    BY <2>1 DEF PushCreate, NewMsg, KeepsSigned, TypeOK
  <2>2. CASE UNCHANGED msgs
    BY <2>2 DEF KeepsSigned
  <2>3. CASE MarkBadMessage(m) \/ \E s \in MsgState \ {"None"} : UpdateMessageStateByID(m, s)
    BY <2>3, StateUpdateKeepsSigned DEF MarkBadMessage, UpdateMessageStateByID
  <2> QED
    BY <2>1, <2>2, <2>3 DEF MsgApi, PushPrepare, PushFails, RepublishMessage, dbVars
<1> QED
  BY <1>1, <1>2, <1>3, QuietStep

LEMMA AddrApiNonceInv ==
    ASSUME TypeOK, NonceInv, NoNonceReset, NEW a \in Addr, AddrApi(a)
    PROVE  NonceInv'
<1>1. UNCHANGED <<tasks, jobs>>
  BY DEF AddrApi, RecoverFailedMsg, UpdateState, SetSelectMsgNum, UpdateNonce, DeleteAddress
<1>2. KeepsNonces
  <2>1. CASE RecoverFailedMsg(a)
    BY <2>1 DEF RecoverFailedMsg, KeepsNonces
  <2>2. ASSUME NEW alive \in BOOLEAN, UpdateState(a, alive)
        PROVE  KeepsNonces
    BY <2>2 DEF UpdateState, KeepsNonces, TypeOK, AddrRow
  <2>3. ASSUME NEW n \in SelNums, SetSelectMsgNum(a, n)
        PROVE  KeepsNonces
    BY <2>3 DEF SetSelectMsgNum, KeepsNonces, TypeOK, AddrRow
  <2> QED
    BY <2>1, <2>2, <2>3 DEF AddrApi, UpdateNonce, DeleteAddress, NoNonceReset
<1>3. KeepsSigned
  <2>1. CASE RecoverFailedMsg(a)
    BY <2>1, SomeStatesUpdateKeepsSigned DEF RecoverFailedMsg
  <2>2. CASE UNCHANGED msgs
    BY <2>2 DEF KeepsSigned
  <2> QED
    BY <2>1, <2>2 DEF AddrApi, UpdateState, SetSelectMsgNum, UpdateNonce, DeleteAddress
<1> QED
  BY <1>1, <1>2, <1>3, QuietStep

LEMMA ChainNonceInv ==
    ASSUME TypeOK, NonceInv, NEW a \in Addr, ChainStep(a)
    PROVE  NonceInv'
<1>1. UNCHANGED <<tasks, jobs, msgs, addrs>>
  BY DEF ChainStep, ChainExtend, ChainReorg, dbVars
<1> QED
  BY <1>1, QuietStep DEF KeepsSigned, KeepsNonces

LEMMA RefreshNonceInv ==
    ASSUME TypeOK, NonceInv, NEW m \in MsgId, Refresh(m)
    PROVE  NonceInv'
<1>1. UNCHANGED <<tasks, jobs, addrs>>
  BY DEF Refresh, RefreshApply, RefreshRevert
<1>2. KeepsSigned
  <2>1. CASE msgs' = msgs
    BY <2>1 DEF KeepsSigned
  <2>2. ASSUME NEW k \in MsgId, NEW s \in MsgState, msgs' = [msgs EXCEPT ![k].state = s]
        PROVE  KeepsSigned
    BY <2>2, StateUpdateKeepsSigned
  <2> QED
    BY <2>1, <2>2, RefreshOneState
<1> QED
  BY <1>1, <1>2, QuietStep DEF KeepsNonces

-----------------------------------------------------------------------------
(* The goroutine of SelectMessage *)

(* When signed messages and address rows are kept, only the goroutines need a proof. *)
LEMMA TablesKept ==
    ASSUME TypeOK, NonceInv, KeepsSigned, UNCHANGED addrs
    PROVE  NonceUnique' /\ NonceBehindAddress'
BY ConstantsAssumption DEF NonceInv, NonceUnique, NonceBehindAddress, KeepsSigned

(* A goroutine that does not exist satisfies its part of the invariant, unless its task is
   about to start it. *)
LEMMA NoJobInv ==
    ASSUME NEW t \in Task, NEW a \in Addr, jobs'[t][a] = NoJob, tasks'[t].pc # "snap"
    PROVE  (RunsInTask(t, a) /\ SelectsActive(t, a) /\ SnapFresh(t, a) /\ SelectionFresh(t, a))'
<1>1. (RunsInTask(t, a) /\ SelectsActive(t, a) /\ SnapFresh(t, a))'
  BY DEF NoJob, RunsInTask, SelectsActive, Selecting, SnapFresh
<1>2. SelectionFresh(t, a)'
  BY DEF NoJob, SelectionFresh
<1> QED
  BY <1>1, <1>2

(* A goroutine outside of the sign loop holds nothing that could conflict. *)
LEMMA IdleJobInv ==
    ASSUME NonceInv, NEW t \in Task, NEW a \in Addr, jobs[t][a].pc = "none",
           jobs'[t][a] = jobs[t][a], tasks'[t].pc # "snap"
    PROVE  (RunsInTask(t, a) /\ SelectsActive(t, a) /\ SnapFresh(t, a) /\ SelectionFresh(t, a))'
<1>1. (RunsInTask(t, a) /\ SelectsActive(t, a) /\ SnapFresh(t, a))'
  BY DEF RunsInTask, SelectsActive, Selecting, SnapFresh
<1>2. jobs[t][a].sel = {} /\ jobs[t][a].cand = {}
  BY DEF NonceInv, SelectionFresh
<1>3. SelectionFresh(t, a)'
  BY <1>2 DEF SelectionFresh
<1> QED
  BY <1>1, <1>3

LEMMA TaskNonceInv ==
    ASSUME TypeOK, NonceInv, OneTask, NEW t \in Task, TaskStep(t)
    PROVE  NonceInv'
<1> DEFINE Inv(u, a) == RunsInTask(u, a) /\ SelectsActive(u, a) /\ SnapFresh(u, a) /\ SelectionFresh(u, a)
<1>t. \A u \in Task : u = t
  BY DEF OneTask
<1>i. \A a \in Addr : Inv(t, a)
  BY DEF NonceInv
<1>1. CASE NewHead(t)
  <2>1. UNCHANGED <<msgs, addrs, jobs>>
    BY <1>1 DEF NewHead, dbVars
  <2>2. \A a \in Addr : jobs[t][a].pc = "none"
    BY <1>1, <1>i DEF NewHead, JobsDone, RunsInTask
  <2>3. tasks'[t].pc = "waiting"
    BY <1>1, RecordTypes DEF NewHead, TypeOK, TaskRec
  <2>4. \A a \in Addr : Inv(t, a)'
    BY <2>1, <2>2, <2>3, IdleJobInv
  <2> QED
    BY <2>1, <2>4, <1>t, TablesKept DEF NonceInv, KeepsSigned
<1>2. CASE DelayOver(t)
  <2>1. UNCHANGED <<addrs, jobs>>
    BY <1>2 DEF DelayOver
  <2>2. KeepsSigned
    <3>1. CASE msgs' = msgs
      BY <3>1 DEF KeepsSigned
    <3>2. ASSUME NEW a \in Addr,
                 msgs' = [m \in MsgId |-> IF m \in InState(a, "UnFill")
                                           THEN [msgs[m] EXCEPT !.state = "Failed"] ELSE msgs[m]]
          PROVE  KeepsSigned
      BY <3>2, SomeStatesUpdateKeepsSigned
    <3> QED
      BY <1>2, <3>1, <3>2 DEF DelayOver
  <2>3. \A a \in Addr : jobs[t][a].pc = "none"
    BY <1>2, <1>i DEF DelayOver, RunsInTask
  <2>4. tasks'[t].pc = "select"
    BY <1>2 DEF DelayOver, TypeOK, TaskRec
  <2>5. \A a \in Addr : Inv(t, a)'
    BY <2>1, <2>3, <2>4, IdleJobInv
  <2> QED
    BY <2>1, <2>2, <2>5, <1>t, TablesKept DEF NonceInv
<1>3. CASE ReadActiveAddrs(t)
  <2>1. UNCHANGED <<msgs, addrs, jobs>>
    BY <1>3 DEF ReadActiveAddrs, dbVars
  <2>2. \A a \in Addr : jobs[t][a].pc = "none"
    BY <1>3, <1>i DEF ReadActiveAddrs, RunsInTask
  <2>3. ASSUME NEW a \in Addr
        PROVE  Inv(t, a)'
    <3>1. CASE tasks'[t] = NoTask
      BY <3>1, <2>1, <2>2, IdleJobInv DEF NoTask
    <3>2. CASE tasks' = [tasks EXCEPT ![t] = [@ EXCEPT !.pc = "snap", !.snap = addrs]]
      <4>1. tasks'[t].snap = addrs
        BY <3>2 DEF TypeOK, TaskRec
      <4>2. (RunsInTask(t, a) /\ SelectsActive(t, a))'
        BY <2>1, <2>2 DEF RunsInTask, SelectsActive, Selecting
      <4>3. SnapFresh(t, a)'
        BY <4>1, <2>1 DEF SnapFresh, SnapActive, IsActive, TypeOK, AddrRow
      <4>4. SelectionFresh(t, a)'
        BY <1>i, <2>1 DEF SelectionFresh
      <4> QED
        BY <4>2, <4>3, <4>4
    <3> QED
      BY <1>3, <3>1, <3>2 DEF ReadActiveAddrs, TypeOK
  <2> QED
    BY <2>1, <2>3, <1>t, TablesKept DEF NonceInv, KeepsSigned
<1>4. CASE LaunchJobs(t)
  <2>1. UNCHANGED <<msgs, addrs>>
    BY <1>4 DEF LaunchJobs, dbVars
  <2>2. \A a \in Addr : jobs[t][a].pc = "none"
    BY <1>4, <1>i DEF LaunchJobs, RunsInTask
  <2>3. ASSUME NEW a \in Addr
        PROVE  Inv(t, a)'
    <3>1. CASE tasks' = [tasks EXCEPT ![t] = NoTask] /\ jobs' = jobs
      <4>1. tasks'[t].pc # "snap"
        BY <3>1 DEF NoTask, TypeOK
      <4> QED
        BY <3>1, <4>1, <2>2, IdleJobInv
    <3>2. ASSUME NEW ws \in [Addr -> Gen \cup {NoWork}],
                 tasks' = [tasks EXCEPT ![t].pc = "running"],
                 jobs' = [jobs EXCEPT ![t] = [b \in Addr |->
                    IF ws[b] = NoWork THEN NoJob ELSE [NoJob EXCEPT !.pc = "spawned", !.work = ws[b]]]]
          PROVE  Inv(t, a)'
      <4>1. tasks'[t].pc = "running" /\ tasks'[t].snap = tasks[t].snap
        BY ZenonT(60), <3>2 DEF TypeOK, TaskRec
      <4>2. jobs'[t][a] = IF ws[a] = NoWork THEN NoJob ELSE [NoJob EXCEPT !.pc = "spawned", !.work = ws[a]]
        BY <3>2 DEF TypeOK
      <4>3. jobs'[t][a].pc \in {"none", "spawned"} /\ jobs'[t][a].sel = {} /\ jobs'[t][a].cand = {}
        BY <4>2 DEF NoJob
      <4>4. (RunsInTask(t, a) /\ SelectsActive(t, a))'
        BY <4>1, <4>3 DEF RunsInTask, SelectsActive, Selecting
      <4>5. SnapFresh(t, a)'
        BY <1>4, <1>i, <2>1, <4>1 DEF LaunchJobs, SnapFresh, SnapActive
      <4>6. SelectionFresh(t, a)'
        BY <4>3 DEF SelectionFresh
      <4> QED
        BY <4>4, <4>5, <4>6
    <3> QED
      BY <1>4, <3>1, <3>2 DEF LaunchJobs
  <2> QED
    BY <2>1, <2>3, <1>t, TablesKept DEF NonceInv, KeepsSigned
<1> QED
  BY <1>1, <1>2, <1>3, <1>4 DEF TaskStep

-----------------------------------------------------------------------------
(* The goroutines of startSelectMessage *)

LEMMA OtherJobInv ==
    ASSUME NonceInv, NEW t \in Task, NEW a \in Addr,
           jobs'[t][a] = jobs[t][a], UNCHANGED tasks, addrs'[a] = addrs[a]
    PROVE  (RunsInTask(t, a) /\ SelectsActive(t, a) /\ SnapFresh(t, a) /\ SelectionFresh(t, a))'
<1>1. RunsInTask(t, a) /\ SelectsActive(t, a) /\ SnapFresh(t, a) /\ SelectionFresh(t, a)
  BY DEF NonceInv
<1>2. (RunsInTask(t, a) /\ SelectsActive(t, a) /\ SnapFresh(t, a))'
  BY <1>1 DEF RunsInTask, SelectsActive, Selecting, SnapFresh, SnapActive
<1>3. SelectionFresh(t, a)'
  BY <1>1 DEF SelectionFresh
<1> QED
  BY <1>2, <1>3

(* A step that only moves one goroutine has to establish that goroutine's part. *)
LEMMA JobOnlyStep ==
    ASSUME TypeOK, NonceInv, OneTask, NEW t \in Task, NEW a \in Addr, NEW j,
           SetJob(t, a, j), UNCHANGED <<msgs, addrs, tasks>>,
           (RunsInTask(t, a) /\ SelectsActive(t, a) /\ SnapFresh(t, a) /\ SelectionFresh(t, a))'
    PROVE  NonceInv'
<1>1. NonceUnique' /\ NonceBehindAddress'
  BY TablesKept DEF KeepsSigned
<1>2. ASSUME NEW b \in Addr, b # a
      PROVE  (RunsInTask(t, b) /\ SelectsActive(t, b) /\ SnapFresh(t, b) /\ SelectionFresh(t, b))'
  <2>1. jobs'[t][b] = jobs[t][b]
    BY <1>2, SetJobEffect DEF TypeOK
  <2> QED
    BY <2>1, OtherJobInv
<1> QED
  BY <1>1, <1>2 DEF NonceInv, OneTask

LEMMA FinishNonceInv ==
    ASSUME TypeOK, NonceInv, OneTask, NEW t \in Task, NEW a \in Addr, jobs[t][a].pc # "none",
           SetJob(t, a, NoJob), UNCHANGED <<msgs, addrs, tasks>>
    PROVE  NonceInv'
<1>1. jobs'[t][a] = NoJob
  BY SetJobEffect DEF TypeOK
<1>2. tasks'[t].pc # "snap"
  BY DEF NonceInv, RunsInTask
<1> QED
  BY <1>1, <1>2, NoJobInv, JobOnlyStep

LEMMA ControlNonceInv ==
    ASSUME TypeOK, NonceInv, OneTask, NEW t \in Task, NEW a \in Addr,
           CheckCtx(t, a) \/ TakeControl(t, a)
    PROVE  NonceInv'
<1> DEFINE j == jobs[t][a]
<1>1. UNCHANGED <<msgs, addrs, tasks>>
  BY DEF CheckCtx, TakeControl, dbVars
<1>2. j \in JobRec /\ j.pc \in {"spawned", "checked"}
  BY DEF CheckCtx, TakeControl, TypeOK
<1>3. CASE SetJob(t, a, NoJob)
  BY <1>1, <1>2, <1>3, FinishNonceInv
<1>4. ASSUME NEW p \in {"checked", "nonce"}, SetJob(t, a, [j EXCEPT !.pc = p]), p = "nonce" => SnapActive(t, a)
      PROVE  NonceInv'
  <2>1. jobs'[t][a] = [j EXCEPT !.pc = p]
    BY <1>4, SetJobEffect DEF TypeOK
  <2>2. jobs'[t][a].pc = p /\ jobs'[t][a].sel = j.sel /\ jobs'[t][a].cand = j.cand
    BY <2>1, <1>2 DEF JobRec
  <2>3. RunsInTask(t, a) /\ SnapFresh(t, a) /\ SelectionFresh(t, a)
    BY DEF NonceInv
  <2>4. (RunsInTask(t, a) /\ SelectsActive(t, a))'
    BY <1>1, <1>2, <1>4, <2>2, <2>3 DEF RunsInTask, SelectsActive, Selecting, SnapActive
  <2>5. SnapFresh(t, a)'
    BY <1>1, <1>2, <2>2, <2>3 DEF SnapFresh, SnapActive
  <2>6. SelectionFresh(t, a)'
    BY <1>2, <1>4, <2>2, <2>3 DEF SelectionFresh
  <2> QED
    BY <1>1, <1>4, <2>4, <2>5, <2>6, JobOnlyStep
<1>5. CASE CheckCtx(t, a)
  BY <1>3, <1>4, <1>5 DEF CheckCtx
<1>6. CASE TakeControl(t, a)
  BY <1>3, <1>4, <1>6 DEF TakeControl, Panics
<1> QED
  BY <1>5, <1>6

LEMMA ListNonceInv ==
    ASSUME TypeOK, NonceInv, OneTask, NEW t \in Task, NEW a \in Addr, ListCandidates(t, a)
    PROVE  NonceInv'
<1> DEFINE j == jobs[t][a]
<1>1. UNCHANGED <<msgs, addrs, tasks>> /\ j.pc = "list" /\ j \in JobRec
  BY DEF ListCandidates, EstimateMessage, dbVars, TypeOK
<1>2. RunsInTask(t, a) /\ SelectsActive(t, a) /\ SelectionFresh(t, a)
  BY DEF NonceInv
<1>3. \A n : \A m \in ListUnChain(a, n) : From[m] = a
  BY DEF ListUnChain, InState
<1>e. j.sel = {} /\ j.cand = {}
  BY <1>1, <1>2 DEF SelectionFresh
<1>4. ASSUME NEW p \in {"push", "sign"}, jobs'[t][a].pc = p, jobs'[t][a].sel = {}, jobs'[t][a].nonce = j.nonce,
             p = "push" => jobs'[t][a].cand = {},
             \A m \in jobs'[t][a].cand : From[m] = a
      PROVE  (RunsInTask(t, a) /\ SelectsActive(t, a) /\ SnapFresh(t, a) /\ SelectionFresh(t, a))'
  <2>1. (RunsInTask(t, a) /\ SelectsActive(t, a) /\ SnapFresh(t, a))'
    BY <1>1, <1>2, <1>4 DEF RunsInTask, SelectsActive, Selecting, SnapActive, SnapFresh
  <2>2. SelectionFresh(t, a)'
    BY <1>1, <1>2, <1>4 DEF SelectionFresh
  <2> QED
    BY <2>1, <2>2
<1>5. ASSUME NEW S, SetJob(t, a, [j EXCEPT !.pc = "push", !.toPush = S])
      PROVE  NonceInv'
  <2>1. jobs'[t][a] = [j EXCEPT !.pc = "push", !.toPush = S]
    BY <1>5, SetJobEffect DEF TypeOK
  <2>2. jobs'[t][a].pc = "push" /\ jobs'[t][a].sel = {} /\ jobs'[t][a].cand = {} /\ jobs'[t][a].nonce = j.nonce
    BY <1>1, <1>e, <2>1 DEF JobRec
  <2> QED
    BY <1>1, <1>4, <1>5, <2>2, JobOnlyStep
<1>6. ASSUME NEW S, NEW w, NEW n, NEW C \in SUBSET ListUnChain(a, n),
             SetJob(t, a, [j EXCEPT !.pc = "sign", !.toPush = S, !.want = w, !.cand = C])
      PROVE  NonceInv'
  <2>1. jobs'[t][a] = [j EXCEPT !.pc = "sign", !.toPush = S, !.want = w, !.cand = C]
    BY <1>6, SetJobEffect DEF TypeOK
  <2>2. jobs'[t][a].pc = "sign" /\ jobs'[t][a].sel = {} /\ jobs'[t][a].cand = C /\ jobs'[t][a].nonce = j.nonce
    BY <1>1, <1>e, <2>1 DEF JobRec
  <2> QED
    BY <1>1, <1>3, <1>4, <1>6, <2>2, JobOnlyStep
<1> QED
  BY <1>5, <1>6, Zenon DEF ListCandidates, EstimateMessage

LEMMA SignNonceInv ==
    ASSUME TypeOK, NonceInv, OneTask, NEW t \in Task, NEW a \in Addr, SignCandidate(t, a)
    PROVE  NonceInv'
<1> DEFINE j == jobs[t][a]
<1>1. UNCHANGED <<msgs, addrs, tasks>> /\ j.pc = "sign" /\ j \in JobRec
  BY DEF SignCandidate, dbVars, TypeOK
<1>2. RunsInTask(t, a) /\ SelectsActive(t, a) /\ SelectionFresh(t, a)
  BY DEF NonceInv
<1>3. addrs[a].nonce \in Nat /\ j.nonce \in Nat /\ j.sel \subseteq Signed
  BY <1>1 DEF TypeOK, AddrRow, JobRec
<1>4. ASSUME jobs'[t][a].pc = "sign"
      PROVE  (RunsInTask(t, a) /\ SelectsActive(t, a) /\ SnapFresh(t, a))'
  BY <1>1, <1>2, <1>4 DEF RunsInTask, SelectsActive, Selecting, SnapActive, SnapFresh
<1>5. ASSUME NEW C \in SUBSET j.cand, NEW E,
             SetJob(t, a, [j EXCEPT !.cand = C, !.errs = E])
      PROVE  NonceInv'
  <2>1. jobs'[t][a] = [j EXCEPT !.cand = C, !.errs = E]
    BY <1>5, SetJobEffect DEF TypeOK
  <2>2. /\ jobs'[t][a].pc = "sign" /\ jobs'[t][a].sel = j.sel
        /\ jobs'[t][a].cand = C /\ jobs'[t][a].nonce = j.nonce
    BY <1>1, <2>1 DEF JobRec
  <2>3. SelectionFresh(t, a)'
    BY <1>1, <1>2, <1>5, <2>2 DEF SelectionFresh
  <2> QED
    BY <1>1, <1>4, <1>5, <2>2, <2>3, JobOnlyStep
<1>6. ASSUME NEW m \in j.cand, NEW w,
             SetJob(t, a, [j EXCEPT !.cand = @ \ {m}, !.nonce = @ + 1, !.want = w,
                                    !.sel = @ \cup {[id |-> m, nonce |-> j.nonce]}])
      PROVE  NonceInv'
  <2> DEFINE new == [id |-> m, nonce |-> j.nonce]
  <2>1. jobs'[t][a] = [j EXCEPT !.cand = @ \ {m}, !.nonce = @ + 1, !.want = w, !.sel = @ \cup {new}]
    BY <1>6, SetJobEffect DEF TypeOK
  <2>2. /\ jobs'[t][a].pc = "sign" /\ jobs'[t][a].sel = j.sel \cup {new}
        /\ jobs'[t][a].cand = j.cand \ {m} /\ jobs'[t][a].nonce = j.nonce + 1
    BY <1>1, <2>1 DEF JobRec
  <2>3. new.id = m /\ new.nonce = j.nonce
    OBVIOUS
  <2>4. \A s \in j.sel : s.id # m /\ s.nonce < j.nonce /\ s.nonce \in Nat /\ From[s.id] = a /\ addrs[a].nonce <= s.nonce
    BY <1>2, <1>3 DEF SelectionFresh, Signed
  <2>5. From[m] = a /\ addrs[a].exists /\ addrs[a].nonce <= j.nonce
    BY <1>1, <1>2 DEF SelectionFresh
  <2>6. \A s \in j.sel : s.id \notin j.cand
    BY <1>2 DEF SelectionFresh
  <2>7. \A s, r \in j.sel : s.id = r.id \/ s.nonce = r.nonce => s = r
    BY <1>2 DEF SelectionFresh
  <2> HIDE DEF new, j
  <2>8. \A s \in j.sel \cup {new} : /\ From[s.id] = a /\ s.id \notin j.cand \ {m}
                                    /\ addrs[a].nonce <= s.nonce /\ s.nonce < j.nonce + 1
    BY <1>3, <2>3, <2>4, <2>5, <2>6
  <2>9. \A s, r \in j.sel \cup {new} : s.id = r.id \/ s.nonce = r.nonce => s = r
    BY <1>3, <2>3, <2>4, <2>7
  <2>10. \A k \in j.cand \ {m} : From[k] = a
    BY <1>2 DEF SelectionFresh, j
  <2>11. SelectionFresh(t, a)'
    BY <1>1, <1>3, <2>2, <2>5, <2>8, <2>9, <2>10 DEF SelectionFresh
  <2> USE DEF j
  <2> QED
    BY <1>1, <1>4, <1>6, <2>2, <2>11, JobOnlyStep DEF new
<1>7. \A C : [j EXCEPT !.cand = C] = [j EXCEPT !.cand = C, !.errs = j.errs]
  BY <1>1 DEF JobRec
<1> QED
  <2>1. PICK m \in j.cand :
          \/ SetJob(t, a, [j EXCEPT !.cand = @ \ {m}, !.errs = @ \cup {m}])
          \/ SetJob(t, a, [j EXCEPT !.cand = {}])
          \/ SetJob(t, a, [j EXCEPT !.cand = @ \ {m}])
          \/ SetJob(t, a, [j EXCEPT !.cand = {}, !.errs = @ \cup {m}])
          \/ SetJob(t, a, [j EXCEPT !.cand = @ \ {m}, !.nonce = @ + 1, !.want = @ - 1,
                                    !.sel = @ \cup {[id |-> m, nonce |-> j.nonce]}])
    BY DEF SignCandidate
  <2>2. j.cand \ {m} \in SUBSET j.cand /\ {} \in SUBSET j.cand
    OBVIOUS
  <2> HIDE DEF j
  <2> QED
    BY <1>5, <1>6, <1>7, <2>1, <2>2

(* Syncing with the chain only moves the row forward, past everything that was given out. *)
LEMMA SyncMovesForward ==
    ASSUME TypeOK, NonceInv, NEW t \in Task, NEW a \in Addr, SyncNonce(t, a)
    PROVE  /\ addrs'[a].exists /\ addrs[a].exists
           /\ addrs[a].nonce <= addrs'[a].nonce
           /\ addrs'[a].nonce <= jobs'[t][a].nonce
           /\ \A b \in Addr : b # a => addrs'[b] = addrs[b]
           /\ \E n \in Nat : SetJob(t, a, [jobs[t][a] EXCEPT !.pc = "list", !.nonce = n])
<1> DEFINE info == tasks[t].snap[a]
<1>1. jobs[t][a] \in JobRec /\ info \in AddrRow /\ tasks[t].ts[a] \in Nat /\ addrs[a] \in AddrRow
  BY DEF TypeOK, TaskRec
<1>2. info.exists /\ addrs[a].exists /\ addrs[a].nonce <= info.nonce
  BY DEF SyncNonce, NonceInv, SelectsActive, Selecting, SnapFresh, SnapActive, IsActive
<1>3. info.nonce \in Nat /\ addrs[a].nonce \in Nat
  BY <1>1 DEF AddrRow
<1>4. CASE /\ addrs' = addrs
           /\ SetJob(t, a, [jobs[t][a] EXCEPT !.pc = "list", !.nonce = info.nonce])
  <2>1. jobs'[t][a] = [jobs[t][a] EXCEPT !.pc = "list", !.nonce = info.nonce]
    BY <1>4, SetJobEffect DEF TypeOK
  <2>2. jobs'[t][a].nonce = info.nonce
    BY <1>1, <2>1 DEF JobRec
  <2>3. \E n \in Nat : SetJob(t, a, [jobs[t][a] EXCEPT !.pc = "list", !.nonce = n])
    BY <1>3, <1>4, Zenon
  <2>4. /\ addrs'[a].exists /\ addrs[a].exists
        /\ addrs[a].nonce <= addrs'[a].nonce
        /\ addrs'[a].nonce <= jobs'[t][a].nonce
        /\ \A b \in Addr : b # a => addrs'[b] = addrs[b]
    <3>1. addrs' = addrs
      BY <1>4
    <3> QED
      BY <1>2, <1>3, <2>2, <3>1
  <2> QED
    BY <2>3, <2>4, Zenon
<1>5. ASSUME NEW n \in Nat, n > info.nonce, addrs' = [addrs EXCEPT ![a] = [info EXCEPT !.nonce = n]],
             SetJob(t, a, [jobs[t][a] EXCEPT !.pc = "list", !.nonce = n])
      PROVE  /\ addrs'[a].exists /\ addrs[a].exists
             /\ addrs[a].nonce <= addrs'[a].nonce
             /\ addrs'[a].nonce <= jobs'[t][a].nonce
             /\ \A b \in Addr : b # a => addrs'[b] = addrs[b]
  <2>1. addrs'[a] = [info EXCEPT !.nonce = n] /\ \A b \in Addr : b # a => addrs'[b] = addrs[b]
    BY <1>5 DEF TypeOK
  <2>2. addrs'[a].exists /\ addrs'[a].nonce = n
    BY <1>1, <1>2, <2>1 DEF AddrRow
  <2>3. jobs'[t][a].nonce = n
    <3>1. jobs'[t][a] = [jobs[t][a] EXCEPT !.pc = "list", !.nonce = n]
      BY <1>5, SetJobEffect DEF TypeOK
    <3> QED
      BY <1>1, <3>1 DEF JobRec
  <2> QED
    BY <1>2, <1>3, <1>5, <2>1, <2>2, <2>3
<1>6. CASE tasks[t].ts[a] <= info.nonce
  <2>1. ~(tasks[t].ts[a] > info.nonce)
    BY <1>1, <1>3, <1>6
  <2>2. addrs' = addrs /\ SetJob(t, a, [jobs[t][a] EXCEPT !.pc = "list", !.nonce = info.nonce])
    BY <2>1, Zenon DEF SyncNonce
  <2> QED
    BY <1>3, <1>4, <2>2
<1>7. CASE ~(tasks[t].ts[a] <= info.nonce)
  <2>1. PICK k \in MaxMessageNonceFromDB(a) :
          LET n == IF k > tasks[t].ts[a] THEN k + 1 ELSE tasks[t].ts[a]
          IN  /\ addrs' = [addrs EXCEPT ![a] = [info EXCEPT !.nonce = n]]
              /\ SetJob(t, a, [jobs[t][a] EXCEPT !.pc = "list", !.nonce = n])
    BY <1>7, Zenon DEF SyncNonce
  <2> DEFINE n == IF k > tasks[t].ts[a] THEN k + 1 ELSE tasks[t].ts[a]
  <2>2. n \in Nat /\ n > info.nonce
    BY <1>1, <1>3, <1>7, MaxMessageNonceType
  <2>3. addrs' = [addrs EXCEPT ![a] = [info EXCEPT !.nonce = n]]
        /\ SetJob(t, a, [jobs[t][a] EXCEPT !.pc = "list", !.nonce = n])
    BY <2>1
  <2> HIDE DEF n, info
  <2> QED
    BY <1>5, <2>2, <2>3
<1> QED
  BY <1>6, <1>7

LEMMA SyncNonceInv ==
    ASSUME TypeOK, NonceInv, OneTask, NEW t \in Task, NEW a \in Addr, SyncNonce(t, a)
    PROVE  NonceInv'
<1>0. jobs[t][a] \in JobRec
  BY DEF TypeOK
<1>1. UNCHANGED <<msgs, tasks>> /\ jobs[t][a].pc = "nonce" /\ jobs[t][a] \in JobRec
  BY <1>0, Zenon DEF SyncNonce
<1>2. /\ addrs'[a].exists /\ addrs[a].exists
      /\ addrs[a].nonce <= addrs'[a].nonce
      /\ addrs'[a].nonce <= jobs'[t][a].nonce
      /\ \A b \in Addr : b # a => addrs'[b] = addrs[b]
  BY SyncMovesForward
<1>3. PICK n \in Nat : SetJob(t, a, [jobs[t][a] EXCEPT !.pc = "list", !.nonce = n])
  BY SyncMovesForward
<1>4. addrs'[a].nonce \in Nat /\ addrs[a].nonce \in Nat /\ \A m \in MsgId : msgs[m].nonce \in Nat
  <2>1. TypeOK'
    BY TypeNext DEF Next, JobStep
  <2> QED
    BY <2>1 DEF TypeOK, AddrRow, MsgRow
<1>5. NonceUnique'
  BY <1>1 DEF NonceInv, NonceUnique
<1>6. NonceBehindAddress'
  BY <1>1, <1>2, <1>4, ConstantsAssumption DEF NonceInv, NonceBehindAddress
<1>7. RunsInTask(t, a) /\ SelectsActive(t, a) /\ SelectionFresh(t, a)
  BY DEF NonceInv
<1>8. (RunsInTask(t, a) /\ SelectsActive(t, a) /\ SnapFresh(t, a) /\ SelectionFresh(t, a))'
  <2>1. jobs'[t][a] = [jobs[t][a] EXCEPT !.pc = "list", !.nonce = n]
    BY <1>3, SetJobEffect DEF TypeOK
  <2>2. jobs'[t][a].pc = "list" /\ jobs'[t][a].sel = {} /\ jobs'[t][a].cand = {}
    BY <1>1, <1>7, <2>1 DEF JobRec, SelectionFresh
  <2>3. (RunsInTask(t, a) /\ SelectsActive(t, a) /\ SnapFresh(t, a))'
    BY <1>1, <1>7, <2>2 DEF RunsInTask, SelectsActive, Selecting, SnapActive, SnapFresh
  <2>4. SelectionFresh(t, a)'
    BY <1>2, <2>2 DEF SelectionFresh
  <2> QED
    BY <2>3, <2>4
<1>9. ASSUME NEW b \in Addr, b # a
      PROVE  (RunsInTask(t, b) /\ SelectsActive(t, b) /\ SnapFresh(t, b) /\ SelectionFresh(t, b))'
  <2>1. jobs'[t][b] = jobs[t][b]
    BY <1>3, <1>9, SetJobEffect DEF TypeOK
  <2> QED
    BY <1>1, <1>2, <1>9, <2>1, OtherJobInv
<1> QED
  BY <1>5, <1>6, <1>8, <1>9 DEF NonceInv, OneTask

(* Saving a selection: the rows it writes lie between the old and the new nonce of the row. *)
LEMMA SaveNonceInv ==
    ASSUME TypeOK, NonceInv, OneTask, NEW t \in Task, NEW a \in Addr, SaveSelected(t, a)
    PROVE  NonceInv'
<1> DEFINE j == jobs[t][a]
<1>1. tasks' = tasks /\ j.pc = "sign" /\ j \in JobRec /\ j.cand = {} /\ msgs' = SavedMsgs(j)
  BY DEF SaveSelected, TypeOK
<1>2. RunsInTask(t, a) /\ SelectsActive(t, a) /\ SelectionFresh(t, a)
  BY DEF NonceInv
<1>3. addrs[a].exists /\ addrs[a].nonce <= j.nonce /\ addrs[a].nonce \in Nat /\ j.nonce \in Nat
  BY <1>1, <1>2 DEF SelectionFresh, TypeOK, AddrRow, JobRec
<1>4. /\ \A b \in Addr : b # a => addrs'[b] = addrs[b]
      /\ addrs'[a].exists
      /\ addrs'[a].nonce = IF j.sel # {} THEN j.nonce ELSE addrs[a].nonce
  <2>1. addrs' = IF j.sel # {} THEN [addrs EXCEPT ![a].nonce = j.nonce] ELSE addrs
    BY <1>3 DEF SaveSelected
  <2> QED
    BY <2>1, <1>3 DEF TypeOK, AddrRow
<1>5. ASSUME NEW m \in MsgId, m \in SelIds(j)
      PROVE  /\ [id |-> m, nonce |-> msgs'[m].nonce] \in j.sel
             /\ From[m] = a /\ msgs'[m].nonce \in Nat
             /\ addrs[a].nonce <= msgs'[m].nonce /\ msgs'[m].nonce < j.nonce
  <2> DEFINE s == CHOOSE s \in j.sel : s.id = m
  <2>1. s \in j.sel /\ s.id = m
    BY <1>5 DEF SelIds
  <2>2. msgs'[m].nonce = s.nonce
    BY <1>1, <1>5 DEF SavedMsgs
  <2>3. s \in Signed
    BY <1>1, <2>1 DEF JobRec
  <2> HIDE DEF s
  <2>4. s = [id |-> m, nonce |-> msgs'[m].nonce] /\ s.nonce \in Nat
    BY <2>1, <2>2, <2>3 DEF Signed
  <2> QED
    BY <1>2, <2>1, <2>2, <2>4 DEF SelectionFresh
<1>6. ASSUME NEW m \in MsgId, m \notin SelIds(j)
      PROVE  msgs'[m].signed = msgs[m].signed /\ msgs'[m].nonce = msgs[m].nonce
  BY <1>1, <1>6 DEF SavedMsgs, TypeOK, MsgRow
<1>7. \A m \in MsgId : m \in SelIds(j) => j.sel # {}
  BY DEF SelIds
<1>8. \A m \in MsgId : msgs[m].nonce \in Nat
  BY DEF TypeOK, MsgRow
<1>9. NonceBehindAddress'
  <2>1. ASSUME NEW m \in MsgId, msgs'[m].signed
        PROVE  addrs'[From[m]].exists /\ msgs'[m].nonce < addrs'[From[m]].nonce
    <3>1. CASE m \in SelIds(j)
      BY <1>4, <1>5, <1>7, <3>1
    <3>2. CASE m \notin SelIds(j)
      <4>1. addrs[From[m]].exists /\ msgs'[m].nonce < addrs[From[m]].nonce
        BY <1>6, <2>1, <3>2 DEF NonceInv, NonceBehindAddress
      <4>2. CASE From[m] = a
        <5> HIDE DEF j
        <5> QED
          BY <1>3, <1>4, <1>6, <1>8, <3>2, <4>1, <4>2
      <4>3. CASE From[m] # a
        BY <1>4, <4>1, <4>3, ConstantsAssumption
      <4> QED
        BY <4>2, <4>3
    <3> QED
      BY <3>1, <3>2
  <2> QED
    BY <2>1 DEF NonceBehindAddress
<1>10. NonceUnique'
  <2>1. ASSUME NEW m \in MsgId, NEW k \in MsgId, msgs'[m].signed, msgs'[k].signed,
               From[m] = From[k], m # k, m \in SelIds(j)
        PROVE  msgs'[m].nonce # msgs'[k].nonce
    <3>1. CASE k \in SelIds(j)
      <4>1. /\ [id |-> m, nonce |-> msgs'[m].nonce] \in j.sel
            /\ [id |-> k, nonce |-> msgs'[k].nonce] \in j.sel
        BY <1>5, <2>1, <3>1
      <4> DEFINE s == [id |-> m, nonce |-> msgs'[m].nonce]
                 r == [id |-> k, nonce |-> msgs'[k].nonce]
      <4>2. s.nonce = r.nonce => s = r
        BY <1>2, <4>1 DEF SelectionFresh
      <4> QED
        BY <2>1, <4>2
    <3>2. CASE k \notin SelIds(j)
      <4>1. msgs'[k].nonce < addrs[a].nonce
        BY <1>5, <1>6, <2>1, <3>2 DEF NonceInv, NonceBehindAddress
      <4>2. addrs[a].nonce <= msgs'[m].nonce /\ msgs'[m].nonce \in Nat
        BY <1>5, <2>1
      <4>3. msgs'[k].nonce \in Nat
        BY <1>6, <1>8, <3>2
      <4> QED
        BY <1>3, <4>1, <4>2, <4>3
    <3> QED
      BY <3>1, <3>2
  <2>2. ASSUME NEW m \in MsgId, NEW k \in MsgId, msgs'[m].signed, msgs'[k].signed,
               From[m] = From[k], m # k, m \notin SelIds(j), k \notin SelIds(j)
        PROVE  msgs'[m].nonce # msgs'[k].nonce
    BY <1>6, <2>2 DEF NonceInv, NonceUnique
  <2> HIDE DEF j
  <2> QED
    BY <2>1, <2>2 DEF NonceUnique
<1>11. SetJob(t, a, [j EXCEPT !.pc = "push", !.toPush = @ \cup j.sel, !.sel = {}, !.errs = {}, !.want = 0])
  BY DEF SaveSelected
<1>12. (RunsInTask(t, a) /\ SelectsActive(t, a) /\ SnapFresh(t, a) /\ SelectionFresh(t, a))'
  <2>1. jobs'[t][a] = [j EXCEPT !.pc = "push", !.toPush = @ \cup j.sel, !.sel = {}, !.errs = {}, !.want = 0]
    BY <1>11, SetJobEffect DEF TypeOK
  <2>2. jobs'[t][a].pc = "push" /\ jobs'[t][a].sel = {} /\ jobs'[t][a].cand = {}
    BY <1>1, <2>1 DEF JobRec
  <2>3. (RunsInTask(t, a) /\ SelectsActive(t, a) /\ SnapFresh(t, a))'
    BY <1>1, <1>2, <2>2 DEF RunsInTask, SelectsActive, Selecting, SnapActive, SnapFresh
  <2>4. SelectionFresh(t, a)'
    BY <2>2 DEF SelectionFresh
  <2> QED
    BY <2>3, <2>4
<1>13. ASSUME NEW b \in Addr, b # a
       PROVE  (RunsInTask(t, b) /\ SelectsActive(t, b) /\ SnapFresh(t, b) /\ SelectionFresh(t, b))'
  <2>1. jobs'[t][b] = jobs[t][b]
    BY <1>11, <1>13, SetJobEffect DEF TypeOK
  <2> QED
    BY <1>1, <1>4, <1>13, <2>1, OtherJobInv
<1> QED
  BY <1>9, <1>10, <1>12, <1>13 DEF NonceInv, OneTask

LEMMA RestartNonceInv ==
    ASSUME TypeOK, NonceInv, Restart
    PROVE  NonceInv'
<1>1. NonceUnique' /\ NonceBehindAddress'
  BY TablesKept DEF Restart, dbVars, KeepsSigned
<1>2. ASSUME NEW t \in Task, NEW a \in Addr
      PROVE  jobs'[t][a] = NoJob /\ tasks'[t].pc # "snap"
  BY <1>2 DEF Restart, NoTask
<1> QED
  BY <1>1, <1>2, NoJobInv DEF NonceInv

LEMMA InitNonceInv == Init => NonceInv
<1> SUFFICES ASSUME Init PROVE NonceInv
  OBVIOUS
<1>1. NonceUnique /\ NonceBehindAddress
  BY DEF Init, NoMsg, NonceUnique, NonceBehindAddress
<1>2. ASSUME NEW t \in Task, NEW a \in Addr
      PROVE  RunsInTask(t, a) /\ SelectsActive(t, a) /\ SnapFresh(t, a) /\ SelectionFresh(t, a)
  <2>1. jobs[t][a] = NoJob /\ tasks[t].pc = "idle"
    BY DEF Init, NoTask
  <2>2. RunsInTask(t, a) /\ SelectsActive(t, a) /\ SnapFresh(t, a)
    BY <2>1 DEF NoJob, RunsInTask, SelectsActive, Selecting, SnapFresh
  <2>3. SelectionFresh(t, a)
    BY <2>1 DEF NoJob, SelectionFresh
  <2> QED
    BY <2>2, <2>3
<1> QED
  BY <1>1, <1>2 DEF NonceInv

LEMMA JobNonceInv ==
    ASSUME TypeOK, NonceInv, OneTask, NEW t \in Task, NEW a \in Addr, JobStep(t, a)
    PROVE  NonceInv'
<1>1. CASE CheckCtx(t, a) \/ TakeControl(t, a)
  BY <1>1, ControlNonceInv
<1>2. CASE JobFails(t, a) \/ PushSelected(t, a)
  <2>1. jobs[t][a].pc # "none" /\ SetJob(t, a, NoJob) /\ UNCHANGED <<msgs, addrs, tasks>>
    BY <1>2 DEF JobFails, PushSelected, Finish, dbVars
  <2> QED
    BY <2>1, FinishNonceInv
<1>3. CASE Panic(t, a)
  BY <1>3, RestartNonceInv DEF Panic
<1> QED
  BY <1>1, <1>2, <1>3, SyncNonceInv, ListNonceInv, SignNonceInv, SaveNonceInv DEF JobStep

LEMMA NextNonceInv ==
    ASSUME TypeOK, NonceInv, OneTask, NoNonceReset, [Next]_vars
    PROVE  NonceInv'
<1>1. CASE UNCHANGED vars
  BY <1>1, QuietStep DEF vars, KeepsSigned, KeepsNonces
<1>2. CASE Crash
  BY <1>2, RestartNonceInv DEF Crash
<1> QED
  BY <1>1, <1>2, MsgApiNonceInv, RefreshNonceInv, AddrApiNonceInv, ChainNonceInv, TaskNonceInv, JobNonceInv
     DEF Next

(* The invariant of message selection, for selections that do not overlap. *)
THEOREM NonceInvariant ==
    ASSUME OneTask, NoNonceReset
    PROVE  Spec => []NonceInv
<1>1. TypeOK /\ NonceInv /\ [Next]_vars => NonceInv'
  BY NextNonceInv
<1> QED
  BY <1>1, InitNonceInv, TypeCorrect, PTL DEF Spec

(* No two messages of a sender are ever signed under one nonce, whatever crashes, reorgs, failed
   calls and API calls that reset no nonce come in between, provided that selections do not
   overlap. *)
THEOREM NoncesUnique ==
    ASSUME OneTask, NoNonceReset
    PROVE  Spec => []NonceUnique
<1>1. NonceInv => NonceUnique
  BY DEF NonceInv
<1> QED
  BY <1>1, NonceInvariant, PTL

(* Under the same hypotheses, a selection that starts from the address row, after a crash or a
   failure too, starts past every nonce that a signed message of the table carries. *)
THEOREM RowPastNonces ==
    ASSUME OneTask, NoNonceReset
    PROVE  Spec => []NonceBehindAddress
<1>1. NonceInv => NonceBehindAddress
  BY DEF NonceInv
<1> QED
  BY <1>1, NonceInvariant, PTL

-----------------------------------------------------------------------------
(* The nonce of an address never goes back *)

(* What a step may do to an address row. *)
RowMoves(b) ==
    /\ addrs'[b].nonce >= addrs[b].nonce
    /\ addrs'[b].exists \/ addrs'[b] = addrs[b]

LEMMA RowStays ==
    ASSUME TypeOK, NEW b \in Addr, addrs'[b] = addrs[b]
    PROVE  RowMoves(b)
BY DEF RowMoves, TypeOK, AddrRow

LEMMA NextRowMoves ==
    ASSUME TypeOK, NonceInv, AbsentIsZero, NoNonceReset, [Next]_vars, NEW b \in Addr
    PROVE  RowMoves(b)
<1>0. addrs[b] \in AddrRow /\ addrs[b].nonce \in Nat
  BY DEF TypeOK, AddrRow
<1>1. ASSUME NEW m \in MsgId, MsgApi(m) \/ Refresh(m)
      PROVE  RowMoves(b)
  <2>1. CASE PushPrepare(m)
    <3>1. CASE addrs'[b] = addrs[b]
      BY <3>1, RowStays
    <3>2. CASE addrs'[b] # addrs[b]
      <4>1. ~addrs[b].exists /\ addrs'[b] = NewAddr
        BY <2>1, <3>2, ConstantsAssumption DEF PushPrepare, TypeOK
      <4> QED
        BY <4>1 DEF RowMoves, NewAddr, AbsentIsZero
    <3> QED
      BY <3>1, <3>2
  <2>2. CASE ~PushPrepare(m)
    <3>1. addrs' = addrs
      BY <1>1, <2>2 DEF MsgApi, PushCreate, PushFails, MarkBadMessage, RepublishMessage,
                        UpdateMessageStateByID, Refresh, RefreshApply, RefreshRevert, dbVars
    <3> QED
      BY <3>1, RowStays
  <2> QED
    BY <2>1, <2>2
<1>2. ASSUME NEW a \in Addr, AddrApi(a) \/ ChainStep(a)
      PROVE  RowMoves(b)
  <2>1. CASE addrs'[b] = addrs[b]
    BY <2>1, RowStays
  <2>2. CASE addrs'[b] # addrs[b]
    <3>1. addrs[b].exists /\ (UpdateState(b, TRUE) \/ UpdateState(b, FALSE) \/ \E n \in SelNums : SetSelectMsgNum(b, n))
      BY <1>2, <2>2 DEF AddrApi, RecoverFailedMsg, UpdateState, SetSelectMsgNum, UpdateNonce,
                        DeleteAddress, NoNonceReset, ChainStep, ChainExtend, ChainReorg, dbVars, TypeOK
    <3>2. addrs'[b].exists /\ addrs'[b].nonce = addrs[b].nonce
      BY ZenonT(60), <3>1 DEF UpdateState, SetSelectMsgNum, TypeOK, AddrRow
    <3> QED
      BY <1>0, <3>2 DEF RowMoves
  <2> QED
    BY <2>1, <2>2
<1>3. ASSUME NEW t \in Task, TaskStep(t)
      PROVE  RowMoves(b)
  <2>1. addrs' = addrs
    BY <1>3 DEF TaskStep, NewHead, DelayOver, ReadActiveAddrs, LaunchJobs, dbVars
  <2> QED
    BY <2>1, RowStays
<1>4. ASSUME NEW t \in Task, NEW a \in Addr, JobStep(t, a)
      PROVE  RowMoves(b)
  <2>1. CASE addrs'[b] = addrs[b]
    BY <2>1, RowStays
  <2>2. CASE SyncNonce(t, a) /\ b = a
    <3>1. addrs'[a].exists /\ addrs[a].nonce <= addrs'[a].nonce
      BY <2>2, SyncMovesForward
    <3>2. addrs'[a].nonce \in Nat
      <4>1. TypeOK'
        BY <2>2, TypeNext DEF Next, JobStep
      <4> QED
        BY <4>1 DEF TypeOK, AddrRow
    <3> QED
      BY <1>0, <2>2, <3>1, <3>2 DEF RowMoves
  <2>3. CASE SaveSelected(t, a) /\ b = a /\ addrs'[b] # addrs[b]
    <3>1. addrs' = [addrs EXCEPT ![a].nonce = jobs[t][a].nonce] /\ addrs[a].exists /\ jobs[t][a].pc = "sign"
      BY <2>3 DEF SaveSelected
    <3>2. addrs[a].nonce <= jobs[t][a].nonce
      BY <3>1 DEF NonceInv, SelectionFresh
    <3>3. addrs'[a].nonce = jobs[t][a].nonce /\ addrs'[a].exists /\ jobs[t][a].nonce \in Nat
      BY <3>1 DEF TypeOK, AddrRow, JobRec
    <3> QED
      BY <1>0, <2>3, <3>2, <3>3 DEF RowMoves
  <2>4. CASE SyncNonce(t, a) /\ b # a
    BY <2>4, SyncMovesForward, RowStays
  <2>5. CASE SaveSelected(t, a) /\ b # a
    <3>1. addrs'[b] = addrs[b]
      BY <2>5 DEF SaveSelected, TypeOK
    <3> QED
      BY <3>1, RowStays
  <2>6. CASE ~SyncNonce(t, a) /\ ~SaveSelected(t, a)
    <3>1. addrs' = addrs
      BY <1>4, <2>6 DEF JobStep, CheckCtx, TakeControl, JobFails, ListCandidates, SignCandidate, PushSelected,
                        Panic, Restart, dbVars
    <3> QED
      BY <3>1, RowStays
  <2> QED
    BY <2>1, <2>2, <2>3, <2>4, <2>5, <2>6
<1>5. CASE Crash \/ UNCHANGED vars
  BY <1>5, RowStays DEF Crash, Restart, dbVars, vars
<1> QED
  BY <1>1, <1>2, <1>3, <1>4, <1>5 DEF Next

LEMMA AbsentAlways ==
    ASSUME OneTask, NoNonceReset
    PROVE  Spec => []AbsentIsZero
<1>1. Init => AbsentIsZero
  BY DEF Init, AbsentIsZero, NoAddr
<1>2. TypeOK /\ NonceInv /\ AbsentIsZero /\ [Next]_vars => AbsentIsZero'
  BY NextRowMoves DEF AbsentIsZero, RowMoves
<1> QED
  BY <1>1, <1>2, TypeCorrect, NonceInvariant, PTL DEF Spec

(* The nonce of an address never goes back, whatever chain reorgs, foreign messages, crashes
   and API calls that do not reset it do, provided that selections do not overlap. *)
THEOREM NonceMonotone ==
    ASSUME OneTask, NoNonceReset
    PROVE  Spec => NonceNeverBack
<1>1. TypeOK /\ NonceInv /\ AbsentIsZero /\ [Next]_vars
        => [\A a \in Addr : addrs'[a].nonce >= addrs[a].nonce]_vars
  BY NextRowMoves DEF RowMoves
<1> QED
  BY <1>1, TypeCorrect, NonceInvariant, AbsentAlways, PTL DEF Spec, NonceNeverBack
=============================================================================
