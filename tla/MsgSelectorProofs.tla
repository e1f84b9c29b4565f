------------------------- MODULE MsgSelectorProofs -------------------------
(***************************************************************************)
(* Theorems about MsgSelector, for all values of its constants.            *)
(***************************************************************************)
EXTENDS MsgSelector, Integers, TLAPS

-----------------------------------------------------------------------------
(* What updating one field of a row, a task or a goroutine preserves *)

LEMMA RecordTypes ==
    /\ NoMsg \in MsgRow /\ NewMsg \in MsgRow
    /\ NoAddr \in AddrRow /\ NewAddr \in AddrRow
    /\ NoTask \in TaskRec
    /\ NoJob \in JobRec
BY DEF NoMsg, NewMsg, MsgRow, MsgState, NoAddr, NewAddr, AddrRow, NoTask, TaskRec, TaskPc, NoJob, JobRec, JobPc

LEMMA MsgRowUpdate ==
    ASSUME NEW r \in MsgRow, NEW s \in MsgState
    PROVE  [r EXCEPT !.state = s] \in MsgRow /\ [r EXCEPT !.err = TRUE] \in MsgRow
BY DEF MsgRow

LEMMA MsgStateUpdate ==
    ASSUME msgs \in [MsgId -> MsgRow], NEW m \in MsgId, NEW s \in MsgState
    PROVE  [msgs EXCEPT ![m].state = s] \in [MsgId -> MsgRow]
BY MsgRowUpdate

LEMMA AddrRowUpdate ==
    ASSUME NEW r \in AddrRow, NEW b \in BOOLEAN, NEW n \in Nat
    PROVE  /\ [r EXCEPT !.alive = b] \in AddrRow
           /\ [r EXCEPT !.nonce = n] \in AddrRow
           /\ [r EXCEPT !.selNum = n] \in AddrRow
BY DEF AddrRow

LEMMA TaskPcUpdate ==
    ASSUME tasks \in [Task -> TaskRec], NEW t \in Task, NEW p \in TaskPc
    PROVE  [tasks EXCEPT ![t].pc = p] \in [Task -> TaskRec]
<1>1. \A r \in TaskRec : [r EXCEPT !.pc = p] \in TaskRec
  BY DEF TaskRec
<1> QED
  BY <1>1

(* A step of the goroutine of t and a replaces that goroutine's record and no other. *)
LEMMA SetJobType ==
    ASSUME jobs \in [Task -> [Addr -> JobRec]], NEW t \in Task, NEW a \in Addr,
           NEW j \in JobRec, SetJob(t, a, j)
    PROVE  jobs' \in [Task -> [Addr -> JobRec]]
BY DEF SetJob

LEMMA SetJobEffect ==
    ASSUME jobs \in [Task -> [Addr -> JobRec]], NEW t \in Task, NEW a \in Addr,
           NEW j, SetJob(t, a, j)
    PROVE  /\ jobs'[t][a] = j
           /\ \A u \in Task, b \in Addr : (u # t \/ b # a) => jobs'[u][b] = jobs[u][b]
BY DEF SetJob

-----------------------------------------------------------------------------
(* Type correctness, one lemma per group of actions *)

LEMMA TypeMsgApi ==
    ASSUME TypeOK, NEW m \in MsgId, MsgApi(m)
    PROVE  TypeOK'
<1> USE DEF TypeOK, workVars, dbVars
<1>1. CASE PushPrepare(m)
  BY <1>1, ConstantsAssumption, RecordTypes DEF PushPrepare
<1>2. CASE PushCreate(m)
  BY <1>2, RecordTypes DEF PushCreate
<1>3. CASE PushFails(m)
  BY <1>3 DEF PushFails
<1>4. CASE MarkBadMessage(m)
  <2>1. msgs' \in [MsgId -> MsgRow]
    BY <1>4, MsgStateUpdate DEF MarkBadMessage, MsgState
  <2> QED
    BY <1>4, <2>1 DEF MarkBadMessage
<1>5. CASE RepublishMessage(m)
  BY <1>5 DEF RepublishMessage, AsSigned, Signed, MsgRow
<1>6. ASSUME NEW s \in MsgState, UpdateMessageStateByID(m, s)
      PROVE  TypeOK'
  <2>1. msgs' \in [MsgId -> MsgRow]
    BY <1>6, MsgStateUpdate DEF UpdateMessageStateByID
  <2> QED
    BY <1>6, <2>1 DEF UpdateMessageStateByID
<1> QED
  BY <1>1, <1>2, <1>3, <1>4, <1>5, <1>6 DEF MsgApi

LEMMA TypeAddrApi ==
    ASSUME TypeOK, NEW a \in Addr, AddrApi(a)
    PROVE  TypeOK'
<1> USE DEF TypeOK, workVars, dbVars
<1>1. CASE RecoverFailedMsg(a)
  <2>1. msgs' \in [MsgId -> MsgRow]
    BY <1>1, MsgRowUpdate DEF RecoverFailedMsg, MsgState
  <2> QED
    BY <1>1, <2>1 DEF RecoverFailedMsg
<1>2. ASSUME NEW alive \in BOOLEAN, UpdateState(a, alive)
      PROVE  TypeOK'
  <2>1. addrs' \in [Addr -> AddrRow]
    BY <1>2, AddrRowUpdate DEF UpdateState
  <2> QED
    BY <1>2, <2>1 DEF UpdateState
<1>3. ASSUME NEW n \in SelNums, SetSelectMsgNum(a, n)
      PROVE  TypeOK'
  <2>1. addrs' \in [Addr -> AddrRow]
    BY <1>3, AddrRowUpdate, ConstantsAssumption DEF SetSelectMsgNum
  <2> QED
    BY <1>3, <2>1 DEF SetSelectMsgNum
<1>4. ASSUME NEW n \in 0..MaxChain, UpdateNonce(a, n)
      PROVE  TypeOK'
  <2>0. n \in Nat
    BY ConstantsAssumption
  <2>1. addrs' \in [Addr -> AddrRow]
    BY <1>4, <2>0, AddrRowUpdate DEF UpdateNonce
  <2> QED
    BY <1>4, <2>1 DEF UpdateNonce
<1>5. CASE DeleteAddress(a)
  BY <1>5, RecordTypes DEF DeleteAddress
<1> QED
  BY <1>1, <1>2, <1>3, <1>4, <1>5 DEF AddrApi

LEMMA TypeChain ==
    ASSUME TypeOK, NEW a \in Addr, ChainStep(a)
    PROVE  TypeOK'
<1> USE DEF TypeOK, workVars, dbVars
<1>1. ASSUME NEW occupant \in MsgId \cup {Foreign}, ChainExtend(a, occupant)
      PROVE  TypeOK'
  BY <1>1 DEF ChainExtend
<1>2. CASE ChainReorg(a)
  <2>1. SubSeq(chain[a], 1, Len(chain[a]) - 1) \in Seq(MsgId \cup {Foreign})
    BY <1>2 DEF ChainReorg, ChainNonce
  <2> QED
    BY <1>2, <2>1 DEF ChainReorg
<1> QED
  BY <1>1, <1>2 DEF ChainStep

(* The state refresh changes nothing but the state of one row. *)
LEMMA RefreshOneState ==
    ASSUME NEW m \in MsgId, Refresh(m)
    PROVE  \/ msgs' = msgs
           \/ \E k \in MsgId, s \in MsgState : msgs' = [msgs EXCEPT ![k].state = s]
<1>1. CASE RefreshApply(m)
  BY <1>1 DEF RefreshApply, MsgState
<1>2. CASE RefreshRevert(m)
  BY <1>2 DEF RefreshRevert, MsgState
<1> QED
  BY <1>1, <1>2 DEF Refresh

LEMMA TypeRefresh ==
    ASSUME TypeOK, NEW m \in MsgId, Refresh(m)
    PROVE  TypeOK'
<1>1. msgs' \in [MsgId -> MsgRow]
  <2>1. CASE msgs' = msgs
    BY <2>1 DEF TypeOK
  <2>2. ASSUME NEW k \in MsgId, NEW s \in MsgState, msgs' = [msgs EXCEPT ![k].state = s]
        PROVE  msgs' \in [MsgId -> MsgRow]
    BY <2>2, MsgStateUpdate DEF TypeOK
  <2> QED
    BY <2>1, <2>2, RefreshOneState
<1> QED
  BY <1>1 DEF TypeOK, workVars, Refresh, RefreshApply, RefreshRevert

LEMMA TypeTask ==
    ASSUME TypeOK, NEW t \in Task, TaskStep(t)
    PROVE  TypeOK'
<1> USE DEF TypeOK, workVars, dbVars
<1>1. CASE NewHead(t)
  <2>1. [a \in Addr |-> ChainNonce(a)] \in [Addr -> Nat]
    BY DEF ChainNonce
  <2>2. [NoTask EXCEPT !.pc = "waiting", !.ts = [a \in Addr |-> ChainNonce(a)]] \in TaskRec
    BY <2>1, RecordTypes DEF TaskRec, TaskPc
  <2>3. tasks' \in [Task -> TaskRec]
    BY <1>1, <2>2, RecordTypes DEF NewHead
  <2> QED
    BY <1>1, <2>3 DEF NewHead
<1>2. CASE DelayOver(t)
  <2>1. msgs' \in [MsgId -> MsgRow]
    BY ZenonT(60), <1>2, MsgRowUpdate DEF DelayOver, MsgState
  <2>2. tasks' \in [Task -> TaskRec]
    BY <1>2, TaskPcUpdate DEF DelayOver, TaskPc
  <2> QED
    BY <1>2, <2>1, <2>2 DEF DelayOver
<1>3. CASE ReadActiveAddrs(t)
  <2>1. [tasks[t] EXCEPT !.pc = "snap", !.snap = addrs] \in TaskRec
    BY ZenonT(60) DEF TaskRec, TaskPc
  <2>2. tasks' \in [Task -> TaskRec]
    BY <1>3, <2>1, RecordTypes DEF ReadActiveAddrs
  <2> QED
    BY <1>3, <2>2 DEF ReadActiveAddrs
<1>4. CASE LaunchJobs(t)
  <2>1. PICK ws \in [Addr -> Gen \cup {NoWork}] :
          /\ TryUpdateWorks(t, ws)
          /\ \/ /\ tasks' = [tasks EXCEPT ![t].pc = "running"]
                /\ jobs' = [jobs EXCEPT ![t] = [a \in Addr |->
                      IF ws[a] = NoWork THEN NoJob ELSE [NoJob EXCEPT !.pc = "spawned", !.work = ws[a]]]]
             \/ tasks' = [tasks EXCEPT ![t] = NoTask] /\ jobs' = jobs
    BY <1>4 DEF LaunchJobs
  <2>2. works' \in [Addr -> Gen \cup {NoWork}] /\ full' \subseteq WorkRef /\ closed' \subseteq WorkRef
    <3>1. \A a \in Removable(t) : <<a, works[a]>> \in WorkRef
      BY DEF Removable, WorkRef
    <3>2. {<<a, works[a]>> : a \in Removable(t)} \subseteq WorkRef
      BY <3>1
    <3> HIDE DEF TypeOK
    <3>3. works' = ws
      BY <2>1 DEF TryUpdateWorks
    <3>4. full' \subseteq full \cup {<<a, works[a]>> : a \in Removable(t)}
      BY <2>1 DEF TryUpdateWorks
    <3>5. closed' \subseteq closed \cup {<<a, works[a]>> : a \in Removable(t)}
      BY <2>1 DEF TryUpdateWorks
    <3> QED
      BY <3>2, <3>3, <3>4, <3>5 DEF TypeOK
  <2>3. tasks' \in [Task -> TaskRec]
    BY ZenonT(60), <2>1, TaskPcUpdate, RecordTypes DEF TaskPc
  <2>4. \A g \in Gen : [NoJob EXCEPT !.pc = "spawned", !.work = g] \in JobRec
    BY RecordTypes DEF JobRec, JobPc
  <2>5. jobs' \in [Task -> [Addr -> JobRec]]
    <3>1. [a \in Addr |-> IF ws[a] = NoWork THEN NoJob
                          ELSE [NoJob EXCEPT !.pc = "spawned", !.work = ws[a]]] \in [Addr -> JobRec]
      BY <2>4, RecordTypes
    <3> QED
      BY <2>1, <3>1
  <2> QED
    BY <1>4, <2>2, <2>3, <2>5 DEF LaunchJobs
<1> QED
  BY <1>1, <1>2, <1>3, <1>4 DEF TaskStep
LEMMA MaxMessageNonceType ==
    ASSUME TypeOK, NEW a \in Addr
    PROVE  MaxMessageNonceFromDB(a) \subseteq Nat
<1>1. ASSUME NEW S \in SUBSET MsgId
      PROVE  MaxNonceOf(S) \subseteq Nat
  BY <1>1 DEF MaxNonceOf, TypeOK, MsgRow
<1>2. InState(a, "Fill") \in SUBSET MsgId /\ InState(a, "OnChain") \in SUBSET MsgId
  BY DEF InState
<1> QED
  BY <1>1, <1>2 DEF MaxMessageNonceFromDB

LEMMA SavedMsgsType ==
    ASSUME TypeOK, NEW j \in JobRec
    PROVE  SavedMsgs(j) \in [MsgId -> MsgRow]
<1>1. ASSUME NEW m \in SelIds(j)
      PROVE  (CHOOSE s \in j.sel : s.id = m).nonce \in Nat
  <2>1. \E s \in j.sel : s.id = m
    BY DEF SelIds
  <2>2. (CHOOSE s \in j.sel : s.id = m) \in j.sel
    BY <2>1
  <2> QED
    BY <2>2 DEF JobRec, Signed
<1>2. ASSUME NEW n \in Nat
      PROVE  [state |-> "Fill", nonce |-> n, signed |-> TRUE, err |-> FALSE] \in MsgRow
  BY DEF MsgRow, MsgState
<1>3. ASSUME NEW m \in MsgId
      PROVE  [msgs[m] EXCEPT !.err = TRUE] \in MsgRow /\ msgs[m] \in MsgRow
  BY MsgRowUpdate DEF TypeOK, MsgState
<1> QED
  BY <1>1, <1>2, <1>3 DEF SavedMsgs

LEMMA FinishType ==
    ASSUME TypeOK, NEW t \in Task, NEW a \in Addr, Finish(t, a)
    PROVE  jobs' \in [Task -> [Addr -> JobRec]] /\ full' \subseteq WorkRef
BY RecordTypes, SetJobType DEF Finish, TypeOK

LEMMA TypeJob ==
    ASSUME TypeOK, NEW t \in Task, NEW a \in Addr, JobStep(t, a), ~Restart
    PROVE  TypeOK'
<1> USE DEF TypeOK, workVars, dbVars
<1>j. jobs[t][a] \in JobRec /\ tasks[t] \in TaskRec
  OBVIOUS
<1>1. CASE CheckCtx(t, a)
  <2>1. [jobs[t][a] EXCEPT !.pc = "checked"] \in JobRec
    BY <1>j DEF JobRec, JobPc
  <2>2. jobs' \in [Task -> [Addr -> JobRec]]
    BY <1>1, <2>1, RecordTypes, SetJobType DEF CheckCtx
  <2> QED
    BY <1>1, <2>2 DEF CheckCtx
<1>2. CASE TakeControl(t, a)
  <2>1. [jobs[t][a] EXCEPT !.pc = "nonce"] \in JobRec
    BY <1>j DEF JobRec, JobPc
  <2>2. jobs' \in [Task -> [Addr -> JobRec]]
    BY <1>2, <2>1, RecordTypes, SetJobType DEF TakeControl
  <2>3. full' \subseteq WorkRef
    BY <1>2, <1>j DEF TakeControl, WorkOf, WorkRef, JobRec
  <2> QED
    BY <1>2, <2>2, <2>3 DEF TakeControl
<1>3. CASE JobFails(t, a)
  BY <1>3, FinishType DEF JobFails
<1>4. CASE SyncNonce(t, a)
  <2>1. \A n \in Nat : [jobs[t][a] EXCEPT !.pc = "list", !.nonce = n] \in JobRec
    BY <1>j DEF JobRec, JobPc
  <2>2. tasks[t].ts[a] \in Nat /\ tasks[t].snap[a] \in AddrRow /\ tasks[t].snap[a].nonce \in Nat
    BY <1>j DEF TaskRec, AddrRow
  <2>3. CASE tasks[t].ts[a] <= tasks[t].snap[a].nonce
    <3>0. ~(tasks[t].ts[a] > tasks[t].snap[a].nonce)
      BY <2>2, <2>3
    <3>1. addrs' = addrs /\ SetJob(t, a, [jobs[t][a] EXCEPT !.pc = "list", !.nonce = tasks[t].snap[a].nonce])
      BY <1>4, <3>0, Zenon DEF SyncNonce
    <3>2. jobs' \in [Task -> [Addr -> JobRec]]
      BY ZenonT(60), <3>1, <2>1, <2>2, SetJobType
    <3> QED
      BY <1>4, <3>1, <3>2 DEF SyncNonce
  <2>4. CASE tasks[t].ts[a] > tasks[t].snap[a].nonce
    <3>0. ~(tasks[t].ts[a] <= tasks[t].snap[a].nonce)
      BY <2>2, <2>4
    <3>1. PICK k \in MaxMessageNonceFromDB(a) :
            LET n == IF k > tasks[t].ts[a] THEN k + 1 ELSE tasks[t].ts[a]
            IN  /\ addrs' = [addrs EXCEPT ![a] = [tasks[t].snap[a] EXCEPT !.nonce = n]]
                /\ SetJob(t, a, [jobs[t][a] EXCEPT !.pc = "list", !.nonce = n])
      BY <1>4, <3>0, Zenon DEF SyncNonce
    <3> DEFINE n == IF k > tasks[t].ts[a] THEN k + 1 ELSE tasks[t].ts[a]
    <3>2. n \in Nat
      BY <2>2, MaxMessageNonceType
    <3>3. addrs' \in [Addr -> AddrRow]
      BY <3>1, <3>2, <2>2, AddrRowUpdate
    <3>4. jobs' \in [Task -> [Addr -> JobRec]]
      BY <3>1, <3>2, <2>1, SetJobType
    <3> QED
      BY <1>4, <3>3, <3>4 DEF SyncNonce
  <2> QED
    BY <2>2, <2>3, <2>4
<1>5. CASE ListCandidates(t, a)
  <2>1. FilledFrom(a, tasks[t].ts[a]) \subseteq Signed
    BY DEF FilledFrom, AsSigned, Signed, InState, MsgRow
  <2>2. \A S \in SUBSET Signed : [jobs[t][a] EXCEPT !.pc = "push", !.toPush = S] \in JobRec
    BY <1>j DEF JobRec, JobPc
  <2>3. \A S \in SUBSET Signed, n \in Nat, C \in SUBSET MsgId :
          [jobs[t][a] EXCEPT !.pc = "sign", !.toPush = S, !.want = n, !.cand = C] \in JobRec
    BY <1>j DEF JobRec, JobPc
  <2> DEFINE gap == jobs[t][a].nonce - tasks[t].ts[a]
             max == PendingMax(t, a)
  <2>4. gap \in Int /\ max \in Nat
    BY SMTT(60), <1>j, ConstantsAssumption DEF PendingMax, AddrSelectMsgNum, TaskRec, AddrRow, JobRec
  <2>5. \A n : ListUnChain(a, n) \subseteq MsgId
    BY DEF ListUnChain, InState
  <2>6. PICK S \in {{}, FilledFrom(a, tasks[t].ts[a])} :
          \/ SetJob(t, a, [jobs[t][a] EXCEPT !.pc = "push", !.toPush = S])
          \/ /\ gap < max
             /\ \E C \in SUBSET ListUnChain(a, AtMost(max - gap, SelectLimit)) :
                   SetJob(t, a, [jobs[t][a] EXCEPT !.pc = "sign", !.toPush = S, !.want = max - gap, !.cand = C])
    BY ZenonT(60), <1>5 DEF ListCandidates, EstimateMessage
  <2>7. jobs' \in [Task -> [Addr -> JobRec]]
    <3>1. S \in SUBSET Signed
      BY <2>1
    <3>2. CASE SetJob(t, a, [jobs[t][a] EXCEPT !.pc = "push", !.toPush = S])
      BY <3>1, <3>2, <2>2, SetJobType
    <3>3. ASSUME NEW C \in SUBSET ListUnChain(a, AtMost(max - gap, SelectLimit)), gap < max,
                 SetJob(t, a, [jobs[t][a] EXCEPT !.pc = "sign", !.toPush = S, !.want = max - gap, !.cand = C])
          PROVE  jobs' \in [Task -> [Addr -> JobRec]]
      <4>1. max - gap \in Nat /\ C \in SUBSET MsgId
        BY <3>3, <2>4, <2>5
      <4> HIDE DEF gap, max
      <4> QED
        BY <3>1, <3>3, <4>1, <2>3, SetJobType
    <3> QED
      BY <2>6, <3>2, <3>3
  <2> QED
    BY <1>5, <2>7 DEF ListCandidates, EstimateMessage
<1>6. CASE SignCandidate(t, a)
  <2> DEFINE j == jobs[t][a]
  <2>1. PICK m \in j.cand :
          \/ SetJob(t, a, [j EXCEPT !.cand = @ \ {m}, !.errs = @ \cup {m}])
          \/ SetJob(t, a, [j EXCEPT !.cand = {}])
          \/ SetJob(t, a, [j EXCEPT !.cand = @ \ {m}])
          \/ SetJob(t, a, [j EXCEPT !.cand = {}, !.errs = @ \cup {m}])
          \/ /\ j.want > 0
             /\ SetJob(t, a, [j EXCEPT !.cand = @ \ {m}, !.nonce = @ + 1, !.want = @ - 1,
                                       !.sel = @ \cup {[id |-> m, nonce |-> j.nonce]}])
    BY <1>6 DEF SignCandidate
  <2>2. m \in MsgId
    BY <1>j DEF JobRec
  <2>3. /\ [j EXCEPT !.cand = @ \ {m}, !.errs = @ \cup {m}] \in JobRec
        /\ [j EXCEPT !.cand = {}] \in JobRec
        /\ [j EXCEPT !.cand = @ \ {m}] \in JobRec
        /\ [j EXCEPT !.cand = {}, !.errs = @ \cup {m}] \in JobRec
    BY <1>j, <2>2 DEF JobRec
  <2>4. j.want > 0 => [j EXCEPT !.cand = @ \ {m}, !.nonce = @ + 1, !.want = @ - 1,
                                !.sel = @ \cup {[id |-> m, nonce |-> j.nonce]}] \in JobRec
    <3>1. ASSUME NEW C \in SUBSET MsgId, NEW n \in Nat, NEW w \in Nat, NEW S \in SUBSET Signed
          PROVE  [j EXCEPT !.cand = C, !.nonce = n, !.want = w, !.sel = S] \in JobRec
      BY <1>j DEF JobRec
    <3>2. j.cand \ {m} \in SUBSET MsgId /\ j.nonce + 1 \in Nat
      BY <1>j DEF JobRec
    <3>3. j.want > 0 => j.want - 1 \in Nat
      BY <1>j DEF JobRec
    <3>4. j.sel \cup {[id |-> m, nonce |-> j.nonce]} \in SUBSET Signed
      BY <1>j, <2>2 DEF JobRec, Signed
    <3> HIDE DEF j
    <3> QED
      BY <3>1, <3>2, <3>3, <3>4
  <2>5. jobs' \in [Task -> [Addr -> JobRec]]
    <3> HIDE DEF j
    <3> QED
      BY <2>1, <2>3, <2>4, SetJobType
  <2> QED
    BY <1>6, <2>5 DEF SignCandidate
<1>7. CASE SaveSelected(t, a)
  <2> DEFINE j == jobs[t][a]
  <2>1. msgs' \in [MsgId -> MsgRow]
    BY <1>7, <1>j, SavedMsgsType DEF SaveSelected
  <2>2. addrs' \in [Addr -> AddrRow]
    <3>1. j.nonce \in Nat
      BY <1>j DEF JobRec
    <3> QED
      BY <1>7, <3>1, AddrRowUpdate DEF SaveSelected
  <2>3. [j EXCEPT !.pc = "push", !.toPush = @ \cup j.sel, !.sel = {}, !.errs = {}, !.want = 0] \in JobRec
    BY <1>j DEF JobRec, JobPc
  <2>4. jobs' \in [Task -> [Addr -> JobRec]]
    BY <1>7, <2>3, SetJobType DEF SaveSelected
  <2> QED
    BY <1>7, <2>1, <2>2, <2>4 DEF SaveSelected
<1>8. CASE PushSelected(t, a)
  BY <1>8, FinishType, <1>j DEF PushSelected, JobRec
<1>9. CASE Panic(t, a)
  BY <1>9 DEF Panic
<1> QED
  BY <1>1, <1>2, <1>3, <1>4, <1>5, <1>6, <1>7, <1>8, <1>9 DEF JobStep

LEMMA TypeRestart ==
    ASSUME TypeOK, Restart
    PROVE  TypeOK'
<1>1. works' \in [Addr -> Gen \cup {NoWork}]
  BY DEF Restart
<1>2. tasks' \in [Task -> TaskRec] /\ jobs' \in [Task -> [Addr -> JobRec]]
  BY RecordTypes DEF Restart
<1> QED
  BY <1>1, <1>2 DEF TypeOK, Restart, dbVars

LEMMA TypeInit == Init => TypeOK
<1> SUFFICES ASSUME Init PROVE TypeOK
  OBVIOUS
<1>1. chain \in [Addr -> Seq(MsgId \cup {Foreign})]
  BY DEF Init
<1>2. tasks \in [Task -> TaskRec] /\ jobs \in [Task -> [Addr -> JobRec]]
  BY RecordTypes DEF Init
<1>3. msgs \in [MsgId -> MsgRow] /\ addrs \in [Addr -> AddrRow]
  BY RecordTypes DEF Init
<1> QED
  BY <1>1, <1>2, <1>3 DEF Init, TypeOK

LEMMA TypeNext == TypeOK /\ [Next]_vars => TypeOK'
<1> SUFFICES ASSUME TypeOK, [Next]_vars PROVE TypeOK'
  OBVIOUS
<1>1. CASE UNCHANGED vars
  BY <1>1 DEF vars, TypeOK
<1>2. CASE Restart
  BY <1>2, TypeRestart
<1>3. CASE Next /\ ~Restart
  BY <1>3, TypeMsgApi, TypeAddrApi, TypeChain, TypeRefresh, TypeTask, TypeJob DEF Next, Crash
<1> QED
  BY <1>1, <1>2, <1>3

(* Every reachable state is well typed, for any number of senders, messages, goroutines and
   works, whatever the API calls, the chain, crashes and overlapping selections do; in
   particular no nonce and no number of wanted messages is ever below zero. *)
THEOREM TypeCorrect == Spec => []TypeOK
BY TypeInit, TypeNext, PTL DEF Spec
=============================================================================
