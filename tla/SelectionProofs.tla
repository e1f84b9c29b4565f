-------------------------- MODULE SelectionProofs --------------------------
(***************************************************************************)
(* The pending window of message selection: a selection never gives out    *)
(* more nonces than the window of its address allows, counted from the     *)
(* chain nonce of its tipset, however many selections overlap.             *)
(*                                                                         *)
(* The control token: at most one goroutine selects for an address,        *)
(* however many calls of SelectMessage overlap and however often its work  *)
(* is closed and created again.                                            *)
(***************************************************************************)
EXTENDS MsgSelectorProofs

-----------------------------------------------------------------------------
(* The pending window *)

(* What the window depends on. *)
LEMMA WindowKept ==
    ASSUME NEW t \in Task, NEW a \in Addr, WindowOf(t, a),
           jobs'[t][a] = jobs[t][a], tasks'[t] = tasks[t]
    PROVE  WindowOf(t, a)'
BY DEF WindowOf, RunsInTask, PendingMax, AddrSelectMsgNum

(* A goroutine that does not exist. *)
LEMMA WindowNoJob ==
    ASSUME NEW t \in Task, NEW a \in Addr, jobs'[t][a] = NoJob
    PROVE  WindowOf(t, a)'
BY DEF WindowOf, RunsInTask, NoJob

(* No goroutine runs for a task that is not running. *)
LEMMA WindowIdle ==
    ASSUME NEW t \in Task, NEW a \in Addr, WindowOf(t, a), jobs[t][a].pc = "none",
           jobs'[t][a] = jobs[t][a]
    PROVE  WindowOf(t, a)'
BY DEF WindowOf, RunsInTask

-----------------------------------------------------------------------------

LEMMA WindowTask ==
    ASSUME TypeOK, WindowInv, NEW u \in Task, TaskStep(u)
    PROVE  WindowInv'
<1> SUFFICES ASSUME NEW t \in Task, NEW a \in Addr PROVE WindowOf(t, a)'
  BY DEF WindowInv
<1>w. WindowOf(t, a)
  BY DEF WindowInv
<1>1. CASE NewHead(u)
  <2>1. jobs' = jobs
    BY <1>1 DEF NewHead
  <2>2. CASE tasks'[t] = tasks[t]
    BY <1>w, <2>1, <2>2, WindowKept
  <2>3. CASE tasks'[t] # tasks[t]
    <3>1. jobs[t][a].pc = "none"
      BY <1>1, <1>w, <2>3 DEF NewHead, JobsDone, WindowOf, RunsInTask
    <3> QED
      BY <1>w, <2>1, <3>1, WindowIdle
  <2> QED
    BY <2>2, <2>3
<1>2. CASE DelayOver(u) \/ ReadActiveAddrs(u)
  <2>1. jobs' = jobs /\ tasks[u].pc # "running" /\ (t # u => tasks'[t] = tasks[t])
    BY <1>2 DEF DelayOver, ReadActiveAddrs, TypeOK
  <2>2. CASE t # u
    BY <1>w, <2>1, <2>2, WindowKept
  <2>3. CASE t = u
    BY <1>w, <2>1, <2>3, WindowIdle DEF WindowOf, RunsInTask
  <2> QED
    BY <2>2, <2>3
<1>3. CASE LaunchJobs(u)
  <2>1. PICK ws \in [Addr -> Gen \cup {NoWork}] :
          \/ /\ tasks' = [tasks EXCEPT ![u].pc = "running"]
             /\ jobs' = [jobs EXCEPT ![u] = [b \in Addr |->
                   IF ws[b] = NoWork THEN NoJob ELSE [NoJob EXCEPT !.pc = "spawned", !.work = ws[b]]]]
          \/ tasks' = [tasks EXCEPT ![u] = NoTask] /\ jobs' = jobs
    BY <1>3 DEF LaunchJobs
  <2>2. CASE t # u
    BY ZenonT(60), <1>w, <2>1, <2>2, WindowKept DEF TypeOK
  <2>3. CASE t = u /\ jobs' = jobs
    BY <1>3, <1>w, <2>3, WindowIdle DEF LaunchJobs, WindowOf, RunsInTask
  <2>4. CASE t = u /\ jobs' # jobs
    <3>1. tasks'[t].pc = "running"
      BY ZenonT(60), <2>1, <2>4 DEF TypeOK, TaskRec
    <3>2. jobs'[t] = [b \in Addr |->
              IF ws[b] = NoWork THEN NoJob ELSE [NoJob EXCEPT !.pc = "spawned", !.work = ws[b]]]
      BY <2>1, <2>4 DEF TypeOK
    <3>3. [NoJob EXCEPT !.pc = "spawned", !.work = ws[a]].pc = "spawned"
      BY DEF NoJob
    <3>4. [NoJob EXCEPT !.pc = "spawned", !.work = ws[a]].sel = {}
      BY DEF NoJob
    <3>5. jobs'[t][a] = NoJob \/ (jobs'[t][a].pc = "spawned" /\ jobs'[t][a].sel = {})
      BY <3>2, <3>3, <3>4
    <3> QED
      BY <3>1, <3>5, WindowNoJob DEF WindowOf, RunsInTask
  <2> QED
    BY <2>2, <2>3, <2>4
<1> QED
  BY <1>1, <1>2, <1>3 DEF TaskStep

LEMMA WindowJob ==
    ASSUME TypeOK, WindowInv, NEW u \in Task, NEW b \in Addr, JobStep(u, b), ~Restart
    PROVE  WindowInv'
<1> SUFFICES ASSUME NEW t \in Task, NEW a \in Addr PROVE WindowOf(t, a)'
  BY DEF WindowInv
<1> DEFINE j == jobs[u][b]
<1>w. WindowOf(t, a) /\ WindowOf(u, b)
  BY DEF WindowInv
<1>t. tasks' = tasks
  BY DEF JobStep, CheckCtx, TakeControl, JobFails, SyncNonce, ListCandidates, SignCandidate, SaveSelected,
         PushSelected, Panic
<1>j. j \in JobRec /\ tasks[u].ts[b] \in Nat /\ PendingMax(u, b) \in Nat
  <2>1. j \in JobRec /\ tasks[u] \in TaskRec
    BY DEF TypeOK
  <2>2. tasks[u].ts[b] \in Nat /\ tasks[u].snap[b] \in AddrRow
    BY <2>1 DEF TaskRec
  <2> QED
    BY <2>1, <2>2, ConstantsAssumption DEF AddrRow, PendingMax, AddrSelectMsgNum
<1>o. ASSUME NEW k, SetJob(u, b, k), t # u \/ a # b
      PROVE  WindowOf(t, a)'
  <2>1. jobs'[t][a] = jobs[t][a]
    BY <1>o, SetJobEffect DEF TypeOK
  <2> QED
    BY <1>t, <1>w, <2>1, WindowKept
<1>n. ASSUME SetJob(u, b, NoJob), t = u, a = b
      PROVE  WindowOf(t, a)'
  <2>1. jobs'[t][a] = NoJob
    BY <1>n, SetJobEffect DEF TypeOK
  <2> QED
    BY <2>1, WindowNoJob
<1>k. ASSUME NEW k, SetJob(u, b, k), t = u, a = b, j.pc # "none",
             k.pc # "sign" => k.sel = {},
             k.pc = "list" => tasks[u].ts[b] <= k.nonce,
             k.pc = "sign" => k.nonce + k.want = tasks[u].ts[b] + PendingMax(u, b)
      PROVE  WindowOf(t, a)'
  <2>1. jobs'[t][a] = k
    BY <1>k, SetJobEffect DEF TypeOK
  <2>2. tasks'[t].pc = "running"
    BY <1>t, <1>w, <1>k DEF WindowOf, RunsInTask
  <2> QED
    BY <1>t, <1>k, <2>1, <2>2 DEF WindowOf, RunsInTask, PendingMax, AddrSelectMsgNum
<1>1. CASE CheckCtx(u, b)
  <2>1. \/ SetJob(u, b, NoJob)
        \/ SetJob(u, b, [j EXCEPT !.pc = "checked"]) /\ j.pc = "spawned"
    BY <1>1 DEF CheckCtx
  <2> QED
    BY <1>j, <1>k, <1>n, <1>o, <1>w, <2>1 DEF WindowOf, JobRec
<1>2. CASE TakeControl(u, b)
  <2>1. \/ SetJob(u, b, NoJob)
        \/ SetJob(u, b, [j EXCEPT !.pc = "nonce"]) /\ j.pc = "checked"
    BY <1>2 DEF TakeControl
  <2> QED
    BY <1>j, <1>k, <1>n, <1>o, <1>w, <2>1 DEF WindowOf, JobRec
<1>3. CASE JobFails(u, b) \/ PushSelected(u, b)
  BY <1>3, <1>n, <1>o DEF JobFails, PushSelected, Finish
<1>4. CASE SyncNonce(u, b)
  <2>0. j.pc = "nonce" /\ tasks[u].snap[b].nonce \in Nat
    <3>1. tasks[u].snap[b] \in AddrRow
      BY DEF TypeOK, TaskRec
    <3> QED
      BY <1>4, <3>1 DEF SyncNonce, AddrRow
  <2>1. \E n \in Nat : SetJob(u, b, [j EXCEPT !.pc = "list", !.nonce = n]) /\ tasks[u].ts[b] <= n
    <3>1. CASE tasks[u].ts[b] <= tasks[u].snap[b].nonce
      <4>1. ~(tasks[u].ts[b] > tasks[u].snap[b].nonce)
        BY <1>j, <2>0, <3>1
      <4>2. SetJob(u, b, [j EXCEPT !.pc = "list", !.nonce = tasks[u].snap[b].nonce])
        BY <1>4, <4>1, Zenon DEF SyncNonce
      <4> QED
        BY <2>0, <3>1, <4>2
    <3>2. CASE ~(tasks[u].ts[b] <= tasks[u].snap[b].nonce)
      <4>1. PICK k \in MaxMessageNonceFromDB(b) :
              SetJob(u, b, [j EXCEPT !.pc = "list", !.nonce = IF k > tasks[u].ts[b] THEN k + 1 ELSE tasks[u].ts[b]])
        BY <1>4, <3>2, Zenon DEF SyncNonce
      <4> DEFINE n == IF k > tasks[u].ts[b] THEN k + 1 ELSE tasks[u].ts[b]
      <4>2. n \in Nat /\ tasks[u].ts[b] <= n
        BY <1>j, MaxMessageNonceType
      <4> QED
        BY <4>1, <4>2
    <3> QED
      BY <3>1, <3>2
  <2>2. PICK n \in Nat : SetJob(u, b, [j EXCEPT !.pc = "list", !.nonce = n]) /\ tasks[u].ts[b] <= n
    BY ZenonT(60), <2>1
  <2> QED
    BY <1>j, <1>k, <1>o, <1>w, <2>0, <2>2 DEF WindowOf, JobRec
<1>5. CASE ListCandidates(u, b)
  <2>1. j.pc = "list"
    BY <1>5 DEF ListCandidates
  <2>2. PICK toPush :
          \/ SetJob(u, b, [j EXCEPT !.pc = "push", !.toPush = toPush])
          \/ \E cand : SetJob(u, b, [j EXCEPT !.pc = "sign", !.toPush = toPush,
                                   !.want = PendingMax(u, b) - (j.nonce - tasks[u].ts[b]), !.cand = cand])
    BY <1>5 DEF ListCandidates
  <2>3. j.nonce \in Nat
    BY <1>j DEF JobRec
  <2>4. j.nonce + (PendingMax(u, b) - (j.nonce - tasks[u].ts[b])) = tasks[u].ts[b] + PendingMax(u, b)
    BY <1>j, <2>3
  <2> QED
    BY ZenonT(60), <1>j, <1>k, <1>o, <1>w, <2>1, <2>2, <2>4 DEF WindowOf, JobRec
<1>6. CASE SignCandidate(u, b)
  <2>1. j.pc = "sign" /\ j.nonce \in Nat /\ j.want \in Nat
    BY <1>6, <1>j DEF SignCandidate, JobRec
  <2>2. ASSUME NEW k, SetJob(u, b, k), k.pc = "sign", k.nonce + k.want = j.nonce + j.want
        PROVE  WindowOf(t, a)'
    BY <1>k, <1>o, <1>w, <2>1, <2>2 DEF WindowOf
  <2>3. PICK m \in j.cand :
          \/ SetJob(u, b, [j EXCEPT !.cand = @ \ {m}, !.errs = @ \cup {m}])
          \/ SetJob(u, b, [j EXCEPT !.cand = {}])
          \/ SetJob(u, b, [j EXCEPT !.cand = @ \ {m}])
          \/ SetJob(u, b, [j EXCEPT !.cand = {}, !.errs = @ \cup {m}])
          \/ SetJob(u, b, [j EXCEPT !.cand = @ \ {m}, !.nonce = @ + 1, !.want = @ - 1,
                                   !.sel = @ \cup {[id |-> m, nonce |-> j.nonce]}])
    BY <1>6 DEF SignCandidate
  <2>4. \A C, E : LET k == [j EXCEPT !.cand = C, !.errs = E]
                  IN  SetJob(u, b, k) => WindowOf(t, a)'
    BY <1>j, <2>1, <2>2 DEF JobRec
  <2>5. \A C : SetJob(u, b, [j EXCEPT !.cand = C]) => WindowOf(t, a)'
    BY <1>j, <2>1, <2>2 DEF JobRec
  <2>6. \A C, S : SetJob(u, b, [j EXCEPT !.cand = C, !.nonce = j.nonce + 1, !.want = j.want - 1, !.sel = S])
                    => WindowOf(t, a)'
    <3> SUFFICES ASSUME NEW C, NEW S,
                        SetJob(u, b, [j EXCEPT !.cand = C, !.nonce = j.nonce + 1, !.want = j.want - 1, !.sel = S])
                 PROVE  WindowOf(t, a)'
      OBVIOUS
    <3>1. \A n, w : LET k == [j EXCEPT !.cand = C, !.nonce = n, !.want = w, !.sel = S]
                    IN  k.pc = "sign" /\ k.nonce = n /\ k.want = w
      BY <1>j, <2>1 DEF JobRec
    <3>2. PICK n, w : n = j.nonce + 1 /\ w = j.want - 1
      OBVIOUS
    <3>3. n + w = j.nonce + j.want
      BY <2>1, <3>2
    <3> DEFINE k == [j EXCEPT !.cand = C, !.nonce = n, !.want = w, !.sel = S]
    <3>4. SetJob(u, b, k)
      BY <3>2
    <3>5. k.pc = "sign" /\ k.nonce = n /\ k.want = w
      BY <3>1, Zenon
    <3> HIDE DEF k
    <3> QED
      BY <2>2, <3>3, <3>4, <3>5
  <2>7. CASE SetJob(u, b, [j EXCEPT !.cand = @ \ {m}, !.errs = @ \cup {m}])
    BY <2>4, <2>7, Zenon
  <2>8. CASE SetJob(u, b, [j EXCEPT !.cand = {}, !.errs = @ \cup {m}])
    BY <2>4, <2>8, Zenon
  <2>9. CASE SetJob(u, b, [j EXCEPT !.cand = @ \ {m}, !.nonce = @ + 1, !.want = @ - 1,
                                   !.sel = @ \cup {[id |-> m, nonce |-> j.nonce]}])
    BY <2>6, <2>9, Zenon
  <2> HIDE DEF j
  <2> QED
    BY <2>3, <2>5, <2>7, <2>8, <2>9, Zenon
<1>7. CASE SaveSelected(u, b)
  BY <1>7, <1>j, <1>k, <1>o DEF SaveSelected, JobRec
<1>8. CASE Panic(u, b)
  BY <1>8 DEF Panic
<1> QED
  BY <1>1, <1>2, <1>3, <1>4, <1>5, <1>6, <1>7, <1>8 DEF JobStep

LEMMA WindowNext == TypeOK /\ WindowInv /\ [Next]_vars => WindowInv'
<1> SUFFICES ASSUME TypeOK, WindowInv, [Next]_vars PROVE WindowInv'
  OBVIOUS
<1>1. CASE UNCHANGED <<tasks, jobs>>
  BY <1>1, WindowKept DEF WindowInv
<1>2. CASE Restart
  <2>1. \A t \in Task, a \in Addr : jobs'[t][a] = NoJob
    BY <1>2 DEF Restart
  <2> QED
    BY <2>1, WindowNoJob DEF WindowInv
<1>3. ASSUME NEW m \in MsgId, MsgApi(m) \/ Refresh(m)
      PROVE  UNCHANGED <<tasks, jobs>>
  BY <1>3 DEF MsgApi, PushPrepare, PushCreate, PushFails, MarkBadMessage, RepublishMessage,
              UpdateMessageStateByID, Refresh, RefreshApply, RefreshRevert
<1>4. ASSUME NEW a \in Addr, AddrApi(a) \/ ChainStep(a)
      PROVE  UNCHANGED <<tasks, jobs>>
  BY <1>4 DEF AddrApi, RecoverFailedMsg, UpdateState, SetSelectMsgNum, UpdateNonce, DeleteAddress,
              ChainStep, ChainExtend, ChainReorg
<1>5. CASE Next /\ ~Restart
  BY <1>1, <1>3, <1>4, <1>5, WindowTask, WindowJob DEF Next, Crash
<1>6. CASE UNCHANGED vars
  BY <1>1, <1>6 DEF vars
<1> QED
  BY <1>2, <1>5, <1>6

LEMMA WindowAlways == Spec => []WindowInv
<1>1. Init => WindowInv
  <2>1. Init => \A t \in Task, a \in Addr : jobs[t][a] = NoJob
    BY DEF Init
  <2> QED
    BY <2>1 DEF WindowInv, WindowOf, RunsInTask, NoJob
<1> QED
  BY <1>1, TypeCorrect, WindowNext, PTL DEF Spec

(* A selection that gives out nonces stays within the pending window of its address, for any
   number of overlapping selections and whatever becomes of the address meanwhile: the code
   computes the window's room once, and no interleaving makes it wrong. *)
THEOREM WindowNeverExceeded == Spec => []PendingWindow
<1>1. TypeOK /\ WindowInv => PendingWindow
  <2> SUFFICES ASSUME TypeOK, WindowInv, NEW t \in Task, NEW a \in Addr, jobs[t][a].sel # {}
               PROVE  jobs[t][a].nonce <= tasks[t].ts[a] + PendingMax(t, a)
    BY DEF PendingWindow
  <2>1. jobs[t][a].nonce + jobs[t][a].want = tasks[t].ts[a] + PendingMax(t, a)
    BY DEF WindowInv, WindowOf
  <2>2. jobs[t][a].nonce \in Nat /\ jobs[t][a].want \in Nat
    BY DEF TypeOK, JobRec
  <2> QED
    BY <2>1, <2>2
<1> QED
  BY <1>1, TypeCorrect, WindowAlways, PTL

-----------------------------------------------------------------------------
(* The control token *)

SelectingPc == {"nonce", "list", "sign", "push"}

-----------------------------------------------------------------------------
(* The invariant depends on who selects and on the works of the goroutines *)

(* Goroutines go on or end without having held the token, and the works stay. *)
LEMMA TokenKept ==
    ASSUME TokenInv, UNCHANGED workVars,
           \A u \in Task, b \in Addr :
              /\ Selecting(u, b)' <=> Selecting(u, b)
              /\ jobs'[u][b].pc # "none" => jobs[u][b].pc # "none" /\ jobs'[u][b].work = jobs[u][b].work
    PROVE  TokenInv'
<1>1. \A u \in Task, b \in Addr : Selecting(u, b) => jobs'[u][b].pc # "none" /\ jobs'[u][b].work = jobs[u][b].work
  BY DEF Selecting
<1>2. OneSelectionPerAddr'
  BY DEF TokenInv, OneSelectionPerAddr
<1>3. TokenHeldBySelection'
  BY <1>1 DEF TokenInv, TokenHeldBySelection, workVars
<1>4. ASSUME NEW u \in Task, NEW b \in Addr
      PROVE  WorkKnown(u, b)' /\ HoldsToken(u, b)'
  BY <1>1, <1>4 DEF TokenInv, WorkKnown, HoldsToken, WorkOf, workVars
<1> QED
  BY <1>2, <1>3, <1>4 DEF TokenInv, workVars

(* A goroutine goes on, neither taking nor losing the token. *)
LEMMA TokenGoesOn ==
    ASSUME TypeOK, TokenInv, UNCHANGED workVars, NEW t \in Task, NEW a \in Addr, NEW k, SetJob(t, a, k),
           jobs[t][a].pc # "none", k.work = jobs[t][a].work,
           k.pc \in SelectingPc <=> jobs[t][a].pc \in SelectingPc
    PROVE  TokenInv'
<1>1. /\ jobs'[t][a] = k
      /\ \A u \in Task, b \in Addr : (u # t \/ b # a) => jobs'[u][b] = jobs[u][b]
  BY SetJobEffect DEF TypeOK
<1>2. ASSUME NEW u \in Task, NEW b \in Addr
      PROVE  /\ Selecting(u, b)' <=> Selecting(u, b)
             /\ jobs'[u][b].pc # "none" => jobs[u][b].pc # "none" /\ jobs'[u][b].work = jobs[u][b].work
  BY <1>1 DEF Selecting, SelectingPc
<1> QED
  BY <1>2, TokenKept

(* A goroutine that does not hold the token ends. *)
LEMMA TokenNotTaken ==
    ASSUME TypeOK, TokenInv, UNCHANGED workVars, NEW t \in Task, NEW a \in Addr, SetJob(t, a, NoJob),
           jobs[t][a].pc \notin SelectingPc
    PROVE  TokenInv'
<1>1. /\ jobs'[t][a] = NoJob
      /\ \A u \in Task, b \in Addr : (u # t \/ b # a) => jobs'[u][b] = jobs[u][b]
  BY SetJobEffect DEF TypeOK
<1>2. ASSUME NEW u \in Task, NEW b \in Addr
      PROVE  /\ Selecting(u, b)' <=> Selecting(u, b)
             /\ jobs'[u][b].pc # "none" => jobs[u][b].pc # "none" /\ jobs'[u][b].work = jobs[u][b].work
  BY <1>1 DEF Selecting, SelectingPc, NoJob
<1> QED
  BY <1>2, TokenKept

(* w.finish: the goroutine that selects for the address ends, and the token is free. *)
LEMMA TokenReleased ==
    ASSUME TypeOK, TokenInv, NEW t \in Task, NEW a \in Addr, Finish(t, a), Selecting(t, a),
           UNCHANGED <<works, closed>>
    PROVE  TokenInv'
<1>1. /\ jobs'[t][a] = NoJob
      /\ \A u \in Task, b \in Addr : (u # t \/ b # a) => jobs'[u][b] = jobs[u][b]
  BY SetJobEffect DEF TypeOK, Finish
<1>2. \A u \in Task : ~Selecting(u, a)'
  BY <1>1 DEF Selecting, NoJob, TokenInv, OneSelectionPerAddr
<1>3. \A u \in Task, b \in Addr : b # a => (Selecting(u, b)' <=> Selecting(u, b))
  BY <1>1 DEF Selecting
<1>4. full' = full \ {<<a, works[a]>>}
  BY DEF Finish, TokenInv, HoldsToken, WorkOf
<1>5. OneSelectionPerAddr'
  BY <1>2, <1>3 DEF TokenInv, OneSelectionPerAddr
<1>6. TokenHeldBySelection'
  BY <1>1, <1>2, <1>3, <1>4 DEF TokenInv, TokenHeldBySelection
<1>7. ASSUME NEW u \in Task, NEW b \in Addr
      PROVE  WorkKnown(u, b)' /\ HoldsToken(u, b)'
  <2>1. WorkKnown(u, b) /\ HoldsToken(u, b)
    BY DEF TokenInv
  <2>2. WorkKnown(u, b)'
    BY <1>1, <2>1 DEF WorkKnown, WorkOf, NoJob
  <2>3. HoldsToken(u, b)'
    <3>1. CASE b = a
      BY <1>2, <3>1 DEF HoldsToken
    <3>2. CASE b # a
      BY <1>1, <1>3, <1>4, <2>1, <3>2 DEF HoldsToken, WorkOf
    <3> QED
      BY <3>1, <3>2
  <2> QED
    BY <2>2, <2>3
<1> QED
  BY <1>5, <1>6, <1>7 DEF TokenInv

(* The non-blocking send on controlChan succeeds: the work was not busy, so nobody selects. *)
LEMMA TokenTaken ==
    ASSUME TypeOK, TokenInv, NEW t \in Task, NEW a \in Addr, jobs[t][a].pc = "checked",
           WorkOf(t, a) \notin closed, WorkOf(t, a) \notin full,
           SetJob(t, a, [jobs[t][a] EXCEPT !.pc = "nonce"]), full' = full \cup {WorkOf(t, a)},
           UNCHANGED <<works, closed>>
    PROVE  TokenInv'
<1>0. jobs[t][a] \in JobRec
  BY DEF TypeOK
<1>1. /\ jobs'[t][a].pc = "nonce" /\ jobs'[t][a].work = jobs[t][a].work
      /\ \A u \in Task, b \in Addr : (u # t \/ b # a) => jobs'[u][b] = jobs[u][b]
  <2> DEFINE k == [jobs[t][a] EXCEPT !.pc = "nonce"]
  <2>1. k.pc = "nonce" /\ k.work = jobs[t][a].work
    BY <1>0 DEF JobRec
  <2>2. SetJob(t, a, k)
    OBVIOUS
  <2> HIDE DEF k
  <2> QED
    BY <2>1, <2>2, SetJobEffect DEF TypeOK
<1>2. WorkOf(t, a) = <<a, works[a]>> /\ jobs[t][a].work = works[a] /\ works[a] # NoWork
  BY ConstantsAssumption DEF TokenInv, WorkKnown, WorkOf
<1>3. \A u \in Task : ~Selecting(u, a)
  BY <1>2 DEF TokenInv, HoldsToken, WorkOf
<1>4. \A u \in Task, b \in Addr : Selecting(u, b)' <=> Selecting(u, b) \/ (u = t /\ b = a)
  BY <1>1 DEF Selecting
<1>5. OneSelectionPerAddr'
  BY <1>3, <1>4 DEF TokenInv, OneSelectionPerAddr
<1>6. TokenHeldBySelection'
  <2> SUFFICES ASSUME NEW b \in Addr, works[b] # NoWork
               PROVE  <<b, works[b]>> \in full' <=> \E u \in Task : Selecting(u, b)' /\ jobs'[u][b].work = works[b]
    BY DEF TokenHeldBySelection
  <2>1. CASE b = a
    BY <1>1, <1>2, <1>4, <2>1
  <2>2. CASE b # a
    BY <1>1, <1>2, <1>4, <2>2 DEF TokenInv, TokenHeldBySelection
  <2> QED
    BY <2>1, <2>2
<1>7. ASSUME NEW u \in Task, NEW b \in Addr
      PROVE  WorkKnown(u, b)' /\ HoldsToken(u, b)'
  <2>1. WorkKnown(u, b) /\ HoldsToken(u, b) /\ WorkKnown(t, a)
    BY DEF TokenInv
  <2>2. WorkKnown(u, b)'
    BY <1>1, <2>1 DEF WorkKnown, WorkOf
  <2>3. HoldsToken(u, b)'
    <3>1. CASE u = t /\ b = a
      BY <1>1, <1>2, <3>1 DEF HoldsToken, WorkOf
    <3>2. CASE u # t \/ b # a
      BY <1>1, <1>4, <2>1, <3>2 DEF HoldsToken, WorkOf
    <3> QED
      BY <3>1, <3>2
  <2> QED
    BY <2>2, <2>3
<1> QED
  BY <1>5, <1>6, <1>7 DEF TokenInv

-----------------------------------------------------------------------------
(* SelectMessage: works are created and removed *)

(* What tryUpdateWorks does to one pair of an address and a work. *)
LEMMA WorksUpdated ==
    ASSUME TypeOK, NEW t \in Task, NEW ws \in [Addr -> Gen \cup {NoWork}], TryUpdateWorks(t, ws),
           NEW b \in Addr, NEW g
    PROVE  /\ <<b, g>> \in full'
                <=> (<<b, g>> \in full \/ (b \in Removable(t) /\ g = works[b])) /\ ~(b \in Missing(t) /\ g = ws[b])
           /\ <<b, g>> \in closed'
                <=> (<<b, g>> \in closed \/ (b \in Removable(t) /\ g = works[b])) /\ ~(b \in Missing(t) /\ g = ws[b])
<1> DEFINE gone == {<<c, works[c]>> : c \in Removable(t)}
           new  == {<<c, ws[c]>> : c \in Missing(t)}
<1>1. <<b, g>> \in gone <=> b \in Removable(t) /\ g = works[b]
  OBVIOUS
<1>2. <<b, g>> \in new <=> b \in Missing(t) /\ g = ws[b]
  OBVIOUS
<1>3. full' = (full \cup gone) \ new /\ closed' = (closed \cup gone) \ new
  BY DEF TryUpdateWorks
<1> HIDE DEF gone, new
<1> QED
  BY <1>1, <1>2, <1>3

(* The goroutines of the other tasks stay, those of t have not begun or do not exist. *)
LEMMA JobsLaunched ==
    ASSUME TypeOK, WindowInv, NEW t \in Task, tasks[t].pc = "snap", NEW ws \in [Addr -> Gen \cup {NoWork}],
           \/ jobs' = [jobs EXCEPT ![t] = [a \in Addr |->
                   IF ws[a] = NoWork THEN NoJob ELSE [NoJob EXCEPT !.pc = "spawned", !.work = ws[a]]]]
           \/ jobs' = jobs,
           NEW u \in Task, NEW b \in Addr
    PROVE  /\ Selecting(u, b)' <=> Selecting(u, b)
           /\ u # t => jobs'[u][b] = jobs[u][b]
           /\ u = t => jobs[u][b].pc = "none"
           /\ u = t /\ jobs'[u][b].pc # "none" =>
                 jobs'[u][b].pc = "spawned" /\ jobs'[u][b].work = ws[b] /\ ws[b] # NoWork
<1>1. jobs[t][b].pc = "none"
  BY DEF WindowInv, WindowOf, RunsInTask
<1>2. u # t => jobs'[u][b] = jobs[u][b]
  BY DEF TypeOK
<1>3. jobs'[t][b].pc # "none" => jobs'[t][b].pc = "spawned" /\ jobs'[t][b].work = ws[b] /\ ws[b] # NoWork
  <2>1. CASE jobs' = jobs
    BY <1>1, <2>1
  <2>2. CASE jobs' # jobs
    <3> DEFINE k == [NoJob EXCEPT !.pc = "spawned", !.work = ws[b]]
    <3>1. k.pc = "spawned" /\ k.work = ws[b]
      BY DEF NoJob
    <3>2. jobs'[t] = [a \in Addr |->
                IF ws[a] = NoWork THEN NoJob ELSE [NoJob EXCEPT !.pc = "spawned", !.work = ws[a]]]
      BY <2>2 DEF TypeOK
    <3>3. jobs'[t][b] = IF ws[b] = NoWork THEN NoJob ELSE k
      BY <3>2, Zenon
    <3>4. NoJob.pc = "none"
      BY DEF NoJob
    <3> HIDE DEF k
    <3> QED
      BY <3>1, <3>3, <3>4
  <2> QED
    BY <2>1, <2>2
<1>4. Selecting(u, b)' <=> Selecting(u, b)
  BY <1>1, <1>2, <1>3 DEF Selecting
<1> QED
  BY <1>1, <1>2, <1>3, <1>4

LEMMA TokenLaunch ==
    ASSUME TypeOK, WindowInv, TokenInv, NEW t \in Task, LaunchJobs(t)
    PROVE  TokenInv'
<1>1. PICK ws \in [Addr -> Gen \cup {NoWork}] :
        /\ TryUpdateWorks(t, ws)
        /\ \/ jobs' = [jobs EXCEPT ![t] = [a \in Addr |->
                IF ws[a] = NoWork THEN NoJob ELSE [NoJob EXCEPT !.pc = "spawned", !.work = ws[a]]]]
           \/ jobs' = jobs
  BY DEF LaunchJobs
<1>2. tasks[t].pc = "snap"
  BY ZenonT(60) DEF LaunchJobs
<1>3. \A u \in Task, b \in Addr :
         /\ Selecting(u, b)' <=> Selecting(u, b)
         /\ u # t => jobs'[u][b] = jobs[u][b]
         /\ u = t => jobs[u][b].pc = "none"
         /\ u = t /\ jobs'[u][b].pc # "none" =>
               jobs'[u][b].pc = "spawned" /\ jobs'[u][b].work = ws[b] /\ ws[b] # NoWork
  BY ZenonT(60), <1>1, <1>2, JobsLaunched
<1>4. \A u \in Task, b \in Addr : Selecting(u, b) => jobs'[u][b] = jobs[u][b] /\ jobs[u][b].pc # "none"
  BY <1>3 DEF Selecting
<1>5. works' = ws
  BY <1>1 DEF TryUpdateWorks
<1>6. ASSUME NEW b \in Addr
      PROVE  /\ works'[b] # NoWork => (<<b, works'[b]>> \in full' <=>
                    \E u \in Task : Selecting(u, b)' /\ jobs'[u][b].work = works'[b])
             /\ \A u \in Task : WorkKnown(u, b)' /\ HoldsToken(u, b)'
             /\ works'[b] # NoWork => <<b, works'[b]>> \notin closed'
  <2>0. \A g : /\ <<b, g>> \in full'
                   <=> (<<b, g>> \in full \/ (b \in Removable(t) /\ g = works[b])) /\ ~(b \in Missing(t) /\ g = ws[b])
               /\ <<b, g>> \in closed'
                   <=> (<<b, g>> \in closed \/ (b \in Removable(t) /\ g = works[b])) /\ ~(b \in Missing(t) /\ g = ws[b])
    BY <1>1, <1>6, WorksUpdated
  <2>w. \A u \in Task : WorkKnown(u, b) /\ HoldsToken(u, b)
    BY DEF TokenInv
  <2>1. CASE b \in Removable(t)
    <3>1. works'[b] = NoWork /\ works[b] # NoWork /\ <<b, works[b]>> \notin full /\ b \notin Missing(t)
      BY <1>1, <1>5, <2>1 DEF TryUpdateWorks, Removable, Missing
    <3>2. \A u \in Task : ~Selecting(u, b)
      BY <2>w, <3>1 DEF HoldsToken, WorkOf
    <3>3. ASSUME NEW u \in Task, jobs'[u][b].pc # "none"
          PROVE  jobs'[u][b].work \in Gen /\ <<b, jobs'[u][b].work>> \in closed'
      <4>1. u # t
        BY <1>3, <1>5, <3>1, <3>3
      <4> QED
        BY <1>3, <2>0, <2>w, <2>1, <3>1, <3>3, <4>1 DEF WorkKnown, WorkOf
    <3> QED
      BY <1>3, <3>1, <3>2, <3>3 DEF WorkKnown, WorkOf, HoldsToken
  <2>2. CASE b \in Missing(t)
    <3>1. works[b] = NoWork /\ works'[b] = ws[b] /\ ws[b] \in Gen /\ FreshGen(b, ws[b]) /\ b \notin Removable(t)
      BY <1>1, <1>5, <2>2 DEF TryUpdateWorks, Removable, Missing
    <3>2. \A u \in Task : ~Selecting(u, b)
      BY <1>4, <2>w, <3>1, ConstantsAssumption DEF HoldsToken, WorkKnown
    <3>3. <<b, works'[b]>> \notin full' /\ <<b, works'[b]>> \notin closed'
      BY <2>0, <2>2, <3>1
    <3>4. ASSUME NEW u \in Task
          PROVE  WorkKnown(u, b)'
      <4>1. CASE u = t
        BY <1>3, <3>1, <4>1 DEF WorkKnown
      <4>2. CASE u # t
        <5>1. jobs'[u][b] = jobs[u][b]
          BY <1>3, <4>2
        <5>2. jobs[u][b].pc # "none" => jobs[u][b].work \in Gen /\ jobs[u][b].work # ws[b]
                                        /\ <<b, jobs[u][b].work>> \in closed
          BY <2>w, <3>1, ConstantsAssumption DEF WorkKnown, WorkOf, FreshGen
        <5> QED
          BY <2>0, <5>1, <5>2 DEF WorkKnown, WorkOf
      <4> QED
        BY <4>1, <4>2
    <3> QED
      BY <1>3, <3>2, <3>3, <3>4 DEF HoldsToken
  <2>3. CASE b \notin Removable(t) /\ b \notin Missing(t)
    <3>1. works'[b] = works[b] /\ ws[b] = works[b] /\ works[b] \in Gen \cup {NoWork}
      BY <1>1, <1>5, <2>3 DEF TryUpdateWorks, TypeOK
    <3>2. \A g : (<<b, g>> \in full' <=> <<b, g>> \in full) /\ (<<b, g>> \in closed' <=> <<b, g>> \in closed)
      BY <2>0, <2>3
    <3>3. works[b] # NoWork =>
             /\ <<b, works[b]>> \notin closed
             /\ <<b, works[b]>> \in full <=> \E u \in Task : Selecting(u, b) /\ jobs[u][b].work = works[b]
      BY DEF TokenInv, TokenHeldBySelection
    <3>4. works'[b] # NoWork => (<<b, works'[b]>> \in full' <=>
                    \E u \in Task : Selecting(u, b)' /\ jobs'[u][b].work = works'[b])
      BY <1>3, <1>4, <3>1, <3>2, <3>3
    <3>5. ASSUME NEW u \in Task
          PROVE  WorkKnown(u, b)' /\ HoldsToken(u, b)'
      <4>1. HoldsToken(u, b)'
        BY <1>3, <1>4, <2>w, <3>1, <3>2 DEF HoldsToken, WorkOf
      <4>2. CASE u = t
        BY <1>3, <3>1, <4>1, <4>2 DEF WorkKnown
      <4>3. CASE u # t
        BY <1>3, <2>w, <3>1, <3>2, <4>1, <4>3 DEF WorkKnown, WorkOf
      <4> QED
        BY <4>2, <4>3, <4>1
    <3> QED
      BY <3>1, <3>2, <3>3, <3>4, <3>5
  <2> QED
    BY <2>1, <2>2, <2>3
<1>7. OneSelectionPerAddr'
  BY <1>3 DEF TokenInv, OneSelectionPerAddr
<1> QED
  BY <1>6, <1>7 DEF TokenInv, TokenHeldBySelection

LEMMA TokenTask ==
    ASSUME TypeOK, WindowInv, TokenInv, NEW t \in Task, TaskStep(t)
    PROVE  TokenInv'
<1>1. CASE NewHead(t) \/ DelayOver(t) \/ ReadActiveAddrs(t)
  <2>1. UNCHANGED <<jobs, workVars>>
    BY <1>1 DEF NewHead, DelayOver, ReadActiveAddrs
  <2> QED
    BY <2>1, TokenKept DEF Selecting
<1>2. CASE LaunchJobs(t)
  BY <1>2, TokenLaunch
<1> QED
  BY <1>1, <1>2 DEF TaskStep

-----------------------------------------------------------------------------
(* startSelectMessage *)

(* A step of a goroutine that selects, and goes on selecting for the same work. *)
LEMMA SelectionStep ==
    ASSUME TypeOK, NEW t \in Task, NEW a \in Addr,
           SyncNonce(t, a) \/ ListCandidates(t, a) \/ SignCandidate(t, a) \/ SaveSelected(t, a)
    PROVE  \E k : SetJob(t, a, k) /\ k.work = jobs[t][a].work /\ k.pc \in SelectingPc
<1> DEFINE j == jobs[t][a]
<1>j. j \in JobRec
  BY DEF TypeOK
<1>p. j.pc \in SelectingPc
  BY DEF SyncNonce, ListCandidates, SignCandidate, SaveSelected, SelectingPc
<1>1. CASE SyncNonce(t, a)
  <2>1. \E n : SetJob(t, a, [j EXCEPT !.pc = "list", !.nonce = n])
    BY <1>1, Zenon DEF SyncNonce
  <2>2. \A n : LET k == [j EXCEPT !.pc = "list", !.nonce = n] IN k.work = j.work /\ k.pc = "list"
    BY SMTT(60), <1>j DEF JobRec
  <2> QED
    BY <2>1, <2>2, Zenon DEF SelectingPc
<1>2. CASE ListCandidates(t, a)
  <2>1. \/ \E p : SetJob(t, a, [j EXCEPT !.pc = "push", !.toPush = p])
        \/ \E p, w, c : SetJob(t, a, [j EXCEPT !.pc = "sign", !.toPush = p, !.want = w, !.cand = c])
    BY <1>2 DEF ListCandidates
  <2>2. \A p : LET k == [j EXCEPT !.pc = "push", !.toPush = p] IN k.work = j.work /\ k.pc = "push"
    BY <1>j DEF JobRec
  <2>4. CASE \E p : SetJob(t, a, [j EXCEPT !.pc = "push", !.toPush = p])
    BY <2>2, <2>4, Zenon DEF SelectingPc
  <2>5. CASE \E p, w, c : SetJob(t, a, [j EXCEPT !.pc = "sign", !.toPush = p, !.want = w, !.cand = c])
    <3>1. PICK p, w, c : SetJob(t, a, [j EXCEPT !.pc = "sign", !.toPush = p, !.want = w, !.cand = c])
      BY <2>5
    <3> DEFINE k == [j EXCEPT !.pc = "sign", !.toPush = p, !.want = w, !.cand = c]
    <3>2. SetJob(t, a, k) /\ k.work = j.work /\ k.pc = "sign"
      BY <3>1, <1>j DEF JobRec
    <3> HIDE DEF k
    <3> QED
      BY <3>2 DEF SelectingPc
  <2> QED
    BY <2>1, <2>4, <2>5
<1>3. CASE SignCandidate(t, a)
  <2>1. \/ \E c, e : SetJob(t, a, [j EXCEPT !.cand = c, !.errs = e])
        \/ \E c : SetJob(t, a, [j EXCEPT !.cand = c])
        \/ \E c, n, w, s : SetJob(t, a, [j EXCEPT !.cand = c, !.nonce = n, !.want = w, !.sel = s])
    BY <1>3, Zenon DEF SignCandidate
  <2>3. \A c : LET k == [j EXCEPT !.cand = c] IN k.work = j.work /\ k.pc = j.pc
    BY <1>j DEF JobRec
  <2>5. CASE \E c, e : SetJob(t, a, [j EXCEPT !.cand = c, !.errs = e])
    <3>1. PICK c, e : SetJob(t, a, [j EXCEPT !.cand = c, !.errs = e])
      BY <2>5
    <3> DEFINE k == [j EXCEPT !.cand = c, !.errs = e]
    <3>2. SetJob(t, a, k) /\ k.work = j.work /\ k.pc = j.pc
      BY <3>1, <1>j DEF JobRec
    <3> HIDE DEF k
    <3> QED
      BY <1>p, <3>2
  <2>6. CASE \E c : SetJob(t, a, [j EXCEPT !.cand = c])
    BY <1>p, <2>3, <2>6, Zenon
  <2>7. CASE \E c, n, w, s : SetJob(t, a, [j EXCEPT !.cand = c, !.nonce = n, !.want = w, !.sel = s])
    <3>1. PICK c, n, w, s : SetJob(t, a, [j EXCEPT !.cand = c, !.nonce = n, !.want = w, !.sel = s])
      BY <2>7
    <3> DEFINE k == [j EXCEPT !.cand = c, !.nonce = n, !.want = w, !.sel = s]
    <3>2. SetJob(t, a, k) /\ k.work = j.work /\ k.pc = j.pc
      BY <3>1, <1>j DEF JobRec
    <3> HIDE DEF k
    <3> QED
      BY <1>p, <3>2
  <2> QED
    BY <2>1, <2>5, <2>6, <2>7, Zenon
<1>4. CASE SaveSelected(t, a)
  <2>1. \E p : SetJob(t, a, [j EXCEPT !.pc = "push", !.toPush = p, !.sel = {}, !.errs = {}, !.want = 0])
    BY <1>4, Zenon DEF SaveSelected
  <2>2. \A p : LET k == [j EXCEPT !.pc = "push", !.toPush = p, !.sel = {}, !.errs = {}, !.want = 0]
               IN  k.work = j.work /\ k.pc = "push"
    BY <1>j DEF JobRec
  <2> QED
    BY <2>1, <2>2, Zenon DEF SelectingPc
<1> QED
  BY <1>1, <1>2, <1>3, <1>4

LEMMA TokenJob ==
    ASSUME TypeOK, TokenInv, NEW t \in Task, NEW a \in Addr, JobStep(t, a), ~Restart
    PROVE  TokenInv'
<1> DEFINE j == jobs[t][a]
<1>0. j \in JobRec
  BY DEF TypeOK
<1>1. CASE CheckCtx(t, a)
  <2>1. j.pc = "spawned" /\ UNCHANGED workVars
    BY <1>1 DEF CheckCtx
  <2>2. CASE SetJob(t, a, NoJob)
    BY <2>1, <2>2, TokenNotTaken DEF SelectingPc
  <2>3. CASE SetJob(t, a, [j EXCEPT !.pc = "checked"])
    <3> DEFINE k == [j EXCEPT !.pc = "checked"]
    <3>1. k.pc = "checked" /\ k.work = j.work
      BY <1>0 DEF JobRec
    <3>2. SetJob(t, a, k)
      BY <2>3
    <3> HIDE DEF k
    <3> QED
      BY <2>1, <3>1, <3>2, TokenGoesOn DEF SelectingPc
  <2> QED
    BY <1>1, <2>2, <2>3 DEF CheckCtx
<1>2. CASE TakeControl(t, a)
  <2>1. j.pc = "checked" /\ WorkOf(t, a) \notin closed /\ UNCHANGED <<works, closed>>
    BY <1>2 DEF TakeControl, Panics
  <2>2. CASE WorkOf(t, a) \in full
    <3>1. SetJob(t, a, NoJob) /\ UNCHANGED workVars
      BY <1>2, <2>2 DEF TakeControl, workVars
    <3> QED
      BY <2>1, <3>1, TokenNotTaken DEF SelectingPc
  <2>3. CASE WorkOf(t, a) \notin full
    <3>1. SetJob(t, a, [jobs[t][a] EXCEPT !.pc = "nonce"]) /\ full' = full \cup {WorkOf(t, a)}
      BY <1>2, <2>3 DEF TakeControl
    <3> QED
      BY <2>1, <2>3, <3>1, TokenTaken
  <2> QED
    BY <2>2, <2>3
<1>3. CASE JobFails(t, a) \/ PushSelected(t, a)
  <2>1. Selecting(t, a) /\ Finish(t, a) /\ UNCHANGED <<works, closed>>
    BY <1>3 DEF JobFails, PushSelected, Selecting
  <2> QED
    BY <2>1, TokenReleased
<1>4. CASE SyncNonce(t, a) \/ ListCandidates(t, a) \/ SignCandidate(t, a) \/ SaveSelected(t, a)
  <2>1. j.pc \in SelectingPc /\ UNCHANGED workVars
    BY <1>4 DEF SyncNonce, ListCandidates, SignCandidate, SaveSelected, SelectingPc
  <2>2. \E k : SetJob(t, a, k) /\ k.work = j.work /\ k.pc \in SelectingPc
    BY <1>4, SelectionStep
  <2> QED
    BY <2>1, <2>2, TokenGoesOn DEF SelectingPc
<1>5. CASE Panic(t, a)
  BY <1>5 DEF Panic
<1> QED
  BY <1>1, <1>2, <1>3, <1>4, <1>5 DEF JobStep

-----------------------------------------------------------------------------

LEMMA TokenRestart ==
    ASSUME Restart
    PROVE  TokenInv'
<1>1. full' = {} /\ closed' = {} /\ \A t \in Task, a \in Addr : jobs'[t][a] = NoJob
  BY DEF Restart
<1>2. \A t \in Task, a \in Addr : jobs'[t][a].pc = "none" /\ ~Selecting(t, a)'
  BY <1>1 DEF Selecting, NoJob
<1> QED
  BY <1>1, <1>2 DEF TokenInv, OneSelectionPerAddr, TokenHeldBySelection, WorkKnown, HoldsToken

LEMMA TokenInit == Init => TokenInv
<1> SUFFICES ASSUME Init PROVE TokenInv
  OBVIOUS
<1>1. /\ \A t \in Task, a \in Addr : jobs[t][a] = NoJob
      /\ \A a \in Addr : works[a] = NoWork
  BY DEF Init
<1>2. \A t \in Task, a \in Addr : jobs[t][a].pc = "none" /\ ~Selecting(t, a)
  BY <1>1 DEF Selecting, NoJob
<1> QED
  BY <1>1, <1>2 DEF TokenInv, OneSelectionPerAddr, TokenHeldBySelection, WorkKnown, HoldsToken

(* The API, the chain and the refresh know nothing of works and goroutines. *)
LEMMA OutsideSelection ==
    ASSUME Next, ~Restart,
           ~ \E t \in Task : TaskStep(t),
           ~ \E t \in Task, a \in Addr : JobStep(t, a)
    PROVE  UNCHANGED <<tasks, jobs, workVars>>
<1>1. ASSUME NEW m \in MsgId, MsgApi(m) \/ Refresh(m)
      PROVE  UNCHANGED <<tasks, jobs, workVars>>
  BY <1>1 DEF MsgApi, PushPrepare, PushCreate, PushFails, MarkBadMessage, RepublishMessage,
              UpdateMessageStateByID, Refresh, RefreshApply, RefreshRevert
<1>2. ASSUME NEW a \in Addr, AddrApi(a) \/ ChainStep(a)
      PROVE  UNCHANGED <<tasks, jobs, workVars>>
  BY <1>2 DEF AddrApi, RecoverFailedMsg, UpdateState, SetSelectMsgNum, UpdateNonce, DeleteAddress,
              ChainStep, ChainExtend, ChainReorg
<1> QED
  BY <1>1, <1>2 DEF Next, Crash

LEMMA TokenNext == TypeOK /\ WindowInv /\ TokenInv /\ [Next]_vars => TokenInv'
<1> SUFFICES ASSUME TypeOK, WindowInv, TokenInv, [Next]_vars PROVE TokenInv'
  OBVIOUS
<1>1. CASE UNCHANGED <<jobs, workVars>>
  BY <1>1, TokenKept DEF Selecting
<1>2. CASE Restart
  BY <1>2, TokenRestart
<1>3. CASE Next /\ ~Restart
  BY <1>1, <1>3, OutsideSelection, TokenTask, TokenJob
<1>4. CASE UNCHANGED vars
  BY <1>1, <1>4 DEF vars, workVars
<1> QED
  BY <1>2, <1>3, <1>4

(* The invariant of the control token. *)
LEMMA TokenAlways == Spec => []TokenInv
BY TokenInit, TokenNext, TypeCorrect, WindowAlways, PTL DEF Spec

(* Mutual exclusion of selections: at most one goroutine selects for an address, for any number of
   overlapping calls of SelectMessage, while addresses are deleted, forbidden and created again
   and their works closed and replaced, and whatever panics and crashes there are. *)
THEOREM OneSelection == Spec => []OneSelectionPerAddr
<1>1. TokenInv => OneSelectionPerAddr
  BY DEF TokenInv
<1> QED
  BY <1>1, TokenAlways, PTL

(* The token of a current work is taken exactly while a goroutine selects for it: no path of
   startSelectMessage returns with it, which would stop the address for good. *)
THEOREM TokenNeverLeaks == Spec => []TokenHeldBySelection
<1>1. TokenInv => TokenHeldBySelection
  BY DEF TokenInv
<1> QED
  BY <1>1, TokenAlways, PTL
=============================================================================
