---------------------------- MODULE AllocProofs ----------------------------
(***************************************************************************)
(* What message selection promises its users: it implements NonceAllocator,*)
(* what it broadcasts is in the table, and no nonce is left out.  For any  *)
(* number of messages and addresses and any sequence of failures, reorgs   *)
(* and crashes, as long as selections do not overlap and no API call       *)
(* resets a nonce or sets a state at will.                                 *)
(***************************************************************************)
EXTENDS NonceProofs

-----------------------------------------------------------------------------
(* What a step other than saveSelectedMessages does to one row *)

RowStep(m) ==
    \/ msgs'[m] = msgs[m]
    \/ m \in pushing /\ m \notin pushing' /\ msgs'[m] = NewMsg
    \/ /\ msgs[m].state # "None"
       /\ msgs'[m].signed = msgs[m].signed /\ msgs'[m].nonce = msgs[m].nonce
       /\ \/ msgs[m].state = "Fill" /\ msgs'[m].state \notin {"None", "UnFill"}
          \/ msgs[m].signed /\ msgs'[m].state \notin {"None", "UnFill"}
          \/ /\ msgs'[m].state = "Failed"
             /\ "markBad" \in Features \/ \E t \in Task : tasks[t].pc = "waiting"

LEMMA StateSet ==
    ASSUME TypeOK, NEW k \in MsgId, NEW s, msgs' = [msgs EXCEPT ![k].state = s], NEW m \in MsgId
    PROVE  \/ msgs'[m] = msgs[m]
           \/ m = k /\ msgs'[m].signed = msgs[m].signed /\ msgs'[m].nonce = msgs[m].nonce /\ msgs'[m].state = s
BY DEF TypeOK, MsgRow

LEMMA NextRowStep ==
    ASSUME TypeOK, SignInv, NoStateSet, [Next]_vars, ~ \E t \in Task, a \in Addr : SaveSelected(t, a),
           NEW m \in MsgId
    PROVE  RowStep(m)
<1>m. \A k \in MsgId : msgs[k] \in MsgRow
  BY DEF TypeOK
<1>0. CASE msgs'[m] = msgs[m]
  BY <1>0 DEF RowStep
<1>1. ASSUME NEW k \in MsgId, MsgApi(k) PROVE RowStep(m)
  <2>1. CASE PushCreate(k)
    BY <1>0, <2>1 DEF PushCreate, RowStep, TypeOK
  <2>2. CASE MarkBadMessage(k)
    BY <1>0, <2>2, StateSet DEF MarkBadMessage, RowStep
  <2>3. CASE \E s \in MsgState \ {"None"} : UpdateMessageStateByID(k, s)
    BY <2>3 DEF UpdateMessageStateByID, NoStateSet
  <2>4. CASE PushPrepare(k) \/ PushFails(k) \/ RepublishMessage(k)
    BY <1>0, <2>4 DEF PushPrepare, PushFails, RepublishMessage, dbVars
  <2> QED
    BY <1>1, <2>1, <2>2, <2>3, <2>4 DEF MsgApi
<1>2. ASSUME NEW k \in MsgId, Refresh(k) PROVE RowStep(m)
  <2>1. CASE RefreshApply(k)
    <3>1. \/ msgs' = msgs
          \/ msgs[k].state = "Fill" /\ msgs' = [msgs EXCEPT ![k].state = "NonceConflict"]
          \/ \E i \in MsgId : msgs[i].signed /\ msgs' = [msgs EXCEPT ![i].state = "OnChain"]
      BY <2>1 DEF RefreshApply
    <3>2. \A i \in MsgId : msgs[i].signed => msgs[i].state # "None"
      BY DEF SignInv
    <3>3. ASSUME NEW i \in MsgId, msgs[i].signed, msgs' = [msgs EXCEPT ![i].state = "OnChain"]
          PROVE  RowStep(m)
      BY <1>0, <3>2, <3>3, StateSet DEF RowStep
    <3>4. CASE msgs[k].state = "Fill" /\ msgs' = [msgs EXCEPT ![k].state = "NonceConflict"]
      BY <1>0, <3>4, StateSet DEF RowStep
    <3> QED
      BY <1>0, <3>1, <3>3, <3>4
  <2>2. CASE RefreshRevert(k)
    BY <1>0, <2>2, StateSet DEF RefreshRevert, RowStep
  <2> QED
    BY <1>2, <2>1, <2>2 DEF Refresh
<1>3. ASSUME NEW a \in Addr, AddrApi(a) PROVE RowStep(m)
  <2>1. CASE RecoverFailedMsg(a)
    <3>1. \/ msgs'[m] = msgs[m]
          \/ /\ msgs[m].state = "Failed" /\ msgs[m].signed
             /\ msgs'[m] = [msgs[m] EXCEPT !.state = "Fill"]
      BY <2>1 DEF RecoverFailedMsg, InState
    <3> QED
      BY <1>0, <1>m, <3>1 DEF RowStep, MsgRow
  <2>2. CASE ~RecoverFailedMsg(a)
    BY <1>0, <1>3, <2>2 DEF AddrApi, UpdateState, SetSelectMsgNum, UpdateNonce, DeleteAddress
  <2> QED
    BY <2>1, <2>2
<1>4. ASSUME NEW a \in Addr, ChainStep(a) PROVE RowStep(m)
  BY <1>0, <1>4 DEF ChainStep, ChainExtend, ChainReorg, dbVars
<1>5. ASSUME NEW t \in Task, TaskStep(t) PROVE RowStep(m)
  <2>1. CASE DelayOver(t)
    <3>1. tasks[t].pc = "waiting"
      BY <2>1 DEF DelayOver
    <3>2. \/ msgs'[m] = msgs[m]
          \/ msgs[m].state = "UnFill" /\ msgs'[m] = [msgs[m] EXCEPT !.state = "Failed"]
      BY <2>1 DEF DelayOver, InState
    <3> QED
      BY <1>0, <1>m, <3>1, <3>2 DEF RowStep, MsgRow
  <2>2. CASE NewHead(t) \/ ReadActiveAddrs(t) \/ LaunchJobs(t)
    BY <1>0, <2>2 DEF NewHead, ReadActiveAddrs, LaunchJobs, dbVars
  <2> QED
    BY <1>5, <2>1, <2>2 DEF TaskStep
<1>6. ASSUME NEW t \in Task, NEW a \in Addr, JobStep(t, a) PROVE RowStep(m)
  BY <1>0, <1>6 DEF JobStep, CheckCtx, TakeControl, JobFails, SyncNonce, ListCandidates, SignCandidate,
        PushSelected, Panic, Restart, dbVars
<1>7. CASE Crash \/ UNCHANGED vars
  BY <1>0, <1>7 DEF Crash, Restart, vars, dbVars
<1> QED
  BY <1>1, <1>2, <1>3, <1>4, <1>5, <1>6, <1>7 DEF Next

(* A row that is signed stays signed under its nonce, and no other row is signed. *)
SameSigned(m) ==
    /\ msgs'[m].signed = msgs[m].signed
    /\ msgs[m].signed => msgs'[m].nonce = msgs[m].nonce

LEMMA RowStepSigned ==
    ASSUME TypeOK, SignInv, NEW m \in MsgId, RowStep(m)
    PROVE  SameSigned(m)
<1>1. m \in pushing => ~msgs[m].signed
  BY DEF SignInv
<1>2. msgs[m].signed \in BOOLEAN
  BY DEF TypeOK, MsgRow
<1>3. CASE m \in pushing /\ msgs'[m] = NewMsg
  <2>1. msgs[m].signed = FALSE /\ msgs'[m].signed = FALSE
    BY <1>1, <1>2, <1>3 DEF NewMsg
  <2> QED
    BY <2>1 DEF SameSigned
<1>4. CASE msgs'[m].signed = msgs[m].signed /\ msgs'[m].nonce = msgs[m].nonce
  BY <1>4 DEF SameSigned
<1> QED
  BY <1>3, <1>4 DEF RowStep

(* Only an unfilled message that was cleared, or marked bad, stops being signable. *)
LEMMA SignableKept ==
    ASSUME TypeOK, SignInv, NEW m \in MsgId, RowStep(m), Signable(m), \A t \in Task : tasks[t].pc # "waiting"
    PROVE  Signable(m)'
<1>1. m \notin pushing
  BY DEF SignInv, Signable
<1> QED
  BY <1>1 DEF RowStep, Signable, NewMsg

(* What saveSelectedMessages does to the rows: each selected one is signed under the nonce
   the selection gave it, and the others keep their state, signature and nonce. *)
LEMMA SavedRows ==
    ASSUME TypeOK, NonceInv, NEW t \in Task, NEW a \in Addr, SaveSelected(t, a)
    PROVE  /\ \A s \in jobs[t][a].sel : /\ s.id \in MsgId /\ s.id \in SelIds(jobs[t][a])
                                        /\ From[s.id] = a /\ s.nonce \in Nat
                                        /\ msgs'[s.id].signed /\ msgs'[s.id].nonce = s.nonce
                                        /\ msgs'[s.id].state = "Fill"
           /\ \A m \in MsgId : m \in SelIds(jobs[t][a]) => \E s \in jobs[t][a].sel : s.id = m
           /\ \A m \in MsgId : m \notin SelIds(jobs[t][a]) =>
                 /\ msgs'[m].signed = msgs[m].signed /\ msgs'[m].nonce = msgs[m].nonce
                 /\ msgs'[m].state = msgs[m].state
<1> DEFINE j == jobs[t][a]
<1>1. j \in JobRec /\ msgs' = SavedMsgs(j)
  BY DEF SaveSelected, TypeOK
<1>2. SelectionFresh(t, a)
  BY DEF NonceInv
<1>3. ASSUME NEW s \in j.sel
      PROVE  /\ s.id \in MsgId /\ s.id \in SelIds(j) /\ From[s.id] = a /\ s.nonce \in Nat
             /\ msgs'[s.id].signed /\ msgs'[s.id].nonce = s.nonce /\ msgs'[s.id].state = "Fill"
  <2>1. s.id \in MsgId /\ s.nonce \in Nat /\ s.id \in SelIds(j) /\ From[s.id] = a
    BY <1>1, <1>2 DEF JobRec, Signed, SelIds, SelectionFresh
  <2> DEFINE r == CHOOSE r \in j.sel : r.id = s.id
  <2>2. r \in j.sel /\ r.id = s.id
    OBVIOUS
  <2>3. msgs'[s.id] = [state |-> "Fill", nonce |-> r.nonce, signed |-> TRUE, err |-> FALSE]
    BY <1>1, <2>1, Zenon DEF SavedMsgs
  <2> HIDE DEF r
  <2>4. r = s
    BY <1>2, <2>2 DEF SelectionFresh
  <2> QED
    BY <2>1, <2>3, <2>4
<1>4. ASSUME NEW m \in MsgId, m \notin SelIds(j)
      PROVE  msgs'[m].signed = msgs[m].signed /\ msgs'[m].nonce = msgs[m].nonce /\ msgs'[m].state = msgs[m].state
  BY <1>1, <1>4 DEF SavedMsgs, TypeOK, MsgRow
<1>5. \A m \in MsgId : m \in SelIds(j) => \E s \in j.sel : s.id = m
  BY DEF SelIds
<1> QED
  BY <1>3, <1>4, <1>5

-----------------------------------------------------------------------------
(* SignInv is inductive *)

LEMMA PushingStep ==
    ASSUME [Next]_vars, NEW m \in pushing'
    PROVE  m \in pushing \/ msgs[m].state = "None"
<1>1. ASSUME NEW k \in MsgId, MsgApi(k) \/ Refresh(k) PROVE m \in pushing \/ msgs[m].state = "None"
  BY <1>1 DEF MsgApi, PushPrepare, PushCreate, PushFails, MarkBadMessage, RepublishMessage, UpdateMessageStateByID,
              Refresh, RefreshApply, RefreshRevert
<1>2. ASSUME NEW a \in Addr, AddrApi(a) \/ ChainStep(a) PROVE m \in pushing
  BY <1>2 DEF AddrApi, RecoverFailedMsg, UpdateState, SetSelectMsgNum, UpdateNonce, DeleteAddress,
              ChainStep, ChainExtend, ChainReorg
<1>3. ASSUME NEW t \in Task, TaskStep(t) PROVE m \in pushing
  BY <1>3 DEF TaskStep, NewHead, DelayOver, ReadActiveAddrs, LaunchJobs
<1>4. ASSUME NEW t \in Task, NEW a \in Addr, JobStep(t, a) PROVE m \in pushing
  BY <1>4 DEF JobStep, CheckCtx, TakeControl, JobFails, SyncNonce, ListCandidates, SignCandidate, SaveSelected,
              PushSelected, Panic, Restart
<1>5. CASE Crash \/ UNCHANGED vars
  BY <1>5 DEF Crash, Restart, vars
<1> QED
  BY <1>1, <1>2, <1>3, <1>4, <1>5 DEF Next

(* The rows: an unfilled message has no signature, and a message being pushed has no row. *)
UnfilledUnsigned == \A m \in MsgId : msgs[m].state \in {"None", "UnFill"} => ~msgs[m].signed

PushingAbsent == \A m \in pushing : msgs[m].state = "None"

LEMMA RowsNext ==
    ASSUME TypeOK, SignInv, [Next]_vars, \A m \in MsgId : RowStep(m)
    PROVE  UnfilledUnsigned' /\ PushingAbsent'
<1>1. ASSUME NEW m \in MsgId, msgs'[m].state \in {"None", "UnFill"} PROVE ~msgs'[m].signed
  BY <1>1 DEF SignInv, RowStep, NewMsg
<1>2. ASSUME NEW m \in pushing' PROVE msgs'[m].state = "None"
  <2>1. pushing' \subseteq MsgId
    BY TypeNext DEF TypeOK
  <2>2. msgs[m].state = "None"
    BY <1>2, PushingStep DEF SignInv
  <2> QED
    BY <1>2, <2>1, <2>2 DEF RowStep
<1> QED
  BY <1>1, <1>2 DEF UnfilledUnsigned, PushingAbsent

(* What a goroutine holds may be signed or has been. *)
HoldsSignable(k) ==
    /\ \A m \in k.cand : Signable(m)
    /\ \A s \in k.sel : Signable(s.id)
    /\ \A p \in k.toPush : InTable(p)

(* A step of a goroutine that does not save: the rows stay, and what it holds is as before, a
   candidate just listed, or a filled message just listed. *)
LEMMA JobSelectsSignable ==
    ASSUME TypeOK, SignInv, NEW t \in Task, NEW a \in Addr, JobStep(t, a), ~Restart, ~SaveSelected(t, a)
    PROVE  /\ msgs' = msgs
           /\ \E k : SetJob(t, a, k) /\ HoldsSignable(k)
<1> DEFINE j == jobs[t][a]
           Good(k) == SetJob(t, a, k) /\ HoldsSignable(k)
<1> USE DEF HoldsSignable
<1>0. /\ j \in JobRec
      /\ \A m \in j.cand : Signable(m)
      /\ \A s \in j.sel : Signable(s.id)
      /\ \A p \in j.toPush : InTable(p)
  BY DEF TypeOK, SignInv, SelectsSignable
<1>1. msgs' = msgs
  BY DEF JobStep, CheckCtx, TakeControl, JobFails, SyncNonce, ListCandidates, SignCandidate, PushSelected,
         Panic, dbVars
<1>2. CASE SetJob(t, a, NoJob)
  <2>1. NoJob.cand = {} /\ NoJob.sel = {} /\ NoJob.toPush = {}
    BY DEF NoJob
  <2> QED
    BY <1>1, <1>2, <2>1
<1>3. CASE \E p, n : SetJob(t, a, [j EXCEPT !.pc = p, !.nonce = n])
  <2>1. PICK p, n : SetJob(t, a, [j EXCEPT !.pc = p, !.nonce = n])
    BY <1>3
  <2> DEFINE k == [j EXCEPT !.pc = p, !.nonce = n]
  <2>2. k.cand = j.cand /\ k.sel = j.sel /\ k.toPush = j.toPush /\ SetJob(t, a, k)
    BY <1>0, <2>1 DEF JobRec
  <2> HIDE DEF k
  <2> QED
    BY <1>0, <1>1, <2>2
<1>4. CASE CheckCtx(t, a) \/ TakeControl(t, a)
  <2>1. ASSUME NEW p PROVE [j EXCEPT !.pc = p] = [j EXCEPT !.pc = p, !.nonce = j.nonce]
    BY <1>0 DEF JobRec
  <2>2. SetJob(t, a, NoJob) \/ \E p : SetJob(t, a, [j EXCEPT !.pc = p])
    BY <1>4 DEF CheckCtx, TakeControl
  <2>3. SetJob(t, a, NoJob) \/ \E p, n : SetJob(t, a, [j EXCEPT !.pc = p, !.nonce = n])
    BY <2>1, <2>2, Zenon
  <2> QED
    BY <1>2, <1>3, <2>3
<1>5. CASE JobFails(t, a) \/ PushSelected(t, a)
  BY <1>2, <1>5 DEF JobFails, PushSelected, Finish
<1>6. CASE SyncNonce(t, a)
  <2>1. \E n : SetJob(t, a, [j EXCEPT !.pc = "list", !.nonce = n])
    BY <1>6, Zenon DEF SyncNonce
  <2> QED
    BY <1>3, <2>1, Zenon
<1>7. CASE ListCandidates(t, a)
  <2>1. ASSUME NEW toPush \in {{}} \cup (IF NilSignature(t, a) THEN {} ELSE {FilledFrom(a, tasks[t].ts[a])}), NEW p \in toPush
        PROVE  InTable(p)
    <3>1. ~NilSignature(t, a) /\ p \in FilledFrom(a, tasks[t].ts[a])
      BY SMTT(60), <2>1
    <3>2. jobs[t][a].pc = "list"
      BY <1>7 DEF ListCandidates
    <3> QED
      BY <3>1, <3>2 DEF NilSignature, FilledFrom, AsSigned, InTable
  <2>2. ASSUME NEW n, NEW m \in ListUnChain(a, n) PROVE Signable(m)
    BY <2>2 DEF ListUnChain, InState, Signable, SignInv
  <2>3. \E p \in {{}} \cup (IF NilSignature(t, a) THEN {} ELSE {FilledFrom(a, tasks[t].ts[a])}) :
          \/ SetJob(t, a, [j EXCEPT !.pc = "push", !.toPush = p])
          \/ \E w, n : \E c \in SUBSET ListUnChain(a, n) :
                SetJob(t, a, [j EXCEPT !.pc = "sign", !.toPush = p, !.want = w, !.cand = c])
    BY <1>7, ZenonT(60) DEF ListCandidates, EstimateMessage
  <2>4. PICK p \in {{}} \cup (IF NilSignature(t, a) THEN {} ELSE {FilledFrom(a, tasks[t].ts[a])}) :
          \/ SetJob(t, a, [j EXCEPT !.pc = "push", !.toPush = p])
          \/ \E w, n : \E c \in SUBSET ListUnChain(a, n) :
                SetJob(t, a, [j EXCEPT !.pc = "sign", !.toPush = p, !.want = w, !.cand = c])
    BY <2>3
  <2>5. \A q \in p : InTable(q)
    BY <2>1, <2>4
  <2>6. CASE SetJob(t, a, [j EXCEPT !.pc = "push", !.toPush = p])
    <3> DEFINE k == [j EXCEPT !.pc = "push", !.toPush = p]
    <3>1. k.cand = j.cand /\ k.sel = j.sel /\ k.toPush = p /\ SetJob(t, a, k)
      BY <1>0, <2>6 DEF JobRec
    <3> HIDE DEF k
    <3> QED
      BY <1>0, <1>1, <2>5, <3>1
  <2>7. ASSUME NEW w, NEW n, NEW c \in SUBSET ListUnChain(a, n),
               SetJob(t, a, [j EXCEPT !.pc = "sign", !.toPush = p, !.want = w, !.cand = c])
        PROVE  \E k : Good(k)
    <3> DEFINE k == [j EXCEPT !.pc = "sign", !.toPush = p, !.want = w, !.cand = c]
    <3>1. k.cand = c /\ k.sel = j.sel /\ k.toPush = p /\ SetJob(t, a, k)
      BY <1>0, <2>7 DEF JobRec
    <3>2. \A m \in c : Signable(m)
      BY <2>2, <2>7
    <3> HIDE DEF k
    <3> QED
      BY <1>0, <2>5, <3>1, <3>2
  <2> QED
    BY <1>1, <2>4, <2>6, <2>7
<1>8. CASE SignCandidate(t, a)
  <2>1. PICK m \in j.cand :
          \/ \E e : \E c \in SUBSET j.cand : SetJob(t, a, [j EXCEPT !.cand = c, !.errs = e])
          \/ \E c \in SUBSET j.cand : SetJob(t, a, [j EXCEPT !.cand = c])
          \/ \E n, w : SetJob(t, a, [j EXCEPT !.cand = @ \ {m}, !.nonce = n, !.want = w,
                                              !.sel = @ \cup {[id |-> m, nonce |-> j.nonce]}])
    <3>1. \A m \in j.cand : j.cand \ {m} \in SUBSET j.cand /\ {} \in SUBSET j.cand
      OBVIOUS
    <3> QED
      BY <1>8, <3>1, Zenon DEF SignCandidate
  <2>2. ASSUME NEW e, NEW c \in SUBSET j.cand, SetJob(t, a, [j EXCEPT !.cand = c, !.errs = e])
        PROVE  \E k : Good(k)
    <3> DEFINE k == [j EXCEPT !.cand = c, !.errs = e]
    <3>1. k.cand = c /\ k.sel = j.sel /\ k.toPush = j.toPush /\ SetJob(t, a, k)
      BY <1>0, <2>2 DEF JobRec
    <3> HIDE DEF k
    <3> QED
      BY <1>0, <2>2, <3>1
  <2>3. ASSUME NEW c \in SUBSET j.cand, SetJob(t, a, [j EXCEPT !.cand = c])
        PROVE  \E k : Good(k)
    <3> DEFINE k == [j EXCEPT !.cand = c]
    <3>1. k.cand = c /\ k.sel = j.sel /\ k.toPush = j.toPush /\ SetJob(t, a, k)
      BY <1>0, <2>3 DEF JobRec
    <3> HIDE DEF k
    <3> QED
      BY <1>0, <2>3, <3>1
  <2>4. ASSUME NEW n, NEW w,
               SetJob(t, a, [j EXCEPT !.cand = @ \ {m}, !.nonce = n, !.want = w,
                                      !.sel = @ \cup {[id |-> m, nonce |-> j.nonce]}])
        PROVE  \E k : Good(k)
    <3> DEFINE k == [j EXCEPT !.cand = @ \ {m}, !.nonce = n, !.want = w,
                              !.sel = @ \cup {[id |-> m, nonce |-> j.nonce]}]
    <3>1. /\ k.cand = j.cand \ {m} /\ k.sel = j.sel \cup {[id |-> m, nonce |-> j.nonce]}
          /\ k.toPush = j.toPush /\ SetJob(t, a, k)
      BY <1>0, <2>4 DEF JobRec
    <3> HIDE DEF k
    <3>2. \A s \in k.sel : Signable(s.id)
      <4>1. Signable(m)
        BY <1>0, <2>1
      <4>2. ASSUME NEW s \in k.sel PROVE s \in j.sel \/ s.id = m
        BY <3>1, <4>2
      <4> QED
        BY SMTT(60), <1>0, <4>1, <4>2
    <3>3. (\A i \in k.cand : Signable(i)) /\ \A p \in k.toPush : InTable(p)
      BY <1>0, <3>1
    <3> QED
      BY <3>1, <3>2, <3>3
  <2> QED
    BY <1>1, <2>1, <2>2, <2>3, <2>4
<1> QED
  BY <1>4, <1>5, <1>6, <1>7, <1>8 DEF JobStep, Panic

LEMMA SelectsSignableKept ==
    ASSUME NEW t \in Task, NEW a \in Addr, SelectsSignable(t, a), jobs'[t][a] = jobs[t][a],
           TypeOK, \A m \in MsgId : SameSigned(m),
           \A m \in MsgId : (m \in jobs[t][a].cand \/ \E s \in jobs[t][a].sel : m = s.id) /\ Signable(m)
                             => Signable(m)'
    PROVE  SelectsSignable(t, a)'
<1> DEFINE j == jobs[t][a]
<1>1. j \in JobRec
  BY DEF TypeOK
<1>2. j.cand \subseteq MsgId /\ (\A s \in j.sel : s.id \in MsgId) /\ \A p \in j.toPush : p.id \in MsgId
  BY <1>1 DEF JobRec, Signed
<1>3. \A p \in j.toPush : InTable(p)'
  BY <1>2 DEF SelectsSignable, InTable, SameSigned
<1>4. (\A m \in j.cand : Signable(m)') /\ \A s \in j.sel : Signable(s.id)'
  BY <1>2 DEF SelectsSignable
<1> QED
  BY <1>3, <1>4 DEF SelectsSignable

(* No goroutine holds anything while its task waits, and no other task exists. *)
LEMMA WaitingHoldsNothing ==
    ASSUME NonceInv, OneTask, NEW u \in Task, tasks[u].pc # "running", NEW t \in Task, NEW a \in Addr
    PROVE  jobs[t][a].cand = {} /\ jobs[t][a].sel = {} /\ jobs[t][a].pc = "none"
<1>1. RunsInTask(t, a) /\ SelectionFresh(t, a) /\ t = u
  BY DEF NonceInv, OneTask
<1> QED
  BY <1>1 DEF RunsInTask, SelectionFresh

(* saveSelectedMessages *)
LEMMA SaveSignInv ==
    ASSUME TypeOK, NonceInv, SignInv, OneTask, NEW t \in Task, NEW a \in Addr, SaveSelected(t, a)
    PROVE  SignInv'
<1> DEFINE j == jobs[t][a]
<1>0. /\ j \in JobRec /\ j.cand = {} /\ UNCHANGED <<pushing, pushed>>
      /\ SetJob(t, a, [j EXCEPT !.pc = "push", !.toPush = @ \cup j.sel, !.sel = {}, !.errs = {}, !.want = 0])
  BY DEF SaveSelected, TypeOK
<1>s. SelectionFresh(t, a) /\ SelectsSignable(t, a)
  BY DEF NonceInv, SignInv
<1>1. /\ \A s \in j.sel : /\ s.id \in MsgId /\ s.id \in SelIds(j)
                           /\ msgs'[s.id].signed /\ msgs'[s.id].nonce = s.nonce /\ msgs'[s.id].state = "Fill"
      /\ \A m \in MsgId : m \in SelIds(j) => \E s \in j.sel : s.id = m
      /\ \A m \in MsgId : m \notin SelIds(j) =>
           msgs'[m].signed = msgs[m].signed /\ msgs'[m].nonce = msgs[m].nonce /\ msgs'[m].state = msgs[m].state
  BY SavedRows
<1>2. \A m \in MsgId : m \in SelIds(j) => From[m] = a /\ Signable(m) /\ msgs'[m].state = "Fill"
  BY <1>1, <1>s DEF SelectionFresh, SelectsSignable
<1>3. ASSUME NEW p, p.id \in MsgId, InTable(p) PROVE InTable(p)'
  <2>1. p.id \notin SelIds(j)
    BY <1>2, <1>3 DEF InTable, Signable
  <2> QED
    BY <1>1, <1>3, <2>1 DEF InTable
<1>4. UnfilledUnsigned'
  <2> SUFFICES ASSUME NEW m \in MsgId, msgs'[m].state \in {"None", "UnFill"} PROVE ~msgs'[m].signed
    BY DEF UnfilledUnsigned
  <2>1. m \notin SelIds(j)
    BY <1>2
  <2> QED
    BY <1>1, <2>1 DEF SignInv
<1>5. PushingAbsent'
  <2> SUFFICES ASSUME NEW m \in pushing PROVE msgs'[m].state = "None"
    BY <1>0 DEF PushingAbsent
  <2>1. m \in MsgId /\ msgs[m].state = "None"
    BY DEF TypeOK, SignInv
  <2>2. m \notin SelIds(j)
    BY <1>2, <2>1 DEF Signable
  <2> QED
    BY <1>1, <2>1, <2>2
<1>6. PublishedPersisted'
  <2> SUFFICES ASSUME NEW p \in pushed PROVE InTable(p)'
    BY <1>0 DEF PublishedPersisted, InTable
  <2>1. p.id \in MsgId /\ InTable(p)
    BY DEF TypeOK, Signed, SignInv, PublishedPersisted, InTable
  <2> QED
    BY <1>3, <2>1
<1>7. SelectsSignable(t, a)'
  <2> DEFINE k == [j EXCEPT !.pc = "push", !.toPush = @ \cup j.sel, !.sel = {}, !.errs = {}, !.want = 0]
  <2>1. k.cand = {} /\ k.sel = {} /\ k.toPush = j.toPush \cup j.sel
    BY <1>0 DEF JobRec
  <2>2. SetJob(t, a, k)
    BY <1>0
  <2> HIDE DEF k
  <2>3. jobs'[t][a] = k
    BY <2>2, SetJobEffect DEF TypeOK
  <2>4. \A p \in j.toPush : p.id \in MsgId /\ InTable(p)
    BY <1>0, <1>s DEF JobRec, Signed, SelectsSignable
  <2>5. \A p \in j.toPush : InTable(p)'
    BY <1>3, <2>4
  <2>6. \A p \in j.sel : InTable(p)'
    BY <1>1 DEF InTable
  <2> QED
    BY <2>1, <2>3, <2>5, <2>6 DEF SelectsSignable
<1>8. ASSUME NEW b \in Addr, b # a PROVE SelectsSignable(t, b)'
  <2>1. jobs'[t][b] = jobs[t][b]
    BY <1>0, <1>8, SetJobEffect DEF TypeOK
  <2>2. SelectsSignable(t, b) /\ SelectionFresh(t, b) /\ jobs[t][b] \in JobRec
    BY DEF SignInv, NonceInv, TypeOK
  <2>3. ASSUME NEW m \in MsgId, From[m] = b, Signable(m) PROVE Signable(m)'
    <3>1. m \notin SelIds(j)
      BY <1>2, <1>8, <2>3
    <3> QED
      BY <1>1, <2>3, <3>1 DEF Signable
  <2>4. /\ \A m \in jobs[t][b].cand : m \in MsgId /\ From[m] = b /\ Signable(m)
        /\ \A s \in jobs[t][b].sel : s.id \in MsgId /\ From[s.id] = b /\ Signable(s.id)
        /\ \A p \in jobs[t][b].toPush : p.id \in MsgId /\ InTable(p)
    BY <2>2 DEF SelectsSignable, SelectionFresh, JobRec, Signed
  <2>5. (\A m \in jobs[t][b].cand : Signable(m)') /\ \A s \in jobs[t][b].sel : Signable(s.id)'
    BY <2>3, <2>4
  <2>6. \A p \in jobs[t][b].toPush : InTable(p)'
    BY <1>3, <2>4
  <2> QED
    BY <2>1, <2>5, <2>6 DEF SelectsSignable
<1> QED
  BY <1>4, <1>5, <1>6, <1>7, <1>8 DEF SignInv, UnfilledUnsigned, PushingAbsent, OneTask

(* What is handed to the publisher comes from the table or from a goroutine's batch. *)
LEMMA PushedStep ==
    ASSUME TypeOK, SignInv, [Next]_vars, NEW p \in pushed'
    PROVE  InTable(p)
<1>0. CASE pushed' = pushed
  BY <1>0 DEF SignInv, PublishedPersisted, InTable
<1>1. ASSUME NEW m \in MsgId, MsgApi(m) \/ Refresh(m) PROVE InTable(p)
  <2>1. CASE RepublishMessage(m)
    BY <2>1 DEF RepublishMessage, AsSigned, InTable, SignInv, PublishedPersisted
  <2>2. CASE ~RepublishMessage(m)
    BY <1>0, <1>1, <2>2 DEF MsgApi, PushPrepare, PushCreate, PushFails, MarkBadMessage, UpdateMessageStateByID,
                            Refresh, RefreshApply, RefreshRevert
  <2> QED
    BY <2>1, <2>2
<1>2. ASSUME NEW a \in Addr, AddrApi(a) \/ ChainStep(a) PROVE InTable(p)
  BY <1>0, <1>2 DEF AddrApi, RecoverFailedMsg, UpdateState, SetSelectMsgNum, UpdateNonce, DeleteAddress,
              ChainStep, ChainExtend, ChainReorg
<1>3. ASSUME NEW t \in Task, TaskStep(t) PROVE InTable(p)
  BY <1>0, <1>3 DEF TaskStep, NewHead, DelayOver, ReadActiveAddrs, LaunchJobs
<1>4. ASSUME NEW t \in Task, NEW a \in Addr, JobStep(t, a) PROVE InTable(p)
  <2>1. CASE PushSelected(t, a)
    BY <2>1 DEF PushSelected, InTable, SignInv, PublishedPersisted, SelectsSignable
  <2>2. CASE ~PushSelected(t, a)
    BY <1>0, <1>4, <2>2 DEF JobStep, CheckCtx, TakeControl, JobFails, SyncNonce, ListCandidates, SignCandidate,
                            SaveSelected, Panic, Restart
  <2> QED
    BY <2>1, <2>2
<1>5. CASE Crash \/ UNCHANGED vars
  BY <1>0, <1>5 DEF Crash, Restart, vars
<1> QED
  BY <1>1, <1>2, <1>3, <1>4, <1>5 DEF Next

(* A task's step starts goroutines that hold nothing, or none. *)
LEMMA TaskJobs ==
    ASSUME TypeOK, NEW t \in Task, TaskStep(t), NEW u \in Task, NEW a \in Addr
    PROVE  \/ jobs'[u][a] = jobs[u][a]
           \/ jobs'[u][a].cand = {} /\ jobs'[u][a].sel = {} /\ jobs'[u][a].toPush = {}
<1>1. CASE NewHead(t) \/ DelayOver(t) \/ ReadActiveAddrs(t)
  BY <1>1 DEF NewHead, DelayOver, ReadActiveAddrs
<1>2. CASE LaunchJobs(t)
  <2>1. PICK ws \in [Addr -> Gen \cup {NoWork}] :
          \/ jobs' = [jobs EXCEPT ![t] = [b \in Addr |->
                IF ws[b] = NoWork THEN NoJob ELSE [NoJob EXCEPT !.pc = "spawned", !.work = ws[b]]]]
          \/ jobs' = jobs
    BY <1>2 DEF LaunchJobs
  <2>2. CASE jobs' = jobs \/ u # t
    BY <2>1, <2>2 DEF TypeOK
  <2>3. CASE jobs' # jobs /\ u = t
    <3> DEFINE k == [NoJob EXCEPT !.pc = "spawned", !.work = ws[a]]
    <3>1. /\ k.cand = {} /\ k.sel = {} /\ k.toPush = {}
          /\ NoJob.cand = {} /\ NoJob.sel = {} /\ NoJob.toPush = {}
      BY DEF NoJob
    <3>2. jobs'[t] = [b \in Addr |->
                IF ws[b] = NoWork THEN NoJob ELSE [NoJob EXCEPT !.pc = "spawned", !.work = ws[b]]]
      BY <2>1, <2>3 DEF TypeOK
    <3>3. jobs'[t][a] = IF ws[a] = NoWork THEN NoJob ELSE k
      BY <3>2, Zenon
    <3> HIDE DEF k
    <3> QED
      BY <2>3, <3>1, <3>3
  <2> QED
    BY <2>2, <2>3
<1> QED
  BY <1>1, <1>2 DEF TaskStep

LEMMA SignNext ==
    ASSUME TypeOK, NonceInv, SignInv, OneTask, NoStateSet, [Next]_vars
    PROVE  SignInv'
<1>1. CASE \E t \in Task, a \in Addr : SaveSelected(t, a)
  BY <1>1, SaveSignInv
<1>2. CASE ~ \E t \in Task, a \in Addr : SaveSelected(t, a)
  <2>1. \A m \in MsgId : RowStep(m) /\ SameSigned(m)
    BY <1>2, NextRowStep, RowStepSigned
  <2>2. UnfilledUnsigned' /\ PushingAbsent'
    BY <2>1, RowsNext
  <2>3. PublishedPersisted'
    <3> SUFFICES ASSUME NEW p \in pushed' PROVE InTable(p)'
      BY DEF PublishedPersisted, InTable
    <3>1. p.id \in MsgId
      BY TypeNext DEF TypeOK, Signed
    <3> QED
      BY <2>1, <3>1, PushedStep DEF InTable, SameSigned
  <2>4. ASSUME NEW t \in Task, NEW a \in Addr PROVE SelectsSignable(t, a)'
    <3>0. SelectsSignable(t, a)
      BY DEF SignInv
    <3>1. CASE jobs'[t][a] = jobs[t][a]
      <4>1. CASE \E u \in Task : tasks[u].pc = "waiting"
        <5>1. jobs[t][a].cand = {} /\ jobs[t][a].sel = {}
          BY <4>1, WaitingHoldsNothing
        <5> QED
          BY <2>1, <3>0, <3>1, <5>1, SelectsSignableKept
      <4>2. CASE \A u \in Task : tasks[u].pc # "waiting"
        <5>1. \A m \in MsgId : Signable(m) => Signable(m)'
          BY <2>1, <4>2, SignableKept
        <5> QED
          BY <2>1, <3>0, <3>1, <5>1, SelectsSignableKept
      <4> QED
        BY <4>1, <4>2
    <3>2. CASE jobs'[t][a].cand = {} /\ jobs'[t][a].sel = {} /\ jobs'[t][a].toPush = {}
      BY <3>2 DEF SelectsSignable
    <3>3. CASE Restart
      <4>1. jobs'[t][a] = NoJob
        BY <3>3 DEF Restart
      <4> QED
        BY <3>2, <4>1 DEF NoJob
    <3>4. ASSUME NEW u \in Task, TaskStep(u) PROVE SelectsSignable(t, a)'
      BY <3>1, <3>2, <3>4, TaskJobs
    <3>5. ASSUME NEW u \in Task, NEW b \in Addr, JobStep(u, b), ~Restart PROVE SelectsSignable(t, a)'
      <4>1. ~SaveSelected(u, b)
        BY <1>2
      <4>2. msgs' = msgs
        BY <3>5, <4>1, JobSelectsSignable
      <4>3. PICK k : SetJob(u, b, k) /\ HoldsSignable(k)
        BY <3>5, <4>1, JobSelectsSignable
      <4>4. CASE u = t /\ b = a
        <5>1. jobs'[t][a] = k
          BY <4>3, <4>4, SetJobEffect DEF TypeOK
        <5>2. /\ \A m \in k.cand : Signable(m)'
              /\ \A s \in k.sel : Signable(s.id)'
              /\ \A p \in k.toPush : InTable(p)'
          BY <4>2, <4>3 DEF HoldsSignable, Signable, InTable
        <5> QED
          BY <5>1, <5>2 DEF SelectsSignable
      <4>5. CASE u # t \/ b # a
        BY <3>1, <4>3, <4>5, SetJobEffect DEF TypeOK
      <4> QED
        BY <4>4, <4>5
    <3>6. CASE jobs' = jobs
      BY <3>1, <3>6
    <3>7. ASSUME NEW m \in MsgId, MsgApi(m) \/ Refresh(m) PROVE jobs' = jobs
      BY <3>7 DEF MsgApi, PushPrepare, PushCreate, PushFails, MarkBadMessage, RepublishMessage,
                  UpdateMessageStateByID, Refresh, RefreshApply, RefreshRevert
    <3>8. ASSUME NEW b \in Addr, AddrApi(b) \/ ChainStep(b) PROVE jobs' = jobs
      BY <3>8 DEF AddrApi, RecoverFailedMsg, UpdateState, SetSelectMsgNum, UpdateNonce, DeleteAddress,
                  ChainStep, ChainExtend, ChainReorg
    <3>9. CASE UNCHANGED vars
      BY <3>6, <3>9 DEF vars
    <3> QED
      BY <3>3, <3>4, <3>5, <3>6, <3>7, <3>8, <3>9 DEF Next, Crash
  <2> QED
    BY <2>2, <2>3, <2>4 DEF SignInv, UnfilledUnsigned, PushingAbsent
<1> QED
  BY <1>1, <1>2

LEMMA SignInit == Init => SignInv
<1> SUFFICES ASSUME Init PROVE SignInv
  OBVIOUS
<1>1. \A m \in MsgId : ~msgs[m].signed
  BY DEF Init, NoMsg
<1>2. \A t \in Task, a \in Addr : jobs[t][a].cand = {} /\ jobs[t][a].sel = {} /\ jobs[t][a].toPush = {}
  BY DEF Init, NoJob
<1>3. pushing = {} /\ pushed = {}
  BY DEF Init
<1> QED
  BY <1>1, <1>2, <1>3 DEF SignInv, SelectsSignable, PublishedPersisted

LEMMA SignAlways ==
    ASSUME OneTask, NoNonceReset, NoStateSet
    PROVE  Spec => []SignInv
<1>1. TypeOK /\ NonceInv /\ SignInv /\ [Next]_vars => SignInv'
  BY SignNext
<1> QED
  BY <1>1, SignInit, TypeCorrect, NonceInvariant, PTL DEF Spec

(* What was broadcast is in the table, signed under the nonce it was broadcast with: across
   crashes between signing, saving and pushing, and when batches are dropped or republished. *)
THEOREM PublishedAreSaved ==
    ASSUME OneTask, NoNonceReset, NoStateSet
    PROVE  Spec => []PublishedPersisted
<1>1. SignInv => PublishedPersisted
  BY DEF SignInv
<1> QED
  BY <1>1, SignAlways, PTL

-----------------------------------------------------------------------------
(* Message selection implements NonceAllocator *)

(* The refinement mapping, as in Alloc: the nonces of the rows and the signed messages. *)
NextNonces == [a \in Addr |-> addrs[a].nonce]
Allocated  == {AsSigned(m) : m \in {k \in MsgId : msgs[k].signed}}

LEMMA AllocatedIff ==
    ASSUME NEW p
    PROVE  /\ p \in Allocated <=> \E m \in MsgId : msgs[m].signed /\ p = [id |-> m, nonce |-> msgs[m].nonce]
           /\ p \in Allocated' <=> \E m \in MsgId : msgs'[m].signed /\ p = [id |-> m, nonce |-> msgs'[m].nonce]
BY DEF Allocated, AsSigned

LEMMA AllocatedStays ==
    ASSUME \A m \in MsgId : SameSigned(m)
    PROVE  Allocated' = Allocated
<1>1. ASSUME NEW p PROVE p \in Allocated' <=> p \in Allocated
  BY AllocatedIff DEF SameSigned
<1> QED
  BY <1>1

(* Only the selection's own steps move the nonce of a row. *)
LEMMA NoncesStay ==
    ASSUME TypeOK, AbsentIsZero, NoNonceReset, [Next]_vars,
           ~ \E t \in Task, a \in Addr : SyncNonce(t, a) \/ SaveSelected(t, a), NEW b \in Addr
    PROVE  addrs'[b].nonce = addrs[b].nonce
<1>0. CASE addrs'[b] = addrs[b]
  BY <1>0
<1>1. ASSUME NEW m \in MsgId, MsgApi(m) \/ Refresh(m) PROVE addrs'[b].nonce = addrs[b].nonce
  <2>1. CASE PushPrepare(m)
    BY <1>0, <2>1, ConstantsAssumption DEF PushPrepare, TypeOK, AbsentIsZero, NewAddr
  <2>2. CASE ~PushPrepare(m)
    BY <1>0, <1>1, <2>2 DEF MsgApi, PushCreate, PushFails, MarkBadMessage, RepublishMessage,
                        UpdateMessageStateByID, Refresh, RefreshApply, RefreshRevert, dbVars
  <2> QED
    BY <2>1, <2>2
<1>2. ASSUME NEW a \in Addr, AddrApi(a) \/ ChainStep(a) PROVE addrs'[b].nonce = addrs[b].nonce
  <2>1. CASE addrs'[b] # addrs[b]
    <3>1. UpdateState(b, TRUE) \/ UpdateState(b, FALSE) \/ \E n \in SelNums : SetSelectMsgNum(b, n)
      BY <1>2, <2>1 DEF AddrApi, RecoverFailedMsg, UpdateState, SetSelectMsgNum, UpdateNonce,
                        DeleteAddress, NoNonceReset, ChainStep, ChainExtend, ChainReorg, dbVars, TypeOK
    <3> QED
      BY <3>1 DEF UpdateState, SetSelectMsgNum, TypeOK, AddrRow
  <2> QED
    BY <1>0, <2>1
<1>3. ASSUME NEW t \in Task, TaskStep(t) PROVE addrs'[b].nonce = addrs[b].nonce
  BY <1>0, <1>3 DEF TaskStep, NewHead, DelayOver, ReadActiveAddrs, LaunchJobs, dbVars
<1>4. ASSUME NEW t \in Task, NEW a \in Addr, JobStep(t, a) PROVE addrs'[b].nonce = addrs[b].nonce
  BY <1>0, <1>4 DEF JobStep, CheckCtx, TakeControl, JobFails, ListCandidates, SignCandidate, PushSelected,
                    Panic, Restart, dbVars
<1>5. CASE Crash \/ UNCHANGED vars
  BY <1>0, <1>5 DEF Crash, Restart, dbVars, vars
<1> QED
  BY <1>1, <1>2, <1>3, <1>4, <1>5 DEF Next

(* Nothing that was handed to the publisher is taken back. *)
LEMMA PushedGrows ==
    ASSUME [Next]_vars
    PROVE  pushed \subseteq pushed'
<1>1. ASSUME NEW m \in MsgId, MsgApi(m) \/ Refresh(m) PROVE pushed \subseteq pushed'
  BY <1>1 DEF MsgApi, PushPrepare, PushCreate, PushFails, MarkBadMessage, RepublishMessage, UpdateMessageStateByID,
              Refresh, RefreshApply, RefreshRevert
<1>2. ASSUME NEW a \in Addr, AddrApi(a) \/ ChainStep(a) PROVE pushed \subseteq pushed'
  BY <1>2 DEF AddrApi, RecoverFailedMsg, UpdateState, SetSelectMsgNum, UpdateNonce, DeleteAddress,
              ChainStep, ChainExtend, ChainReorg
<1>3. ASSUME NEW t \in Task, TaskStep(t) PROVE pushed \subseteq pushed'
  BY <1>3 DEF TaskStep, NewHead, DelayOver, ReadActiveAddrs, LaunchJobs
<1>4. ASSUME NEW t \in Task, NEW a \in Addr, JobStep(t, a) PROVE pushed \subseteq pushed'
  BY <1>4 DEF JobStep, CheckCtx, TakeControl, JobFails, SyncNonce, ListCandidates, SignCandidate, SaveSelected,
              PushSelected, Panic, Restart
<1>5. CASE Crash \/ UNCHANGED vars
  BY <1>5 DEF Crash, Restart, vars
<1> QED
  BY <1>1, <1>2, <1>3, <1>4, <1>5 DEF Next

(* The row of another address stays, and the row of a moves: an update of one component. *)
LEMMA NextNoncesUpdate ==
    ASSUME NEW a \in Addr, \A b \in Addr : b # a => addrs'[b].nonce = addrs[b].nonce
    PROVE  NextNonces' = [NextNonces EXCEPT ![a] = NextNonces'[a]]
BY DEF NextNonces

(* saveSelectedMessages gives the selected messages their nonces, all at once. *)
LEMMA SaveAllocates ==
    ASSUME TypeOK, NonceInv, SignInv, AbsentIsZero, OneTask, NoNonceReset,
           NEW t \in Task, NEW a \in Addr, SaveSelected(t, a)
    PROVE  Alloc!Allocate(a)
<1> DEFINE j == jobs[t][a]
           batch == Allocated' \ Allocated
<1>n. Next
  BY DEF Next, JobStep
<1>0. NonceUnique' /\ RowMoves(a) /\ addrs[a].nonce \in Nat /\ addrs'[a].nonce \in Nat
  BY <1>n, NextNonceInv, NextRowMoves, TypeNext DEF NonceInv, TypeOK, AddrRow
<1>1. /\ \A s \in j.sel : /\ s.id \in MsgId /\ s.id \in SelIds(j) /\ From[s.id] = a
                           /\ msgs'[s.id].signed /\ msgs'[s.id].nonce = s.nonce
      /\ \A m \in MsgId : m \in SelIds(j) => \E s \in j.sel : s.id = m
      /\ \A m \in MsgId : m \notin SelIds(j) =>
           msgs'[m].signed = msgs[m].signed /\ msgs'[m].nonce = msgs[m].nonce
  BY SavedRows
<1>2. \A s \in j.sel : addrs[a].nonce <= s.nonce /\ s.nonce < j.nonce /\ ~msgs[s.id].signed
  BY DEF NonceInv, SelectionFresh, SignInv, SelectsSignable, Signable
<1>3. /\ \A b \in Addr : b # a => addrs'[b].nonce = addrs[b].nonce
      /\ j.sel # {} => addrs'[a].nonce = j.nonce
  <2>1. addrs[a].exists
    BY DEF NonceInv, SelectionFresh, SaveSelected
  <2> QED
    BY <2>1 DEF SaveSelected, TypeOK, AddrRow
<1>4. Allocated \subseteq Allocated'
  <2> SUFFICES ASSUME NEW p \in Allocated PROVE p \in Allocated'
    OBVIOUS
  <2>1. PICK m \in MsgId : msgs[m].signed /\ p = [id |-> m, nonce |-> msgs[m].nonce]
    BY AllocatedIff
  <2>2. m \notin SelIds(j)
    BY <1>1, <1>2, <2>1
  <2> QED
    BY <1>1, <2>1, <2>2, AllocatedIff
<1>5. ASSUME NEW b \in batch
      PROVE  \E s \in j.sel : b = [id |-> s.id, nonce |-> msgs'[s.id].nonce] /\ b.nonce = s.nonce
  <2>1. PICK m \in MsgId : msgs'[m].signed /\ b = [id |-> m, nonce |-> msgs'[m].nonce]
    BY <1>5, AllocatedIff
  <2>2. m \in SelIds(j)
    BY <1>1, <1>5, <2>1, AllocatedIff
  <2>3. PICK s \in j.sel : s.id = m
    BY <1>1, <2>2
  <2>4. b = [id |-> s.id, nonce |-> msgs'[s.id].nonce] /\ b.nonce = msgs'[s.id].nonce /\ msgs'[s.id].nonce = s.nonce
    BY <1>1, <2>1, <2>3
  <2> QED
    BY <2>4
<1>6. \A b \in batch : From[b.id] = a /\ addrs[a].nonce <= b.nonce /\ b.nonce < addrs'[a].nonce
  BY <1>1, <1>2, <1>3, <1>5
<1>7. \A b \in batch, c \in Allocated' : b.id = c.id => b = c
  BY AllocatedIff
<1>8. \A b, c \in batch : b.nonce = c.nonce => b = c
  <2> SUFFICES ASSUME NEW b \in batch, NEW c \in batch, b.nonce = c.nonce PROVE b = c
    OBVIOUS
  <2>1. PICK s \in j.sel : b = [id |-> s.id, nonce |-> msgs'[s.id].nonce]
    BY <1>5
  <2>2. PICK r \in j.sel : c = [id |-> r.id, nonce |-> msgs'[r.id].nonce]
    BY <1>5
  <2> QED
    BY <1>0, <1>1, <2>1, <2>2 DEF NonceUnique
<1>9. NextNonces' = [NextNonces EXCEPT ![a] = NextNonces'[a]]
  BY <1>3, NextNoncesUpdate
<1>10. NextNonces[a] = addrs[a].nonce /\ NextNonces'[a] = addrs'[a].nonce /\ addrs[a].nonce <= addrs'[a].nonce
  BY <1>0 DEF NextNonces, RowMoves
<1>11. pushed' = pushed
  BY DEF SaveSelected
<1> HIDE DEF batch
<1> QED
  BY <1>4, <1>6, <1>7, <1>8, <1>9, <1>10, <1>11 DEF Alloc!Allocate, NextNonces, Allocated, batch

(* selectMessage moves a row that is behind the chain: nonces used by others are skipped. *)
LEMMA SyncSkips ==
    ASSUME TypeOK, NonceInv, SignInv, AbsentIsZero, NoNonceReset, NoStateSet,
           NEW t \in Task, NEW a \in Addr, SyncNonce(t, a)
    PROVE  Alloc!Skip(a) \/ UNCHANGED <<NextNonces, Allocated, pushed>>
<1>n. Next
  BY DEF Next, JobStep
<1>1. UNCHANGED <<msgs, pushed>>
  BY Zenon DEF SyncNonce
<1>2. \A b \in Addr : b # a => addrs'[b].nonce = addrs[b].nonce
  BY SyncMovesForward
<1>3. RowMoves(a) /\ addrs[a].nonce \in Nat /\ addrs'[a].nonce \in Nat
  BY <1>n, NextRowMoves, TypeNext DEF TypeOK, AddrRow
<1>4. Allocated' = Allocated
  BY <1>1, AllocatedStays DEF SameSigned
<1>5. CASE addrs'[a].nonce = addrs[a].nonce
  BY <1>1, <1>2, <1>4, <1>5 DEF NextNonces
<1>6. CASE addrs'[a].nonce # addrs[a].nonce
  <2>1. addrs[a].nonce < addrs'[a].nonce
    BY <1>3, <1>6 DEF RowMoves
  <2>2. NextNonces[a] < NextNonces'[a]
    BY <2>1 DEF NextNonces
  <2>3. NextNonces' = [NextNonces EXCEPT ![a] = NextNonces'[a]]
    BY <1>2, NextNoncesUpdate
  <2> QED
    BY <1>1, <1>4, <2>2, <2>3 DEF Alloc!Skip, NextNonces, Allocated
<1> QED
  BY <1>5, <1>6

(* Every other step publishes signed messages or changes nothing NonceAllocator speaks of. *)
LEMMA OthersPublish ==
    ASSUME TypeOK, SignInv, AbsentIsZero, NoNonceReset, NoStateSet, [Next]_vars,
           ~ \E t \in Task, a \in Addr : SyncNonce(t, a) \/ SaveSelected(t, a)
    PROVE  Alloc!Publish
<1>1. Allocated' = Allocated
  BY NextRowStep, RowStepSigned, AllocatedStays
<1>2. NextNonces' = NextNonces
  BY NoncesStay DEF NextNonces
<1>3. pushed' \subseteq Allocated
  <2> SUFFICES ASSUME NEW p \in pushed' PROVE p \in Allocated
    OBVIOUS
  <2>1. p \in Signed /\ InTable(p)
    BY TypeNext, PushedStep DEF TypeOK
  <2>2. p.id \in MsgId /\ p = [id |-> p.id, nonce |-> msgs[p.id].nonce] /\ msgs[p.id].signed
    BY <2>1 DEF Signed, InTable
  <2> QED
    BY <2>2, AllocatedIff
<1> QED
  BY <1>1, <1>2, <1>3, PushedGrows DEF Alloc!Publish, NextNonces, Allocated

(* Message selection does what NonceAllocator promises: a message gets at most one nonce, the
   nonces of a sender are given out once and in increasing order, and only what has one is
   broadcast, under that nonce.  For selections that do not overlap, and without the API calls
   that reset the nonce of an address or the state of a message. *)
THEOREM SelectionAllocates ==
    ASSUME OneTask, NoNonceReset, NoStateSet
    PROVE  Spec => AllocSpec
<1>1. Init => Alloc!Init
  <2> SUFFICES ASSUME Init PROVE Alloc!Init
    OBVIOUS
  <2>1. NextNonces = [a \in Addr |-> 0]
    BY DEF Init, NoAddr, NextNonces
  <2>2. \A m \in MsgId : ~msgs[m].signed
    BY DEF Init, NoMsg
  <2>3. Allocated = {} /\ pushed = {}
    BY <2>2 DEF Allocated, Init
  <2> QED
    BY <2>1, <2>3 DEF Alloc!Init, NextNonces, Allocated
<1>2. TypeOK /\ NonceInv /\ SignInv /\ AbsentIsZero /\ [Next]_vars => [Alloc!Next]_(Alloc!allocVars)
  <2> SUFFICES ASSUME TypeOK, NonceInv, SignInv, AbsentIsZero, [Next]_vars
               PROVE  Alloc!Next \/ UNCHANGED Alloc!allocVars
    OBVIOUS
  <2>1. ASSUME NEW t \in Task, NEW a \in Addr, SaveSelected(t, a) PROVE Alloc!Next
    BY <2>1, SaveAllocates DEF Alloc!Next
  <2>2. ASSUME NEW t \in Task, NEW a \in Addr, SyncNonce(t, a) PROVE Alloc!Next \/ UNCHANGED Alloc!allocVars
    <3>1. CASE Alloc!Skip(a)
      BY <3>1 DEF Alloc!Next
    <3>2. CASE UNCHANGED <<NextNonces, Allocated, pushed>>
      BY <3>2 DEF Alloc!allocVars, NextNonces, Allocated
    <3> QED
      BY <2>2, <3>1, <3>2, SyncSkips
  <2>3. CASE ~ \E t \in Task, a \in Addr : SyncNonce(t, a) \/ SaveSelected(t, a)
    BY <2>3, OthersPublish DEF Alloc!Next
  <2> QED
    BY <2>1, <2>2, <2>3
<1> QED
  BY <1>1, <1>2, TypeCorrect, NonceInvariant, AbsentAlways, SignAlways, PTL DEF Spec, AllocSpec, Alloc!Spec

-----------------------------------------------------------------------------
(* No nonce is left out *)

(* The rows grow: nothing that is signed is lost, and no nonce goes back. *)
Grows ==
    /\ \A m \in MsgId : msgs[m].signed => msgs'[m].signed /\ msgs'[m].nonce = msgs[m].nonce
    /\ \A a \in Addr : addrs[a].nonce <= addrs'[a].nonce

LEMMA NextGrows ==
    ASSUME TypeOK, NonceInv, SignInv, AbsentIsZero, NoNonceReset, NoStateSet, [Next]_vars
    PROVE  Grows
<1>1. \A a \in Addr : addrs[a].nonce <= addrs'[a].nonce
  <2> SUFFICES ASSUME NEW a \in Addr PROVE addrs[a].nonce <= addrs'[a].nonce
    OBVIOUS
  <2>1. addrs[a].nonce \in Nat /\ addrs'[a].nonce \in Nat
    BY TypeNext DEF TypeOK, AddrRow
  <2> QED
    BY <2>1, NextRowMoves DEF RowMoves
<1>2. ASSUME NEW m \in MsgId, msgs[m].signed PROVE msgs'[m].signed /\ msgs'[m].nonce = msgs[m].nonce
  <2>1. CASE ~ \E t \in Task, a \in Addr : SaveSelected(t, a)
    BY <1>2, <2>1, NextRowStep, RowStepSigned DEF SameSigned
  <2>2. ASSUME NEW t \in Task, NEW a \in Addr, SaveSelected(t, a)
        PROVE  msgs'[m].signed /\ msgs'[m].nonce = msgs[m].nonce
    <3>1. m \notin SelIds(jobs[t][a])
      BY <1>2, <2>2, SavedRows DEF SignInv, SelectsSignable, Signable
    <3> QED
      BY <1>2, <2>2, <3>1, SavedRows
  <2> QED
    BY <2>1, <2>2
<1> QED
  BY <1>1, <1>2 DEF Grows

(* As long as the chain and the row agree, a goroutine starts from the row's nonce. *)
LEMMA SyncKeepsRow ==
    ASSUME TypeOK, NonceInv, GapInv, NEW t \in Task, NEW a \in Addr, SyncNonce(t, a)
    PROVE  /\ addrs' = addrs
           /\ SetJob(t, a, [jobs[t][a] EXCEPT !.pc = "list", !.nonce = tasks[t].snap[a].nonce])
           /\ tasks[t].snap[a].nonce = addrs[a].nonce
<1>1. jobs[t][a].pc = "nonce"
  BY Zenon DEF SyncNonce
<1>2. tasks[t].pc = "running" /\ SnapActive(t, a)
  BY <1>1 DEF NonceInv, RunsInTask, SelectsActive, Selecting
<1>3. addrs[a].nonce <= tasks[t].snap[a].nonce
  BY <1>1, <1>2 DEF NonceInv, SnapFresh
<1>4. tasks[t].ts[a] <= tasks[t].snap[a].nonce /\ tasks[t].snap[a].nonce <= addrs[a].nonce
  BY <1>2 DEF GapInv, GapFree
<1>5. tasks[t].ts[a] \in Nat /\ tasks[t].snap[a].nonce \in Nat /\ addrs[a].nonce \in Nat
  BY DEF TypeOK, TaskRec, AddrRow
<1>6. ~(tasks[t].ts[a] > tasks[t].snap[a].nonce)
  BY <1>4, <1>5
<1>7. addrs' = addrs /\ SetJob(t, a, [jobs[t][a] EXCEPT !.pc = "list", !.nonce = tasks[t].snap[a].nonce])
  BY <1>6, Zenon DEF SyncNonce
<1> QED
  BY <1>3, <1>4, <1>5, <1>7

(* The chain uses a nonce only for a message of the messager, which is below the row's nonce. *)
LEMMA ChainBehind ==
    ASSUME TypeOK, NonceInv, SignInv, GapInv, Grows, NoForeign, [Next]_vars, TypeOK', NEW a \in Addr
    PROVE  ChainNonce(a)' <= addrs'[a].nonce
<1>0. /\ addrs[a].nonce \in Nat /\ addrs'[a].nonce \in Nat /\ ChainNonce(a) \in Nat
      /\ ChainNonce(a) <= addrs[a].nonce /\ addrs[a].nonce <= addrs'[a].nonce
  BY DEF TypeOK, AddrRow, ChainNonce, GapInv, Grows
<1>1. CASE chain'[a] = chain[a]
  BY <1>0, <1>1 DEF ChainNonce
<1>2. ASSUME NEW b \in Addr, ChainStep(b), chain'[a] # chain[a] PROVE ChainNonce(a)' <= addrs'[a].nonce
  <2>1. a = b
    BY <1>2 DEF ChainStep, ChainExtend, ChainReorg, TypeOK
  <2>2. CASE ChainReorg(a)
    <3>1. chain'[a] = SubSeq(chain[a], 1, Len(chain[a]) - 1) /\ Len(chain[a]) > 0 /\ Len(chain[a]) \in Nat
          /\ chain[a] \in Seq(MsgId \cup {Foreign})
      BY <2>2 DEF ChainReorg, ChainNonce, TypeOK
    <3>2. Len(chain'[a]) = Len(chain[a]) - 1
      BY <3>1
    <3> QED
      BY <1>0, <3>1, <3>2 DEF ChainNonce
  <2>3. ASSUME NEW o \in MsgId \cup {Foreign}, ChainExtend(a, o) PROVE ChainNonce(a)' <= addrs'[a].nonce
    <3>1. [id |-> o, nonce |-> ChainNonce(a)] \in pushed /\ From[o] = a
      BY <2>3 DEF ChainExtend, NoForeign
    <3>2. InTable([id |-> o, nonce |-> ChainNonce(a)]) /\ o \in MsgId
      BY <3>1 DEF SignInv, PublishedPersisted, InTable, TypeOK, Signed
    <3>3. ChainNonce(a) < addrs[a].nonce
      BY <3>1, <3>2 DEF InTable, NonceInv, NonceBehindAddress
    <3>4. chain'[a] = Append(chain[a], o) /\ chain[a] \in Seq(MsgId \cup {Foreign})
      BY <2>3 DEF ChainExtend, TypeOK
    <3>5. Len(chain'[a]) = Len(chain[a]) + 1
      BY <3>4
    <3> QED
      BY <1>0, <3>3, <3>5 DEF ChainNonce
  <2> QED
    BY <1>2, <2>1, <2>2, <2>3 DEF ChainStep
<1>3. CASE \A b \in Addr : ~ChainStep(b)
  <2>1. chain' = chain
    <3>1. ASSUME NEW m \in MsgId, MsgApi(m) \/ Refresh(m) PROVE chain' = chain
      BY <3>1 DEF MsgApi, PushPrepare, PushCreate, PushFails, MarkBadMessage, RepublishMessage,
                  UpdateMessageStateByID, Refresh, RefreshApply, RefreshRevert
    <3>2. ASSUME NEW b \in Addr, AddrApi(b) PROVE chain' = chain
      BY <3>2 DEF AddrApi, RecoverFailedMsg, UpdateState, SetSelectMsgNum, UpdateNonce, DeleteAddress
    <3>3. ASSUME NEW t \in Task, TaskStep(t) PROVE chain' = chain
      BY <3>3 DEF TaskStep, NewHead, DelayOver, ReadActiveAddrs, LaunchJobs
    <3>4. ASSUME NEW t \in Task, NEW b \in Addr, JobStep(t, b) PROVE chain' = chain
      BY <3>4 DEF JobStep, CheckCtx, TakeControl, JobFails, SyncNonce, ListCandidates, SignCandidate, SaveSelected,
                  PushSelected, Panic, Restart
    <3>5. CASE Crash \/ UNCHANGED vars
      BY <3>5 DEF Crash, Restart, vars
    <3> QED
      BY <1>3, <3>1, <3>2, <3>3, <3>4, <3>5 DEF Next
  <2> QED
    BY <1>1, <2>1
<1> QED
  BY <1>1, <1>2, <1>3

(* The nonces below the row's are all in the table. *)
LEMMA GapTable ==
    ASSUME TypeOK, NonceInv, SignInv, AbsentIsZero, GapInv, Grows, NoNonceReset, [Next]_vars, TypeOK'
    PROVE  NoNonceGap'
<1> SUFFICES ASSUME NEW a \in Addr, NEW n \in 0 .. addrs'[a].nonce - 1
             PROVE  \E m \in MsgId : From[m] = a /\ msgs'[m].signed /\ msgs'[m].nonce = n
  BY DEF NoNonceGap
<1>0. addrs[a].nonce \in Nat /\ addrs'[a].nonce \in Nat
  BY DEF TypeOK, AddrRow
<1>1. CASE n < addrs[a].nonce
  <2>1. PICK m \in MsgId : From[m] = a /\ msgs[m].signed /\ msgs[m].nonce = n
    BY <1>0, <1>1 DEF GapInv, NoNonceGap
  <2> QED
    BY <2>1 DEF Grows
<1>2. CASE n >= addrs[a].nonce
  <2>1. addrs'[a].nonce # addrs[a].nonce
    BY <1>0, <1>2
  <2>2. PICK t \in Task, b \in Addr : SyncNonce(t, b) \/ SaveSelected(t, b)
    BY <2>1, NoncesStay
  <2>3. SaveSelected(t, b)
    BY <2>1, <2>2, SyncKeepsRow
  <2>4. b = a /\ addrs'[a].nonce = jobs[t][a].nonce /\ jobs[t][a].pc = "sign"
    BY <2>1, <2>3 DEF SaveSelected, TypeOK, AddrRow
  <2>5. \E s \in jobs[t][a].sel : s.nonce = n
    BY <1>0, <1>2, <2>4 DEF GapInv, GapFree
  <2> QED
    BY <2>3, <2>4, <2>5, SavedRows
<1> QED
  BY <1>0, <1>1, <1>2

(* A task: what it read of chain and row is not past the row. *)
ReadBehind(t, a) ==
    /\ tasks[t].ts[a] <= addrs[a].nonce
    /\ tasks[t].pc \in {"snap", "running"} =>
          tasks[t].ts[a] <= tasks[t].snap[a].nonce /\ tasks[t].snap[a].nonce <= addrs[a].nonce

LEMMA GapTasks ==
    ASSUME TypeOK, GapInv, Grows, OneTask, [Next]_vars, TypeOK', NEW t \in Task, NEW a \in Addr
    PROVE  ReadBehind(t, a)'
<1>0. /\ tasks[t] \in TaskRec /\ tasks'[t] \in TaskRec
      /\ addrs[a].nonce \in Nat /\ addrs'[a].nonce \in Nat /\ addrs[a].nonce <= addrs'[a].nonce
      /\ tasks[t].ts[a] \in Nat /\ tasks[t].snap[a].nonce \in Nat
      /\ ReadBehind(t, a) /\ ChainNonce(a) <= addrs[a].nonce /\ ChainNonce(a) \in Nat
  BY SMTT(60) DEF TypeOK, TaskRec, AddrRow, Grows, GapInv, GapFree, ReadBehind, ChainNonce
<1>1. CASE tasks'[t] = tasks[t]
  BY <1>0, <1>1 DEF ReadBehind
<1>2. CASE tasks'[t] = NoTask
  BY <1>0, <1>2 DEF NoTask, ReadBehind
<1>3. ASSUME NEW u \in Task, TaskStep(u) PROVE ReadBehind(t, a)'
  <2>0. u = t
    BY DEF OneTask
  <2>1. CASE NewHead(t)
    <3> DEFINE k == [NoTask EXCEPT !.pc = "waiting", !.ts = [b \in Addr |-> ChainNonce(b)]]
    <3>1. k.pc = "waiting" /\ k.ts[a] = ChainNonce(a)
      BY DEF NoTask
    <3>2. tasks'[t] = k
      BY <2>1, Zenon DEF NewHead
    <3> HIDE DEF k
    <3> QED
      BY <1>0, <3>1, <3>2 DEF ReadBehind
  <2>2. CASE DelayOver(t)
    <3>1. tasks'[t].pc = "select" /\ tasks'[t].ts = tasks[t].ts
      BY <2>2 DEF DelayOver, TypeOK, TaskRec
    <3> QED
      BY <1>0, <3>1 DEF ReadBehind
  <2>3. CASE ReadActiveAddrs(t)
    <3>1. \/ tasks'[t] = [tasks[t] EXCEPT !.pc = "snap", !.snap = addrs]
          \/ tasks'[t] = NoTask
      BY <2>3 DEF ReadActiveAddrs, TypeOK
    <3>2. CASE tasks'[t] = [tasks[t] EXCEPT !.pc = "snap", !.snap = addrs]
      <4>1. tasks'[t].pc = "snap" /\ tasks'[t].ts = tasks[t].ts /\ tasks'[t].snap = addrs
        BY <1>0, <3>2 DEF TaskRec
      <4> QED
        BY <1>0, <4>1 DEF ReadBehind
    <3> QED
      BY <1>2, <3>1, <3>2
  <2>4. CASE LaunchJobs(t)
    <3>1. tasks[t].pc = "snap" /\ (tasks' = [tasks EXCEPT ![t].pc = "running"] \/ tasks'[t] = NoTask)
      BY <2>4 DEF LaunchJobs, TypeOK
    <3>2. CASE tasks' = [tasks EXCEPT ![t].pc = "running"]
      <4>1. tasks'[t].ts = tasks[t].ts /\ tasks'[t].snap = tasks[t].snap
        BY <3>2 DEF TypeOK, TaskRec
      <4> QED
        BY <1>0, <3>1, <4>1 DEF ReadBehind
    <3> QED
      BY <1>2, <3>1, <3>2
  <2> QED
    BY <1>3, <2>0, <2>1, <2>2, <2>3, <2>4 DEF TaskStep
<1>4. ASSUME NEW m \in MsgId, MsgApi(m) \/ Refresh(m) PROVE tasks' = tasks
  BY <1>4 DEF MsgApi, PushPrepare, PushCreate, PushFails, MarkBadMessage, RepublishMessage,
              UpdateMessageStateByID, Refresh, RefreshApply, RefreshRevert
<1>5. ASSUME NEW b \in Addr, AddrApi(b) \/ ChainStep(b) PROVE tasks' = tasks
  BY <1>5 DEF AddrApi, RecoverFailedMsg, UpdateState, SetSelectMsgNum, UpdateNonce, DeleteAddress,
              ChainStep, ChainExtend, ChainReorg
<1>6. ASSUME NEW u \in Task, NEW b \in Addr, JobStep(u, b) PROVE tasks' = tasks \/ tasks'[t] = NoTask
  BY <1>6 DEF JobStep, CheckCtx, TakeControl, JobFails, SyncNonce, ListCandidates, SignCandidate, SaveSelected,
              PushSelected, Panic, Restart
<1>7. CASE Crash \/ UNCHANGED vars
  BY SMTT(60), <1>1, <1>2, <1>7 DEF Crash, Restart, vars
<1> QED
  BY <1>1, <1>2, <1>3, <1>4, <1>5, <1>6, <1>7 DEF Next

(* A goroutine: what it has given out are all the nonces from the row's to its own. *)
GivesAll(k, a) ==
    /\ k.pc = "list" => k.nonce = addrs[a].nonce
    /\ k.pc = "sign" => \A n \in addrs[a].nonce .. k.nonce - 1 : \E s \in k.sel : s.nonce = n

LEMMA SignGivesAll ==
    ASSUME TypeOK, NonceInv, NEW t \in Task, NEW a \in Addr, SignCandidate(t, a), GivesAll(jobs[t][a], a)
    PROVE  \E k : SetJob(t, a, k) /\ GivesAll(k, a)
<1> DEFINE j == jobs[t][a]
<1>0. j \in JobRec /\ j.pc = "sign" /\ j.nonce \in Nat /\ addrs[a].nonce \in Nat
  BY DEF TypeOK, SignCandidate, JobRec, AddrRow
<1>1. PICK m \in j.cand :
          \/ \E c, e : SetJob(t, a, [j EXCEPT !.cand = c, !.errs = e])
          \/ \E c : SetJob(t, a, [j EXCEPT !.cand = c])
          \/ \E c, w : SetJob(t, a, [j EXCEPT !.cand = c, !.nonce = @ + 1, !.want = w,
                                              !.sel = @ \cup {[id |-> m, nonce |-> j.nonce]}])
  BY Zenon DEF SignCandidate
<1>2. ASSUME NEW c, NEW e, SetJob(t, a, [j EXCEPT !.cand = c, !.errs = e])
      PROVE  \E k : SetJob(t, a, k) /\ GivesAll(k, a)
  <2> DEFINE k == [j EXCEPT !.cand = c, !.errs = e]
  <2>1. k.pc = j.pc /\ k.nonce = j.nonce /\ k.sel = j.sel /\ SetJob(t, a, k)
    BY <1>0, <1>2 DEF JobRec
  <2> HIDE DEF k
  <2> QED
    BY <2>1 DEF GivesAll
<1>3. ASSUME NEW c, SetJob(t, a, [j EXCEPT !.cand = c])
      PROVE  \E k : SetJob(t, a, k) /\ GivesAll(k, a)
  <2> DEFINE k == [j EXCEPT !.cand = c]
  <2>1. k.pc = j.pc /\ k.nonce = j.nonce /\ k.sel = j.sel /\ SetJob(t, a, k)
    BY <1>0, <1>3 DEF JobRec
  <2> HIDE DEF k
  <2> QED
    BY <2>1 DEF GivesAll
<1>4. ASSUME NEW c, NEW w, SetJob(t, a, [j EXCEPT !.cand = c, !.nonce = @ + 1, !.want = w,
                                               !.sel = @ \cup {[id |-> m, nonce |-> j.nonce]}])
      PROVE  \E k : SetJob(t, a, k) /\ GivesAll(k, a)
  <2> DEFINE k == [j EXCEPT !.cand = c, !.nonce = @ + 1, !.want = w,
                            !.sel = @ \cup {[id |-> m, nonce |-> j.nonce]}]
  <2>1. /\ k.pc = "sign" /\ k.nonce = j.nonce + 1 /\ k.sel = j.sel \cup {[id |-> m, nonce |-> j.nonce]}
        /\ SetJob(t, a, k)
    BY <1>0, <1>4 DEF JobRec
  <2> HIDE DEF k
  <2>2. ASSUME NEW n \in addrs[a].nonce .. k.nonce - 1 PROVE \E s \in k.sel : s.nonce = n
    <3>1. CASE n = j.nonce
      <4> DEFINE s == [id |-> m, nonce |-> j.nonce]
      <4>1. s \in k.sel /\ s.nonce = n
        BY <2>1, <3>1
      <4> QED
        BY <4>1
    <3>2. CASE n # j.nonce
      <4>1. n \in addrs[a].nonce .. j.nonce - 1
        BY <1>0, <2>1, <3>2
      <4> QED
        BY <1>0, <2>1, <4>1 DEF GivesAll
    <3> QED
      BY <3>1, <3>2
  <2> QED
    BY <2>1, <2>2 DEF GivesAll
<1> QED
  BY <1>1, <1>2, <1>3, <1>4

LEMMA JobGivesAll ==
    ASSUME TypeOK, NonceInv, GapInv, NEW t \in Task, NEW a \in Addr, JobStep(t, a), ~Restart
    PROVE  \E k : SetJob(t, a, k) /\ (k.pc \notin {"list", "sign"} \/ (addrs' = addrs /\ GivesAll(k, a)))
<1> DEFINE j == jobs[t][a]
           Good(k) == SetJob(t, a, k) /\ (k.pc \notin {"list", "sign"} \/ (addrs' = addrs /\ GivesAll(k, a)))
<1>0. j \in JobRec /\ GivesAll(j, a) /\ j.nonce \in Nat
  BY DEF TypeOK, GapInv, GapFree, GivesAll, JobRec
<1>1. CASE SetJob(t, a, NoJob)
  BY <1>1 DEF NoJob
<1>2. CASE CheckCtx(t, a) \/ TakeControl(t, a)
  <2>1. SetJob(t, a, NoJob) \/ \E p \in {"checked", "nonce"} : SetJob(t, a, [j EXCEPT !.pc = p])
    BY <1>2 DEF CheckCtx, TakeControl
  <2>2. ASSUME NEW p \in {"checked", "nonce"}, SetJob(t, a, [j EXCEPT !.pc = p]) PROVE \E k : Good(k)
    <3> DEFINE k == [j EXCEPT !.pc = p]
    <3>1. k.pc = p /\ SetJob(t, a, k)
      BY <1>0, <2>2 DEF JobRec
    <3> HIDE DEF k
    <3> QED
      BY <3>1
  <2> QED
    BY <1>1, <2>1, <2>2
<1>3. CASE JobFails(t, a) \/ PushSelected(t, a)
  BY <1>1, <1>3 DEF JobFails, PushSelected, Finish
<1>4. CASE SyncNonce(t, a)
  <2> DEFINE k == [j EXCEPT !.pc = "list", !.nonce = tasks[t].snap[a].nonce]
  <2>1. addrs' = addrs /\ SetJob(t, a, k) /\ tasks[t].snap[a].nonce = addrs[a].nonce
    BY <1>4, SyncKeepsRow
  <2>2. k.pc = "list" /\ k.nonce = tasks[t].snap[a].nonce
    BY <1>0 DEF JobRec
  <2> HIDE DEF k
  <2> QED
    BY <2>1, <2>2 DEF GivesAll
<1>5. CASE ListCandidates(t, a)
  <2>0. addrs' = addrs /\ j.nonce = addrs[a].nonce
    BY ZenonT(60), <1>0, <1>5 DEF ListCandidates, GivesAll, dbVars
  <2>1. \/ \E p : SetJob(t, a, [j EXCEPT !.pc = "push", !.toPush = p])
        \/ \E p, w, c : SetJob(t, a, [j EXCEPT !.pc = "sign", !.toPush = p, !.want = w, !.cand = c])
    BY <1>5 DEF ListCandidates
  <2>2. ASSUME NEW p, SetJob(t, a, [j EXCEPT !.pc = "push", !.toPush = p]) PROVE \E k : Good(k)
    <3> DEFINE k == [j EXCEPT !.pc = "push", !.toPush = p]
    <3>1. k.pc = "push" /\ SetJob(t, a, k)
      BY <1>0, <2>2 DEF JobRec
    <3> HIDE DEF k
    <3> QED
      BY <3>1
  <2>3. ASSUME NEW p, NEW w, NEW c, SetJob(t, a, [j EXCEPT !.pc = "sign", !.toPush = p, !.want = w, !.cand = c])
        PROVE  \E k : Good(k)
    <3> DEFINE k == [j EXCEPT !.pc = "sign", !.toPush = p, !.want = w, !.cand = c]
    <3>1. k.pc = "sign" /\ k.nonce = j.nonce /\ SetJob(t, a, k)
      BY <1>0, <2>3 DEF JobRec
    <3> HIDE DEF k
    <3>2. addrs[a].nonce .. k.nonce - 1 = {}
      BY <1>0, <2>0, <3>1
    <3> QED
      BY <2>0, <3>1, <3>2 DEF GivesAll
  <2> QED
    BY ZenonT(60), <2>1, <2>2, <2>3
<1>6. CASE SignCandidate(t, a)
  <2>1. addrs' = addrs
    BY <1>6 DEF SignCandidate, dbVars
  <2> QED
    BY <1>0, <1>6, <2>1, SignGivesAll
<1>7. CASE SaveSelected(t, a)
  <2> DEFINE k == [j EXCEPT !.pc = "push", !.toPush = @ \cup j.sel, !.sel = {}, !.errs = {}, !.want = 0]
  <2>1. k.pc = "push" /\ SetJob(t, a, k)
    BY <1>0, <1>7 DEF JobRec, SaveSelected
  <2> HIDE DEF k
  <2> QED
    BY <2>1
<1> QED
  BY <1>2, <1>3, <1>4, <1>5, <1>6, <1>7 DEF JobStep, Panic

LEMMA GapNext ==
    ASSUME TypeOK, NonceInv, SignInv, AbsentIsZero, GapInv, OneTask, NoNonceReset, NoStateSet, NoForeign, [Next]_vars
    PROVE  GapInv'
<1>0. Grows /\ TypeOK'
  BY NextGrows, TypeNext
<1>1. NoNonceGap' /\ \A a \in Addr : ChainNonce(a)' <= addrs'[a].nonce
  BY <1>0, GapTable, ChainBehind
<1>2. ASSUME NEW t \in Task, NEW a \in Addr PROVE GapFree(t, a)'
  <2>1. ReadBehind(t, a)'
    BY <1>0, GapTasks
  <2>2. GivesAll(jobs[t][a], a)'
    <3>0. GivesAll(jobs[t][a], a)
      BY DEF GapInv, GapFree, GivesAll
    <3>1. CASE jobs'[t][a] = jobs[t][a] /\ addrs'[a].nonce = addrs[a].nonce
      BY <3>0, <3>1 DEF GivesAll
    <3>2. CASE jobs'[t][a].pc \notin {"list", "sign"}
      BY <3>2 DEF GivesAll
    <3>3. CASE Restart
      BY <3>2, <3>3 DEF Restart, NoJob
    <3>4. ASSUME NEW u \in Task, TaskStep(u) PROVE GivesAll(jobs[t][a], a)'
      <4>1. u = t
        BY DEF OneTask
      <4>2. CASE jobs' = jobs
        <5>1. addrs' = addrs
          BY <3>4 DEF TaskStep, NewHead, DelayOver, ReadActiveAddrs, LaunchJobs, dbVars
        <5> QED
          BY SMTT(60), <3>1, <4>2, <5>1
      <4>3. CASE jobs' # jobs
        <5>1. LaunchJobs(t)
          BY <3>4, <4>1, <4>3 DEF TaskStep, NewHead, DelayOver, ReadActiveAddrs
        <5>2. PICK ws : jobs' = [jobs EXCEPT ![t] = [b \in Addr |->
                IF ws[b] = NoWork THEN NoJob ELSE [NoJob EXCEPT !.pc = "spawned", !.work = ws[b]]]]
          BY <4>3, <5>1 DEF LaunchJobs
        <5> DEFINE k == [NoJob EXCEPT !.pc = "spawned", !.work = ws[a]]
        <5>3. k.pc = "spawned" /\ NoJob.pc = "none"
          BY DEF NoJob
        <5>4. jobs'[t] = [b \in Addr |->
                IF ws[b] = NoWork THEN NoJob ELSE [NoJob EXCEPT !.pc = "spawned", !.work = ws[b]]]
          BY <5>2 DEF TypeOK
        <5>5. jobs'[t][a] = IF ws[a] = NoWork THEN NoJob ELSE k
          BY <5>4, Zenon
        <5> HIDE DEF k
        <5> QED
          BY <3>2, <5>3, <5>5
      <4> QED
        BY <4>2, <4>3
    <3>5. ASSUME NEW u \in Task, NEW b \in Addr, JobStep(u, b), ~Restart PROVE GivesAll(jobs[t][a], a)'
      <4>1. u = t
        BY DEF OneTask
      <4>2. PICK k : SetJob(u, b, k) /\ (k.pc \notin {"list", "sign"} \/ (addrs' = addrs /\ GivesAll(k, b)))
        BY <3>5, JobGivesAll
      <4>3. CASE b = a
        <5>1. jobs'[t][a] = k
          BY <4>1, <4>2, <4>3, SetJobEffect DEF TypeOK
        <5> QED
          BY <4>2, <4>3, <5>1 DEF GivesAll
      <4>4. CASE b # a
        <5>1. jobs'[t][a] = jobs[t][a]
          BY <4>1, <4>2, <4>4, SetJobEffect DEF TypeOK
        <5>2. addrs'[a] = addrs[a]
          <6>1. CASE SyncNonce(u, b)
            BY <4>4, <6>1, SyncKeepsRow
          <6>2. CASE SaveSelected(u, b)
            BY <4>4, <6>2 DEF SaveSelected, TypeOK
          <6>3. CASE ~SyncNonce(u, b) /\ ~SaveSelected(u, b)
            BY <3>5, <6>3 DEF JobStep, CheckCtx, TakeControl, JobFails, ListCandidates, SignCandidate,
                              PushSelected, Panic, dbVars
          <6> QED
            BY <6>1, <6>2, <6>3
        <5> QED
          BY <3>1, <5>1, <5>2
      <4> QED
        BY <4>3, <4>4
    <3>6. ASSUME UNCHANGED jobs, ~ \E u \in Task, b \in Addr : SyncNonce(u, b) \/ SaveSelected(u, b)
          PROVE  GivesAll(jobs[t][a], a)'
      BY <3>1, <3>6, NoncesStay
    <3>7. CASE \E u \in Task, b \in Addr : SyncNonce(u, b) \/ SaveSelected(u, b)
      BY <3>3, <3>5, <3>7 DEF JobStep
    <3>8. ASSUME NEW m \in MsgId, MsgApi(m) \/ Refresh(m) PROVE jobs' = jobs
      BY <3>8 DEF MsgApi, PushPrepare, PushCreate, PushFails, MarkBadMessage, RepublishMessage,
                  UpdateMessageStateByID, Refresh, RefreshApply, RefreshRevert
    <3>9. ASSUME NEW b \in Addr, AddrApi(b) \/ ChainStep(b) PROVE jobs' = jobs
      BY <3>9 DEF AddrApi, RecoverFailedMsg, UpdateState, SetSelectMsgNum, UpdateNonce, DeleteAddress,
                  ChainStep, ChainExtend, ChainReorg
    <3>10. CASE UNCHANGED vars
      BY <3>1, <3>10 DEF vars
    <3> QED
      BY <3>3, <3>4, <3>5, <3>6, <3>7, <3>8, <3>9, <3>10 DEF Next, Crash
  <2> QED
    BY <2>1, <2>2 DEF GapFree, ReadBehind, GivesAll
<1> QED
  BY <1>1, <1>2 DEF GapInv

LEMMA GapInit == Init => GapInv
<1> SUFFICES ASSUME Init PROVE GapInv
  OBVIOUS
<1>1. \A a \in Addr : addrs[a].nonce = 0 /\ ChainNonce(a) = 0
  BY DEF Init, NoAddr, ChainNonce
<1>2. \A t \in Task, a \in Addr : tasks[t].ts[a] = 0 /\ tasks[t].pc = "idle" /\ jobs[t][a].pc = "none"
  BY DEF Init, NoTask, NoJob
<1>3. NoNonceGap
  BY <1>1 DEF NoNonceGap
<1> QED
  BY <1>1, <1>2, <1>3 DEF GapInv, GapFree

(* Every nonce below the row's belongs to a signed message of the table, so that the chain never
   waits for one that nobody holds: failed candidates, failed and repeated selections, dropped
   batches, reorgs and crashes leave none out.  For selections that do not overlap, addresses
   whose nonce and messages whose state no call sets, and senders nobody else sends from. *)
THEOREM NoncesWithoutGap ==
    ASSUME OneTask, NoNonceReset, NoStateSet, NoForeign
    PROVE  Spec => []NoNonceGap
<1>1. TypeOK /\ NonceInv /\ SignInv /\ AbsentIsZero /\ GapInv /\ [Next]_vars => GapInv'
  BY GapNext
<1>2. GapInv => NoNonceGap
  BY DEF GapInv
<1> QED
  BY <1>1, <1>2, GapInit, TypeCorrect, NonceInvariant, AbsentAlways, SignAlways, PTL DEF Spec
=============================================================================
