---------------------------- MODULE MsgSelector ----------------------------
(***************************************************************************)
(* Message selection: how sophon-messager hands out nonces.                *)
(*                                                                         *)
(* service/message_selector.go.  On every stable chain head a goroutine    *)
(* (delaySelectMessage) calls SelectMessage, which reads the active        *)
(* addresses, brings the map of per-address works up to date and starts    *)
(* one goroutine per work.  Such a goroutine takes the work's control      *)
(* token, compares the address's nonce with the chain's, assigns nonces to *)
(* the newest unfilled messages, signs them, saves rows and nonce in one   *)
(* transaction, and hands the signed messages to the publisher.            *)
(*                                                                         *)
(* The message and address tables, the API calls that write them and the   *)
(* chain run concurrently with all of this.  The state refresh of          *)
(* message_state_refresh.go appears here only by its effect on one row;    *)
(* module HeadRefresh models how it gets there.                            *)
(***************************************************************************)
EXTENDS Naturals, Sequences, FiniteSets

CONSTANTS
    Addr,        \* signing addresses
    MsgId,       \* message rows; a smaller number is an older created_at
    From,        \* the sender of each message
    Task,        \* delaySelectMessage goroutines that may be under way at once
    Gen,         \* identities for the *work objects of one address
    DefSelNum,   \* SharedSpec.SelMsgNum: the default pending window
    SelNums,     \* values SetSelectMsgNum is called with (0: use the default)
    MaxChain,    \* bound: messages of one address on the chain
    MaxCrashes,  \* bound: process crashes
    Features,    \* the API calls and outside events of this instance
    NoWork,      \* works has no entry for the address
    Foreign      \* a chain message the messager did not send

AllFeatures == {"markBad", "recover", "forbid", "clear", "setSelNum", "republish",
                "updateNonce", "deleteAddress", "updateState", "foreign"}

ASSUME ConstantsAssumption ==
    /\ MsgId \subseteq Nat
    /\ IsFiniteSet(MsgId)
    /\ From \in [MsgId -> Addr]
    /\ DefSelNum \in Nat
    /\ SelNums \subseteq Nat
    /\ MaxChain \in Nat
    /\ MaxCrashes \in Nat
    /\ Features \subseteq AllFeatures
    /\ NoWork \notin Gen
    /\ Foreign \notin MsgId

VARIABLES
    msgs,      \* table messages: MsgId -> row
    addrs,     \* table addresses: Addr -> row
    pushing,   \* PushMessage calls between their transaction and CreateMessage
    chain,     \* per address, who used nonce 0, 1, ...: the node's head
    pushed,    \* signed messages given to the publisher so far
    tasks,     \* Task -> a delaySelectMessage goroutine
    works,     \* MsgSelectMgr.works: Addr -> generation of the current work
    full,      \* works whose controlChan holds its token
    closed,    \* works that were cancelled and had their controlChan closed
    jobs,      \* Task -> Addr -> the startSelectMessage goroutine
    crashes    \* number of crashes so far

dbVars   == <<msgs, addrs>>
workVars == <<works, full, closed>>
vars     == <<msgs, addrs, pushing, chain, pushed, tasks, works, full, closed, jobs, crashes>>

-----------------------------------------------------------------------------
(* Rows and records *)

MsgState == {"None", "UnFill", "Fill", "OnChain", "Failed", "NonceConflict"}
MsgRow   == [state : MsgState, nonce : Nat, signed : BOOLEAN, err : BOOLEAN]
NoMsg    == [state |-> "None", nonce |-> 0, signed |-> FALSE, err |-> FALSE]
NewMsg   == [state |-> "UnFill", nonce |-> 0, signed |-> FALSE, err |-> FALSE]

AddrRow  == [exists : BOOLEAN, alive : BOOLEAN, nonce : Nat, selNum : Nat]
NoAddr   == [exists |-> FALSE, alive |-> FALSE, nonce |-> 0, selNum |-> 0]
NewAddr  == [exists |-> TRUE, alive |-> TRUE, nonce |-> 0, selNum |-> 0]

Signed   == [id : MsgId, nonce : Nat]    \* a signed message: who it is, under which nonce

(* pc "waiting": WaitingChainHeadStableDuration; "select": about to call SelectMessage;
   "snap": the active addresses were read; "running": the goroutines were started. *)
TaskPc   == {"idle", "waiting", "select", "snap", "running"}
TaskRec  == [pc : TaskPc, ts : [Addr -> Nat], snap : [Addr -> AddrRow]]
NoTask   == [pc |-> "idle", ts |-> [a \in Addr |-> 0], snap |-> [a \in Addr |-> NoAddr]]

(* pc "spawned" -> "checked" (w.ctx tested) -> "nonce" (token held) -> "list" -> "sign" -> "push". *)
JobPc    == {"none", "spawned", "checked", "nonce", "list", "sign", "push"}
WorkRef  == Addr \X (Gen \cup {NoWork})
JobRec   == [pc : JobPc, work : Gen \cup {NoWork}, nonce : Nat, want : Nat,
             cand : SUBSET MsgId, sel : SUBSET Signed, toPush : SUBSET Signed, errs : SUBSET MsgId]
NoJob    == [pc |-> "none", work |-> NoWork, nonce |-> 0, want |-> 0,
             cand |-> {}, sel |-> {}, toPush |-> {}, errs |-> {}]

TypeOK ==
    /\ msgs \in [MsgId -> MsgRow]
    /\ addrs \in [Addr -> AddrRow]
    /\ pushing \subseteq MsgId
    /\ chain \in [Addr -> Seq(MsgId \cup {Foreign})]
    /\ pushed \subseteq Signed
    /\ tasks \in [Task -> TaskRec]
    /\ works \in [Addr -> Gen \cup {NoWork}]
    /\ full \subseteq WorkRef
    /\ closed \subseteq WorkRef
    /\ jobs \in [Task -> [Addr -> JobRec]]
    /\ crashes \in Nat

-----------------------------------------------------------------------------
(* Queries on the tables *)

(* ListActiveAddress: not deleted and alive. *)
IsActive(row) == row.exists /\ row.alive

(* The messages of a in a given state; ListFilledMessageByAddress, ListUnFilledMessage. *)
InState(a, s) == {m \in MsgId : From[m] = a /\ msgs[m].state = s}

AsSigned(m) == [id |-> m, nonce |-> msgs[m].nonce]

(* ListUnChainMessageByAddress: the n most recently created unfilled messages. *)
ListUnChain(a, n) ==
    {m \in InState(a, "UnFill") : Cardinality({k \in InState(a, "UnFill") : k > m}) < n}

SelectLimit  == 100
OnChainLimit == 50

AtMost(x, y) == IF x <= y THEN x ELSE y

(* The largest nonce of the rows S, 0 when there are none: a set with that one number. *)
MaxNonceOf(S) == {n \in {0} \cup {msgs[m].nonce : m \in S} : \A m \in S : msgs[m].nonce <= n}

(* What getMaxMessageNonceFromDB may return: the largest nonce of the filled messages or,
   when there are none, of the OnChainLimit most recently updated messages on chain.  A query
   that fails finds none.
   updated_at is not modelled, so any OnChainLimit of them may be the most recent ones. *)
MaxMessageNonceFromDB(a) ==
    {0} \cup MaxNonceOf(InState(a, "Fill"))
        \cup UNION {MaxNonceOf(S) : S \in {S \in SUBSET InState(a, "OnChain") :
                       Cardinality(S) = AtMost(Cardinality(InState(a, "OnChain")), OnChainLimit)}}

(* addrSelectMsgNum: the address's own number, or the shared default. *)
AddrSelectMsgNum(row) == IF row.selNum = 0 THEN DefSelNum ELSE row.selNum

ChainNonce(a) == Len(chain[a])

-----------------------------------------------------------------------------
(* Message API *)

(* pushMessage, first half: the transaction that finds or creates the sender's address,
   then the test of its state, made on the row read by that transaction. *)
PushPrepare(m) ==
    /\ msgs[m].state = "None" /\ m \notin pushing
    /\ \A k \in MsgId : From[k] = From[m] /\ k < m => msgs[k].state # "None" \/ k \in pushing
    /\ addrs[From[m]].exists => addrs[From[m]].alive
    /\ addrs' = IF addrs[From[m]].exists THEN addrs ELSE [addrs EXCEPT ![From[m]] = NewAddr]
    /\ pushing' = pushing \cup {m}
    /\ UNCHANGED <<msgs, chain, pushed, tasks, workVars, jobs, crashes>>

(* pushMessage, second half: CreateMessage with nonce 0, outside the transaction. *)
PushCreate(m) ==
    /\ m \in pushing
    /\ \A k \in pushing : From[k] = From[m] => m <= k
    /\ msgs' = [msgs EXCEPT ![m] = NewMsg]
    /\ pushing' = pushing \ {m}
    /\ UNCHANGED <<addrs, chain, pushed, tasks, workVars, jobs, crashes>>

(* pushMessage, second half: CreateMessage fails, and the address stays.  Calls in flight
   differ only in their sender, so the youngest name stands for any of them. *)
PushFails(m) ==
    /\ m \in pushing
    /\ \A k \in pushing : From[k] = From[m] => k <= m
    /\ pushing' = pushing \ {m}
    /\ UNCHANGED <<dbVars, chain, pushed, tasks, workVars, jobs, crashes>>

(* MarkBadMessage: one column of one row, whatever its state. *)
MarkBadMessage(m) ==
    /\ "markBad" \in Features
    /\ msgs[m].state # "None"
    /\ msgs' = [msgs EXCEPT ![m].state = "Failed"]
    /\ UNCHANGED <<addrs, pushing, chain, pushed, tasks, workVars, jobs, crashes>>

(* RecoverFailedMsg: failed messages that carry a signature and a nonce the chain has not
   used go back to FillMsg, unless the address row is behind the chain. *)
RecoverFailedMsg(a) ==
    /\ "recover" \in Features
    /\ addrs[a].exists
    /\ addrs[a].nonce >= ChainNonce(a)
    /\ LET recovered == {m \in InState(a, "Failed") : msgs[m].signed /\ msgs[m].nonce >= ChainNonce(a)}
       IN  msgs' = [m \in MsgId |-> IF m \in recovered THEN [msgs[m] EXCEPT !.state = "Fill"] ELSE msgs[m]]
    /\ UNCHANGED <<addrs, pushing, chain, pushed, tasks, workVars, jobs, crashes>>

(* UpdateMessageStateByID: any state, no questions asked. *)
UpdateMessageStateByID(m, s) ==
    /\ "updateState" \in Features
    /\ msgs[m].state # "None"
    /\ msgs' = [msgs EXCEPT ![m].state = s]
    /\ UNCHANGED <<addrs, pushing, chain, pushed, tasks, workVars, jobs, crashes>>

(* RepublishMessage: a filled message is offered to the publisher once more; when msgReceiver
   is full the call fails and changes nothing, and without a signature it panics, which ends
   no more than the call. *)
RepublishMessage(m) ==
    /\ "republish" \in Features
    /\ msgs[m].state = "Fill" /\ msgs[m].signed
    /\ pushed' = pushed \cup {AsSigned(m)}
    /\ UNCHANGED <<dbVars, pushing, chain, tasks, workVars, jobs, crashes>>

-----------------------------------------------------------------------------
(* Address API: AddressService and the address repository *)

(* ForbiddenAddress and ActiveAddress: UpdateState touches only an existing row. *)
UpdateState(a, alive) ==
    /\ "forbid" \in Features
    /\ addrs[a].exists
    /\ addrs' = [addrs EXCEPT ![a].alive = alive]
    /\ UNCHANGED <<msgs, pushing, chain, pushed, tasks, workVars, jobs, crashes>>

SetSelectMsgNum(a, n) ==
    /\ "setSelNum" \in Features
    /\ addrs[a].exists
    /\ addrs' = [addrs EXCEPT ![a].selNum = n]
    /\ UNCHANGED <<msgs, pushing, chain, pushed, tasks, workVars, jobs, crashes>>

UpdateNonce(a, n) ==
    /\ "updateNonce" \in Features
    /\ addrs[a].exists
    /\ addrs' = [addrs EXCEPT ![a].nonce = n]
    /\ UNCHANGED <<msgs, pushing, chain, pushed, tasks, workVars, jobs, crashes>>

DeleteAddress(a) ==
    /\ "deleteAddress" \in Features
    /\ addrs[a].exists
    /\ addrs' = [addrs EXCEPT ![a] = NoAddr]
    /\ UNCHANGED <<msgs, pushing, chain, pushed, tasks, workVars, jobs, crashes>>

-----------------------------------------------------------------------------
(* The chain, and the effect of the state refresh on one row *)

(* The next block uses the address's next nonce: for a message the messager published, or
   for one sent from the same wallet by somebody else. *)
ChainExtend(a, occupant) ==
    /\ ChainNonce(a) < MaxChain
    /\ \/ [id |-> occupant, nonce |-> ChainNonce(a)] \in pushed /\ From[occupant] = a
       \/ occupant = Foreign /\ "foreign" \in Features
    /\ chain' = [chain EXCEPT ![a] = Append(@, occupant)]
    /\ UNCHANGED <<dbVars, pushing, pushed, tasks, workVars, jobs, crashes>>

ChainReorg(a) ==
    /\ ChainNonce(a) > 0
    /\ chain' = [chain EXCEPT ![a] = SubSeq(@, 1, Len(@) - 1)]
    /\ UNCHANGED <<dbVars, pushing, pushed, tasks, workVars, jobs, crashes>>

Occupies(m) == /\ msgs[m].nonce < ChainNonce(From[m])
               /\ chain[From[m]][msgs[m].nonce + 1] = m

(* updateMessageState, apply: m is the filled row with a nonce that was used on chain.  If it
   is signed and not what the chain holds, it is a conflict; otherwise the row with the cid of
   the chain's message is marked, which is m unless m was never signed. *)
RefreshApply(m) ==
    LET occupant == chain[From[m]][msgs[m].nonce + 1]
    IN  /\ msgs[m].state = "Fill"
        /\ IsActive(addrs[From[m]])
        /\ msgs[m].nonce < ChainNonce(From[m])
        /\ msgs' = IF msgs[m].signed /\ ~Occupies(m) THEN [msgs EXCEPT ![m].state = "NonceConflict"]
                   ELSE IF occupant \in MsgId /\ msgs[occupant].signed /\ msgs[occupant].nonce = msgs[m].nonce
                     THEN [msgs EXCEPT ![occupant].state = "OnChain"]
                   ELSE msgs
        /\ UNCHANGED <<addrs, pushing, chain, pushed, tasks, workVars, jobs, crashes>>

(* updateMessageState, revert: a message of a reverted tipset. *)
RefreshRevert(m) ==
    /\ msgs[m].state = "OnChain" /\ msgs[m].signed
    /\ IsActive(addrs[From[m]])
    /\ ~Occupies(m)
    /\ msgs' = [msgs EXCEPT ![m].state = "Fill"]
    /\ UNCHANGED <<addrs, pushing, chain, pushed, tasks, workVars, jobs, crashes>>

-----------------------------------------------------------------------------
(* SelectMessage *)

JobsDone(t) == \A a \in Addr : jobs[t][a].pc = "none"

(* StartPushMessage: a new head starts a goroutine and cancels the one still waiting. *)
NewHead(t) ==
    /\ tasks[t].pc = "idle" \/ (tasks[t].pc = "running" /\ JobsDone(t))
    /\ tasks' = [u \in Task |->
          IF u = t THEN [NoTask EXCEPT !.pc = "waiting", !.ts = [a \in Addr |-> ChainNonce(a)]]
          ELSE IF tasks[u].pc = "waiting" THEN NoTask ELSE tasks[u]]
    /\ UNCHANGED <<dbVars, pushing, chain, pushed, workVars, jobs, crashes>>

(* delaySelectMessage after the wait: tryClearUnFillMsg runs a pending ClearUnFillMessage,
   whose transaction marks every unfilled message of one address as failed. *)
DelayOver(t) ==
    /\ tasks[t].pc = "waiting"
    /\ tasks' = [tasks EXCEPT ![t].pc = "select"]
    /\ \/ msgs' = msgs
       \/ /\ "clear" \in Features
          /\ \E a \in Addr : msgs' = [m \in MsgId |-> IF m \in InState(a, "UnFill")
                                                       THEN [msgs[m] EXCEPT !.state = "Failed"] ELSE msgs[m]]
    /\ UNCHANGED <<addrs, pushing, chain, pushed, workVars, jobs, crashes>>

(* SelectMessage up to the lock: GetSharedParams and ListActiveAddress, nonces included.
   A failing query ends the task. *)
ReadActiveAddrs(t) ==
    /\ tasks[t].pc = "select"
    /\ \/ tasks' = [tasks EXCEPT ![t] = [@ EXCEPT !.pc = "snap", !.snap = addrs]]
       \/ tasks' = [tasks EXCEPT ![t] = NoTask]
    /\ UNCHANGED <<dbVars, pushing, chain, pushed, workVars, jobs, crashes>>

SnapActive(t, a) == IsActive(tasks[t].snap[a])

(* A generation that no live goroutine of a still refers to. *)
FreshGen(a, g) == g # works[a] /\ \A t \in Task : jobs[t][a].work # g

(* tryUpdateWorks: a work for every active address; a work whose address is no longer active
   is closed if its token can be taken, and kept while it is busy. *)
Removable(t)  == {a \in Addr : works[a] # NoWork /\ ~SnapActive(t, a) /\ <<a, works[a]>> \notin full}
Missing(t)    == {a \in Addr : works[a] = NoWork /\ SnapActive(t, a)}

TryUpdateWorks(t, ws) ==
    LET gone == {<<a, works[a]>> : a \in Removable(t)}
        new  == {<<a, ws[a]>> : a \in Missing(t)}
    IN  /\ \A a \in Addr :
              ws[a] = IF a \in Removable(t) THEN NoWork ELSE IF a \in Missing(t) THEN ws[a] ELSE works[a]
        /\ \A a \in Missing(t) : ws[a] \in Gen /\ FreshGen(a, ws[a])
        /\ works' = ws
        /\ full' = (full \cup gone) \ new
        /\ closed' = (closed \cup gone) \ new

(* SelectMessage under the lock: tryUpdateWorks, getNonceInTipset (whose failure ends the
   call), then one goroutine per work, a kept work of an inactive address included. *)
LaunchJobs(t) ==
    /\ tasks[t].pc = "snap"
    /\ \E ws \in [Addr -> Gen \cup {NoWork}] :
          /\ TryUpdateWorks(t, ws)
          /\ \/ /\ tasks' = [tasks EXCEPT ![t].pc = "running"]
                /\ jobs' = [jobs EXCEPT ![t] = [a \in Addr |->
                      IF ws[a] = NoWork THEN NoJob ELSE [NoJob EXCEPT !.pc = "spawned", !.work = ws[a]]]]
             \/ tasks' = [tasks EXCEPT ![t] = NoTask] /\ jobs' = jobs
    /\ UNCHANGED <<dbVars, pushing, chain, pushed, crashes>>

-----------------------------------------------------------------------------
(* startSelectMessage *)

WorkOf(t, a) == <<a, jobs[t][a].work>>

SetJob(t, a, j) == jobs' = [jobs EXCEPT ![t][a] = j]

(* Mutant: finish does not release the token. *)
FinishLeaks(t, a) ==
    /\ full' = full
    /\ SetJob(t, a, NoJob)

(* The deferred w.finish(): the token goes back and the goroutine ends. *)
Finish(t, a) ==
    /\ full' = full \ {WorkOf(t, a)}
    /\ SetJob(t, a, NoJob)

(* "first check w.ctx, avoid w.controlChan closed" *)
CheckCtx(t, a) ==
    /\ jobs[t][a].pc = "spawned"
    /\ SetJob(t, a, IF WorkOf(t, a) \in closed THEN NoJob ELSE [jobs[t][a] EXCEPT !.pc = "checked"])
    /\ UNCHANGED <<dbVars, pushing, chain, pushed, tasks, workVars, crashes>>

(* The goroutine is about to bring the process down: it sends on a channel that was closed
   after it looked at w.ctx, or it was started for a kept work and has no address row. *)
Panics(t, a) ==
    /\ jobs[t][a].pc = "checked"
    /\ \/ WorkOf(t, a) \in closed
       \/ WorkOf(t, a) \notin full /\ ~SnapActive(t, a)

(* Mutant: the goroutine does not give up when the work is busy. *)
TakeBusyControl(t, a) ==
    /\ jobs[t][a].pc = "checked"
    /\ ~Panics(t, a)
    /\ SetJob(t, a, [jobs[t][a] EXCEPT !.pc = "nonce"])
    /\ full' = full \cup {WorkOf(t, a)}
    /\ UNCHANGED <<dbVars, pushing, chain, pushed, tasks, works, closed, crashes>>

(* The non-blocking send on controlChan: take the token, or give up when the work is busy. *)
TakeControl(t, a) ==
    /\ jobs[t][a].pc = "checked"
    /\ ~Panics(t, a)
    /\ \/ /\ WorkOf(t, a) \in full
          /\ SetJob(t, a, NoJob)
          /\ full' = full
       \/ /\ WorkOf(t, a) \notin full
          /\ SetJob(t, a, [jobs[t][a] EXCEPT !.pc = "nonce"])
          /\ full' = full \cup {WorkOf(t, a)}
    /\ UNCHANGED <<dbVars, pushing, chain, pushed, tasks, works, closed, crashes>>

(* Mutant: what was signed is pushed although it could not be saved. *)
JobFailsPushes(t, a) ==
    /\ jobs[t][a].pc = "sign" /\ jobs[t][a].cand = {}
    /\ pushed' = pushed \cup jobs[t][a].sel
    /\ Finish(t, a)
    /\ UNCHANGED <<dbVars, pushing, chain, tasks, works, closed, crashes>>

(* selectMessage gives up with an error (accounts, actor, SaveAddress, queries, estimate,
   or the transaction of saveSelectedMessages): nothing is saved, nothing is pushed. *)
JobFails(t, a) ==
    /\ \/ jobs[t][a].pc \in {"nonce", "list"}
       \/ /\ jobs[t][a].pc = "sign" /\ jobs[t][a].cand = {}
          /\ jobs[t][a].sel # {} \/ jobs[t][a].errs # {}
    /\ Finish(t, a)
    /\ UNCHANGED <<dbVars, pushing, chain, pushed, tasks, works, closed, crashes>>

(* Mutant: the row is set to the chain's nonce, also when it is ahead of it. *)
SyncNonceAlways(t, a) ==
    LET info == tasks[t].snap[a]
        n    == tasks[t].ts[a]
    IN  /\ jobs[t][a].pc = "nonce"
        /\ addrs' = [addrs EXCEPT ![a] = [info EXCEPT !.nonce = n]]
        /\ SetJob(t, a, [jobs[t][a] EXCEPT !.pc = "list", !.nonce = n])
        /\ UNCHANGED <<msgs, pushing, chain, pushed, tasks, workVars, crashes>>

(* selectMessage, the nonce: when the chain is ahead of the address row that SelectMessage
   read, the row moves to the chain's nonce or past the largest nonce of the message table,
   and the whole row is saved, which also recreates a deleted one. *)
SyncNonce(t, a) ==
    LET tsNonce == tasks[t].ts[a]
        info    == tasks[t].snap[a]
    IN  /\ jobs[t][a].pc = "nonce"
        /\ \/ /\ tsNonce <= info.nonce
              /\ SetJob(t, a, [jobs[t][a] EXCEPT !.pc = "list", !.nonce = info.nonce])
              /\ addrs' = addrs
           \/ /\ tsNonce > info.nonce
              /\ \E maxMsgNonce \in MaxMessageNonceFromDB(a) :
                    LET n == IF maxMsgNonce > tsNonce THEN maxMsgNonce + 1 ELSE tsNonce
                    IN  /\ addrs' = [addrs EXCEPT ![a] = [info EXCEPT !.nonce = n]]
                        /\ SetJob(t, a, [jobs[t][a] EXCEPT !.pc = "list", !.nonce = n])
        /\ UNCHANGED <<msgs, pushing, chain, pushed, tasks, workVars, crashes>>

(* Mutant: off by one, the message the chain waits for is left out. *)
FilledAfter(a, tsNonce) == {AsSigned(m) : m \in {k \in InState(a, "Fill") : msgs[k].nonce > tsNonce}}

(* getFilledMessage: what is filled and not used by the tipset; a failing query counts as none. *)
FilledFrom(a, tsNonce) == {AsSigned(m) : m \in {k \in InState(a, "Fill") : msgs[k].nonce >= tsNonce}}

(* getFilledMessage dereferences the signature of every such message. *)
NilSignature(t, a) ==
    /\ jobs[t][a].pc = "list"
    /\ \E m \in InState(a, "Fill") : msgs[m].nonce >= tasks[t].ts[a] /\ ~msgs[m].signed

PendingMax(t, a) == AddrSelectMsgNum(tasks[t].snap[a])

(* estimateMessage: which of the listed messages it may leave, those that wait for a lower
   base fee being skipped.  The gas parameters are not modelled. *)
EstimateMessage(listed) == SUBSET listed

(* Mutant: messages that are already pending do not count. *)
ListWholeWindow(t, a) ==
    LET j   == jobs[t][a]
        max == PendingMax(t, a)
    IN  /\ j.pc = "list"
        /\ SetJob(t, a, [j EXCEPT !.pc = "sign", !.toPush = FilledFrom(a, tasks[t].ts[a]),
                                  !.want = max, !.cand = ListUnChain(a, max)])
        /\ UNCHANGED <<dbVars, pushing, chain, pushed, tasks, workVars, crashes>>

(* selectMessage, the candidates: what is filled is pushed again; if the pending window has
   room, the newest unfilled messages are estimated. *)
ListCandidates(t, a) ==
    LET j   == jobs[t][a]
        gap == j.nonce - tasks[t].ts[a]
        max == PendingMax(t, a)
    IN  /\ j.pc = "list"
        /\ \E toPush \in {{}} \cup (IF NilSignature(t, a) THEN {} ELSE {FilledFrom(a, tasks[t].ts[a])}) :
             \/ /\ gap >= max \/ ListUnChain(a, AtMost(max - gap, SelectLimit)) = {}
                /\ SetJob(t, a, [j EXCEPT !.pc = "push", !.toPush = toPush])
             \/ /\ gap < max
                /\ ListUnChain(a, AtMost(max - gap, SelectLimit)) # {}
                /\ \E cand \in EstimateMessage(ListUnChain(a, AtMost(max - gap, SelectLimit))) :
                      SetJob(t, a, [j EXCEPT !.pc = "sign", !.toPush = toPush,
                                             !.want = max - gap, !.cand = cand])
        /\ UNCHANGED <<dbVars, pushing, chain, pushed, tasks, workVars, crashes>>

(* Mutant: a candidate that fails consumes a nonce, too. *)
SignSkipsNonce(t, a) ==
    LET j == jobs[t][a]
    IN  /\ j.pc = "sign"
        /\ \E m \in j.cand, signs \in BOOLEAN :
             /\ \A k \in j.cand : k <= m
             /\ j.want > 0
             /\ SetJob(t, a, [j EXCEPT !.cand = @ \ {m}, !.nonce = @ + 1, !.want = @ - 1,
                                       !.sel = IF signs THEN @ \cup {[id |-> m, nonce |-> j.nonce]} ELSE @])
        /\ UNCHANGED <<dbVars, pushing, chain, pushed, tasks, workVars, crashes>>

(* One turn of the sign loop on the next candidate: it succeeds and consumes a nonce, its
   estimate is an error, it cannot be serialised, or its signature fails, which ends the loop. *)
SignCandidate(t, a) ==
    LET j == jobs[t][a]
    IN  /\ j.pc = "sign"
        /\ \E m \in j.cand :
             /\ \A k \in j.cand : k <= m
             /\ \/ SetJob(t, a, [j EXCEPT !.cand = @ \ {m}, !.errs = @ \cup {m}])
                \/ j.want = 0 /\ SetJob(t, a, [j EXCEPT !.cand = {}])
                \/ j.want > 0 /\ SetJob(t, a, [j EXCEPT !.cand = @ \ {m}])
                \/ j.want > 0 /\ SetJob(t, a, [j EXCEPT !.cand = {}, !.errs = @ \cup {m}])
                \/ j.want > 0 /\ SetJob(t, a, [j EXCEPT !.cand = @ \ {m}, !.nonce = @ + 1, !.want = @ - 1,
                                                       !.sel = @ \cup {[id |-> m, nonce |-> j.nonce]}])
        /\ UNCHANGED <<dbVars, pushing, chain, pushed, tasks, workVars, crashes>>

SelIds(j) == {s.id : s \in j.sel}

(* Mutant: the saved nonce is one behind the signed one. *)
SavedMsgsOffByOne(j) ==
    [m \in MsgId |->
        IF m \in SelIds(j)
          THEN [state |-> "Fill", nonce |-> (CHOOSE s \in j.sel : s.id = m).nonce - 1, signed |-> TRUE, err |-> FALSE]
          ELSE msgs[m]]

(* BatchSaveMessage writes whole rows; UpdateErrMsg one column. *)
SavedMsgs(j) ==
    [m \in MsgId |->
        IF m \in SelIds(j)
          THEN [state |-> "Fill", nonce |-> (CHOOSE s \in j.sel : s.id = m).nonce, signed |-> TRUE, err |-> FALSE]
        ELSE IF m \in j.errs THEN [msgs[m] EXCEPT !.err = TRUE]
        ELSE msgs[m]]

(* Mutant: the address row is left out of the transaction. *)
SaveMessagesOnly(t, a) ==
    LET j == jobs[t][a]
    IN  /\ j.pc = "sign" /\ j.cand = {}
        /\ msgs' = SavedMsgs(j)
        /\ SetJob(t, a, [j EXCEPT !.pc = "push", !.toPush = @ \cup j.sel,
                                  !.sel = {}, !.errs = {}, !.want = 0])
        /\ UNCHANGED <<addrs, pushing, chain, pushed, tasks, workVars, crashes>>

(* saveSelectedMessages: rows, address nonce and error marks in one transaction.  The nonce
   is written only with a selected message, and only to a row that exists.  With nothing
   selected and no error the code skips the transaction, which would change nothing. *)
SaveSelected(t, a) ==
    LET j == jobs[t][a]
    IN  /\ j.pc = "sign" /\ j.cand = {}
        /\ msgs' = SavedMsgs(j)
        /\ addrs' = IF j.sel # {} /\ addrs[a].exists THEN [addrs EXCEPT ![a].nonce = j.nonce] ELSE addrs
        /\ SetJob(t, a, [j EXCEPT !.pc = "push", !.toPush = @ \cup j.sel,
                                  !.sel = {}, !.errs = {}, !.want = 0])
        /\ UNCHANGED <<pushing, chain, pushed, tasks, workVars, crashes>>

(* The non-blocking send on msgReceiver: the batch is taken, or dropped when it is full. *)
PushSelected(t, a) ==
    /\ jobs[t][a].pc = "push"
    /\ \/ pushed' = pushed \cup jobs[t][a].toPush
       \/ pushed' = pushed
    /\ Finish(t, a)
    /\ UNCHANGED <<dbVars, pushing, chain, tasks, works, closed, crashes>>

(* The process dies, by a crash or by a panic of one of its goroutines, and starts again:
   only the tables survive, and newMsgSelectMgr creates the works. *)
Restart ==
    /\ tasks' = [t \in Task |-> NoTask]
    /\ jobs' = [t \in Task |-> [a \in Addr |-> NoJob]]
    /\ pushing' = {} /\ full' = {} /\ closed' = {}
    /\ \E g \in Gen : works' = [a \in Addr |-> IF IsActive(addrs[a]) THEN g ELSE NoWork]
    /\ crashes' = crashes + 1
    /\ UNCHANGED <<dbVars, chain, pushed>>

Crash == crashes < MaxCrashes /\ Restart

Panic(t, a) == crashes < MaxCrashes /\ (Panics(t, a) \/ NilSignature(t, a)) /\ Restart

-----------------------------------------------------------------------------

Init ==
    /\ msgs = [m \in MsgId |-> NoMsg]
    /\ addrs = [a \in Addr |-> NoAddr]
    /\ pushing = {}
    /\ chain = [a \in Addr |-> <<>>]
    /\ pushed = {}
    /\ tasks = [t \in Task |-> NoTask]
    /\ works = [a \in Addr |-> NoWork]
    /\ full = {} /\ closed = {}
    /\ jobs = [t \in Task |-> [a \in Addr |-> NoJob]]
    /\ crashes = 0

MsgApi(m) ==
    \/ PushPrepare(m)
    \/ PushCreate(m)
    \/ PushFails(m)
    \/ MarkBadMessage(m)
    \/ RepublishMessage(m)
    \/ \E s \in MsgState \ {"None"} : UpdateMessageStateByID(m, s)

AddrApi(a) ==
    \/ RecoverFailedMsg(a)
    \/ \E alive \in BOOLEAN : UpdateState(a, alive)
    \/ \E n \in SelNums : SetSelectMsgNum(a, n)
    \/ \E n \in 0..MaxChain : UpdateNonce(a, n)
    \/ DeleteAddress(a)

ChainStep(a) ==
    \/ \E occupant \in MsgId \cup {Foreign} : ChainExtend(a, occupant)
    \/ ChainReorg(a)

Refresh(m) == RefreshApply(m) \/ RefreshRevert(m)

TaskStep(t) ==
    \/ NewHead(t)
    \/ DelayOver(t)
    \/ ReadActiveAddrs(t)
    \/ LaunchJobs(t)

JobStep(t, a) ==
    \/ CheckCtx(t, a)
    \/ TakeControl(t, a)
    \/ JobFails(t, a)
    \/ SyncNonce(t, a)
    \/ ListCandidates(t, a)
    \/ SignCandidate(t, a)
    \/ SaveSelected(t, a)
    \/ PushSelected(t, a)
    \/ Panic(t, a)

Next ==
    \/ \E m \in MsgId : MsgApi(m) \/ Refresh(m)
    \/ \E a \in Addr : AddrApi(a) \/ ChainStep(a)
    \/ \E t \in Task : TaskStep(t)
    \/ \E t \in Task, a \in Addr : JobStep(t, a)
    \/ Crash

Spec == Init /\ [][Next]_vars

(* Fairness.  The goroutines themselves are scheduled (weak fairness).  The rest is about the
   world outside: the chain keeps producing heads, and neither the database, the node, the
   wallet nor a full msgReceiver makes every attempt for a message fail (strong fairness of
   the step that succeeds). *)
Carries(t, a, m) == \E s \in jobs[t][a].toPush : s.id = m

Fairness ==
    /\ \A t \in Task :
          /\ WF_vars(TaskStep(t))
          /\ SF_vars(ReadActiveAddrs(t) /\ tasks'[t].pc = "snap")
          /\ SF_vars(LaunchJobs(t) /\ tasks'[t].pc = "running")
    /\ \A t \in Task, a \in Addr :
          /\ WF_vars(JobStep(t, a))
          /\ SF_vars(SyncNonce(t, a))
          /\ SF_vars(ListCandidates(t, a) /\ jobs'[t][a].toPush = FilledFrom(a, tasks[t].ts[a]))
          /\ \A m \in MsgId :
                /\ SF_vars(SaveSelected(t, a) /\ Carries(t, a, m))
                /\ SF_vars(PushSelected(t, a) /\ Carries(t, a, m) /\ pushed' = pushed \cup jobs[t][a].toPush)

FairSpec == Spec /\ Fairness

-----------------------------------------------------------------------------
(* Properties *)

(* No two messages of one sender carry the same nonce, whatever happened to them since they
   were signed: filled, on chain, conflicting, or marked bad and so recoverable. *)
NonceUnique ==
    \A m, k \in MsgId :
        msgs[m].signed /\ msgs[k].signed /\ From[m] = From[k] /\ m # k => msgs[m].nonce # msgs[k].nonce

(* The address row is always past every nonce it has given out, so that a selection that
   starts from the row (after a crash, too) cannot give one out again. *)
NonceBehindAddress ==
    \A m \in MsgId :
        msgs[m].signed => addrs[From[m]].exists /\ msgs[m].nonce < addrs[From[m]].nonce

(* What was broadcast is in the table under the nonce it was broadcast with: a crash between
   signing and saving never leaves an unknown message in the network's pools, and no message
   is ever signed for a second nonce. *)
PublishedPersisted ==
    \A p \in pushed : msgs[p.id].signed /\ msgs[p.id].nonce = p.nonce

(* Nonces between the chain's and the row's all belong to a message of the table: the chain
   never waits for a nonce that nobody holds. *)
NoNonceGap ==
    \A a \in Addr : \A n \in 0 .. addrs[a].nonce - 1 :
        \E m \in MsgId : From[m] = a /\ msgs[m].signed /\ msgs[m].nonce = n

(* A selection that gives out nonces stays within the address's pending window, counted from
   the chain nonce of the tipset it runs for. *)
PendingWindow ==
    \A t \in Task, a \in Addr :
        jobs[t][a].sel # {} => jobs[t][a].nonce <= tasks[t].ts[a] + PendingMax(t, a)

Selecting(t, a) == jobs[t][a].pc \in {"nonce", "list", "sign", "push"}

(* At most one goroutine selects for an address, also when the address's work was closed and
   created again while goroutines of the earlier work were under way. *)
OneSelectionPerAddr ==
    \A t, u \in Task, a \in Addr : Selecting(t, a) /\ Selecting(u, a) => t = u

(* The control token of an address's current work is held exactly by the goroutine that
   selects for it: no path of startSelectMessage leaks it, and none selects without it. *)
TokenHeldBySelection ==
    \A a \in Addr : works[a] # NoWork =>
        (<<a, works[a]>> \in full <=> \E t \in Task : Selecting(t, a) /\ jobs[t][a].work = works[a])

(* The nonce of an address never goes back. *)
NonceNeverBack == [][\A a \in Addr : addrs'[a].nonce >= addrs[a].nonce]_vars

(* A signed message reaches the publisher even if the process dies between saving and pushing
   it or the batch is dropped at a full msgReceiver: later rounds push it again until then. *)
FilledIsPublished ==
    \A m \in MsgId :
        msgs[m].state = "Fill" /\ AsSigned(m) \notin pushed
          ~> msgs[m].state # "Fill" \/ AsSigned(m) \in pushed

(* Message selection does what NonceAllocator promises. *)
Alloc == INSTANCE NonceAllocator WITH
    next      <- [a \in Addr |-> addrs[a].nonce],
    allocated <- {AsSigned(m) : m \in {k \in MsgId : msgs[k].signed}},
    published <- pushed

AllocSpec == Alloc!Spec

-----------------------------------------------------------------------------
(* The inductive invariant behind NonceUnique and NonceBehindAddress, for selections that do
   not overlap and addresses whose nonce no API call resets. *)

OneTask      == \A t, u \in Task : t = u
NoNonceReset == "updateNonce" \notin Features /\ "deleteAddress" \notin Features

RunsInTask(t, a) == jobs[t][a].pc # "none" => tasks[t].pc = "running"

SelectsActive(t, a) == Selecting(t, a) => SnapActive(t, a)

(* Until the goroutine has synced its nonce, the row that SelectMessage read is not behind
   the table. *)
SnapFresh(t, a) ==
    /\ tasks[t].pc = "snap" \/ jobs[t][a].pc \in {"spawned", "checked", "nonce"}
    /\ SnapActive(t, a)
    => addrs[a].exists /\ addrs[a].nonce <= tasks[t].snap[a].nonce

(* What a goroutine has given out and not saved lies between the row's nonce and its own. *)
SelectionFresh(t, a) ==
    LET j == jobs[t][a]
    IN  /\ j.pc \in {"list", "sign"} => addrs[a].exists /\ addrs[a].nonce <= j.nonce
        /\ j.pc # "sign" => j.sel = {}
        /\ j.pc # "sign" => j.cand = {}
        /\ \A m \in j.cand : From[m] = a
        /\ \A s \in j.sel : /\ From[s.id] = a /\ s.id \notin j.cand
                            /\ addrs[a].nonce <= s.nonce /\ s.nonce < j.nonce
        /\ \A s, r \in j.sel : s.id = r.id \/ s.nonce = r.nonce => s = r

(* What makes two selections of one sender, one after the other, give out different nonces:
   each starts at or past everything the table holds, and none starts before the earlier one
   has saved. *)
NonceInv ==
    /\ NonceUnique
    /\ NonceBehindAddress
    /\ \A t \in Task, a \in Addr :
          RunsInTask(t, a) /\ SelectsActive(t, a) /\ SnapFresh(t, a) /\ SelectionFresh(t, a)

(* A row that does not exist has no nonce to lose when it is created. *)
AbsentIsZero == \A a \in Addr : ~addrs[a].exists => addrs[a].nonce = 0

(* The pending window, for selections that overlap too: a goroutine never works below the
   chain nonce of its tipset, so that the unsigned difference of the two does not wrap, and
   its nonce and the free places of the window always add up to the window. *)
WindowOf(t, a) ==
    /\ RunsInTask(t, a)
    /\ jobs[t][a].pc # "sign" => jobs[t][a].sel = {}
    /\ jobs[t][a].pc = "list" => tasks[t].ts[a] <= jobs[t][a].nonce
    /\ jobs[t][a].pc = "sign" =>
          jobs[t][a].nonce + jobs[t][a].want = tasks[t].ts[a] + PendingMax(t, a)

WindowInv == \A t \in Task, a \in Addr : WindowOf(t, a)

(* The inductive invariant behind OneSelectionPerAddr and TokenHeldBySelection, for selections
   that overlap, addresses that come and go, and every API call. *)

(* A goroutine runs for the address's current work, or for one that was closed since. *)
WorkKnown(t, a) ==
    jobs[t][a].pc # "none" =>
        jobs[t][a].work \in Gen /\ (jobs[t][a].work = works[a] \/ WorkOf(t, a) \in closed)

(* A goroutine that selects holds the token of the current work: a busy work is never removed. *)
HoldsToken(t, a) ==
    Selecting(t, a) => jobs[t][a].work = works[a] /\ WorkOf(t, a) \in full

TokenInv ==
    /\ OneSelectionPerAddr
    /\ TokenHeldBySelection
    /\ \A t \in Task, a \in Addr : WorkKnown(t, a) /\ HoldsToken(t, a)
    /\ \A a \in Addr : works[a] # NoWork => <<a, works[a]>> \notin closed

NoStateSet == "updateState" \notin Features

(* The invariant behind PublishedPersisted and the refinement of NonceAllocator, for selections
   that do not overlap and without calls that set any state. *)

(* What a selection gives a nonce to is a row without a signature, still unfilled unless it was
   marked bad in the meantime. *)
Signable(m) ==
    /\ msgs[m].state # "None" /\ ~msgs[m].signed
    /\ "markBad" \notin Features => msgs[m].state = "UnFill"

InTable(p) == msgs[p.id].signed /\ msgs[p.id].nonce = p.nonce

SelectsSignable(t, a) ==
    /\ \A m \in jobs[t][a].cand : Signable(m)
    /\ \A s \in jobs[t][a].sel : Signable(s.id)
    /\ \A p \in jobs[t][a].toPush : InTable(p)

SignInv ==
    /\ \A m \in MsgId : msgs[m].state \in {"None", "UnFill"} => ~msgs[m].signed
    /\ \A m \in pushing : msgs[m].state = "None"
    /\ \A t \in Task, a \in Addr : SelectsSignable(t, a)
    /\ PublishedPersisted

(* The invariant behind NoNonceGap, without messages sent by others from the same addresses: the
   chain is never ahead of the row, so that a goroutine starts from the row's own nonce, and
   what it has given out so far are all the nonces from there to its own. *)
GapFree(t, a) ==
    LET j == jobs[t][a]
    IN  /\ tasks[t].ts[a] <= addrs[a].nonce
        /\ tasks[t].pc \in {"snap", "running"} =>
              tasks[t].ts[a] <= tasks[t].snap[a].nonce /\ tasks[t].snap[a].nonce <= addrs[a].nonce
        /\ j.pc = "list" => j.nonce = addrs[a].nonce
        /\ j.pc = "sign" => \A n \in addrs[a].nonce .. j.nonce - 1 : \E s \in j.sel : s.nonce = n

GapInv ==
    /\ NoNonceGap
    /\ \A a \in Addr : ChainNonce(a) <= addrs[a].nonce
    /\ \A t \in Task, a \in Addr : GapFree(t, a)

NoForeign == "foreign" \notin Features
=============================================================================
