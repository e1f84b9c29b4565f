----------------------------- MODULE ApiProofs ------------------------------
(***************************************************************************)
(* What the calls of the API keep, for any number of calls, messages and   *)
(* senders and any tables: the handshake of ClearUnFillMessage, the nonces *)
(* at the migration, the rows of the two databases (BackendInv), and what  *)
(* is read from them.                                                      *)
(***************************************************************************)
EXTENDS MessageApi, FiniteSetTheorems, SequenceTheorems, TLAPS

-----------------------------------------------------------------------------
(* The handshake of ClearUnFillMessage *)

CallerState == {"idle", "sending", "waiting", "answered", "gaveUp"}
WorkerState == [pc : {"idle", "running", "offering", "selecting"}, req : SUBSET Caller]

ClearTypeOK == caller \in [Caller -> CallerState] /\ worker \in [Goroutine -> WorkerState]

(* The callers that are owed an answer; the sizes of the two groups add up as they are disjoint. *)
ClearInv == ClearTypeOK /\ AnswersConserved

(* The callers in a state, and the goroutines held, are finitely many. *)
LEMMA GroupsFinite ==
    ASSUME NEW state
    PROVE  /\ IsFiniteSet(Callers(state)) /\ Cardinality(Callers(state)) \in Nat
           /\ IsFiniteSet(Held) /\ Cardinality(Held) \in Nat
  <1>1. Callers(state) \in SUBSET Caller
    BY DEF Callers
  <1>2. Held \in SUBSET Goroutine
    BY DEF Held
  <1>3. IsFiniteSet(Callers(state)) /\ IsFiniteSet(Held)
    BY <1>1, <1>2, FS_Subset, FiniteAssumption
  <1> QED
    BY <1>3, FS_CardinalityType

(* At the start nobody waits and no goroutine is held. *)
LEMMA ClearStarts == ClearInit => ClearInv
  <1> SUFFICES ASSUME ClearInit PROVE ClearInv
    OBVIOUS
  <1>1. ClearTypeOK
    BY DEF ClearInit, ClearTypeOK, NoReq, CallerState, WorkerState
  <1>2. Callers("waiting") = {} /\ Callers("gaveUp") = {} /\ Held = {}
    BY DEF ClearInit, NoReq, Callers, Held
  <1> QED
    BY <1>1, <1>2, FS_EmptySet DEF ClearInv, AnswersConserved

(* A call that begins changes no group. *)
LEMMA ClearBegins ==
    ASSUME NEW c \in Caller, ClearInv, ClearUnFillMessage(c)
    PROVE  ClearInv'
  <1> USE DEF ClearInv, ClearUnFillMessage
  <1>1. ClearTypeOK'
    BY DEF ClearTypeOK, CallerState
  <1>2. Callers("waiting")' = Callers("waiting") /\ Callers("gaveUp")' = Callers("gaveUp") /\ Held' = Held
    BY DEF ClearTypeOK, Callers, Held
  <1> QED
    BY <1>1, <1>2 DEF AnswersConserved

(* Taking a function adds one caller that waits and one goroutine that is held. *)
LEMMA ClearTaken ==
    ASSUME NEW h \in Goroutine, ClearInv, TryClearUnFillMsg(h)
    PROVE  ClearInv'
  <1> USE DEF ClearInv
  <1>1. ASSUME NEW c \in Caller, caller[c] = "sending", worker[h].pc = "idle",
               caller' = [caller EXCEPT ![c] = "waiting"],
               worker' = [worker EXCEPT ![h] = [pc |-> "running", req |-> {c}]]
        PROVE  ClearInv'
    <2>1. ClearTypeOK'
      BY <1>1 DEF ClearTypeOK, CallerState, WorkerState
    <2>2. /\ Callers("waiting")' = Callers("waiting") \cup {c} /\ c \notin Callers("waiting")
          /\ Callers("gaveUp")' = Callers("gaveUp")
      BY <1>1 DEF ClearTypeOK, Callers
    <2>3. Held' = Held \cup {h} /\ h \notin Held
      BY <1>1 DEF ClearTypeOK, Held
    <2>4. /\ Cardinality(Callers("waiting")') = Cardinality(Callers("waiting")) + 1
          /\ Cardinality(Held') = Cardinality(Held) + 1
      BY <2>2, <2>3, GroupsFinite, FS_AddElement
    <2> QED
      BY <2>1, <2>2, <2>4, GroupsFinite DEF AnswersConserved
  <1>2. ASSUME worker[h].pc = "idle", worker' = [worker EXCEPT ![h].pc = "selecting"], UNCHANGED caller
        PROVE  ClearInv'
    <2>1. ClearTypeOK'
      BY <1>2 DEF ClearTypeOK, CallerState, WorkerState
    <2>2. Callers("waiting")' = Callers("waiting") /\ Callers("gaveUp")' = Callers("gaveUp") /\ Held' = Held
      BY <1>2 DEF ClearTypeOK, WorkerState, Callers, Held
    <2> QED
      BY <2>1, <2>2 DEF AnswersConserved
  <1> QED
    BY <1>1, <1>2 DEF TryClearUnFillMsg

(* A function that returns leaves its goroutine held, by the result. *)
LEMMA ClearRuns ==
    ASSUME NEW h \in Goroutine, ClearInv, RunClear(h)
    PROVE  ClearInv'
  <1> USE DEF ClearInv, RunClear
  <1>1. ClearTypeOK'
    BY DEF ClearTypeOK, CallerState, WorkerState
  <1>2. Callers("waiting")' = Callers("waiting") /\ Callers("gaveUp")' = Callers("gaveUp") /\ Held' = Held
    BY DEF ClearTypeOK, WorkerState, Callers, Held
  <1> QED
    BY <1>1, <1>2 DEF AnswersConserved

(* A result frees one goroutine and one caller, whosever function it was. *)
LEMMA ClearAnswers ==
    ASSUME NEW h \in Goroutine, ClearInv, SendResult(h)
    PROVE  ClearInv'
  <1> USE DEF ClearInv
  <1>1. PICK c \in Caller : caller[c] = "waiting" /\ caller' = [caller EXCEPT ![c] = "answered"]
    BY DEF SendResult
  <1>2. worker[h].pc = "offering" /\ worker' = [worker EXCEPT ![h].pc = "selecting"]
    BY DEF SendResult
  <1>3. ClearTypeOK'
    BY <1>1, <1>2 DEF ClearTypeOK, CallerState, WorkerState
  <1>4. /\ Callers("waiting")' = Callers("waiting") \ {c} /\ c \in Callers("waiting")
        /\ Callers("gaveUp")' = Callers("gaveUp")
    BY <1>1 DEF ClearTypeOK, Callers
  <1>5. Held' = Held \ {h} /\ h \in Held
    BY <1>2 DEF ClearTypeOK, WorkerState, Held
  <1>6. /\ Cardinality(Callers("waiting")') = Cardinality(Callers("waiting")) - 1
        /\ Cardinality(Held') = Cardinality(Held) - 1
    BY ZenonT(60), <1>4, <1>5, GroupsFinite, FS_RemoveElement
  <1> QED
    BY <1>3, <1>4, <1>6, GroupsFinite DEF AnswersConserved

(* A caller that gives up passes from one group to the other. *)
LEMMA ClearGivesUp ==
    ASSUME NEW c \in Caller, ClearInv, GiveUp(c)
    PROVE  ClearInv'
  <1> USE DEF ClearInv, GiveUp
  <1>1. ClearTypeOK'
    BY DEF ClearTypeOK, CallerState
  <1>2. /\ Callers("waiting")' = Callers("waiting") \ {c} /\ c \in Callers("waiting")
        /\ Callers("gaveUp")' = Callers("gaveUp") \cup {c} /\ c \notin Callers("gaveUp")
        /\ Held' = Held
    BY DEF ClearTypeOK, Callers, Held
  <1>3. Cardinality(Callers("waiting")') = Cardinality(Callers("waiting")) - 1
    BY <1>2, GroupsFinite, FS_RemoveElement
  <1>4. Cardinality(Callers("gaveUp")') = Cardinality(Callers("gaveUp")) + 1
    BY <1>2, GroupsFinite, FS_AddElement
  <1> QED
    BY <1>1, <1>2, <1>3, <1>4, GroupsFinite DEF AnswersConserved

(* No other call touches the handshake. *)
LEMMA ClearUntouched ==
    ASSUME ClearInv, UNCHANGED <<caller, worker>>
    PROVE  ClearInv'
  BY DEF ClearInv, ClearTypeOK, AnswersConserved, Held, Callers

(* The calls that only use the tables, and a new height, leave waiting and clearing alone. *)
LEMMA OthersIdle == Next => Idle \/ Wait \/ Clear \/ \E h \in Goroutine : RunClearUnFill(h)
  <1>1. (Start) => Idle
    BY DEF Start
  <1>2. (\E u \in Callable, id \in MsgId, from \in Addr : PushMessage(u, id, from)) => Idle
    BY DEF PushMessage
  <1>3. (\E id \in MsgId : Select(id) \/ Revert(id)) => Idle
    BY DEF Select, Revert
  <1>4. (\E u \in Callable, id \in MsgId : UpdateInfo(u, id) \/ Replace(u, id)) => Idle
    BY DEF UpdateInfo, Replace
  <1>5. (\E u \in Callable, id \in MsgId, state \in {"UnFill", "Fill", "Failed"} : SetMessageState(u, id, state)) => Idle
    BY DEF SetMessageState
  <1>6. (\E u \in Callable, from \in Addr :
               RecoverFailedMsg(u, from) \/ AddressCall(u, from) \/ SetFeeParams(u, from)) => Idle
    BY DEF RecoverFailedMsg, AddressCall, SetFeeParams
  <1>7. (SetSharedParams \/ SaveActorCfg \/ UpdateActorCfg \/ DelActorCfg \/ SaveNode \/ DeleteNode) => Idle
    BY DEF SetSharedParams, SaveActorCfg, UpdateActorCfg, DelActorCfg, SaveNode, DeleteNode
  <1>8. (NewHeight) => Idle
    BY DEF NewHeight
  <1> QED
    BY <1>1, <1>2, <1>3, <1>4, <1>5, <1>6, <1>7, <1>8 DEF Next

(* Every step of the API keeps the balance of the handshake. *)
LEMMA ClearKept == ClearInv /\ [Next]_vars => ClearInv'
  <1> SUFFICES ASSUME ClearInv, [Next]_vars PROVE ClearInv'
    OBVIOUS
  <1>1. CASE Clear
    BY <1>1, ClearBegins, ClearGivesUp, ClearTaken, ClearAnswers DEF Clear
  <1>2. CASE \E h \in Goroutine : RunClearUnFill(h)
    BY <1>2, ClearRuns DEF RunClearUnFill
  <1>3. CASE Wait
    BY <1>3, ClearUntouched DEF Wait
  <1>4. CASE UNCHANGED vars
    BY <1>4, ClearUntouched DEF vars
  <1>5. CASE Idle
    BY <1>5, ClearUntouched DEF Idle
  <1> QED
    BY <1>1, <1>2, <1>3, <1>4, <1>5, OthersIdle

(* A goroutine of a head is held by the function or the result of ClearUnFillMessage for exactly
   one caller each that waits or gave up, whatever other calls interleave: an answer is never
   lost to a caller that stays, and no more heads lose their selection than callers gave up. *)
THEOREM AnswersNeverLost == Spec => []AnswersConserved
  <1>1. Init => ClearInv
    BY ClearStarts DEF Init
  <1>2. ClearInv => AnswersConserved
    BY DEF ClearInv
  <1> QED
    BY <1>1, <1>2, ClearKept, PTL DEF Spec

-----------------------------------------------------------------------------
(* The migration of the addresses at start *)

(* Rows an earlier version can have left. *)
OldRows(T) == \A r \in T : r \in AddressRow /\ ~r.deleted /\ \A q \in T : q.addr = r.addr => q = r

(* The rows of sqlite after the migration. *)
Migrated(T, time) ==
    MigrateAddress(T, Lite!ListAddress(T), {Lite!fromAddress(a, time) : a \in Missing(T, Lite!ListAddress(T))})

(* Every row is listed, with the new prefix. *)
LEMMA AllListed ==
    ASSUME NEW T, OldRows(T)
    PROVE  Lite!ListAddress(T) = {Lite!Address(r) : r \in T}
  BY DEF OldRows, Lite!ListAddress, Lite!Live

(* Address and fromAddress give a row the new prefix and leave its nonce alone. *)
LEMMA AddressOfRow ==
    ASSUME NEW r \in AddressRow
    PROVE  /\ r.addr[1] \in {"f", "t"} /\ r.addr[2] \in Addr /\ r.addr = <<r.addr[1], r.addr[2]>>
           /\ Lite!Address(r).addr = <<"f", r.addr[2]>> /\ Lite!Address(r).nonce = r.nonce
           /\ \A time : LET n == Lite!fromAddress([Lite!Address(r) EXCEPT !.id = Lite!Address(r).addr], time)
                        IN  n.addr = <<"f", r.addr[2]>> /\ n.nonce = r.nonce
  BY DEF AddressRow, Prefixed, Lite!Address, Lite!fromAddress

(* What is left: the rows with the new prefix, and a new one for each old row without such a row. *)
LEMMA MigratedRows ==
    ASSUME NEW T, OldRows(T), NEW time
    PROVE  Migrated(T, time) =
             {r \in T : r.addr[1] = "f"}
             \cup {Lite!fromAddress([Lite!Address(r) EXCEPT !.id = Lite!Address(r).addr], time) :
                     r \in {q \in T : \A x \in T : x.addr # <<"f", q.addr[2]>>}}
  <1> DEFINE listed == Lite!ListAddress(T)
             made(r) == Lite!fromAddress([Lite!Address(r) EXCEPT !.id = Lite!Address(r).addr], time)
  <1>1. listed = {Lite!Address(r) : r \in T}
    BY AllListed
  <1>2. \A r \in T : r \in AddressRow
    BY DEF OldRows
  <1>3. {r \in T : \A a \in listed : r.addr # <<"t", a.addr[2]>>} = {r \in T : r.addr[1] = "f"}
    <2>1. ASSUME NEW r \in T
          PROVE  (\A a \in listed : r.addr # <<"t", a.addr[2]>>) <=> r.addr[1] = "f"
      <3>1. CASE r.addr[1] = "f"
        BY <3>1, <1>2, AddressOfRow
      <3>2. CASE r.addr[1] # "f"
        <4>1. r.addr = <<"t", r.addr[2]>>
          BY <3>2, <1>2, AddressOfRow
        <4>2. Lite!Address(r) \in listed /\ Lite!Address(r).addr = <<"f", r.addr[2]>>
          BY <1>1, <1>2, AddressOfRow
        <4>3. Lite!Address(r).addr[2] = r.addr[2]
          BY <4>2
        <4> QED
          BY <3>2, <4>1, <4>2, <4>3
      <3> QED
        BY <3>1, <3>2
    <2> QED
      BY <2>1
  <1>4. Missing(T, listed)
          = {[Lite!Address(r) EXCEPT !.id = Lite!Address(r).addr] : r \in {q \in T : \A x \in T : x.addr # <<"f", q.addr[2]>>}}
    <2>1. \A r \in T : Lite!Address(r).addr = <<"f", r.addr[2]>>
      BY <1>2, AddressOfRow
    <2> DEFINE renamed(k) == [k EXCEPT !.id = k.addr]
               gone == {k \in listed : \A r \in T : r.addr # k.addr}
               lone == {q \in T : \A x \in T : x.addr # <<"f", q.addr[2]>>}
    <2>2. gone = {Lite!Address(q) : q \in lone}
      BY <2>1, <1>1
    <2>3. Missing(T, listed) = {renamed(k) : k \in gone}
      BY DEF Missing
    <2> HIDE DEF renamed, gone, lone
    <2>4. {renamed(k) : k \in gone} = {renamed(Lite!Address(r)) : r \in lone}
      BY <2>2
    <2>5. Missing(T, listed) = {renamed(Lite!Address(r)) : r \in lone}
      BY <2>3, <2>4
    <2> QED
      BY <2>5 DEF renamed, lone
  <1>5. {Lite!fromAddress(a, time) : a \in Missing(T, listed)}
          = {made(r) : r \in {q \in T : \A x \in T : x.addr # <<"f", q.addr[2]>>}}
    BY <1>4
  <1> QED
    BY <1>3, <1>5 DEF Migrated, MigrateAddress

(* One row of U for each address of T, with the new prefix and the nonce it had before. *)
KeepsNonce(T, U, a) ==
    LET before(pre) == {r.nonce : r \in {x \in T : x.addr = <<pre, a>>}}
        after == {r \in U : r.addr[2] = a}
    IN  /\ Cardinality(after) = Cardinality({x.addr[2] : x \in {y \in T : y.addr[2] = a}})
        /\ \A r \in after : /\ r.addr[1] = "f"
                            /\ r.nonce \in IF before("f") # {} THEN before("f") ELSE before("t")

(* The migration does so. *)
LEMMA MigrationKeeps ==
    ASSUME NEW T, OldRows(T), NEW time, NEW a \in Addr
    PROVE  KeepsNonce(T, Migrated(T, time), a)
  <1> DEFINE before(pre) == {r.nonce : r \in {x \in T : x.addr = <<pre, a>>}}
             after == {r \in Migrated(T, time) : r.addr[2] = a}
             made(r) == Lite!fromAddress([Lite!Address(r) EXCEPT !.id = Lite!Address(r).addr], time)
             names == {x.addr[2] : x \in {y \in T : y.addr[2] = a}}
  <1>1. \A r \in T : r \in AddressRow /\ \A q \in T : q.addr = r.addr => q = r
    BY DEF OldRows
  <1>2. \A r \in T : made(r).addr = <<"f", r.addr[2]>> /\ made(r).nonce = r.nonce
    BY <1>1, AddressOfRow
  <1>3. \A r \in T : r.addr[2] = a => r.addr = <<"f", a>> \/ r.addr = <<"t", a>>
    BY <1>1, AddressOfRow
  <1>4. Migrated(T, time) = {r \in T : r.addr[1] = "f"}
                           \cup {made(r) : r \in {q \in T : \A x \in T : x.addr # <<"f", q.addr[2]>>}}
    BY MigratedRows
  <1> HIDE DEF made
  <1>5. CASE \E r \in T : r.addr = <<"f", a>>
    <2>1. PICK r \in T : r.addr = <<"f", a>>
      BY <1>5
    <2>2. after = {r}
      BY <2>1, <1>1, <1>2, <1>3, <1>4
    <2>3. names = {a}
      BY <2>1
    <2>4. r.nonce \in before("f")
      BY <2>1
    <2> HIDE DEF after, names, before
    <2>5. Cardinality(after) = Cardinality(names)
      BY <2>2, <2>3, FS_Singleton
    <2>6. \A q \in after : q.addr[1] = "f" /\ q.nonce \in IF before("f") # {} THEN before("f") ELSE before("t")
      BY <2>1, <2>2, <2>4
    <2> QED
      BY <2>5, <2>6 DEF after, names, before, KeepsNonce
  <1>6. CASE (\A r \in T : r.addr # <<"f", a>>) /\ \E r \in T : r.addr = <<"t", a>>
    <2>1. PICK r \in T : r.addr = <<"t", a>>
      BY <1>6
    <2>2. after = {made(r)}
      <3>1. r.addr[2] = a /\ made(r).addr[2] = a
        BY <2>1, <1>2
      <3>2. made(r) \in after
        BY <3>1, <1>4, <1>6
      <3>3. ASSUME NEW q \in after PROVE q = made(r)
        <4>1. q \notin T \/ q.addr[1] # "f"
          BY <3>3, <1>3, <1>6
        <4>2. PICK x \in T : q = made(x)
          BY <4>1, <3>3, <1>4
        <4>3. x.addr[2] = a
          BY <4>2, <3>3, <1>2
        <4>4. x = r
          BY <4>3, <2>1, <1>1, <1>3, <1>6
        <4> QED
          BY <4>2, <4>4
      <3> QED
        BY <3>2, <3>3
    <2>3. names = {a}
      BY <2>1
    <2>4. made(r).nonce \in before("t") /\ before("f") = {} /\ made(r).addr = <<"f", a>>
      BY <2>1, <1>2, <1>6
    <2> HIDE DEF after, names, before
    <2>5. Cardinality(after) = Cardinality(names)
      BY <2>2, <2>3, FS_Singleton
    <2>6. \A q \in after : q.addr[1] = "f" /\ q.nonce \in IF before("f") # {} THEN before("f") ELSE before("t")
      BY <2>2, <2>4
    <2> QED
      BY <2>5, <2>6 DEF after, names, before, KeepsNonce
  <1>7. CASE \A r \in T : r.addr # <<"f", a>> /\ r.addr # <<"t", a>>
    <2>1. after = {} /\ names = {}
      BY <1>7, <1>2, <1>3, <1>4
    <2> HIDE DEF after, names, before
    <2> QED
      BY <2>1 DEF after, names, before, KeepsNonce
  <1> QED
    BY <1>5, <1>6, <1>7

(* Until the process starts, the tables are those an earlier version left. *)
Fresh == scene \in Scenes /\ (~up => lite = EmptyTables(scene.old))

(* Only Start changes the tables before the process is up, and the process stays up. *)
LEMMA OthersStarted == Next => UNCHANGED scene /\ (up' \/ UNCHANGED lite) /\ (up => up')
  <1> DEFINE Kept == UNCHANGED scene /\ (up' \/ UNCHANGED lite) /\ (up => up')
  <1>1. ASSUME NEW call, NEW table, NEW m, NEW l, Write(call, table, m, l) PROVE Kept
    BY <1>1 DEF Write
  <1>2. Unwritten => Kept
    BY DEF Unwritten
  <1> HIDE DEF Kept
  <1>3. Start => Kept
    BY DEF Kept, Start
  <1>4. (\E u \in Callable, id \in MsgId, from \in Addr : PushMessage(u, id, from)) => Kept
    BY DEF Kept, PushMessage
  <1>5. (\E id \in MsgId : Select(id)) => Kept
    BY DEF Kept, Select
  <1>6. (\E id \in MsgId : Revert(id)) => Kept
    BY <1>1 DEF Revert
  <1>7. (\E u \in Callable, id \in MsgId : UpdateInfo(u, id) \/ Replace(u, id)) => Kept
    BY <1>1 DEF UpdateInfo, Replace
  <1>8. (\E u \in Callable, id \in MsgId, state \in {"UnFill", "Fill", "Failed"} : SetMessageState(u, id, state)) => Kept
    BY <1>1 DEF SetMessageState
  <1>9. (\E u \in Callable, from \in Addr : AddressCall(u, from) \/ SetFeeParams(u, from)) => Kept
    BY <1>1 DEF AddressCall, SetFeeParams
  <1>10. (\E u \in Callable, from \in Addr : RecoverFailedMsg(u, from)) => Kept
    BY <1>1, Zenon DEF RecoverFailedMsg
  <1>11. SetSharedParams => Kept
    <2> SUFFICES ASSUME SetSharedParams PROVE Kept
      OBVIOUS
    <2>1. \E ratio \in Ratios, fee \in Fees :
            LET p == [id |-> 0, selNum |-> 5, maxFee |-> fee, overEst |-> ratio] IN
            Write("params", "shared", My!SetSharedParams(my.shared, p), Lite!SetSharedParams(lite.shared, p))
      BY DEF SetSharedParams
    <2>2. \E m, l : Write("params", "shared", m, l)
      BY <2>1, Zenon
    <2> QED
      BY <1>1, <2>2
  <1>16. SaveActorCfg => Kept
    BY <1>1 DEF SaveActorCfg
  <1>15. UpdateActorCfg \/ DelActorCfg => Kept
    BY <1>1 DEF UpdateActorCfg, DelActorCfg
  <1>14. SaveNode \/ DeleteNode => Kept
    BY <1>1 DEF SaveNode, DeleteNode
  <1>12. NewHeight \/ Wait \/ Clear => Kept
    BY <1>2 DEF NewHeight, Wait, Clear
  <1>13. (\E h \in Goroutine : RunClearUnFill(h)) => Kept
    <2>1. ASSUME NEW h \in Goroutine, RunClearUnFill(h) PROVE up /\ UNCHANGED <<scene, height, up, wait>>
      BY Zenon, <2>1 DEF RunClearUnFill
    <2> QED
      BY <2>1 DEF Kept
  <1> QED
    BY <1>3, <1>4, <1>5, <1>6, <1>7, <1>8, <1>9, <1>10, <1>11, <1>12, <1>13, <1>14, <1>15, <1>16 DEF Next, Kept

(* Hence the migration finds the tables of the earlier version. *)
LEMMA FreshKept == Fresh /\ [Next]_vars => Fresh'
  <1> SUFFICES ASSUME Fresh, [Next]_vars PROVE Fresh'
    OBVIOUS
  <1>1. CASE UNCHANGED vars
    BY <1>1 DEF vars, Fresh, EmptyTables, Tables
  <1>2. CASE Next
    BY <1>2, OthersStarted DEF Fresh, EmptyTables
  <1> QED
    BY <1>1, <1>2

(* The migration at start, whatever rows an earlier version left, gives each address one row with
   the new prefix, and the nonce it had: no address signs again with nonces it has used. *)
THEOREM NonceSurvivesMigration == Spec => MigrationKeepsNonce
  <1> DEFINE Step == Start => \A a \in Addr : KeepsNonce(lite.addresses, lite'.addresses, a)
  <1>1. Init => Fresh
    BY DEF Init, Fresh
  <1>2. ASSUME Fresh, Start PROVE Step
    <2>1. lite = EmptyTables(scene.old) /\ scene \in Scenes
      BY <1>2 DEF Start, Fresh
    <2>2. lite.addresses = scene.old /\ OldRows(scene.old)
      BY <2>1, OldRowsAssumption DEF EmptyTables, Tables, OldRows
    <2>3. lite'.addresses = Migrated(scene.old, now)
      BY <1>2, <2>1, <2>2 DEF Start, EmptyTables, Tables, Migrated
    <2> QED
      BY <2>2, <2>3, MigrationKeeps
  <1>3. Fresh /\ [Next]_vars => [Step]_vars
    BY <1>2
  <1> QED
    BY <1>1, <1>3, FreshKept, PTL DEF Spec, MigrationKeepsNonce, KeepsNonce

-----------------------------------------------------------------------------
(* The two databases *)

MessageState == {"UnFill", "Fill", "OnChain", "NonceConflict", "Failed"}

(* The columns of the cids: empty until the message is signed. *)
Cids == {<<>>} \cup {UnsignedCid(from, MethodOf[id], n, cap) : from \in Addr, id \in MsgId, n \in Nat, cap \in {1, 2}}
SignedCids == {<<>>} \cup {SignedCid(x) : x \in Cids}

(* A row of the table of messages. *)
MessageRow ==
    [id : MsgId, from : Addr, nonce : Nat, method : Int, ucid : Cids, scid : SignedCids, sig : BOOLEAN, cap : Nat,
     height : Nat, rcpt : Nat, tsk : Seq(SUBSET Nat), state : MessageState, err : Nat, created : Nat, updated : Nat]

(* The cids and the nonce come with the signature. *)
CidOfRow(x, r, n) == x = UnsignedCid(r.from, MethodOf[r.id], n, 1) \/ x = UnsignedCid(r.from, MethodOf[r.id], n, 2)

RowOK(r) ==
    /\ r \in MessageRow
    /\ r.method = Lite!Value(MethodOf[r.id])
    /\ r.sig => CidOfRow(r.ucid, r, r.nonce) /\ r.scid = SignedCid(r.ucid)
    /\ ~r.sig => r.ucid = <<>> /\ r.scid = <<>> /\ r.nonce = 0

(* MySQL holds the row if the method fits, and then holds the same. *)
InRange(i) == i >= -(MaxInt + 1) /\ i <= MaxInt
Holds(r) == InRange(Lite!Value(MethodOf[r.id]))

MessagesAgree(M, L) ==
    /\ IsFiniteSet(L)
    /\ \A r \in L : RowOK(r) /\ \A q \in L : q.id = r.id => q = r
    /\ M = {r \in L : Holds(r)}

AddressesAgree(M, L) ==
    /\ IsFiniteSet(L)
    /\ \A r \in L : r \in AddressRow /\ ~r.deleted /\ r.id = r.addr /\ \A q \in L : q.addr = r.addr => q = r
    /\ M = {Rounded(r) : r \in L}

CfgRow == [id : Nat, code : Nat, method : Int, maxFee : Nat, overEst : Nat]
CfgInMysql(r) == [r EXCEPT !.method = Lite!Scan(@), !.overEst = My!Decimal2(@)]

CfgsAgree(M, L) ==
    /\ \A r \in L : r \in CfgRow /\ \E method \in 0..(2 ^ Width - 1) : r.method = Lite!Value(method)
    /\ M = {CfgInMysql(r) : r \in L}

SharedRow == [id : Nat, selNum : Nat, maxFee : Nat, overEst : Nat]

SharedAgree(M, L) ==
    /\ L \subseteq SharedRow
    /\ M = {Rounded(r) : r \in L}

NodeRow == [id : Nat, name : {"n", "m"}, deleted : BOOLEAN, created : Nat, updated : Nat]

(* Without strict dates the rows are the same up to the time of creation. *)
NodesMatch(M, L) ==
    /\ IsFiniteSet(L)
    /\ M \subseteq NodeRow /\ L \subseteq NodeRow
    /\ ~StrictDates => Untimed(M) = Untimed(L)

(* A nonce that was given to a message is below its sender's, and no other message has it. *)
NoncesFollow(L, A) ==
    \A r \in L :
      r.nonce > 0 => /\ \E a \in A : a.addr = <<"f", r.from>> /\ r.nonce < a.nonce
                     /\ \A q \in L : q.from = r.from /\ q.nonce = r.nonce => q = r

IsTables(T) == T = [t \in Tables |-> T[t]]

(* The inductive invariant: which row of MySQL stands for which row of sqlite, and what a row of
   sqlite looks like.  The properties of what is read follow from it alone. *)
BackendInv ==
    /\ scene \in Scenes /\ now \in Nat /\ height \in Nat
    /\ IsTables(my) /\ IsTables(lite)
    /\ MessagesAgree(my.messages, lite.messages)
    /\ AddressesAgree(my.addresses, lite.addresses)
    /\ up => \A r \in lite.addresses : r.addr[1] = "f"
    /\ CfgsAgree(my.cfgs, lite.cfgs)
    /\ SharedAgree(my.shared, lite.shared)
    /\ NodesMatch(my.nodes, lite.nodes)
    /\ "address" \notin scene.calls => NoncesFollow(lite.messages, lite.addresses)

(* Numbers of Width bits survive being stored as signed ones. *)
LEMMA ScanOfValue ==
    ASSUME NEW u \in 0..(2 ^ Width - 1)
    PROVE  Lite!Scan(Lite!Value(u)) = u /\ Lite!Value(u) \in Int
  <1> DEFINE h == 2 ^ (Width - 1)
             w == 2 ^ Width
  <1>1. h \in Nat /\ w = 2 * h /\ h >= 4 /\ u \in 0..(w - 1)
    BY WidthAssumption
  <1>2. Lite!Value(u) = IF u >= h THEN u - w ELSE u
    BY DEF Lite!Value
  <1>3. Lite!Scan(Lite!Value(u)) = Lite!Value(u) % w
    BY DEF Lite!Scan
  <1> HIDE DEF h, w
  <1>4. u % w = u /\ (u >= h => (u - w) % w = u)
    BY <1>1
  <1> QED
    BY <1>1, <1>2, <1>3, <1>4

(* Rounding twice is rounding once. *)
LEMMA RoundedTwice ==
    ASSUME NEW x \in Nat
    PROVE  My!Decimal2(x) \in Nat /\ My!Decimal2(My!Decimal2(x)) = My!Decimal2(x)
  BY DEF My!Decimal2

(* The methods of the messages. *)
LEMMA MethodStored ==
    ASSUME NEW r, RowOK(r)
    PROVE  MethodOf[r.id] \in Nat /\ Lite!Scan(r.method) = MethodOf[r.id]
  <1>1. r.id \in MsgId
    BY DEF RowOK, MessageRow
  <1>2. MethodOf[r.id] \in 0..(2 ^ Width - 1)
    BY <1>1, MessagesAssumption
  <1>3. MethodOf[r.id] \in Nat
    BY <1>2, WidthAssumption
  <1> QED
    BY <1>2, <1>3, ScanOfValue DEF RowOK

(* A cid tells the sender and the nonce. *)
LEMMA CidsTell ==
    ASSUME NEW f, NEW m, NEW n, NEW c, NEW g, NEW k, NEW o, NEW d
    PROVE  /\ UnsignedCid(f, m, n, c) = UnsignedCid(g, k, o, d) => f = g /\ n = o
           /\ UnsignedCid(f, m, n, c) # <<>>
  BY DEF UnsignedCid

LEMMA SignedCidsTell ==
    ASSUME NEW x, NEW y
    PROVE  (SignedCid(x) = SignedCid(y) => x = y) /\ SignedCid(x) # <<>>
  BY DEF SignedCid

(* The stores count alike. *)
LEMMA StoresCount == \A S : Lite!Cardinality(S) = Cardinality(S) /\ My!Cardinality(S) = Cardinality(S)
  <1>1. \A S : Lite!Cardinality(S) = Cardinality(S)
    BY Zenon DEF Lite!Cardinality, Cardinality
  <1>2. \A S : My!Cardinality(S) = Cardinality(S)
    BY Zenon DEF My!Cardinality, Cardinality
  <1> QED
    BY <1>1, <1>2

(* A finite set has elements if it has more than none. *)
LEMMA SomeCounted ==
    ASSUME NEW S, IsFiniteSet(S)
    PROVE  Lite!Cardinality(S) > 0 <=> S # {}
  <1>1. Cardinality(S) \in Nat /\ (Cardinality(S) = 0 <=> S = {})
    BY FS_CardinalityType, FS_EmptySet
  <1> QED
    BY <1>1, StoresCount

(* The image of a finite set is finite. *)
LEMMA ImageFinite ==
    ASSUME NEW S, IsFiniteSet(S), NEW f
    PROVE  IsFiniteSet({f[x] : x \in S})
  <1> DEFINE T == {f[x] : x \in S}
             g == [x \in S |-> f[x]]
  <1>1. g \in Surjection(S, T)
    BY DEF Surjection
  <1> HIDE DEF g, T
  <1>2. IsFiniteSet(T)
    BY <1>1, FS_Surjection
  <1> QED
    BY <1>2 DEF T

(* What both databases do to the messages alike, without touching nonces. *)
MessagesStep(M, L, M2, L2) == MessagesAgree(M2, L2) /\ \A A : NoncesFollow(L, A) => NoncesFollow(L2, A)

(* A change of rows that keeps their ids. *)
LEMMA RowsChanged ==
    ASSUME NEW M, NEW L, MessagesAgree(M, L), NEW u,
           \A r \in L : RowOK(u[r]) /\ u[r].id = r.id
    PROVE  MessagesAgree({u[s] : s \in M}, {u[r] : r \in L})
  <1> DEFINE N == {u[r] : r \in L}
  <1>1. IsFiniteSet(N)
    BY ImageFinite DEF MessagesAgree
  <1>2. \A r \in N : RowOK(r) /\ \A q \in N : q.id = r.id => q = r
    BY DEF MessagesAgree
  <1>3. \A r \in L : Holds(u[r]) <=> Holds(r)
    BY DEF Holds
  <1>4. {u[s] : s \in M} = {r \in N : Holds(r)}
    BY <1>3 DEF MessagesAgree
  <1> QED
    BY <1>1, <1>2, <1>4 DEF MessagesAgree

(* One that keeps their senders and nonces, too. *)
LEMMA MessagesChanged ==
    ASSUME NEW M, NEW L, MessagesAgree(M, L), NEW u,
           \A r \in L : RowOK(u[r]) /\ u[r].id = r.id /\ u[r].from = r.from /\ u[r].nonce = r.nonce
    PROVE  MessagesStep(M, L, {u[s] : s \in M}, {u[r] : r \in L})
  <1>1. MessagesAgree({u[s] : s \in M}, {u[r] : r \in L})
    <2>1. \A r \in L : RowOK(u[r]) /\ u[r].id = r.id
      OBVIOUS
    <2> QED
      BY <2>1, RowsChanged
  <1>2. ASSUME NEW A, NoncesFollow(L, A) PROVE NoncesFollow({u[r] : r \in L}, A)
    BY <1>2 DEF NoncesFollow
  <1> QED
    BY <1>1, <1>2 DEF MessagesStep

StateSet(r, state, time) == [r EXCEPT !.state = state, !.updated = time]
ErrSet(r, err, time) == [r EXCEPT !.err = err, !.updated = time]
InfoSet(r, rcpt, h, state, tsk, time) ==
    [r EXCEPT !.rcpt = rcpt, !.height = h, !.state = state, !.tsk = tsk, !.updated = time]

(* The updates of a row, in either database. *)
LEMMA StateUpdate ==
    ASSUME NEW r, RowOK(r), NEW state \in MessageState, NEW time \in Nat
    PROVE  /\ RowOK(StateSet(r, state, time)) /\ StateSet(r, state, time).id = r.id
           /\ StateSet(r, state, time).from = r.from /\ StateSet(r, state, time).nonce = r.nonce
  BY DEF RowOK, CidOfRow, MessageRow, StateSet

LEMMA ErrUpdate ==
    ASSUME NEW r, RowOK(r), NEW err \in Nat, NEW time \in Nat
    PROVE  /\ RowOK(ErrSet(r, err, time)) /\ ErrSet(r, err, time).id = r.id
           /\ ErrSet(r, err, time).from = r.from /\ ErrSet(r, err, time).nonce = r.nonce
  BY DEF RowOK, CidOfRow, MessageRow, ErrSet

LEMMA InfoUpdate ==
    ASSUME NEW r, RowOK(r), NEW rcpt \in Nat, NEW h \in Nat, NEW state \in MessageState, NEW tsk \in Seq(SUBSET Nat),
           NEW time \in Nat
    PROVE  LET new(q) == InfoSet(q, rcpt, h, state, tsk, time)
           IN  RowOK(new(r)) /\ new(r).id = r.id /\ new(r).from = r.from /\ new(r).nonce = r.nonce
  BY DEF RowOK, CidOfRow, MessageRow, InfoSet

(* Of the rows M, the sets D and E hold the same. *)
SameRows(D, E, M) == \A s \in M : s \in D <=> s \in E

(* A new state for some rows. *)
LEMMA StatesChanged ==
    ASSUME NEW M, NEW L, MessagesAgree(M, L), NEW D, NEW E, SameRows(D, E, M), NEW state \in MessageState, NEW time \in Nat
    PROVE  MessagesStep(M, L,
                        {IF s \in E THEN StateSet(s, state, time) ELSE s : s \in M},
                        {IF r \in D THEN StateSet(r, state, time) ELSE r : r \in L})
  <1> DEFINE u == [r \in L |-> IF r \in D THEN StateSet(r, state, time) ELSE r]
  <1>1. \A r \in L : RowOK(r)
    BY DEF MessagesAgree
  <1>2. \A r \in L : /\ RowOK(StateSet(r, state, time)) /\ StateSet(r, state, time).id = r.id
                     /\ StateSet(r, state, time).from = r.from /\ StateSet(r, state, time).nonce = r.nonce
    BY <1>1, StateUpdate
  <1>3. \A r \in L : RowOK(u[r]) /\ u[r].id = r.id /\ u[r].from = r.from /\ u[r].nonce = r.nonce
    BY <1>1, <1>2
  <1>4. M \subseteq L
    BY DEF MessagesAgree
  <1>5. {IF s \in E THEN StateSet(s, state, time) ELSE s : s \in M} = {u[s] : s \in M}
    BY <1>4 DEF SameRows
  <1> HIDE DEF u
  <1>6. MessagesStep(M, L, {u[s] : s \in M}, {u[r] : r \in L})
    BY <1>3, MessagesChanged
  <1> QED
    BY <1>5, <1>6 DEF u

(* What the repositories write for a set of rows, each in its own way. *)
LEMMA StateWritten ==
    ASSUME NEW M, NEW L, MessagesAgree(M, L), NEW state \in MessageState, NEW time \in Nat, NEW id, NEW cid
    PROVE  /\ MessagesStep(M, L, My!UpdateMessageStateByID(M, id, state, time), Lite!UpdateMessageStateByID(L, id, state, time))
           /\ MessagesStep(M, L, My!MarkBadMessage(M, id, time), Lite!MarkBadMessage(L, id, time))
           /\ MessagesStep(M, L, My!ExpireMessage(M, {id}, time), Lite!ExpireMessage(L, {id}, time))
           /\ MessagesStep(M, L, My!UpdateMessageStateByCid(M, cid, state, time), Lite!UpdateMessageStateByCid(L, cid, state, time))
  <1>2. \A st : \A E \in SUBSET M : My!SetState(M, E, st, time) = {IF s \in E THEN StateSet(s, st, time) ELSE s : s \in M}
    BY DEF My!SetState, StateSet
  <1> DEFINE D == {r \in L : r.id = id}
             E == {s \in M : s.id = id}
             F == {r \in L : r.ucid = cid}
             G == {s \in M : s.ucid = cid}
  <1>3. SameRows(D, E, M) /\ SameRows(F, G, M)
    BY DEF SameRows, MessagesAgree
  <1>4. /\ Lite!UpdateMessageStateByID(L, id, state, time) = {IF r \in D THEN StateSet(r, state, time) ELSE r : r \in L}
        /\ Lite!MarkBadMessage(L, id, time) = {IF r \in D THEN StateSet(r, "Failed", time) ELSE r : r \in L}
        /\ Lite!ExpireMessage(L, {id}, time) = {IF r \in D THEN StateSet(r, "Failed", time) ELSE r : r \in L}
        /\ Lite!UpdateMessageStateByCid(L, cid, state, time) = {IF r \in F THEN StateSet(r, state, time) ELSE r : r \in L}
    BY DEF Lite!UpdateMessageStateByID, Lite!MarkBadMessage, Lite!ExpireMessage, Lite!UpdateMessageStateByCid,
           Lite!UpdateWhere, Lite!SetState, StateSet
  <1>5. /\ My!UpdateMessageStateByID(M, id, state, time) = My!SetState(M, E, state, time)
        /\ My!MarkBadMessage(M, id, time) = My!SetState(M, E, "Failed", time)
        /\ My!ExpireMessage(M, {id}, time) = My!SetState(M, E, "Failed", time)
        /\ My!UpdateMessageStateByCid(M, cid, state, time) = My!SetState(M, G, state, time)
    BY DEF My!UpdateMessageStateByID, My!MarkBadMessage, My!ExpireMessage, My!UpdateMessageStateByCid
  <1>6. E \in SUBSET M /\ G \in SUBSET M
    OBVIOUS
  <1> HIDE DEF D, E, F, G
  <1>7. /\ My!SetState(M, E, state, time) = {IF s \in E THEN StateSet(s, state, time) ELSE s : s \in M}
        /\ My!SetState(M, E, "Failed", time) = {IF s \in E THEN StateSet(s, "Failed", time) ELSE s : s \in M}
        /\ My!SetState(M, G, state, time) = {IF s \in G THEN StateSet(s, state, time) ELSE s : s \in M}
    BY <1>2, <1>6
  <1>8. "Failed" \in MessageState
    BY DEF MessageState
  <1>9. /\ MessagesStep(M, L, {IF s \in E THEN StateSet(s, state, time) ELSE s : s \in M},
                         {IF r \in D THEN StateSet(r, state, time) ELSE r : r \in L})
        /\ MessagesStep(M, L, {IF s \in E THEN StateSet(s, "Failed", time) ELSE s : s \in M},
                         {IF r \in D THEN StateSet(r, "Failed", time) ELSE r : r \in L})
        /\ MessagesStep(M, L, {IF s \in G THEN StateSet(s, state, time) ELSE s : s \in M},
                         {IF r \in F THEN StateSet(r, state, time) ELSE r : r \in L})
    <2>1. MessagesStep(M, L, {IF s \in E THEN StateSet(s, state, time) ELSE s : s \in M},
                       {IF r \in D THEN StateSet(r, state, time) ELSE r : r \in L})
      BY <1>3, StatesChanged
    <2>2. MessagesStep(M, L, {IF s \in E THEN StateSet(s, "Failed", time) ELSE s : s \in M},
                       {IF r \in D THEN StateSet(r, "Failed", time) ELSE r : r \in L})
      BY <1>3, <1>8, StatesChanged
    <2>3. MessagesStep(M, L, {IF s \in G THEN StateSet(s, state, time) ELSE s : s \in M},
                       {IF r \in F THEN StateSet(r, state, time) ELSE r : r \in L})
      BY <1>3, StatesChanged
    <2> QED
      BY <2>1, <2>2, <2>3
  <1> QED
    BY <1>4, <1>5, <1>7, <1>9

(* The reason of a failed selection. *)
LEMMA ErrWritten ==
    ASSUME NEW M, NEW L, MessagesAgree(M, L), NEW err \in Nat, NEW time \in Nat, NEW id
    PROVE  MessagesStep(M, L, My!UpdateErrMsg(M, id, err, time), Lite!UpdateErrMsg(L, id, err, time))
  <1> DEFINE u == [r \in L |-> IF r.id = id THEN ErrSet(r, err, time) ELSE r]
  <1>1. \A r \in L : RowOK(r)
    BY DEF MessagesAgree
  <1>2. \A r \in L : /\ RowOK(ErrSet(r, err, time)) /\ ErrSet(r, err, time).id = r.id
                     /\ ErrSet(r, err, time).from = r.from /\ ErrSet(r, err, time).nonce = r.nonce
    BY <1>1, ErrUpdate
  <1>3. \A r \in L : RowOK(u[r]) /\ u[r].id = r.id /\ u[r].from = r.from /\ u[r].nonce = r.nonce
    BY <1>1, <1>2
  <1>4. M \subseteq L
    BY DEF MessagesAgree
  <1>6. /\ Lite!UpdateErrMsg(L, id, err, time) = {u[r] : r \in L}
        /\ My!UpdateErrMsg(M, id, err, time) = {u[s] : s \in M}
    BY <1>4 DEF Lite!UpdateErrMsg, Lite!UpdateWhere, My!UpdateErrMsg, My!UpdateWhere, ErrSet
  <1> HIDE DEF u
  <1> QED
    BY <1>3, <1>6, MessagesChanged

(* The receipt of an execution, or none after a revert. *)
LEMMA InfoWritten ==
    ASSUME NEW M, NEW L, MessagesAgree(M, L), NEW rcpt \in Nat, NEW h \in Nat, NEW state \in MessageState,
           NEW tsk \in SUBSET Nat, NEW time \in Nat, NEW cid
    PROVE  MessagesStep(M, L, My!UpdateMessageInfoByCid(M, cid, rcpt, h, state, tsk, time),
                              Lite!UpdateMessageInfoByCid(L, cid, rcpt, h, state, tsk, time))
  <1>a. <<tsk>> \in Seq(SUBSET Nat)
    OBVIOUS
  <1>0. PICK key \in Seq(SUBSET Nat) : key = <<tsk>>
    BY <1>a
  <1> DEFINE new(q) == InfoSet(q, rcpt, h, state, key, time)
             u == [r \in L |-> IF r.ucid = cid THEN new(r) ELSE r]
  <1>1. \A r \in L : RowOK(r)
    BY DEF MessagesAgree
  <1>2. \A r \in L : RowOK(new(r)) /\ new(r).id = r.id /\ new(r).from = r.from /\ new(r).nonce = r.nonce
    BY <1>1, InfoUpdate
  <1>4. M \subseteq L
    BY DEF MessagesAgree
  <1>6. /\ Lite!UpdateMessageInfoByCid(L, cid, rcpt, h, state, tsk, time) = {u[r] : r \in L}
        /\ My!UpdateMessageInfoByCid(M, cid, rcpt, h, state, tsk, time) = {u[s] : s \in M}
    <2>1. My!UpdateMessageInfoByCid(M, cid, rcpt, h, state, tsk, time) = {u[s] : s \in M}
      BY <1>0, <1>4 DEF My!UpdateMessageInfoByCid, My!UpdateWhere, InfoSet
    <2>2. \A r \in L : [Lite!SetState(r, state, time) EXCEPT !.rcpt = rcpt, !.height = h, !.tsk = <<tsk>>] = new(r)
      BY <1>0, <1>1 DEF Lite!SetState, InfoSet, RowOK, MessageRow
    <2>3. Lite!UpdateMessageInfoByCid(L, cid, rcpt, h, state, tsk, time) = {u[r] : r \in L}
      BY ZenonT(60), <2>2 DEF Lite!UpdateMessageInfoByCid, Lite!UpdateWhere
    <2> QED
      BY <2>1, <2>3
  <1> HIDE DEF new
  <1>3. \A r \in L : RowOK(u[r]) /\ u[r].id = r.id /\ u[r].from = r.from /\ u[r].nonce = r.nonce
    BY <1>1, <1>2
  <1> HIDE DEF u
  <1>7. MessagesStep(M, L, {u[s] : s \in M}, {u[r] : r \in L})
    BY <1>3, MessagesChanged
  <1> QED
    BY <1>6, <1>7

(* Update of one row for each of some ids. *)
LEMMA EachWritten ==
    ASSUME NEW M, NEW L, MessagesAgree(M, L), NEW ids, NEW jds, NEW time \in Nat,
           \A r \in L : Holds(r) => (r.id \in ids <=> r.id \in jds)
    PROVE  /\ MessagesStep(M, L, Each(LAMBDA T, id : My!UpdateMessageStateByID(T, id, "Fill", time), M, jds),
                                 Each(LAMBDA T, id : Lite!UpdateMessageStateByID(T, id, "Fill", time), L, ids))
           /\ MessagesStep(M, L, Each(LAMBDA T, id : My!MarkBadMessage(T, id, time), M, jds),
                                 Each(LAMBDA T, id : Lite!MarkBadMessage(T, id, time), L, ids))
  <1> DEFINE D == {r \in L : r.id \in ids}
             E == {s \in M : s.id \in jds}
             changed(T, P, st) == {IF r \in P THEN StateSet(r, st, time) ELSE r : r \in T}
  <1>0. \A r \in L : RowOK(r)
    BY DEF MessagesAgree
  <1>1. SameRows(D, E, M)
    BY DEF SameRows, MessagesAgree
  <1>2. /\ \A st : \A r \in L : StateSet(r, st, time).id = r.id
        /\ \A st : \A s \in M : StateSet(s, st, time).id = s.id
    BY <1>0 DEF StateSet, RowOK, MessageRow, MessagesAgree
  <1>3. ASSUME NEW T, NEW js, NEW st, \A r \in T : StateSet(r, st, time).id = r.id
        PROVE  {r \in T : r.id \notin js}
                 \cup UNION {{r \in {IF q.id = id THEN StateSet(q, st, time) ELSE q : q \in T} : r.id = id} : id \in js}
               = changed(T, {r \in T : r.id \in js}, st)
    <2> DEFINE X == {r \in T : r.id \notin js}
                      \cup UNION {{r \in {IF q.id = id THEN StateSet(q, st, time) ELSE q : q \in T} : r.id = id} : id \in js}
               Y == changed(T, {r \in T : r.id \in js}, st)
    <2>1. ASSUME NEW x \in X PROVE x \in Y
      BY <2>1, <1>3
    <2>2. ASSUME NEW q \in T PROVE (IF q.id \in js THEN StateSet(q, st, time) ELSE q) \in X
      BY <2>2, <1>3
    <2> QED
      BY <2>1, <2>2
  <1>4. /\ \A id, st : Lite!UpdateMessageStateByID(L, id, st, time) = {IF q.id = id THEN StateSet(q, st, time) ELSE q : q \in L}
        /\ \A id : Lite!MarkBadMessage(L, id, time) = {IF q.id = id THEN StateSet(q, "Failed", time) ELSE q : q \in L}
    BY DEF Lite!UpdateMessageStateByID, Lite!MarkBadMessage, Lite!UpdateWhere, Lite!SetState, StateSet
  <1>5. /\ \A id, st : My!UpdateMessageStateByID(M, id, st, time) = {IF q.id = id THEN StateSet(q, st, time) ELSE q : q \in M}
        /\ \A id : My!MarkBadMessage(M, id, time) = {IF q.id = id THEN StateSet(q, "Failed", time) ELSE q : q \in M}
    BY DEF My!UpdateMessageStateByID, My!MarkBadMessage, My!SetState, StateSet
  <1>6. /\ Each(LAMBDA T, id : Lite!UpdateMessageStateByID(T, id, "Fill", time), L, ids) = changed(L, D, "Fill")
        /\ Each(LAMBDA T, id : Lite!MarkBadMessage(T, id, time), L, ids) = changed(L, D, "Failed")
    BY <1>2, <1>3, <1>4 DEF Each
  <1>7. /\ Each(LAMBDA T, id : My!UpdateMessageStateByID(T, id, "Fill", time), M, jds) = changed(M, E, "Fill")
        /\ Each(LAMBDA T, id : My!MarkBadMessage(T, id, time), M, jds) = changed(M, E, "Failed")
    BY <1>2, <1>3, <1>5 DEF Each
  <1>8. "Fill" \in MessageState /\ "Failed" \in MessageState
    BY DEF MessageState
  <1> HIDE DEF D, E
  <1>9. /\ MessagesStep(M, L, changed(M, E, "Fill"), changed(L, D, "Fill"))
        /\ MessagesStep(M, L, changed(M, E, "Failed"), changed(L, D, "Failed"))
    <2>1. MessagesStep(M, L, changed(M, E, "Fill"), changed(L, D, "Fill"))
      BY <1>1, <1>8, StatesChanged
    <2>2. MessagesStep(M, L, changed(M, E, "Failed"), changed(L, D, "Failed"))
      BY <1>1, <1>8, StatesChanged
    <2> QED
      BY <2>1, <2>2
  <1> HIDE DEF changed
  <1> QED
    BY <1>6, <1>7, <1>9 DEF Each

(* Both copies write the columns of a message alike. *)
LEMMA SameColumns ==
    ASSUME NEW m
    PROVE  My!fromMessage(m) = Lite!fromMessage(m) /\ (My!Fits(m) <=> InRange(Lite!Value(m.method)))
  <1>1. /\ My!AsInt(m.method) = Lite!Value(m.method)
        /\ My!CidString(m.ucid) = Lite!CidString(m.ucid) /\ My!CidString(m.scid) = Lite!CidString(m.scid)
        /\ My!SafeFromGo(m.cap) = Lite!SafeFromGo(m.cap)
    BY Zenon DEF My!AsInt, Lite!Value, My!CidString, Lite!CidString, My!SafeFromGo, Lite!SafeFromGo
  <1>2. My!fromMessage(m) = Lite!fromMessage(m)
    BY Zenon, <1>1 DEF My!fromMessage, Lite!fromMessage
  <1> QED
    BY <1>1, <1>2 DEF My!Fits, InRange

(* A new message. *)
LEMMA MessageCreated ==
    ASSUME NEW M, NEW L, MessagesAgree(M, L), NEW id \in MsgId, NEW from \in Addr, NEW time \in Nat
    PROVE  MessagesStep(M, L, My!CreateMessage(M, NewMessage(id, from), time),
                              Lite!CreateMessage(L, NewMessage(id, from), time))
  <1> DEFINE row == [Lite!fromMessage(NewMessage(id, from)) EXCEPT !.created = time, !.updated = time]
             old == \E r \in L : r.id = id
             new == L \cup {row}
  <1>1. \A r \in L : RowOK(r)
    BY DEF MessagesAgree
  <1>2. row.id = id /\ row.from = from /\ row.nonce = 0 /\ RowOK(row)
    <2>1. Lite!SafeFromGo(<<>>) = 0
      BY Zenon DEF Lite!SafeFromGo
    <2>2. PICK nil : nil = <<>>
      OBVIOUS
    <2>3. PICK none : none = {}
      OBVIOUS
    <2>4. PICK new1 : new1 = NewMessage(id, from)
      OBVIOUS
    <2>5. new1 = [id |-> id, from |-> from, nonce |-> 0, method |-> MethodOf[id], ucid |-> nil, scid |-> nil, sig |-> FALSE,
                  cap |-> nil, height |-> 0, rcpt |-> 0, tsk |-> none, state |-> "UnFill", err |-> 0, created |-> 0,
                  updated |-> 0]
      BY <2>2, <2>3, <2>4 DEF NewMessage
    <2>6. Lite!CidString(nil) = nil
      BY Zenon, <2>2 DEF Lite!CidString
    <2>7. PICK d : d = Lite!Value(MethodOf[id])
      OBVIOUS
    <2>8. Lite!fromMessage(new1) = [new1 EXCEPT !.method = d, !.ucid = nil, !.scid = nil, !.cap = 0, !.tsk = nil]
      BY <2>1, <2>2, <2>3, <2>5, <2>6, <2>7 DEF Lite!fromMessage
    <2>9. row = [new1 EXCEPT !.method = d, !.ucid = nil, !.scid = nil, !.cap = 0, !.tsk = nil,
                             !.created = time, !.updated = time]
      BY <2>4, <2>5, <2>8
    <2>10. d \in Int /\ nil \in Seq(SUBSET Nat) /\ nil \in Cids /\ nil \in SignedCids
      <3>1. MethodOf[id] \in 0..(2 ^ Width - 1)
        BY MessagesAssumption
      <3> QED
        BY <2>2, <2>7, <3>1, ScanOfValue DEF Cids, SignedCids
    <2> HIDE DEF row
    <2>11. PICK r : r = row
      OBVIOUS
    <2>12. /\ r.id = id /\ r.from = from /\ r.nonce = 0 /\ r.method = d /\ r.ucid = nil /\ r.scid = nil
           /\ r.sig = FALSE /\ r \in MessageRow
      BY <2>5, <2>9, <2>10, <2>11 DEF MessageRow, MessageState
    <2>13. RowOK(r)
      BY <2>2, <2>7, <2>12 DEF RowOK
    <2> QED
      BY <2>11, <2>12, <2>13
  <1>4. Lite!CreateMessage(L, NewMessage(id, from), time) = IF old THEN L ELSE new
    BY <1>2 DEF Lite!CreateMessage, Lite!Create
  <1>5. My!CreateMessage(M, NewMessage(id, from), time)
          = IF Holds(row) /\ ~\E s \in M : s.id = id THEN M \cup {row} ELSE M
    <2>1. NewMessage(id, from).method = MethodOf[id]
      BY DEF NewMessage
    <2>2. My!fromMessage(NewMessage(id, from)) = Lite!fromMessage(NewMessage(id, from))
      BY SameColumns
    <2>3. My!Fits(NewMessage(id, from)) <=> Holds(row)
      BY <1>2, <2>1, SameColumns DEF Holds
    <2> HIDE DEF row
    <2>4. [My!fromMessage(NewMessage(id, from)) EXCEPT !.created = time, !.updated = time] = row
      BY <2>2 DEF row
    <2> QED
      BY <1>2, <2>3, <2>4 DEF My!CreateMessage, My!Create
  <1> HIDE DEF row
  <1>6. Holds(row) => (old <=> \E s \in M : s.id = id)
    BY <1>2 DEF MessagesAgree, Holds
  <1>7. CASE old
    BY <1>4, <1>5, <1>6, <1>7 DEF MessagesStep
  <1>8. CASE ~old
    <2>1. IsFiniteSet(new)
      BY FS_AddElement DEF MessagesAgree
    <2>2. \A r \in new : RowOK(r) /\ \A q \in new : q.id = r.id => q = r
      BY <1>2, <1>8 DEF MessagesAgree
    <2>3. (IF Holds(row) /\ ~\E s \in M : s.id = id THEN M \cup {row} ELSE M) = {r \in new : Holds(r)}
      BY <1>2, <1>6, <1>8 DEF MessagesAgree
    <2>4. ASSUME NEW A, NoncesFollow(L, A) PROVE NoncesFollow(new, A)
      BY <2>4, <1>2 DEF NoncesFollow
    <2> QED
      BY <1>4, <1>5, <1>8, <2>1, <2>2, <2>3, <2>4 DEF MessagesStep, MessagesAgree
  <1> QED
    BY <1>7, <1>8

(* The column of a tipset key that was read and is written again: the printed empty key is not. *)
KeyColumn(tsk) == IF tsk = <<>> \/ tsk[1] = {} THEN <<>> ELSE <<tsk[1]>>

LEMMA KeyRead ==
    ASSUME NEW tsk \in Seq(SUBSET Nat)
    PROVE  /\ KeyColumn(tsk) \in Seq(SUBSET Nat)
           /\ LET k == IF tsk = <<>> THEN {} ELSE tsk[1] IN
              /\ (IF k = {} THEN <<>> ELSE <<k>>) = KeyColumn(tsk)
              /\ My!StringToTipsetKey(tsk) = k
  <1>1. tsk # <<>> => tsk[1] \in SUBSET Nat
    OBVIOUS
  <1>2. tsk # <<>> => <<tsk[1]>> \in Seq(SUBSET Nat)
    BY <1>1
  <1>3. <<>> \in Seq(SUBSET Nat)
    OBVIOUS
  <1>4. KeyColumn(tsk) \in Seq(SUBSET Nat)
    BY Zenon, <1>2, <1>3 DEF KeyColumn
  <1>5. ASSUME tsk = <<{}>> PROVE tsk # <<>> /\ tsk[1] = {}
    BY <1>5
  <1>6. My!StringToTipsetKey(tsk) = IF tsk = <<>> THEN {} ELSE tsk[1]
    BY Zenon, <1>5 DEF My!StringToTipsetKey
  <1>7. LET k == IF tsk = <<>> THEN {} ELSE tsk[1] IN (IF k = {} THEN <<>> ELSE <<k>>) = KeyColumn(tsk)
    BY Zenon DEF KeyColumn
  <1> QED
    BY <1>4, <1>6, <1>7

(* And both copies read a row alike. *)
LEMMA SameMessage ==
    ASSUME NEW r, RowOK(r)
    PROVE  My!Message(r) = Lite!Message(r)
  <1>1. PICK d, x, y, c, k : /\ d = Lite!Scan(r.method) /\ x = Lite!CidOf(r.ucid) /\ y = Lite!CidOf(r.scid)
                             /\ c = <<r.cap>> /\ k = IF r.tsk = <<>> THEN {} ELSE r.tsk[1]
    OBVIOUS
  <1>2. /\ r.method % (2 ^ Width) = d /\ My!CidOf(r.ucid) = x /\ My!CidOf(r.scid) = y /\ Lite!NewFromGo(r.cap) = c
    BY Zenon, <1>1 DEF Lite!Scan, My!CidOf, Lite!CidOf, Lite!NewFromGo
  <1>3. My!StringToTipsetKey(r.tsk) = k
    BY <1>1, KeyRead DEF RowOK, MessageRow
  <1>4. My!Message(r) = [r EXCEPT !.method = d, !.ucid = x, !.scid = y, !.cap = c, !.tsk = k]
    BY Zenon, <1>1, <1>2, <1>3 DEF My!Message
  <1>5. Lite!Message(r) = [r EXCEPT !.method = d, !.ucid = x, !.scid = y, !.cap = c, !.tsk = k]
    BY Zenon, <1>1, <1>2 DEF Lite!Message
  <1> QED
    BY <1>4, <1>5

(* The columns a signature writes, and those of the state. *)
CidSet(r, n, cap, x) == [r EXCEPT !.nonce = n, !.cap = cap, !.ucid = x, !.scid = SignedCid(x), !.sig = TRUE]
FillSet(r, k, time) == [r EXCEPT !.state = "Fill", !.err = 0, !.tsk = k, !.updated = time]

LEMMA CidUpdate ==
    ASSUME NEW r, RowOK(r), NEW n \in Nat, NEW cap \in Nat, NEW x, CidOfRow(x, r, n)
    PROVE  /\ RowOK(CidSet(r, n, cap, x)) /\ CidSet(r, n, cap, x).id = r.id /\ CidSet(r, n, cap, x).from = r.from
           /\ CidSet(r, n, cap, x).nonce = n /\ CidSet(r, n, cap, x).tsk = r.tsk
  <1>1. r.id \in MsgId /\ r.from \in Addr
    BY DEF RowOK, MessageRow
  <1>2. x \in Cids
    BY <1>1 DEF CidOfRow, Cids
  <1>3. PICK y : y = SignedCid(x) /\ y \in SignedCids
    BY <1>2 DEF SignedCids
  <1>4. PICK t : t = CidSet(r, n, cap, x)
    OBVIOUS
  <1>5. t = [r EXCEPT !.nonce = n, !.cap = cap, !.ucid = x, !.scid = y, !.sig = TRUE]
    BY <1>3, <1>4 DEF CidSet
  <1>6. /\ t \in MessageRow /\ t.id = r.id /\ t.from = r.from /\ t.nonce = n /\ t.tsk = r.tsk /\ t.method = r.method
        /\ t.ucid = x /\ t.scid = y /\ t.sig = TRUE
    BY ZenonT(60), <1>2, <1>3, <1>5 DEF RowOK, MessageRow
  <1>7. RowOK(t)
    BY <1>3, <1>6 DEF RowOK, CidOfRow
  <1> QED
    BY <1>4, <1>6, <1>7

LEMMA FillUpdate ==
    ASSUME NEW r, RowOK(r), NEW k \in Seq(SUBSET Nat), NEW time \in Nat
    PROVE  /\ RowOK(FillSet(r, k, time)) /\ FillSet(r, k, time).id = r.id /\ FillSet(r, k, time).from = r.from
           /\ FillSet(r, k, time).nonce = r.nonce
  BY DEF RowOK, CidOfRow, MessageRow, MessageState, FillSet

(* The row of a message signed under a nonce. *)
CidUnder(r, n, cap) == UnsignedCid(r.from, MethodOf[r.id], n, cap)
SignedRow(r, n, time) == FillSet(CidSet(r, n, 1, CidUnder(r, n, 1)), KeyColumn(r.tsk), time)

LEMMA RowSigned ==
    ASSUME NEW r, RowOK(r), NEW n \in Nat, NEW time \in Nat
    PROVE  /\ SignedRow(r, n, time).id = r.id /\ SignedRow(r, n, time).from = r.from /\ SignedRow(r, n, time).nonce = n
           /\ RowOK(SignedRow(r, n, time))
  <1>1. PICK x : x = CidUnder(r, n, 1) /\ CidOfRow(x, r, n)
    BY DEF CidUnder, CidOfRow
  <1>2. PICK k \in Seq(SUBSET Nat) : k = KeyColumn(r.tsk)
    BY KeyRead DEF RowOK, MessageRow
  <1>3. PICK one \in Nat : one = 1
    OBVIOUS
  <1>4. PICK t : t = CidSet(r, n, one, x)
    OBVIOUS
  <1>5. RowOK(t) /\ t.id = r.id /\ t.from = r.from /\ t.nonce = n /\ t.tsk = r.tsk
    BY <1>1, <1>4, CidUpdate
  <1>6. SignedRow(r, n, time) = FillSet(t, k, time)
    BY <1>1, <1>2, <1>3, <1>4 DEF SignedRow
  <1>7. /\ RowOK(FillSet(t, k, time)) /\ FillSet(t, k, time).id = t.id /\ FillSet(t, k, time).from = t.from
        /\ FillSet(t, k, time).nonce = t.nonce
    BY <1>5, FillUpdate
  <1> QED
    BY <1>5, <1>6, <1>7

LEMMA SignedInSqlite ==
    ASSUME NEW r, RowOK(r), NEW n \in Nat, NEW time \in Nat
    PROVE  /\ [Lite!fromMessage(ToSignedMsg(Lite!Message(r), n, 1)) EXCEPT !.updated = time] = SignedRow(r, n, time)
           /\ ToSignedMsg(Lite!Message(r), n, 1).method = MethodOf[r.id]
  <1>1. PICK d : d = Lite!Scan(r.method)
    OBVIOUS
  <1>2. d = MethodOf[r.id] /\ Lite!Value(d) = r.method
    BY <1>1, MethodStored DEF RowOK
  <1>3. PICK K : K = IF r.tsk = <<>> THEN {} ELSE r.tsk[1]
    OBVIOUS
  <1>4. (IF K = {} THEN <<>> ELSE <<K>>) = KeyColumn(r.tsk)
    BY <1>3, KeyRead DEF RowOK, MessageRow
  <1>5. PICK x, y : x = CidUnder(r, n, 1) /\ y = SignedCid(x)
    OBVIOUS
  <1>6. PICK X, Y, Z : X = <<x>> /\ Y = <<y>> /\ Z = <<1>>
    OBVIOUS
  <1>7. Lite!CidString(X) = x /\ Lite!CidString(Y) = y /\ Lite!SafeFromGo(Z) = 1
    BY <1>6 DEF Lite!SafeFromGo, Lite!CidString
  <1>8. PICK U, S, C : Lite!Message(r) = [r EXCEPT !.method = d, !.ucid = U, !.scid = S, !.cap = C, !.tsk = K]
    BY <1>1, <1>3 DEF Lite!Message
  <1>9. PICK m : m = Lite!Message(r)
    OBVIOUS
  <1>10. m.id = r.id /\ m.from = r.from /\ m.method = d
    BY <1>8, <1>9 DEF RowOK, MessageRow
  <1>11. PICK new : new = ToSignedMsg(m, n, 1)
    OBVIOUS
  <1>12. new = [m EXCEPT !.nonce = n, !.cap = Z, !.ucid = X, !.scid = Y, !.sig = TRUE, !.state = "Fill", !.err = 0]
    BY Zenon, <1>2, <1>5, <1>6, <1>10, <1>11 DEF ToSignedMsg, CidUnder
  <1>13. /\ new = [r EXCEPT !.method = d, !.nonce = n, !.cap = Z, !.ucid = X, !.scid = Y, !.sig = TRUE, !.state = "Fill",
                            !.err = 0, !.tsk = K]
    BY <1>8, <1>9, <1>12 DEF RowOK, MessageRow
  <1>14. new.method = d /\ new.cap = Z /\ new.ucid = X /\ new.scid = Y /\ new.tsk = K
    BY <1>13 DEF RowOK, MessageRow
  <1>15. Lite!fromMessage(new) = [new EXCEPT !.method = r.method, !.ucid = x, !.scid = y, !.cap = 1, !.tsk = KeyColumn(r.tsk)]
    BY <1>2, <1>4, <1>7, <1>14 DEF Lite!fromMessage
  <1>16. [Lite!fromMessage(new) EXCEPT !.updated = time]
           = [r EXCEPT !.nonce = n, !.cap = 1, !.ucid = x, !.scid = y, !.sig = TRUE, !.state = "Fill", !.err = 0,
                       !.tsk = KeyColumn(r.tsk), !.updated = time]
    <2>1. Lite!fromMessage(new)
            = [r EXCEPT !.method = r.method, !.nonce = n, !.cap = 1, !.ucid = x, !.scid = y, !.sig = TRUE, !.state = "Fill",
                        !.err = 0, !.tsk = KeyColumn(r.tsk)]
      BY ZenonT(60), <1>13, <1>15 DEF RowOK, MessageRow
    <2> QED
      BY ZenonT(60), <2>1 DEF RowOK, MessageRow
  <1>17. SignedRow(r, n, time) = FillSet([r EXCEPT !.nonce = n, !.cap = 1, !.ucid = x, !.scid = y, !.sig = TRUE], KeyColumn(r.tsk), time)
    BY <1>5 DEF SignedRow, CidSet
  <1>18. [Lite!fromMessage(new) EXCEPT !.updated = time] = SignedRow(r, n, time)
    BY <1>16, <1>17 DEF FillSet, RowOK, MessageRow
  <1> QED
    BY <1>2, <1>9, <1>11, <1>14, <1>18

(* A selected message is saved whole. *)
LEMMA MessageSigned ==
    ASSUME NEW M, NEW L, MessagesAgree(M, L), NEW c \in L, Holds(c), NEW n \in Nat, NEW time \in Nat
    PROVE  /\ MessagesAgree(My!UpdateMessage(M, ToSignedMsg(My!Message(c), n, 1), time),
                            Lite!UpdateMessage(L, ToSignedMsg(Lite!Message(c), n, 1), time))
           /\ Lite!UpdateMessage(L, ToSignedMsg(Lite!Message(c), n, 1), time)
                = {IF r = c THEN SignedRow(r, n, time) ELSE r : r \in L}
  <1> DEFINE u == [r \in L |-> IF r = c THEN SignedRow(r, n, time) ELSE r]
             new == ToSignedMsg(Lite!Message(c), n, 1)
  <1>1. \A r \in L : RowOK(r) /\ \A q \in L : q.id = r.id => q = r
    BY DEF MessagesAgree
  <1>2. \A r \in L : RowOK(SignedRow(r, n, time)) /\ SignedRow(r, n, time).id = r.id
    BY <1>1, RowSigned
  <1>3. \A r \in L : RowOK(u[r]) /\ u[r].id = r.id
    BY <1>1, <1>2
  <1>4. M \subseteq L /\ c \in M
    BY DEF MessagesAgree
  <1>5. My!Message(c) = Lite!Message(c)
    BY <1>1, SameMessage
  <1>6. [Lite!fromMessage(new) EXCEPT !.updated = time] = SignedRow(c, n, time) /\ new.method = MethodOf[c.id]
    BY <1>1, SignedInSqlite
  <1> HIDE DEF new
  <1>7. My!fromMessage(new) = Lite!fromMessage(new) /\ My!Fits(new)
    BY <1>6, SameColumns DEF Holds
  <1>9. Lite!UpdateMessage(L, new, time) = {u[r] : r \in L}
    <2>1. Lite!UpdateMessage(L, new, time) = {r \in L : r.id # SignedRow(c, n, time).id} \cup {SignedRow(c, n, time)}
      BY <1>6 DEF Lite!UpdateMessage, Lite!Save
    <2>2. \A r \in L : r.id # SignedRow(c, n, time).id <=> r # c
      BY <1>1, <1>2
    <2> QED
      BY <2>1, <2>2
  <1>10. My!UpdateMessage(M, new, time) = {u[s] : s \in M}
    <2>1. My!UpdateMessage(M, new, time) = {s \in M : s.id # SignedRow(c, n, time).id} \cup {SignedRow(c, n, time)}
      BY <1>6, <1>7 DEF My!UpdateMessage, My!Save
    <2>2. \A r \in M : r.id # SignedRow(c, n, time).id <=> r # c
      BY <1>1, <1>2, <1>4
    <2> QED
      BY <1>4, <2>1, <2>2
  <1> HIDE DEF u
  <1>11. MessagesAgree({u[s] : s \in M}, {u[r] : r \in L})
    BY <1>3, RowsChanged
  <1>12. {u[r] : r \in L} = {IF r = c THEN SignedRow(r, n, time) ELSE r : r \in L}
    BY DEF u
  <1> QED
    BY <1>5, <1>9, <1>10, <1>11, <1>12 DEF new

(* What ReplaceMessage writes to a row that is still filled: the receipt, the height and the reason
   of an error are not among the columns that are not zero, and the nonce is its own. *)
Resigned(r, k, time) == [CidSet(r, r.nonce, 2, CidUnder(r, r.nonce, 2)) EXCEPT !.state = "Fill", !.tsk = k, !.updated = time]
KeptKey(tsk) == IF KeyColumn(tsk) = <<>> THEN tsk ELSE KeyColumn(tsk)

LEMMA RowResigned ==
    ASSUME NEW r, RowOK(r), NEW k \in Seq(SUBSET Nat), NEW time \in Nat
    PROVE  /\ Resigned(r, k, time).id = r.id /\ Resigned(r, k, time).from = r.from /\ Resigned(r, k, time).nonce = r.nonce
           /\ RowOK(Resigned(r, k, time))
  <1>1. PICK x : x = CidUnder(r, r.nonce, 2) /\ CidOfRow(x, r, r.nonce)
    BY DEF CidUnder, CidOfRow
  <1>2. r.nonce \in Nat
    BY DEF RowOK, MessageRow
  <1>3. PICK two \in Nat : two = 2
    OBVIOUS
  <1>4. PICK t : t = CidSet(r, r.nonce, two, x)
    OBVIOUS
  <1>5. RowOK(t) /\ t.id = r.id /\ t.from = r.from /\ t.nonce = r.nonce
    BY <1>1, <1>2, <1>4, CidUpdate
  <1>8. Resigned(r, k, time) = [t EXCEPT !.state = "Fill", !.tsk = k, !.updated = time]
    BY <1>1, <1>3, <1>4 DEF Resigned
  <1>10. PICK w : w = Resigned(r, k, time)
    OBVIOUS
  <1>11. RowOK(w) /\ w.id = t.id /\ w.from = t.from /\ w.nonce = t.nonce
    BY ZenonT(60), <1>5, <1>8, <1>10 DEF RowOK, CidOfRow, MessageRow, MessageState
  <1> QED
    BY <1>5, <1>10, <1>11

(* The columns of a message that is signed again, before they are written. *)
LEMMA ResignedColumns ==
    ASSUME NEW q, RowOK(q)
    PROVE  /\ LET new == Lite!fromMessage(ToSignedMsg(Lite!Message(q), Lite!Message(q).nonce, 2))
              IN  /\ new.nonce = q.nonce /\ new.ucid = CidUnder(q, q.nonce, 2)
                  /\ new.scid = SignedCid(CidUnder(q, q.nonce, 2))
                  /\ new.sig = TRUE /\ new.cap = 2 /\ new.state = "Fill" /\ new.height = q.height /\ new.rcpt = q.rcpt
                  /\ new.tsk = KeyColumn(q.tsk) /\ new.err = 0
           /\ ToSignedMsg(Lite!Message(q), Lite!Message(q).nonce, 2).id = q.id
  <1>1. PICK K : K = IF q.tsk = <<>> THEN {} ELSE q.tsk[1]
    OBVIOUS
  <1>2. (IF K = {} THEN <<>> ELSE <<K>>) = KeyColumn(q.tsk)
    BY <1>1, KeyRead DEF RowOK, MessageRow
  <1>3. PICK x, y : x = CidUnder(q, q.nonce, 2) /\ y = SignedCid(x)
    OBVIOUS
  <1>4. PICK X, Y, Z : X = <<x>> /\ Y = <<y>> /\ Z = <<2>>
    OBVIOUS
  <1>5. Lite!CidString(X) = x /\ Lite!CidString(Y) = y /\ Lite!SafeFromGo(Z) = 2
    BY <1>4 DEF Lite!CidString, Lite!SafeFromGo
  <1>a. PICK d : d = Lite!Scan(q.method)
    OBVIOUS
  <1>b. d = MethodOf[q.id]
    BY <1>a, MethodStored
  <1>6. PICK U, S, C : Lite!Message(q) = [q EXCEPT !.method = d, !.ucid = U, !.scid = S, !.cap = C, !.tsk = K]
    BY <1>1, <1>a DEF Lite!Message
  <1>7. PICK m : m = Lite!Message(q)
    OBVIOUS
  <1>8. m.id = q.id /\ m.nonce = q.nonce /\ m.from = q.from /\ m.method = d
    BY <1>6, <1>7 DEF RowOK, MessageRow
  <1>9. PICK new : new = ToSignedMsg(m, m.nonce, 2)
    OBVIOUS
  <1>10. new = [m EXCEPT !.nonce = q.nonce, !.cap = Z, !.ucid = X, !.scid = Y, !.sig = TRUE, !.state = "Fill", !.err = 0]
    BY Zenon, <1>b, <1>3, <1>4, <1>8, <1>9 DEF ToSignedMsg, CidUnder
  <1>11. /\ new.id = q.id /\ new.nonce = q.nonce /\ new.cap = Z /\ new.ucid = X /\ new.scid = Y /\ new.sig = TRUE
         /\ new.state = "Fill" /\ new.err = 0 /\ new.tsk = K /\ new.height = q.height /\ new.rcpt = q.rcpt
         /\ DOMAIN new = DOMAIN q
    BY <1>6, <1>7, <1>10 DEF RowOK, MessageRow
  <1>12. PICK e : Lite!fromMessage(new)
                    = [new EXCEPT !.method = e, !.ucid = x, !.scid = y, !.cap = 2, !.tsk = KeyColumn(q.tsk)]
    BY <1>2, <1>5, <1>11 DEF Lite!fromMessage
  <1>13. LET f == Lite!fromMessage(new)
         IN  /\ f.nonce = q.nonce /\ f.ucid = x /\ f.scid = y
             /\ f.sig = TRUE /\ f.cap = 2 /\ f.state = "Fill" /\ f.height = q.height /\ f.rcpt = q.rcpt
             /\ f.tsk = KeyColumn(q.tsk) /\ f.err = 0
    BY <1>11, <1>12 DEF RowOK, MessageRow
  <1> QED
    BY <1>3, <1>7, <1>9, <1>11, <1>13

(* Updates with the columns of new that are not zero. *)
Columns(r, n, x, y, t, cap, state, h, p, k, e, time) ==
    [r EXCEPT !.nonce = n, !.ucid = x, !.scid = y, !.sig = t, !.cap = cap, !.state = state, !.height = h, !.rcpt = p,
              !.tsk = k, !.err = e, !.updated = time]
Updated(r, new, time) ==
    Columns(r, IF new.nonce = 0 THEN r.nonce ELSE new.nonce, IF new.ucid = <<>> THEN r.ucid ELSE new.ucid,
            IF new.scid = <<>> THEN r.scid ELSE new.scid, new.sig \/ r.sig, new.cap, new.state,
            IF new.height = 0 THEN r.height ELSE new.height, IF new.rcpt = 0 THEN r.rcpt ELSE new.rcpt,
            IF new.tsk = <<>> THEN r.tsk ELSE new.tsk, IF new.err = 0 THEN r.err ELSE new.err, time)

ResignedColumn(r, x, y, t, two, fill, k, time) ==
    [[r EXCEPT !.nonce = r.nonce, !.cap = two, !.ucid = x, !.scid = y, !.sig = t]
       EXCEPT !.state = fill, !.tsk = k, !.updated = time]

LEMMA ColumnsResigned ==
    ASSUME NEW r \in MessageRow, NEW x, NEW y, NEW t, NEW two, NEW fill, NEW k, NEW time
    PROVE  Columns(r, r.nonce, x, y, t, two, fill, r.height, r.rcpt, k, r.err, time)
             = ResignedColumn(r, x, y, t, two, fill, k, time)
  BY DEF MessageRow, Columns, ResignedColumn

LEMMA UpdatesResign ==
    ASSUME NEW r \in MessageRow, NEW new,
           new.nonce = r.nonce, new.ucid = CidUnder(r, r.nonce, 2), new.scid = SignedCid(CidUnder(r, r.nonce, 2)),
           new.sig = TRUE, new.cap = 2, new.state = "Fill", new.height = r.height, new.rcpt = r.rcpt,
           new.tsk = KeyColumn(r.tsk), new.err = 0, NEW time \in Nat
    PROVE  Updated(r, new, time) = Resigned(r, KeptKey(r.tsk), time)
  <1>1. PICK x : x = CidUnder(r, r.nonce, 2) /\ x # <<>>
    BY CidsTell DEF CidUnder
  <1>2. PICK y : y = SignedCid(x) /\ y # <<>>
    BY SignedCidsTell
  <1>3. PICK k : k = KeptKey(r.tsk)
    OBVIOUS
  <1>4. PICK t, two, fill : t = TRUE /\ two = 2 /\ fill = "Fill"
    OBVIOUS
  <1>5. (IF new.tsk = <<>> THEN r.tsk ELSE new.tsk) = k
    BY Zenon, <1>3 DEF KeptKey
  <1>6. (new.sig \/ r.sig) = t
    BY <1>4 DEF MessageRow
  <1>7. Resigned(r, k, time) = ResignedColumn(r, x, y, t, two, fill, k, time)
    BY Zenon, <1>1, <1>2, <1>4 DEF Resigned, CidSet, ResignedColumn
  <1>8. /\ (IF new.nonce = 0 THEN r.nonce ELSE new.nonce) = r.nonce
        /\ (IF new.height = 0 THEN r.height ELSE new.height) = r.height
        /\ (IF new.rcpt = 0 THEN r.rcpt ELSE new.rcpt) = r.rcpt /\ (IF new.err = 0 THEN r.err ELSE new.err) = r.err
        /\ new.cap = two /\ new.state = fill
    BY <1>4
  <1>a. (IF new.ucid = <<>> THEN r.ucid ELSE new.ucid) = x /\ (IF new.scid = <<>> THEN r.scid ELSE new.scid) = y
    BY Zenon, <1>1, <1>2
  <1>9. Updated(r, new, time) = Columns(r, r.nonce, x, y, t, two, fill, r.height, r.rcpt, k, r.err, time)
    BY ZenonT(60), <1>5, <1>6, <1>8, <1>a DEF Updated
  <1>10. Columns(r, r.nonce, x, y, t, two, fill, r.height, r.rcpt, k, r.err, time)
           = ResignedColumn(r, x, y, t, two, fill, k, time)
    BY ZenonT(60), ColumnsResigned
  <1> QED
    BY <1>3, <1>7, <1>9, <1>10

(* A replaced message: only a row in Fill changes. *)
LEMMA MessageReplaced ==
    ASSUME NEW M, NEW L, MessagesAgree(M, L), NEW c \in L, Holds(c), NEW time \in Nat
    PROVE  LET m == My!Message(c)
               k == Lite!Message(c)
           IN  MessagesStep(M, L, My!UpdateMessageByState(M, ToSignedMsg(m, m.nonce, 2), "Fill", time),
                                  Lite!UpdateMessageByState(L, ToSignedMsg(k, k.nonce, 2), "Fill", time))
  <1> DEFINE new == ToSignedMsg(Lite!Message(c), Lite!Message(c).nonce, 2)
             row(r) == Resigned(r, KeptKey(r.tsk), time)
             u == [r \in L |-> IF r.id = c.id /\ r.state = "Fill" THEN row(r) ELSE r]
  <1>1. \A r \in L : RowOK(r) /\ \A q \in L : q.id = r.id => q = r
    BY DEF MessagesAgree
  <1>3. \A r \in L : KeptKey(r.tsk) \in Seq(SUBSET Nat)
    BY <1>1, KeyRead DEF KeptKey, RowOK, MessageRow
  <1>4. \A r \in L : RowOK(row(r)) /\ row(r).id = r.id /\ row(r).from = r.from /\ row(r).nonce = r.nonce
    BY SMTT(60), <1>1, <1>3, RowResigned
  <1>5. new.id = c.id
    BY <1>1, ResignedColumns
  <1>b. M \subseteq L
    BY DEF MessagesAgree
  <1>c. PICK f : f = Lite!fromMessage(new)
    OBVIOUS
  <1>d. /\ f.nonce = c.nonce /\ f.ucid = CidUnder(c, c.nonce, 2) /\ f.scid = SignedCid(CidUnder(c, c.nonce, 2))
        /\ f.sig = TRUE /\ f.cap = 2 /\ f.state = "Fill" /\ f.height = c.height /\ f.rcpt = c.rcpt
        /\ f.tsk = KeyColumn(c.tsk) /\ f.err = 0
    BY ZenonT(60), <1>c, <1>1, ResignedColumns
  <1>e. \A r \in L : r.id = c.id => Updated(r, f, time) = row(r)
    <2>1. c \in MessageRow
      BY <1>1 DEF RowOK
    <2>2. Updated(c, f, time) = row(c)
      BY <1>d, <2>1, UpdatesResign
    <2> QED
      BY <1>1, <2>2
  <1>6. Lite!UpdateMessageByState(L, new, "Fill", time) = {u[r] : r \in L}
    <2>1. Lite!UpdateMessageByState(L, new, "Fill", time)
            = {IF r.id = new.id /\ r.state = "Fill" THEN Updated(r, Lite!fromMessage(new), time) ELSE r : r \in L}
      BY Zenon DEF Lite!UpdateMessageByState, Lite!UpdateWhere, Lite!NonZero, Updated, Columns
    <2> HIDE DEF row, new
    <2> QED
      BY <2>1, <1>c, <1>5, <1>e
  <1>7. My!UpdateMessageByState(M, new, "Fill", time) = {u[s] : s \in M}
    <2>1. My!UpdateMessageByState(M, new, "Fill", time)
            = {IF r.id = new.id /\ r.state = "Fill" THEN Updated(r, My!fromMessage(new), time) ELSE r : r \in M}
      BY Zenon DEF My!UpdateMessageByState, My!UpdateWhere, My!NonZero, Updated, Columns
    <2> HIDE DEF row, new
    <2>2. My!fromMessage(new) = f
      BY <1>c, SameColumns
    <2> QED
      BY <2>1, <2>2, <1>5, <1>b, <1>e
  <1>a. My!Message(c) = Lite!Message(c)
    BY <1>1, SameMessage
  <1> HIDE DEF row
  <1>8. \A r \in L : RowOK(u[r]) /\ u[r].id = r.id /\ u[r].from = r.from /\ u[r].nonce = r.nonce
    BY <1>1, <1>4
  <1> HIDE DEF u
  <1>11. MessagesStep(M, L, {u[s] : s \in M}, {u[r] : r \in L})
    BY <1>8, MessagesChanged
  <1> QED
    BY <1>6, <1>7, <1>11, <1>a

-----------------------------------------------------------------------------
(* The table of addresses in the two databases *)

(* The row of MySQL differs in the digits of its ratio only. *)
LEMMA RoundedRow ==
    ASSUME NEW r \in AddressRow
    PROVE  /\ Rounded(r) \in AddressRow
           /\ Rounded(r).id = r.id /\ Rounded(r).addr = r.addr /\ Rounded(r).nonce = r.nonce /\ Rounded(r).state = r.state
           /\ Rounded(r).selNum = r.selNum /\ Rounded(r).deleted = r.deleted /\ Rounded(r).maxFee = r.maxFee
           /\ Rounded(r).overEst = My!Decimal2(r.overEst) /\ Rounded(r).updated = r.updated
  <1>1. My!Decimal2(r.overEst) \in Nat
    BY RoundedTwice DEF AddressRow
  <1> QED
    BY <1>1 DEF Rounded, AddressRow

(* A change of rows that keeps their addresses. *)
LEMMA AddressesChanged ==
    ASSUME NEW M, NEW L, AddressesAgree(M, L), NEW u, NEW v,
           \A r \in L : u[r] \in AddressRow /\ u[r].id = r.id /\ u[r].addr = r.addr /\ ~u[r].deleted,
           \A r \in L : v[Rounded(r)] = Rounded(u[r])
    PROVE  AddressesAgree({v[s] : s \in M}, {u[r] : r \in L})
  <1> DEFINE N == {u[r] : r \in L}
  <1>1. IsFiniteSet(N)
    BY ImageFinite DEF AddressesAgree
  <1>2. \A r \in N : r \in AddressRow /\ ~r.deleted /\ r.id = r.addr /\ \A q \in N : q.addr = r.addr => q = r
    BY DEF AddressesAgree
  <1>3. {v[s] : s \in M} = {Rounded(r) : r \in N}
    BY DEF AddressesAgree
  <1> QED
    BY <1>1, <1>2, <1>3 DEF AddressesAgree

(* Which rows an update of an address concerns, in either database. *)
LEMMA AddressNamed ==
    ASSUME NEW M, NEW L, AddressesAgree(M, L), NEW from
    PROVE  /\ \A r \in L : r \in Lite!Named(L, from) <=> r.addr = <<"f", from>>
           /\ \A s \in M : s.addr = My!AddressNamed(from) /\ ~s.deleted <=> s.addr = <<"f", from>>
           /\ \A r \in L : Rounded(r) \in M /\ Rounded(r).addr = r.addr
           /\ My!HasAddress(M, from) <=> \E r \in L : r.addr = <<"f", from>>
           /\ Lite!HasAddress(L, from) <=> \E r \in L : r.addr = <<"f", from>>
  <1>1. \A r \in L : r \in AddressRow /\ ~r.deleted
    BY DEF AddressesAgree
  <1>2. \A r \in L : Rounded(r) \in M /\ Rounded(r).addr = r.addr /\ Rounded(r).deleted = r.deleted
    BY <1>1, RoundedRow DEF AddressesAgree
  <1>3. \A r \in L : r \in Lite!Named(L, from) <=> r.addr = <<"f", from>>
    BY <1>1 DEF Lite!Named, Lite!Live
  <1>4. \A s \in M : s.addr = My!AddressNamed(from) /\ ~s.deleted <=> s.addr = <<"f", from>>
    BY <1>1, <1>2 DEF My!AddressNamed, AddressesAgree
  <1>5. My!HasAddress(M, from) <=> \E r \in L : r.addr = <<"f", from>>
    BY <1>1, <1>2 DEF My!HasAddress, My!AddressNamed, AddressesAgree
  <1>6. Lite!HasAddress(L, from) <=> \E r \in L : r.addr = <<"f", from>>
    <2> DEFINE S == Lite!Named(L, from)
    <2>1. S \subseteq L
      BY DEF Lite!Named, Lite!Live
    <2>2. IsFiniteSet(S)
      BY <2>1, FS_Subset DEF AddressesAgree
    <2> HIDE DEF S
    <2>3. Lite!Cardinality(S) > 0 <=> S # {}
      BY <2>2, SomeCounted
    <2>4. S # {} <=> \E r \in L : r.addr = <<"f", from>>
      BY <1>3, <2>1 DEF S
    <2>5. Lite!HasAddress(L, from) <=> Lite!Cardinality(S) > 0
      BY Zenon DEF Lite!HasAddress, S
    <2> QED
      BY <2>3, <2>4, <2>5
  <1> QED
    BY <1>2, <1>3, <1>4, <1>5, <1>6

NonceOf(r, n, time) == [r EXCEPT !.nonce = n, !.updated = time]
SelNumOf(r, num, time) == [r EXCEPT !.selNum = num, !.updated = time]
AddrState == {"Alive", "Forbidden"}
Named(L) == {r.addr : r \in L}
NonceMoved(L, from, n, time) == {IF r.addr = <<"f", from>> THEN NonceOf(r, n, time) ELSE r : r \in L}

(* An operator's update of an address. *)
LEMMA AddressWritten ==
    ASSUME NEW M, NEW L, AddressesAgree(M, L), NEW from, NEW n \in Nat, NEW num \in Nat, NEW state \in AddrState,
           NEW time \in Nat
    PROVE  /\ AddressesAgree(My!UpdateNonce(M, from, n, time), Lite!UpdateNonce(L, from, n, time))
           /\ Lite!UpdateNonce(L, from, n, time) = NonceMoved(L, from, n, time)
           /\ AddressesAgree(My!UpdateState(M, from, state, time), Lite!UpdateState(L, from, state, time))
           /\ AddressesAgree(My!UpdateSelectMsgNum(M, from, num, time), Lite!UpdateSelectMsgNum(L, from, num, time))
           /\ Named(Lite!UpdateNonce(L, from, n, time)) = Named(L)
           /\ Named(Lite!UpdateState(L, from, state, time)) = Named(L)
           /\ Named(Lite!UpdateSelectMsgNum(L, from, num, time)) = Named(L)
  <1> DEFINE named(r) == r.addr = <<"f", from>>
  <1>1. \A r \in L : r \in AddressRow /\ ~r.deleted /\ Rounded(r) \in M /\ Rounded(r).addr = r.addr
    <2>1. \A r \in L : r \in AddressRow /\ ~r.deleted /\ Rounded(r) \in M
      BY DEF AddressesAgree
    <2> QED
      BY <2>1, RoundedRow
  <1>2. ASSUME NEW r \in L
        PROVE  /\ NonceOf(r, n, time) \in AddressRow /\ NonceOf(r, n, time).id = r.id /\ NonceOf(r, n, time).addr = r.addr
               /\ ~NonceOf(r, n, time).deleted /\ NonceOf(Rounded(r), n, time) = Rounded(NonceOf(r, n, time))
               /\ StateSet(r, state, time) \in AddressRow /\ StateSet(r, state, time).id = r.id
               /\ StateSet(r, state, time).addr = r.addr /\ ~StateSet(r, state, time).deleted
               /\ StateSet(Rounded(r), state, time) = Rounded(StateSet(r, state, time))
               /\ SelNumOf(r, num, time) \in AddressRow /\ SelNumOf(r, num, time).id = r.id
               /\ SelNumOf(r, num, time).addr = r.addr /\ ~SelNumOf(r, num, time).deleted
               /\ SelNumOf(Rounded(r), num, time) = Rounded(SelNumOf(r, num, time))
    <2>1. r \in AddressRow /\ ~r.deleted
      BY <1>1
    <2>2. /\ NonceOf(r, n, time) \in AddressRow /\ NonceOf(r, n, time).id = r.id /\ NonceOf(r, n, time).addr = r.addr
          /\ ~NonceOf(r, n, time).deleted /\ NonceOf(Rounded(r), n, time) = Rounded(NonceOf(r, n, time))
      BY <2>1 DEF NonceOf, AddressRow, Rounded
    <2>3. /\ StateSet(r, state, time) \in AddressRow /\ StateSet(r, state, time).id = r.id
          /\ StateSet(r, state, time).addr = r.addr /\ ~StateSet(r, state, time).deleted
          /\ StateSet(Rounded(r), state, time) = Rounded(StateSet(r, state, time))
      BY <2>1 DEF StateSet, AddressRow, Rounded, AddrState
    <2>4. /\ SelNumOf(r, num, time) \in AddressRow /\ SelNumOf(r, num, time).id = r.id
          /\ SelNumOf(r, num, time).addr = r.addr /\ ~SelNumOf(r, num, time).deleted
          /\ SelNumOf(Rounded(r), num, time) = Rounded(SelNumOf(r, num, time))
      BY <2>1 DEF SelNumOf, AddressRow, Rounded
    <2> QED
      BY <2>2, <2>3, <2>4
  <1>3. /\ Lite!UpdateNonce(L, from, n, time) = {IF named(r) THEN NonceOf(r, n, time) ELSE r : r \in L}
        /\ Lite!UpdateState(L, from, state, time) = {IF named(r) THEN StateSet(r, state, time) ELSE r : r \in L}
        /\ Lite!UpdateSelectMsgNum(L, from, num, time) = {IF named(r) THEN SelNumOf(r, num, time) ELSE r : r \in L}
    <2>1. \A r \in L : r \in Lite!Named(L, from) <=> named(r)
      BY AddressNamed
    <2> HIDE DEF named
    <2>2. Lite!UpdateNonce(L, from, n, time) = {IF named(r) THEN NonceOf(r, n, time) ELSE r : r \in L}
      BY <2>1 DEF Lite!UpdateNonce, Lite!UpdateWhere, NonceOf
    <2>3. Lite!UpdateState(L, from, state, time) = {IF named(r) THEN StateSet(r, state, time) ELSE r : r \in L}
      BY <2>1 DEF Lite!UpdateState, Lite!UpdateWhere, Lite!SetState, StateSet
    <2>4. Lite!UpdateSelectMsgNum(L, from, num, time) = {IF named(r) THEN SelNumOf(r, num, time) ELSE r : r \in L}
      BY <2>1 DEF Lite!UpdateSelectMsgNum, Lite!UpdateWhere, SelNumOf
    <2> QED
      BY <2>2, <2>3, <2>4
  <1>4. /\ My!UpdateNonce(M, from, n, time) = {IF named(s) THEN NonceOf(s, n, time) ELSE s : s \in M}
        /\ My!UpdateState(M, from, state, time) = {IF named(s) THEN StateSet(s, state, time) ELSE s : s \in M}
        /\ My!UpdateSelectMsgNum(M, from, num, time) = {IF named(s) THEN SelNumOf(s, num, time) ELSE s : s \in M}
    <2>1. \A s \in M : s.addr = My!AddressNamed(from) /\ ~s.deleted <=> named(s)
      BY AddressNamed
    <2> HIDE DEF named
    <2>2. My!UpdateNonce(M, from, n, time) = {IF named(s) THEN NonceOf(s, n, time) ELSE s : s \in M}
      BY <2>1 DEF My!UpdateNonce, My!UpdateAddress, My!UpdateWhere, NonceOf
    <2>3. My!UpdateState(M, from, state, time) = {IF named(s) THEN StateSet(s, state, time) ELSE s : s \in M}
      BY <2>1 DEF My!UpdateState, My!UpdateAddress, My!UpdateWhere, StateSet
    <2>4. My!UpdateSelectMsgNum(M, from, num, time) = {IF named(s) THEN SelNumOf(s, num, time) ELSE s : s \in M}
      BY <2>1 DEF My!UpdateSelectMsgNum, My!UpdateAddress, My!UpdateWhere, SelNumOf
    <2> QED
      BY <2>2, <2>3, <2>4
  <1> DEFINE u1 == [r \in L |-> IF named(r) THEN NonceOf(r, n, time) ELSE r]
             u2 == [r \in L |-> IF named(r) THEN StateSet(r, state, time) ELSE r]
             u3 == [r \in L |-> IF named(r) THEN SelNumOf(r, num, time) ELSE r]
             v1 == [s \in M |-> IF named(s) THEN NonceOf(s, n, time) ELSE s]
             v2 == [s \in M |-> IF named(s) THEN StateSet(s, state, time) ELSE s]
             v3 == [s \in M |-> IF named(s) THEN SelNumOf(s, num, time) ELSE s]
  <1>5. /\ \A r \in L : u1[r] \in AddressRow /\ u1[r].id = r.id /\ u1[r].addr = r.addr /\ ~u1[r].deleted
        /\ \A r \in L : u2[r] \in AddressRow /\ u2[r].id = r.id /\ u2[r].addr = r.addr /\ ~u2[r].deleted
        /\ \A r \in L : u3[r] \in AddressRow /\ u3[r].id = r.id /\ u3[r].addr = r.addr /\ ~u3[r].deleted
    BY <1>1, <1>2
  <1>6. /\ \A r \in L : v1[Rounded(r)] = Rounded(u1[r])
        /\ \A r \in L : v2[Rounded(r)] = Rounded(u2[r])
        /\ \A r \in L : v3[Rounded(r)] = Rounded(u3[r])
    BY <1>1, <1>2
  <1>7. /\ {u1[r] : r \in L} = Lite!UpdateNonce(L, from, n, time) /\ {v1[s] : s \in M} = My!UpdateNonce(M, from, n, time)
        /\ {u2[r] : r \in L} = Lite!UpdateState(L, from, state, time) /\ {v2[s] : s \in M} = My!UpdateState(M, from, state, time)
        /\ {u3[r] : r \in L} = Lite!UpdateSelectMsgNum(L, from, num, time)
        /\ {v3[s] : s \in M} = My!UpdateSelectMsgNum(M, from, num, time)
    BY <1>3, <1>4
  <1> HIDE DEF u1, u2, u3, v1, v2, v3
  <1>8. /\ AddressesAgree({v1[s] : s \in M}, {u1[r] : r \in L})
        /\ AddressesAgree({v2[s] : s \in M}, {u2[r] : r \in L})
        /\ AddressesAgree({v3[s] : s \in M}, {u3[r] : r \in L})
    <2>1. AddressesAgree({v1[s] : s \in M}, {u1[r] : r \in L})
      BY SMTT(60), <1>5, <1>6, AddressesChanged
    <2>2. AddressesAgree({v2[s] : s \in M}, {u2[r] : r \in L})
      BY <1>5, <1>6, AddressesChanged
    <2>3. AddressesAgree({v3[s] : s \in M}, {u3[r] : r \in L})
      BY <1>5, <1>6, AddressesChanged
    <2> QED
      BY <2>1, <2>2, <2>3
  <1>9. /\ {x.addr : x \in {u1[r] : r \in L}} = {r.addr : r \in L}
        /\ {x.addr : x \in {u2[r] : r \in L}} = {r.addr : r \in L}
        /\ {x.addr : x \in {u3[r] : r \in L}} = {r.addr : r \in L}
    BY <1>5
  <1>10. Lite!UpdateNonce(L, from, n, time) = NonceMoved(L, from, n, time)
    BY Zenon, <1>3 DEF NonceMoved
  <1> QED
    BY <1>7, <1>8, <1>9, <1>10 DEF Named

(* The fee parameters of an address: what is not given is not written. *)
FeeOf(r, fee) == IF fee = <<>> THEN r.maxFee ELSE fee[1]
RatioOf(r, ratio) == IF ratio = 0 THEN r.overEst ELSE ratio
FeeSet(r, ratio, fee, time) == [r EXCEPT !.maxFee = fee, !.overEst = ratio, !.updated = time]

LEMMA FeeUpdate ==
    ASSUME NEW r \in AddressRow, ~r.deleted, NEW ratio \in Nat, NEW fee \in Nat, NEW time \in Nat
    PROVE  /\ FeeSet(r, ratio, fee, time) \in AddressRow /\ FeeSet(r, ratio, fee, time).id = r.id
           /\ FeeSet(r, ratio, fee, time).addr = r.addr /\ ~FeeSet(r, ratio, fee, time).deleted
           /\ FeeSet(Rounded(r), My!Decimal2(ratio), fee, time) = Rounded(FeeSet(r, ratio, fee, time))
  <1>1. PICK d : d = My!Decimal2(r.overEst)
    OBVIOUS
  <1>2. PICK e : e = My!Decimal2(ratio)
    OBVIOUS
  <1>3. PICK t : t = FeeSet(r, ratio, fee, time)
    OBVIOUS
  <1>4. t \in AddressRow /\ t.id = r.id /\ t.addr = r.addr /\ ~t.deleted /\ t.overEst = ratio
    BY <1>3 DEF FeeSet, AddressRow
  <1>5. Rounded(r) = [r EXCEPT !.overEst = d] /\ Rounded(t) = [t EXCEPT !.overEst = e]
    BY <1>1, <1>2, <1>4 DEF Rounded
  <1>6. FeeSet(Rounded(r), e, fee, time) = Rounded(t)
    BY <1>3, <1>5 DEF FeeSet, AddressRow
  <1> QED
    BY <1>2, <1>3, <1>4, <1>6

LEMMA FeeWritten ==
    ASSUME NEW M, NEW L, AddressesAgree(M, L), NEW from, NEW ratio \in Nat, NEW fee \in Seq(Nat), NEW time \in Nat
    PROVE  /\ AddressesAgree(My!UpdateFeeParams(M, from, ratio, fee, time), Lite!UpdateFeeParams(L, from, ratio, fee, time))
           /\ Named(Lite!UpdateFeeParams(L, from, ratio, fee, time)) = Named(L)
  <1> DEFINE given == fee # <<>> \/ ratio # 0
             named(r) == r.addr = <<"f", from>>
             new(r) == FeeSet(r, RatioOf(r, ratio), FeeOf(r, fee), time)
             mnew(r) == FeeSet(r, IF ratio = 0 THEN r.overEst ELSE My!Decimal2(ratio), FeeOf(r, fee), time)
             u == [r \in L |-> IF named(r) /\ given THEN new(r) ELSE r]
             v == [s \in M |-> IF named(s) /\ given THEN mnew(s) ELSE s]
  <1>1. \A r \in L : r \in AddressRow /\ ~r.deleted /\ Rounded(r) \in M
    BY DEF AddressesAgree
  <1>2. \A r \in L : /\ Rounded(r).addr = r.addr /\ Rounded(r).maxFee = r.maxFee
                     /\ Rounded(r).overEst = My!Decimal2(r.overEst)
    BY <1>1, RoundedRow
  <1>3. ASSUME NEW r \in L
        PROVE  /\ new(r) \in AddressRow /\ new(r).id = r.id /\ new(r).addr = r.addr /\ ~new(r).deleted
               /\ mnew(Rounded(r)) = Rounded(new(r))
    <2>1. PICK rr : rr = RatioOf(r, ratio)
      OBVIOUS
    <2>2. PICK ff : ff = FeeOf(r, fee)
      OBVIOUS
    <2>3. rr \in Nat
      BY <1>1, <2>1 DEF RatioOf, AddressRow
    <2>4. ff \in Nat
      BY <1>1, <2>2 DEF FeeOf, AddressRow
    <2>5. mnew(Rounded(r)) = FeeSet(Rounded(r), My!Decimal2(rr), ff, time)
      <3>1. FeeOf(Rounded(r), fee) = ff
        BY <1>2, <2>2 DEF FeeOf
      <3>2. (IF ratio = 0 THEN Rounded(r).overEst ELSE My!Decimal2(ratio)) = My!Decimal2(rr)
        BY <1>2, <2>1 DEF RatioOf
      <3> QED
        BY Zenon, <3>1, <3>2
    <2>6. new(r) = FeeSet(r, rr, ff, time)
      BY <2>1, <2>2
    <2>7. /\ FeeSet(r, rr, ff, time) \in AddressRow /\ FeeSet(r, rr, ff, time).id = r.id
          /\ FeeSet(r, rr, ff, time).addr = r.addr /\ ~FeeSet(r, rr, ff, time).deleted
          /\ FeeSet(Rounded(r), My!Decimal2(rr), ff, time) = Rounded(FeeSet(r, rr, ff, time))
      BY ZenonT(60), <1>1, <2>3, <2>4, FeeUpdate
    <2> HIDE DEF new, mnew
    <2> QED
      BY Zenon, <2>5, <2>6, <2>7
  <1>4. \A r \in L : u[r] \in AddressRow /\ u[r].id = r.id /\ u[r].addr = r.addr /\ ~u[r].deleted
    <2> HIDE DEF new
    <2> QED
      BY <1>1, <1>3
  <1>5. \A r \in L : v[Rounded(r)] = Rounded(u[r])
    <2> HIDE DEF new, mnew
    <2> QED
      BY <1>1, <1>2, <1>3
  <1>6. Lite!UpdateFeeParams(L, from, ratio, fee, time) = {u[r] : r \in L}
    <2>1. \A r \in L : r \in Lite!Named(L, from) <=> named(r)
      BY AddressNamed
    <2>2. \A r \in L : [r EXCEPT !.maxFee = IF fee = <<>> THEN @ ELSE Lite!SafeFromGo(fee),
                                  !.overEst = Lite!NonZero(ratio, @, 0), !.updated = time] = new(r)
      BY <1>1 DEF Lite!SafeFromGo, Lite!NonZero, FeeSet, FeeOf, RatioOf, AddressRow
    <2> HIDE DEF new, named
    <2>3. Lite!UpdateFeeParams(L, from, ratio, fee, time)
            = {IF r \in Lite!Named(L, from) /\ given
               THEN [r EXCEPT !.maxFee = IF fee = <<>> THEN @ ELSE Lite!SafeFromGo(fee),
                              !.overEst = Lite!NonZero(ratio, @, 0), !.updated = time]
               ELSE r : r \in L}
      BY Zenon DEF Lite!UpdateFeeParams, Lite!UpdateWhere
    <2> HIDE DEF given
    <2> QED
      BY <2>1, <2>2, <2>3
  <1>7. My!UpdateFeeParams(M, from, ratio, fee, time) = {v[s] : s \in M}
    <2>1. \A s \in M : s.addr = My!AddressNamed(from) /\ ~s.deleted <=> named(s)
      BY AddressNamed
    <2>2. \A s \in M : s \in AddressRow
      BY <1>1, RoundedRow DEF AddressesAgree
    <2>3. \A s \in M : [s EXCEPT !.maxFee = IF fee = <<>> THEN @ ELSE fee[1],
                                  !.overEst = IF ratio = 0 THEN @ ELSE My!Decimal2(ratio), !.updated = time] = mnew(s)
      BY <2>2 DEF FeeSet, FeeOf, AddressRow
    <2> HIDE DEF mnew, named
    <2>4. CASE ~given
      <3>1. My!UpdateFeeParams(M, from, ratio, fee, time) = M
        BY Zenon, <2>4 DEF My!UpdateFeeParams
      <3> QED
        BY <2>4, <3>1
    <2>5. CASE given
      <3>1. My!UpdateFeeParams(M, from, ratio, fee, time)
              = {IF s.addr = My!AddressNamed(from) /\ ~s.deleted
                 THEN [s EXCEPT !.maxFee = IF fee = <<>> THEN @ ELSE fee[1],
                                !.overEst = IF ratio = 0 THEN @ ELSE My!Decimal2(ratio), !.updated = time]
                 ELSE s : s \in M}
        BY Zenon, <2>5 DEF My!UpdateFeeParams, My!UpdateAddress, My!UpdateWhere
      <3> HIDE DEF given
      <3> QED
        BY ZenonT(60), <2>1, <2>3, <2>5, <3>1
    <2> QED
      BY <2>4, <2>5
  <1> HIDE DEF u, v
  <1>8. AddressesAgree({v[s] : s \in M}, {u[r] : r \in L})
    BY <1>4, <1>5, AddressesChanged
  <1>9. {x.addr : x \in {u[r] : r \in L}} = {r.addr : r \in L}
    BY <1>4
  <1> QED
    BY <1>6, <1>7, <1>8, <1>9 DEF Named

(* A deleted address. *)
LEMMA AddressDeleted ==
    ASSUME NEW M, NEW L, AddressesAgree(M, L), NEW str
    PROVE  /\ AddressesAgree(My!DelAddress(M, str), Lite!DelAddress(L, str))
           /\ Lite!DelAddress(L, str) \subseteq L
  <1> DEFINE N == {r \in L : r.addr # str}
  <1>1. \A r \in L : r \in AddressRow /\ Rounded(r).addr = r.addr
    BY RoundedRow DEF AddressesAgree
  <1>2. Lite!DelAddress(L, str) = N /\ My!DelAddress(M, str) = {Rounded(r) : r \in N}
    BY <1>1 DEF Lite!DelAddress, My!DelAddress, AddressesAgree
  <1>3. N \subseteq L
    OBVIOUS
  <1>4. IsFiniteSet(N)
    BY <1>3, FS_Subset DEF AddressesAgree
  <1> QED
    BY <1>2, <1>3, <1>4 DEF AddressesAgree

LEMMA SameAddress ==
    ASSUME NEW a \in AddressRow, NEW b \in AddressRow, a.id = b.id, a.addr = b.addr, a.nonce = b.nonce, a.state = b.state,
           a.selNum = b.selNum, a.deleted = b.deleted, a.maxFee = b.maxFee, a.overEst = b.overEst, a.updated = b.updated
    PROVE  a = b
  BY DEF AddressRow

(* The row of a sender that is new. *)
Unknown(L, from) == \A r \in L : r.addr # <<"f", from>>
RowAdded(L2, L, from) == \E row : row.addr = <<"f", from>> /\ L2 = L \cup {row}

LEMMA AddressSaved ==
    ASSUME NEW M, NEW L, AddressesAgree(M, L), NEW from \in Addr, NEW time \in Nat, Unknown(L, from)
    PROVE  /\ AddressesAgree(My!SaveAddress(M, NewAddress(from), time), Lite!SaveAddress(L, NewAddress(from), time))
           /\ RowAdded(Lite!SaveAddress(L, NewAddress(from), time), L, from)
  <1>1. My!Decimal2(0) = 0
    BY DEF My!Decimal2
  <1>2. Lite!SafeFromGo(<<>>) = 0 /\ My!SafeFromGo(<<>>) = 0
    BY Zenon DEF Lite!SafeFromGo, My!SafeFromGo
  <1>3. PICK a : a = <<"f", from>>
    OBVIOUS
  <1>4. a \in Prefixed
    BY <1>3 DEF Prefixed
  <1>5. PICK nil : nil = <<>>
    OBVIOUS
  <1>6. PICK new : new = NewAddress(from)
    OBVIOUS
  <1>7. new = [id |-> a, addr |-> a, nonce |-> 0, state |-> "Alive", selNum |-> 0, deleted |-> FALSE,
               maxFee |-> nil, overEst |-> 0, updated |-> 0]
    BY Zenon, <1>3, <1>5, <1>6 DEF NewAddress
  <1>8. PICK row : row = [new EXCEPT !.maxFee = 0, !.updated = time]
    OBVIOUS
  <1>9. PICK mrow : mrow = [new EXCEPT !.maxFee = 0, !.overEst = 0, !.updated = time]
    OBVIOUS
  <1>10. Lite!fromAddress(new, time) = row /\ My!fromAddress(new, time) = mrow
    BY <1>1, <1>2, <1>5, <1>7, <1>8, <1>9 DEF Lite!fromAddress, My!fromAddress
  <1>11. /\ row \in AddressRow /\ row.id = a /\ row.addr = a /\ row.nonce = 0 /\ row.state = "Alive" /\ row.selNum = 0
         /\ row.deleted = FALSE /\ row.maxFee = 0 /\ row.overEst = 0 /\ row.updated = time
         /\ new.id = a /\ new.addr = a
    BY <1>4, <1>7, <1>8 DEF AddressRow
  <1>12. Rounded(row) = mrow
    <2>1. /\ mrow \in AddressRow /\ mrow.id = a /\ mrow.addr = a /\ mrow.nonce = 0 /\ mrow.state = "Alive" /\ mrow.selNum = 0
          /\ mrow.deleted = FALSE /\ mrow.maxFee = 0 /\ mrow.overEst = 0 /\ mrow.updated = time
      BY <1>4, <1>7, <1>9 DEF AddressRow
    <2>2. PICK x : x = Rounded(row)
      OBVIOUS
    <2>3. /\ x \in AddressRow /\ x.id = a /\ x.addr = a /\ x.nonce = 0 /\ x.state = "Alive" /\ x.selNum = 0
          /\ x.deleted = FALSE /\ x.maxFee = 0 /\ x.overEst = 0 /\ x.updated = time
      BY <1>1, <1>11, <2>2, RoundedRow
    <2> QED
      BY <2>1, <2>2, <2>3, SameAddress
  <1> DEFINE N == L \cup {row}
  <1>13. \A r \in L : r \in AddressRow /\ r.addr # a /\ r.id # a /\ Rounded(r).addr = r.addr /\ Rounded(r).id = r.id
    BY <1>3, RoundedRow DEF AddressesAgree, Unknown
  <1>14. \A s \in M : s.addr # a /\ s.id # a
    BY <1>13 DEF AddressesAgree
  <1>15. Lite!SaveAddress(L, new, time) = N
    BY <1>10, <1>11, <1>13 DEF Lite!SaveAddress, Lite!Save
  <1>16. My!SaveAddress(M, new, time) = M \cup {mrow}
    <2>1. mrow.id = a
      BY <1>11, <1>12, RoundedRow
    <2> QED
      BY <2>1, <1>10, <1>11, <1>14 DEF My!SaveAddress, My!Save
  <1>17. IsFiniteSet(N)
    BY FS_AddElement DEF AddressesAgree
  <1>18. \A r \in N : r \in AddressRow /\ ~r.deleted /\ r.id = r.addr /\ \A q \in N : q.addr = r.addr => q = r
    BY <1>11, <1>13 DEF AddressesAgree
  <1>19. M \cup {mrow} = {Rounded(r) : r \in N}
    BY <1>12 DEF AddressesAgree
  <1> QED
    BY <1>3, <1>6, <1>11, <1>15, <1>16, <1>17, <1>18, <1>19 DEF AddressesAgree, RowAdded

(* The rows the migration keeps, and the ones it makes. *)
KeptRows(T) == {r \in T : r.addr[1] = "f"}
LoneRows(T) == {q \in T : \A x \in T : x.addr # <<"f", q.addr[2]>>}
MadeRows(T, time) ==
    {Lite!fromAddress([Lite!Address(r) EXCEPT !.id = Lite!Address(r).addr], time) : r \in LoneRows(T)}

LEMMA MigratedUnion ==
    ASSUME NEW T, OldRows(T), NEW time
    PROVE  Migrated(T, time) = KeptRows(T) \cup MadeRows(T, time)
  <1>1. Migrated(T, time) =
             {r \in T : r.addr[1] = "f"}
             \cup {Lite!fromAddress([Lite!Address(r) EXCEPT !.id = Lite!Address(r).addr], time) :
                     r \in {q \in T : \A x \in T : x.addr # <<"f", q.addr[2]>>}}
    BY MigratedRows
  <1> QED
    BY Zenon, <1>1 DEF KeptRows, LoneRows, MadeRows

(* The migration, in either database. *)
LEMMA MigratedAgree ==
    ASSUME NEW T, IsFiniteSet(T), NEW time \in Nat,
           \A r \in T : /\ r \in AddressRow /\ ~r.deleted /\ r.id = r.addr /\ My!Decimal2(r.overEst) = r.overEst
                        /\ \A q \in T : q.addr = r.addr => q = r
    PROVE  /\ AddressesAgree(MigrateAddress(T, My!ListAddress(T), {My!fromAddress(a, time) : a \in Missing(T, My!ListAddress(T))}),
                             Migrated(T, time))
           /\ \A r \in Migrated(T, time) : r.addr[1] = "f"
  <1> DEFINE named(r) == [Lite!Address(r) EXCEPT !.id = Lite!Address(r).addr]
             made(r) == Lite!fromAddress(named(r), time)
             lone == {q \in T : \A x \in T : x.addr # <<"f", q.addr[2]>>}
             kept == {r \in T : r.addr[1] = "f"}
             U == Migrated(T, time)
  <1>1. OldRows(T)
    BY DEF OldRows
  <1>2. U = kept \cup {made(r) : r \in lone}
    <2>1. kept = KeptRows(T) /\ {made(r) : r \in lone} = MadeRows(T, time)
      BY Zenon DEF KeptRows, LoneRows, MadeRows
    <2>2. Migrated(T, time) = KeptRows(T) \cup MadeRows(T, time)
      BY <1>1, MigratedUnion
    <2> QED
      BY Zenon, <2>1, <2>2
  <1>3. ASSUME NEW r \in T
        PROVE  /\ made(r) \in AddressRow /\ ~made(r).deleted /\ made(r).id = made(r).addr
               /\ made(r).addr = <<"f", r.addr[2]>> /\ made(r).addr[1] = "f" /\ made(r).addr[2] = r.addr[2]
               /\ made(r).overEst = r.overEst
               /\ My!fromAddress(named(r), time) = made(r)
    <2>1. PICK a \in Prefixed : a = <<"f", r.addr[2]>> /\ a[1] = "f" /\ a[2] = r.addr[2]
      BY AddressOfRow DEF Prefixed
    <2>2. PICK fee : fee = <<r.maxFee>>
      OBVIOUS
    <2>3. r \in AddressRow /\ ~r.deleted
      OBVIOUS
    <2>4. Lite!Address(r) = [r EXCEPT !.addr = a, !.maxFee = fee]
      BY <2>1, <2>2, <2>3 DEF Lite!Address, Lite!NewFromGo, AddressRow
    <2>5. PICK n : n = named(r)
      OBVIOUS
    <2>6. n = [r EXCEPT !.id = a, !.addr = a, !.maxFee = fee]
      BY <2>3, <2>4, <2>5 DEF AddressRow
    <2>7. Lite!SafeFromGo(fee) = r.maxFee /\ My!SafeFromGo(fee) = r.maxFee
      BY <2>2 DEF Lite!SafeFromGo, My!SafeFromGo
    <2>8. PICK max : max = r.maxFee
      OBVIOUS
    <2>9. n.maxFee = fee /\ n.overEst = r.overEst
      BY <2>3, <2>6 DEF AddressRow
    <2>10. PICK x : x = Lite!fromAddress(n, time)
      OBVIOUS
    <2>11. x = [n EXCEPT !.maxFee = max, !.updated = time]
      BY <2>7, <2>8, <2>9, <2>10 DEF Lite!fromAddress
    <2>12. x \in AddressRow /\ ~x.deleted /\ x.id = a /\ x.addr = a /\ x.overEst = r.overEst
      BY <2>3, <2>6, <2>8, <2>11 DEF AddressRow
    <2>13. My!fromAddress(n, time) = x
      <3>1. PICK ratio : ratio = r.overEst
        OBVIOUS
      <3>2. My!Decimal2(n.overEst) = ratio
        BY <2>9, <3>1
      <3>3. My!fromAddress(n, time) = [n EXCEPT !.maxFee = max, !.overEst = ratio, !.updated = time]
        BY Zenon, <2>7, <2>8, <2>9, <3>2 DEF My!fromAddress
      <3>4. [r EXCEPT !.id = a, !.addr = a, !.maxFee = max, !.overEst = ratio, !.updated = time]
              = [r EXCEPT !.id = a, !.addr = a, !.maxFee = max, !.updated = time]
        BY <2>3, <3>1 DEF AddressRow
      <3>5. /\ [n EXCEPT !.maxFee = max, !.overEst = ratio, !.updated = time]
                 = [r EXCEPT !.id = a, !.addr = a, !.maxFee = max, !.overEst = ratio, !.updated = time]
            /\ [n EXCEPT !.maxFee = max, !.updated = time] = [r EXCEPT !.id = a, !.addr = a, !.maxFee = max, !.updated = time]
        BY <2>3, <2>6 DEF AddressRow
      <3> QED
        BY <2>11, <3>3, <3>4, <3>5
    <2> QED
      BY <2>1, <2>5, <2>10, <2>12, <2>13
  <1>4. \A r \in T : r.addr[1] \in {"f", "t"} /\ r.addr = <<r.addr[1], r.addr[2]>>
    BY AddressOfRow
  <1>5. \A r \in lone : r \in T /\ r.addr[1] = "t" /\ \A x \in T : x.addr # <<"f", r.addr[2]>>
    BY <1>4
  <1>6. \A r \in lone, q \in lone : r.addr[2] = q.addr[2] => r = q
    BY <1>4, <1>5
  <1>7. My!ListAddress(T) = Lite!ListAddress(T)
    <2>1. \A r \in T : My!Address(r) = Lite!Address(r)
      BY DEF My!Address, Lite!Address, Lite!NewFromGo
    <2> QED
      BY <2>1 DEF My!ListAddress, Lite!ListAddress, Lite!Live
  <1>8. Missing(T, Lite!ListAddress(T)) = {named(r) : r \in lone}
    <2>1. \A r \in T : Lite!Address(r).addr = <<"f", r.addr[2]>>
      BY AddressOfRow
    <2> DEFINE renamed(k) == [k EXCEPT !.id = k.addr]
               listed == Lite!ListAddress(T)
               gone == {k \in listed : \A r \in T : r.addr # k.addr}
    <2>2. listed = {Lite!Address(r) : r \in T}
      BY <1>1, AllListed
    <2>3. gone = {Lite!Address(q) : q \in lone}
      <3>1. \A q \in T : (\A r \in T : r.addr # Lite!Address(q).addr) <=> q \in lone
        BY <2>1
      <3> HIDE DEF lone, listed
      <3>2. lone \subseteq T
        BY DEF lone
      <3> QED
        BY <2>2, <3>1, <3>2
    <2>4. Missing(T, listed) = {renamed(k) : k \in gone}
      BY DEF Missing
    <2> HIDE DEF renamed, gone, lone
    <2>5. {renamed(k) : k \in gone} = {renamed(Lite!Address(r)) : r \in lone}
      BY <2>3
    <2>6. Missing(T, listed) = {renamed(Lite!Address(r)) : r \in lone}
      BY <2>4, <2>5
    <2> QED
      BY <2>6 DEF renamed
  <1> HIDE DEF named, made, lone, U
  <1>9. {My!fromAddress(a, time) : a \in {named(r) : r \in lone}} = {made(r) : r \in lone}
    BY <1>3, <1>5
  <1>10. {Lite!fromAddress(a, time) : a \in {named(r) : r \in lone}} = {made(r) : r \in lone}
    BY DEF made
  <1>11. MigrateAddress(T, My!ListAddress(T), {My!fromAddress(a, time) : a \in Missing(T, My!ListAddress(T))}) = U
    <2>1. {My!fromAddress(a, time) : a \in Missing(T, Lite!ListAddress(T))}
            = {Lite!fromAddress(a, time) : a \in Missing(T, Lite!ListAddress(T))}
      BY <1>8, <1>9, <1>10
    <2> QED
      BY <1>7, <2>1 DEF U, Migrated
  <1>12. \A r \in U : r \in AddressRow /\ ~r.deleted /\ r.id = r.addr /\ r.addr[1] = "f" /\ My!Decimal2(r.overEst) = r.overEst
    BY <1>2, <1>3, <1>5
  <1>13. \A r \in U, q \in U : q.addr = r.addr => q = r
    <2>1. \A r \in kept, q \in lone : made(q).addr # r.addr
      BY <1>3, <1>5
    <2>2. \A r \in lone, q \in lone : made(q).addr = made(r).addr => q = r
      BY <1>3, <1>5, <1>6
    <2> QED
      BY <1>2, <2>1, <2>2
  <1>14. IsFiniteSet(U)
    <2>1. IsFiniteSet(kept) /\ IsFiniteSet(lone)
      BY FS_Subset DEF lone
    <2>2. PICK f : f = [r \in lone |-> made(r)]
      OBVIOUS
    <2>3. IsFiniteSet({f[r] : r \in lone})
      BY <2>1, ImageFinite
    <2>4. {f[r] : r \in lone} = {made(r) : r \in lone}
      BY <2>2
    <2> QED
      BY <1>2, <2>1, <2>3, <2>4, FS_Union
  <1>15. U = {Rounded(r) : r \in U}
    <2>1. \A r \in U : Rounded(r) = r
      <3> SUFFICES ASSUME NEW r \in U PROVE Rounded(r) = r
        OBVIOUS
      <3>1. Rounded(r) = [r EXCEPT !.overEst = r.overEst] /\ r \in AddressRow
        BY <1>12 DEF Rounded
      <3> QED
        BY <3>1 DEF AddressRow
    <2> QED
      BY <2>1
  <1> QED
    BY <1>11, <1>12, <1>13, <1>14, <1>15 DEF AddressesAgree, U

-----------------------------------------------------------------------------
(* The actor configurations, the shared parameters and the nodes in the two databases *)

CfgOK(r) == r \in CfgRow /\ \E method \in 0..(2 ^ Width - 1) : r.method = Lite!Value(method)

(* A method is found under the number either database holds. *)
LEMMA CfgMethod ==
    ASSUME NEW r, CfgOK(r), NEW method \in 0..(2 ^ Width - 1)
    PROVE  r.method = Lite!Value(method) <=> Lite!Scan(r.method) = method
  <1>1. PICK m \in 0..(2 ^ Width - 1) : r.method = Lite!Value(m)
    BY DEF CfgOK
  <1>2. Lite!Scan(Lite!Value(m)) = m /\ Lite!Scan(Lite!Value(method)) = method
    BY ScanOfValue
  <1> QED
    BY <1>1, <1>2

LEMMA CfgInMysqlRow ==
    ASSUME NEW r, CfgOK(r)
    PROVE  /\ CfgInMysql(r).id = r.id /\ CfgInMysql(r).code = r.code /\ CfgInMysql(r).method = Lite!Scan(r.method)
           /\ CfgInMysql(r).maxFee = r.maxFee /\ CfgInMysql(r).overEst = My!Decimal2(r.overEst)
           /\ CfgInMysql(r) \in CfgRow
  <1>1. PICK m \in 0..(2 ^ Width - 1) : r.method = Lite!Value(m)
    BY DEF CfgOK
  <1>2. Lite!Scan(r.method) \in Int
    BY <1>1, ScanOfValue, WidthAssumption
  <1>3. My!Decimal2(r.overEst) \in Nat
    BY RoundedTwice DEF CfgOK, CfgRow
  <1> QED
    BY <1>2, <1>3 DEF CfgInMysql, CfgOK, CfgRow

LEMMA SameCfg ==
    ASSUME NEW a \in CfgRow, NEW b \in CfgRow, a.id = b.id, a.code = b.code, a.method = b.method, a.maxFee = b.maxFee,
           a.overEst = b.overEst
    PROVE  a = b
  BY DEF CfgRow

(* A new configuration, or a new version of one. *)
LEMMA CfgSaved ==
    ASSUME NEW M, NEW L, CfgsAgree(M, L), NEW id \in Nat, NEW code \in Nat, NEW method \in Int,
           method \in 0..(2 ^ Width - 1), NEW ratio \in Nat, NEW nil, nil = <<>>, NEW c,
           c = [id |-> id, code |-> code, method |-> method, maxFee |-> nil, overEst |-> ratio]
    PROVE  CfgsAgree(My!SaveActorCfg(M, c), Lite!SaveActorCfg(L, c))
  <1>1. Lite!SafeFromGo(<<>>) = 0 /\ My!SafeFromGo(<<>>) = 0
    BY Zenon DEF Lite!SafeFromGo, My!SafeFromGo
  <1>4. PICK x \in Int : x = Lite!Value(method) /\ Lite!Scan(x) = method
    BY ScanOfValue
  <1>5. PICK d \in Nat : d = My!Decimal2(ratio)
    BY RoundedTwice
  <1>6. PICK row : row = [c EXCEPT !.method = x, !.maxFee = 0]
    OBVIOUS
  <1>7. PICK mrow : mrow = [c EXCEPT !.maxFee = 0, !.overEst = d]
    OBVIOUS
  <1>8. c.id = id /\ c.code = code /\ c.method = method /\ c.maxFee = nil /\ c.overEst = ratio
    OBVIOUS
  <1>9. Lite!fromActorCfg(c) = row /\ My!fromActorCfg(c) = mrow
    BY <1>1, <1>4, <1>5, <1>6, <1>7, <1>8 DEF Lite!fromActorCfg, My!fromActorCfg
  <1>10. row \in CfgRow /\ row.id = id /\ row.code = code /\ row.method = x /\ row.maxFee = 0 /\ row.overEst = ratio
    BY <1>6 DEF CfgRow
  <1>11. mrow \in CfgRow /\ mrow.id = id /\ mrow.code = code /\ mrow.method = method /\ mrow.maxFee = 0 /\ mrow.overEst = d
    BY <1>7 DEF CfgRow
  <1>12. CfgOK(row)
    BY <1>4, <1>10 DEF CfgOK
  <1>13. CfgInMysql(row) = mrow
    <2>1. PICK y : y = CfgInMysql(row)
      OBVIOUS
    <2>2. y \in CfgRow /\ y.id = id /\ y.code = code /\ y.method = method /\ y.maxFee = 0 /\ y.overEst = d
      BY <1>4, <1>5, <1>10, <1>12, <2>1, CfgInMysqlRow
    <2> QED
      BY <1>11, <2>1, <2>2, SameCfg
  <1>14. \A r \in L : /\ CfgOK(r) /\ CfgInMysql(r).id = r.id /\ CfgInMysql(r).code = r.code
                      /\ (CfgInMysql(r).method = method <=> r.method = x)
    <2>1. \A r \in L : CfgOK(r)
      BY DEF CfgsAgree, CfgOK
    <2> QED
      BY <1>4, <2>1, CfgMethod, CfgInMysqlRow
  <1> DEFINE taken == code = 0 \/ \E r \in L : r.id # id /\ r.code = code /\ r.method = x
             N == {r \in L : r.id # id} \cup {row}
  <1>15. Lite!SaveActorCfg(L, c) = IF taken THEN L ELSE N
    BY ZenonT(60), <1>8, <1>9, <1>10 DEF Lite!SaveActorCfg, Lite!Save
  <1>16. My!SaveActorCfg(M, c) = IF taken THEN M ELSE {s \in M : s.id # id} \cup {mrow}
    <2>1. (\E r \in M : r.id # id /\ r.code = code /\ r.method = method) <=> \E r \in L : r.id # id /\ r.code = code /\ r.method = x
      BY <1>14 DEF CfgsAgree
    <2> QED
      BY <1>8, <1>9, <1>11, <2>1 DEF My!SaveActorCfg, My!Save
  <1>17. {s \in M : s.id # id} \cup {mrow} = {CfgInMysql(r) : r \in N}
    BY <1>13, <1>14 DEF CfgsAgree
  <1>18. \A r \in N : CfgOK(r)
    BY <1>12, <1>14
  <1>19. CfgsAgree({s \in M : s.id # id} \cup {mrow}, N)
    BY <1>17, <1>18 DEF CfgsAgree, CfgOK
  <1> HIDE DEF taken, N
  <1> QED
    BY <1>15, <1>16, <1>19

(* A deleted configuration. *)
LEMMA CfgDeleted ==
    ASSUME NEW M, NEW L, CfgsAgree(M, L), NEW id, NEW code, NEW method \in 0..(2 ^ Width - 1)
    PROVE  /\ CfgsAgree(My!DelActorCfgByMethodType(M, code, method), Lite!DelActorCfgByMethodType(L, code, method))
           /\ CfgsAgree(My!DelActorCfgById(M, id), Lite!DelActorCfgById(L, id))
  <1>1. \A r \in L : CfgOK(r)
    BY DEF CfgsAgree, CfgOK
  <1>2. \A r \in L : /\ CfgInMysql(r).id = r.id /\ CfgInMysql(r).code = r.code
                     /\ (CfgInMysql(r).method = method <=> r.method = Lite!Value(method))
    BY <1>1, CfgMethod, CfgInMysqlRow
  <1> QED
    BY <1>2 DEF CfgsAgree, My!DelActorCfgByMethodType, Lite!DelActorCfgByMethodType, My!DelActorCfgById, Lite!DelActorCfgById

(* A new fee for a configuration. *)
SpecSet(r, ratio, fee) == [r EXCEPT !.maxFee = fee, !.overEst = ratio]

LEMMA SpecUpdate ==
    ASSUME NEW r, CfgOK(r), NEW ratio \in Nat, NEW fee \in Nat
    PROVE  CfgOK(SpecSet(r, ratio, fee)) /\ CfgInMysql(SpecSet(r, ratio, fee)) = SpecSet(CfgInMysql(r), My!Decimal2(ratio), fee)
  <1>1. PICK t : t = SpecSet(r, ratio, fee)
    OBVIOUS
  <1>2. t \in CfgRow /\ t.id = r.id /\ t.code = r.code /\ t.method = r.method /\ t.maxFee = fee /\ t.overEst = ratio
    BY <1>1 DEF SpecSet, CfgOK, CfgRow
  <1>3. CfgOK(t)
    BY <1>2 DEF CfgOK
  <1>4. PICK m : m = CfgInMysql(r)
    OBVIOUS
  <1>5. m \in CfgRow /\ m.id = r.id /\ m.code = r.code /\ m.method = Lite!Scan(r.method)
    BY <1>4, CfgInMysqlRow
  <1>6. PICK d \in Nat : d = My!Decimal2(ratio)
    BY RoundedTwice
  <1>7. PICK y : y = SpecSet(m, d, fee)
    OBVIOUS
  <1>8. y \in CfgRow /\ y.id = r.id /\ y.code = r.code /\ y.method = Lite!Scan(r.method) /\ y.maxFee = fee /\ y.overEst = d
    BY <1>5, <1>7 DEF SpecSet, CfgRow
  <1>9. PICK z : z = CfgInMysql(t)
    OBVIOUS
  <1>10. z \in CfgRow /\ z.id = r.id /\ z.code = r.code /\ z.method = Lite!Scan(r.method) /\ z.maxFee = fee /\ z.overEst = d
    BY <1>2, <1>3, <1>6, <1>9, CfgInMysqlRow
  <1>11. y = z
    BY <1>8, <1>10, SameCfg
  <1> QED
    BY <1>1, <1>3, <1>4, <1>6, <1>7, <1>9, <1>11

LEMMA CfgUpdated ==
    ASSUME NEW M, NEW L, CfgsAgree(M, L), NEW id, NEW ratio \in Seq(Nat), NEW fee \in Seq(Nat)
    PROVE  CfgsAgree(My!UpdateSelectSpecById(M, id, ratio, fee), Lite!UpdateSelectSpecById(L, id, ratio, fee))
  <1> DEFINE given(r) == IF ratio = <<>> THEN r.overEst ELSE ratio[1]
             mgiven(r) == IF ratio = <<>> THEN r.overEst ELSE My!Decimal2(ratio[1])
             u == [r \in L |-> IF r.id = id THEN SpecSet(r, given(r), FeeOf(r, fee)) ELSE r]
             v == [s \in M |-> IF s.id = id THEN SpecSet(s, mgiven(s), FeeOf(s, fee)) ELSE s]
  <1>1. \A r \in L : CfgOK(r) /\ CfgInMysql(r) \in M
    BY DEF CfgsAgree, CfgOK
  <1>2. \A r \in L : /\ CfgInMysql(r).id = r.id /\ CfgInMysql(r).maxFee = r.maxFee
                     /\ CfgInMysql(r).overEst = My!Decimal2(r.overEst) /\ CfgInMysql(r) \in CfgRow
    BY <1>1, CfgInMysqlRow
  <1>3. ASSUME NEW r \in L
        PROVE  /\ CfgOK(SpecSet(r, given(r), FeeOf(r, fee)))
               /\ CfgInMysql(SpecSet(r, given(r), FeeOf(r, fee)))
                    = SpecSet(CfgInMysql(r), mgiven(CfgInMysql(r)), FeeOf(CfgInMysql(r), fee))
    <2>1. PICK rr : rr = given(r)
      OBVIOUS
    <2>2. PICK ff : ff = FeeOf(r, fee)
      OBVIOUS
    <2>3. rr \in Nat
      BY <1>1, <2>1 DEF CfgOK, CfgRow
    <2>4. ff \in Nat
      BY <1>1, <2>2 DEF FeeOf, CfgOK, CfgRow
    <2>5. FeeOf(CfgInMysql(r), fee) = ff
      BY <1>2, <2>2 DEF FeeOf
    <2>6. mgiven(CfgInMysql(r)) = My!Decimal2(rr)
      BY <1>2, <2>1
    <2>7. CfgOK(SpecSet(r, rr, ff)) /\ CfgInMysql(SpecSet(r, rr, ff)) = SpecSet(CfgInMysql(r), My!Decimal2(rr), ff)
      BY <1>1, <2>3, <2>4, SpecUpdate
    <2> HIDE DEF given, mgiven
    <2> QED
      BY Zenon, <2>1, <2>2, <2>5, <2>6, <2>7
  <1>4. \A r \in L : CfgOK(u[r]) /\ v[CfgInMysql(r)] = CfgInMysql(u[r])
    <2> HIDE DEF given, mgiven
    <2> QED
      BY <1>1, <1>2, <1>3
  <1>5. Lite!UpdateSelectSpecById(L, id, ratio, fee) = {u[r] : r \in L}
    <2>1. \A r \in L : [r EXCEPT !.maxFee = IF fee = <<>> THEN @ ELSE Lite!SafeFromGo(fee),
                                  !.overEst = IF ratio = <<>> THEN @ ELSE ratio[1]] = SpecSet(r, given(r), FeeOf(r, fee))
      BY <1>1 DEF Lite!SafeFromGo, SpecSet, FeeOf, CfgOK, CfgRow
    <2> HIDE DEF given
    <2>2. Lite!UpdateSelectSpecById(L, id, ratio, fee)
            = {IF r.id = id THEN [r EXCEPT !.maxFee = IF fee = <<>> THEN @ ELSE Lite!SafeFromGo(fee),
                                           !.overEst = IF ratio = <<>> THEN @ ELSE ratio[1]] ELSE r : r \in L}
      BY Zenon DEF Lite!UpdateSelectSpecById, Lite!UpdateWhere
    <2> DEFINE old(r) == IF r.id = id THEN [r EXCEPT !.maxFee = IF fee = <<>> THEN @ ELSE Lite!SafeFromGo(fee),
                                                     !.overEst = IF ratio = <<>> THEN @ ELSE ratio[1]] ELSE r
    <2>3. \A r \in L : old(r) = u[r]
      BY <2>1
    <2>4. Lite!UpdateSelectSpecById(L, id, ratio, fee) = {old(r) : r \in L}
      BY Zenon, <2>2
    <2> HIDE DEF old, u
    <2> QED
      BY <2>3, <2>4
  <1>6. My!UpdateSelectSpecById(M, id, ratio, fee) = {v[s] : s \in M}
    <2>1. \A s \in M : s \in CfgRow
      BY <1>2 DEF CfgsAgree
    <2>2. \A s \in M : [s EXCEPT !.maxFee = IF fee = <<>> THEN @ ELSE fee[1],
                                  !.overEst = IF ratio = <<>> THEN @ ELSE My!Decimal2(ratio[1])] = SpecSet(s, mgiven(s), FeeOf(s, fee))
      BY <2>1 DEF SpecSet, FeeOf, CfgRow
    <2> HIDE DEF mgiven
    <2>3. My!UpdateSelectSpecById(M, id, ratio, fee)
            = {IF s.id = id THEN [s EXCEPT !.maxFee = IF fee = <<>> THEN @ ELSE fee[1],
                                           !.overEst = IF ratio = <<>> THEN @ ELSE My!Decimal2(ratio[1])] ELSE s : s \in M}
      BY Zenon DEF My!UpdateSelectSpecById, My!UpdateWhere
    <2> DEFINE old(s) == IF s.id = id THEN [s EXCEPT !.maxFee = IF fee = <<>> THEN @ ELSE fee[1],
                                                     !.overEst = IF ratio = <<>> THEN @ ELSE My!Decimal2(ratio[1])] ELSE s
    <2>4. \A s \in M : old(s) = v[s]
      BY <2>2
    <2>5. My!UpdateSelectSpecById(M, id, ratio, fee) = {old(s) : s \in M}
      BY Zenon, <2>3
    <2> HIDE DEF old, v
    <2> QED
      BY <2>4, <2>5
  <1> HIDE DEF u, v
  <1>7. CfgsAgree({v[s] : s \in M}, {u[r] : r \in L})
    <2> DEFINE N == {u[r] : r \in L}
    <2>1. \A r \in N : CfgOK(r)
      BY <1>4
    <2>2. {v[s] : s \in M} = {CfgInMysql(r) : r \in N}
      <3>1. M = {CfgInMysql(r) : r \in L}
        BY DEF CfgsAgree
      <3>2. {v[s] : s \in M} = {v[CfgInMysql(r)] : r \in L}
        BY <3>1
      <3>3. {CfgInMysql(r) : r \in N} = {CfgInMysql(u[r]) : r \in L}
        OBVIOUS
      <3> QED
        BY <1>4, <3>2, <3>3
    <2> HIDE DEF N
    <2>3. CfgsAgree({v[s] : s \in M}, N)
      BY <2>1, <2>2 DEF CfgsAgree, CfgOK
    <2> QED
      BY <2>3 DEF N
  <1> QED
    BY <1>5, <1>6, <1>7

(* The shared parameters. *)
LEMMA SharedWritten ==
    ASSUME NEW M, NEW L, SharedAgree(M, L), NEW id \in Nat, NEW num \in Nat, NEW fee \in Seq(Nat), NEW ratio \in Nat, NEW p,
           p = [id |-> id, selNum |-> num, maxFee |-> fee, overEst |-> ratio]
    PROVE  /\ SharedAgree(My!SetSharedParams(M, p), Lite!SetSharedParams(L, p))
           /\ SharedAgree(NewSharedParams(M, My!SetSharedParams(M, p)), NewSharedParams(L, Lite!SetSharedParams(L, p)))
  <1>1. PICK max \in Nat : max = Lite!SafeFromGo(fee) /\ max = My!SafeFromGo(fee)
    <2>1. fee # <<>> => fee[1] \in Nat
      OBVIOUS
    <2> QED
      BY <2>1 DEF Lite!SafeFromGo, My!SafeFromGo
  <1>2. PICK d \in Nat : d = My!Decimal2(ratio)
    BY RoundedTwice
  <1>3. PICK row : row = [p EXCEPT !.id = 1, !.maxFee = max]
    OBVIOUS
  <1>4. PICK mrow : mrow = [p EXCEPT !.maxFee = max, !.overEst = d, !.id = 1]
    OBVIOUS
  <1>5. Lite!fromSharedParams([p EXCEPT !.id = 1]) = row
    <2>1. [p EXCEPT !.id = 1].maxFee = fee
      OBVIOUS
    <2>2. Lite!fromSharedParams([p EXCEPT !.id = 1]) = [[p EXCEPT !.id = 1] EXCEPT !.maxFee = max]
      BY Zenon, <1>1, <2>1 DEF Lite!fromSharedParams
    <2> QED
      BY <1>3, <2>2
  <1>6. [My!fromSharedParams(p) EXCEPT !.id = 1] = mrow
    <2>1. p.maxFee = fee /\ p.overEst = ratio
      OBVIOUS
    <2>2. My!fromSharedParams(p) = [p EXCEPT !.maxFee = max, !.overEst = d]
      BY Zenon, <1>1, <1>2, <2>1 DEF My!fromSharedParams
    <2> QED
      BY <1>4, <2>2
  <1>7. row \in SharedRow /\ row.id = 1 /\ row.selNum = num /\ row.maxFee = max /\ row.overEst = ratio
    BY <1>3 DEF SharedRow
  <1>8. mrow \in SharedRow /\ mrow.id = 1 /\ mrow.selNum = num /\ mrow.maxFee = max /\ mrow.overEst = d
    BY <1>4 DEF SharedRow
  <1>9. Rounded(row) = mrow
    BY <1>2, <1>7, <1>8 DEF Rounded, SharedRow
  <1>10. \A r \in L : r \in SharedRow /\ Rounded(r).id = r.id
    BY DEF SharedAgree, Rounded, SharedRow
  <1> DEFINE N == {r \in L : r.id # 1} \cup {row}
             O == {s \in M : s.id # 1} \cup {mrow}
  <1>11. Lite!SetSharedParams(L, p) = N
    BY <1>5, <1>7 DEF Lite!SetSharedParams, Lite!Save
  <1>12. My!SetSharedParams(M, p) = O
    BY <1>6, <1>8 DEF My!SetSharedParams, My!Save
  <1>13. SharedAgree(O, N)
    BY <1>7, <1>9, <1>10 DEF SharedAgree
  <1>14. M = {} <=> L = {}
    BY DEF SharedAgree
  <1> HIDE DEF N, O
  <1> QED
    BY <1>11, <1>12, <1>13, <1>14 DEF NewSharedParams

(* The columns of a node, without the time of creation. *)
NodeColumns(r) == [id |-> r.id, name |-> r.name, deleted |-> r.deleted, updated |-> r.updated]
ColumnsOf(S) == {NodeColumns(r) : r \in S}

LEMMA NodesUntimed ==
    ASSUME NEW S, S \subseteq NodeRow, NEW T, T \subseteq NodeRow
    PROVE  Untimed(S) = Untimed(T) <=> ColumnsOf(S) = ColumnsOf(T)
  <1> DEFINE cut(r) == [r EXCEPT !.created = 0]
  <1>1. \A r, q \in NodeRow : cut(r) = cut(q) <=> NodeColumns(r) = NodeColumns(q)
    <2> SUFFICES ASSUME NEW r \in NodeRow, NEW q \in NodeRow PROVE cut(r) = cut(q) <=> NodeColumns(r) = NodeColumns(q)
      OBVIOUS
    <2>1. \A x \in NodeRow : cut(x) = [id |-> x.id, name |-> x.name, deleted |-> x.deleted, created |-> 0, updated |-> x.updated]
      BY DEF NodeRow
    <2>2. cut(r) = cut(q) <=> r.id = q.id /\ r.name = q.name /\ r.deleted = q.deleted /\ r.updated = q.updated
      BY <2>1
    <2>3. NodeColumns(r) = NodeColumns(q) <=> r.id = q.id /\ r.name = q.name /\ r.deleted = q.deleted /\ r.updated = q.updated
      BY DEF NodeColumns
    <2> QED
      BY <2>2, <2>3
  <1>2. Untimed(S) = {cut(r) : r \in S} /\ Untimed(T) = {cut(r) : r \in T}
    BY Zenon DEF Untimed
  <1> HIDE DEF cut
  <1>3. (\A r \in S : \E q \in T : cut(r) = cut(q)) <=> (\A r \in S : \E q \in T : NodeColumns(r) = NodeColumns(q))
    BY <1>1
  <1>4. (\A q \in T : \E r \in S : cut(r) = cut(q)) <=> (\A q \in T : \E r \in S : NodeColumns(r) = NodeColumns(q))
    BY <1>1
  <1>5. {cut(r) : r \in S} = {cut(r) : r \in T}
          <=> (\A r \in S : \E q \in T : cut(r) = cut(q)) /\ (\A q \in T : \E r \in S : cut(r) = cut(q))
    OBVIOUS
  <1>6. ColumnsOf(S) = ColumnsOf(T)
          <=> /\ \A r \in S : \E q \in T : NodeColumns(r) = NodeColumns(q)
              /\ \A q \in T : \E r \in S : NodeColumns(r) = NodeColumns(q)
    BY DEF ColumnsOf
  <1> QED
    BY <1>2, <1>3, <1>4, <1>5, <1>6

(* A row as it is saved, with or without a new time of creation. *)
LEMMA NodeStamped ==
    ASSUME NEW T, NEW row \in NodeRow, NEW t \in Nat
    PROVE  /\ My!Stamped(T, row, t) \in NodeRow /\ NodeColumns(My!Stamped(T, row, t)) = NodeColumns(row)
           /\ Lite!Stamped(T, row, t) \in NodeRow /\ NodeColumns(Lite!Stamped(T, row, t)) = NodeColumns(row)
  <1>1. PICK s : s = [row EXCEPT !.created = t]
    OBVIOUS
  <1>2. s \in NodeRow /\ s.id = row.id /\ s.name = row.name /\ s.deleted = row.deleted /\ s.updated = row.updated
    BY <1>1 DEF NodeRow
  <1>3. NodeColumns(s) = NodeColumns(row)
    BY <1>2 DEF NodeColumns
  <1>4. /\ My!Stamped(T, row, t) = row \/ My!Stamped(T, row, t) = s
        /\ Lite!Stamped(T, row, t) = row \/ Lite!Stamped(T, row, t) = s
    BY Zenon, <1>1 DEF My!Stamped, Lite!Stamped
  <1> QED
    BY <1>2, <1>3, <1>4

LEMMA NodeSaved ==
    ASSUME NEW M, NEW L, NodesMatch(M, L), NEW r \in NodeRow, NEW s \in NodeRow,
           s.id = r.id, NodeColumns(s) = NodeColumns(r)
    PROVE  /\ NodesMatch(My!Save(M, s), Lite!Save(L, r))
           /\ StrictDates => NodesMatch(M, Lite!Save(L, r))
  <1> DEFINE N == {q \in L : q.id # r.id} \cup {r}
             K == {q \in M : q.id # s.id} \cup {s}
  <1>1. My!Save(M, s) = K /\ Lite!Save(L, r) = N
    BY Zenon DEF My!Save, Lite!Save
  <1>2. IsFiniteSet(N)
    <2>1. IsFiniteSet({q \in L : q.id # r.id})
      BY FS_Subset DEF NodesMatch
    <2> QED
      BY <2>1, FS_AddElement
  <1>3. K \subseteq NodeRow /\ N \subseteq NodeRow /\ M \subseteq NodeRow /\ L \subseteq NodeRow
    BY DEF NodesMatch
  <1>4. ASSUME ~StrictDates PROVE Untimed(K) = Untimed(N)
    <2>1. ColumnsOf(M) = ColumnsOf(L)
      BY <1>3, <1>4, NodesUntimed DEF NodesMatch
    <2>2. \A q : NodeColumns(q).id = q.id
      BY DEF NodeColumns
    <2>3. ColumnsOf(K) = {c \in ColumnsOf(M) : c.id # s.id} \cup {NodeColumns(s)}
      BY <2>2 DEF ColumnsOf
    <2>4. ColumnsOf(N) = {c \in ColumnsOf(L) : c.id # r.id} \cup {NodeColumns(r)}
      BY <2>2 DEF ColumnsOf
    <2>5. ColumnsOf(K) = ColumnsOf(N)
      BY <2>1, <2>3, <2>4
    <2> QED
      BY <1>3, <2>5, NodesUntimed
  <1> HIDE DEF K, N
  <1> QED
    BY <1>1, <1>2, <1>3, <1>4 DEF NodesMatch

LEMMA NodeRemoved ==
    ASSUME NEW M, NEW L, NodesMatch(M, L), NEW name, NEW id, NEW t \in Nat
    PROVE  NodesMatch(My!DelNode(M, name, id, t), Lite!DelNode(L, name, id, t))
  <1> DEFINE gone(r) == [r EXCEPT !.deleted = TRUE, !.updated = t]
             u == [r \in NodeRow |-> IF r.id = id /\ r.name = name /\ ~r.deleted THEN gone(r) ELSE r]
             w(c) == IF c.id = id /\ c.name = name /\ ~c.deleted
                     THEN [id |-> c.id, name |-> c.name, deleted |-> TRUE, updated |-> t] ELSE c
             K == {u[r] : r \in M}
             N == {u[r] : r \in L}
  <1>1. M \subseteq NodeRow /\ L \subseteq NodeRow /\ IsFiniteSet(L)
    BY DEF NodesMatch
  <1>2. My!DelNode(M, name, id, t) = K /\ Lite!DelNode(L, name, id, t) = N
    BY <1>1 DEF My!DelNode, My!UpdateWhere, Lite!DelNode, Lite!UpdateWhere, Lite!Live
  <1>4. \A r \in NodeRow : gone(r) \in NodeRow
                           /\ NodeColumns(gone(r)) = [id |-> r.id, name |-> r.name, deleted |-> TRUE, updated |-> t]
    <2> SUFFICES ASSUME NEW r \in NodeRow
                 PROVE  gone(r) \in NodeRow
                        /\ NodeColumns(gone(r)) = [id |-> r.id, name |-> r.name, deleted |-> TRUE, updated |-> t]
      OBVIOUS
    <2>1. PICK g : g = gone(r)
      OBVIOUS
    <2>2. g \in NodeRow /\ g.id = r.id /\ g.name = r.name /\ g.deleted = TRUE /\ g.updated = t
      BY <2>1 DEF NodeRow
    <2>3. NodeColumns(g) = [id |-> r.id, name |-> r.name, deleted |-> TRUE, updated |-> t]
      BY <2>2 DEF NodeColumns
    <2> QED
      BY <2>1, <2>2, <2>3
  <1>5. \A r : NodeColumns(r).id = r.id /\ NodeColumns(r).name = r.name /\ NodeColumns(r).deleted = r.deleted
    BY DEF NodeColumns
  <1> HIDE DEF gone
  <1>6. \A r \in NodeRow : u[r] \in NodeRow /\ NodeColumns(u[r]) = w(NodeColumns(r))
    BY <1>4, <1>5
  <1> HIDE DEF u, w
  <1>7. IsFiniteSet(N)
    BY <1>1, ImageFinite
  <1>8. K \subseteq NodeRow /\ N \subseteq NodeRow
    BY <1>1, <1>6
  <1>9. ColumnsOf(K) = {w(c) : c \in ColumnsOf(M)} /\ ColumnsOf(N) = {w(c) : c \in ColumnsOf(L)}
    BY <1>1, <1>6 DEF ColumnsOf
  <1> HIDE DEF K, N
  <1>10. ASSUME ~StrictDates PROVE Untimed(K) = Untimed(N)
    <2>1. ColumnsOf(M) = ColumnsOf(L)
      BY <1>1, <1>10, NodesUntimed DEF NodesMatch
    <2>2. ColumnsOf(K) = ColumnsOf(N)
      BY <1>9, <2>1
    <2> QED
      BY <1>8, <2>2, NodesUntimed
  <1> QED
    BY <1>2, <1>7, <1>8, <1>10 DEF NodesMatch

(* The nodes. *)
LEMMA NodesWritten ==
    ASSUME NEW M, NEW L, NodesMatch(M, L), NEW id \in Nat, NEW name \in {"n", "m"}, NEW created \in Nat, NEW t \in Nat, NEW n,
           n = [id |-> id, name |-> name, created |-> created, updated |-> 0]
    PROVE  NodesMatch(My!SaveNode(M, n, t), Lite!SaveNode(L, n, t))
  <1>1. PICK p, q : p = [My!fromNode(n) EXCEPT !.updated = t] /\ q = [Lite!fromNode(n) EXCEPT !.updated = t]
    OBVIOUS
  <1>2. /\ p \in NodeRow /\ p.id = id /\ p.name = name /\ p.deleted = FALSE /\ p.updated = t
        /\ q \in NodeRow /\ q.id = id /\ q.name = name /\ q.deleted = FALSE /\ q.updated = t
    <2>1. PICK a, b : a = My!fromNode(n) /\ b = Lite!fromNode(n)
      OBVIOUS
    <2>2. /\ a \in NodeRow /\ a.id = id /\ a.name = name /\ a.deleted = FALSE
          /\ b \in NodeRow /\ b.id = id /\ b.name = name /\ b.deleted = FALSE
      BY <2>1 DEF My!fromNode, Lite!fromNode, NodeRow
    <2> QED
      BY <1>1, <2>1, <2>2 DEF NodeRow
  <1>3. PICK s, r : s = My!Stamped(M, p, t) /\ r = Lite!Stamped(L, q, t)
    OBVIOUS
  <1>4. NodeColumns(p) = NodeColumns(q)
    BY <1>2 DEF NodeColumns
  <1>5. s \in NodeRow /\ r \in NodeRow /\ NodeColumns(s) = NodeColumns(r) /\ s.id = r.id
    <2>1. s \in NodeRow /\ NodeColumns(s) = NodeColumns(p)
      BY <1>2, <1>3, NodeStamped
    <2>2. r \in NodeRow /\ NodeColumns(r) = NodeColumns(q)
      BY <1>2, <1>3, NodeStamped
    <2>3. NodeColumns(s).id = s.id /\ NodeColumns(r).id = r.id
      BY DEF NodeColumns
    <2> QED
      BY <1>4, <2>1, <2>2, <2>3
  <1>6. My!SaveNode(M, n, t) = IF StrictDates /\ s.created = 0 THEN M ELSE My!Save(M, s)
    BY Zenon, <1>1, <1>3 DEF My!SaveNode
  <1>7. Lite!SaveNode(L, n, t) = Lite!Save(L, r)
    BY Zenon, <1>1, <1>3 DEF Lite!SaveNode
  <1>8. NodesMatch(My!Save(M, s), Lite!Save(L, r)) /\ (StrictDates => NodesMatch(M, Lite!Save(L, r)))
    BY <1>5, NodeSaved
  <1> QED
    BY <1>6, <1>7, <1>8

-----------------------------------------------------------------------------
(* Every step keeps the two databases alike *)

(* The tables after a write to one of them, or to two. *)
Holding(T, m, a, c, s, n) ==
    IsTables(T) /\ T.messages = m /\ T.addresses = a /\ T.cfgs = c /\ T.shared = s /\ T.nodes = n

LEMMA TablesAfter ==
    ASSUME NEW T, IsTables(T), NEW U, NEW x, NEW y
    PROVE  /\ U = [T EXCEPT !.messages = x] => Holding(U, x, T.addresses, T.cfgs, T.shared, T.nodes)
           /\ U = [T EXCEPT !.addresses = x] => Holding(U, T.messages, x, T.cfgs, T.shared, T.nodes)
           /\ U = [T EXCEPT !.cfgs = x] => Holding(U, T.messages, T.addresses, x, T.shared, T.nodes)
           /\ U = [T EXCEPT !.shared = x] => Holding(U, T.messages, T.addresses, T.cfgs, x, T.nodes)
           /\ U = [T EXCEPT !.nodes = x] => Holding(U, T.messages, T.addresses, T.cfgs, T.shared, x)
           /\ U = [T EXCEPT !.messages = x, !.addresses = y] => Holding(U, x, y, T.cfgs, T.shared, T.nodes)
           /\ U = [T EXCEPT !.addresses = y, !.messages = x] => Holding(U, x, y, T.cfgs, T.shared, T.nodes)
           /\ U = [T EXCEPT !.addresses = y, !.shared = x] => Holding(U, T.messages, y, T.cfgs, x, T.nodes)
  <1>1. DOMAIN T = Tables
    BY DEF IsTables
  <1>2. U = [T EXCEPT !.messages = x] => Holding(U, x, T.addresses, T.cfgs, T.shared, T.nodes)
    BY <1>1 DEF IsTables, Tables, Holding
  <1>3. U = [T EXCEPT !.addresses = x] => Holding(U, T.messages, x, T.cfgs, T.shared, T.nodes)
    BY <1>1 DEF IsTables, Tables, Holding
  <1>4. U = [T EXCEPT !.cfgs = x] => Holding(U, T.messages, T.addresses, x, T.shared, T.nodes)
    BY <1>1 DEF IsTables, Tables, Holding
  <1>5. U = [T EXCEPT !.shared = x] => Holding(U, T.messages, T.addresses, T.cfgs, x, T.nodes)
    BY <1>1 DEF IsTables, Tables, Holding
  <1>6. U = [T EXCEPT !.nodes = x] => Holding(U, T.messages, T.addresses, T.cfgs, T.shared, x)
    BY <1>1 DEF IsTables, Tables, Holding
  <1>7. U = [T EXCEPT !.messages = x, !.addresses = y] => Holding(U, x, y, T.cfgs, T.shared, T.nodes)
    BY <1>1 DEF IsTables, Tables, Holding
  <1>8. U = [T EXCEPT !.addresses = y, !.messages = x] => Holding(U, x, y, T.cfgs, T.shared, T.nodes)
    BY <1>1 DEF IsTables, Tables, Holding
  <1>9. U = [T EXCEPT !.addresses = y, !.shared = x] => Holding(U, T.messages, y, T.cfgs, x, T.nodes)
    BY <1>1 DEF IsTables, Tables, Holding
  <1> QED
    BY <1>2, <1>3, <1>4, <1>5, <1>6, <1>7, <1>8, <1>9

(* What a write of messages has to keep. *)
LEMMA MessagesWrite ==
    ASSUME BackendInv, NEW M, NEW L, MessagesStep(my.messages, lite.messages, M, L),
           my' = [my EXCEPT !.messages = M], lite' = [lite EXCEPT !.messages = L], now' = now + 1,
           UNCHANGED <<scene, height, up>>
    PROVE  BackendInv'
  <1>1. Holding(my', M, my.addresses, my.cfgs, my.shared, my.nodes)
    BY Zenon, TablesAfter DEF BackendInv
  <1>2. Holding(lite', L, lite.addresses, lite.cfgs, lite.shared, lite.nodes)
    BY Zenon, TablesAfter DEF BackendInv
  <1>3. MessagesAgree(M, L) /\ (NoncesFollow(lite.messages, lite.addresses) => NoncesFollow(L, lite.addresses))
    BY DEF MessagesStep
  <1> QED
    BY <1>1, <1>2, <1>3 DEF BackendInv, Holding

(* One of addresses, that an operator makes. *)
LEMMA AddressesWrite ==
    ASSUME BackendInv, NEW A, NEW B, AddressesAgree(A, B), \A r \in B : r.addr[1] = "f", "address" \in scene.calls,
           my' = [my EXCEPT !.addresses = A], lite' = [lite EXCEPT !.addresses = B], now' = now + 1,
           UNCHANGED <<scene, height, up>>
    PROVE  BackendInv'
  <1>1. Holding(my', my.messages, A, my.cfgs, my.shared, my.nodes)
    BY Zenon, TablesAfter DEF BackendInv
  <1>2. Holding(lite', lite.messages, B, lite.cfgs, lite.shared, lite.nodes)
    BY Zenon, TablesAfter DEF BackendInv
  <1> QED
    BY <1>1, <1>2 DEF BackendInv, Holding

(* One of the other tables. *)
LEMMA CfgsWrite ==
    ASSUME BackendInv, NEW A, NEW B, CfgsAgree(A, B),
           my' = [my EXCEPT !.cfgs = A], lite' = [lite EXCEPT !.cfgs = B], now' = now + 1, UNCHANGED <<scene, height, up>>
    PROVE  BackendInv'
  <1>1. Holding(my', my.messages, my.addresses, A, my.shared, my.nodes)
    BY Zenon, TablesAfter DEF BackendInv
  <1>2. Holding(lite', lite.messages, lite.addresses, B, lite.shared, lite.nodes)
    BY Zenon, TablesAfter DEF BackendInv
  <1> QED
    BY <1>1, <1>2 DEF BackendInv, Holding

LEMMA SharedWrite ==
    ASSUME BackendInv, NEW A, NEW B, SharedAgree(A, B),
           my' = [my EXCEPT !.shared = A], lite' = [lite EXCEPT !.shared = B], now' = now + 1, UNCHANGED <<scene, height, up>>
    PROVE  BackendInv'
  <1>1. Holding(my', my.messages, my.addresses, my.cfgs, A, my.nodes)
    BY Zenon, TablesAfter DEF BackendInv
  <1>2. Holding(lite', lite.messages, lite.addresses, lite.cfgs, B, lite.nodes)
    BY Zenon, TablesAfter DEF BackendInv
  <1> QED
    BY <1>1, <1>2 DEF BackendInv, Holding

LEMMA NodesWrite ==
    ASSUME BackendInv, NEW A, NEW B, NodesMatch(A, B),
           my' = [my EXCEPT !.nodes = A], lite' = [lite EXCEPT !.nodes = B], now' = now + 1, UNCHANGED <<scene, height, up>>
    PROVE  BackendInv'
  <1>1. Holding(my', my.messages, my.addresses, my.cfgs, my.shared, A)
    BY Zenon, TablesAfter DEF BackendInv
  <1>2. Holding(lite', lite.messages, lite.addresses, lite.cfgs, lite.shared, B)
    BY Zenon, TablesAfter DEF BackendInv
  <1> QED
    BY <1>1, <1>2 DEF BackendInv, Holding

(* Messages and addresses in one transaction. *)
LEMMA BothWritten ==
    ASSUME BackendInv, NEW M, NEW L, NEW A, NEW B, MessagesAgree(M, L), AddressesAgree(A, B),
           up => \A r \in B : r.addr[1] = "f", "address" \notin scene.calls => NoncesFollow(L, B),
           \/ my' = [my EXCEPT !.messages = M, !.addresses = A] /\ lite' = [lite EXCEPT !.messages = L, !.addresses = B]
           \/ my' = [my EXCEPT !.addresses = A, !.messages = M] /\ lite' = [lite EXCEPT !.addresses = B, !.messages = L],
           now' = now + 1, UNCHANGED <<scene, height, up>>
    PROVE  BackendInv'
  <1>1. Holding(my', M, A, my.cfgs, my.shared, my.nodes)
    BY Zenon, TablesAfter DEF BackendInv
  <1>2. Holding(lite', L, B, lite.cfgs, lite.shared, lite.nodes)
    BY Zenon, TablesAfter DEF BackendInv
  <1> QED
    BY <1>1, <1>2 DEF BackendInv, Holding

(* A message that takes its sender's nonce. *)
SignedIn(L, c, n, time) == {IF r = c THEN SignedRow(r, n, time) ELSE r : r \in L}

LEMMA NoncesSigned ==
    ASSUME NEW L, NEW A, NoncesFollow(L, A), \A r \in L : RowOK(r),
           \A r \in A : r \in AddressRow /\ \A q \in A : q.addr = r.addr => q = r,
           NEW c \in L, NEW a \in A, a.addr = <<"f", c.from>>, NEW time \in Nat
    PROVE  NoncesFollow(SignedIn(L, c, a.nonce, time), NonceMoved(A, c.from, a.nonce + 1, time))
  <1> DEFINE u == [r \in L |-> IF r = c THEN SignedRow(r, a.nonce, time) ELSE r]
             v == [r \in A |-> IF r.addr = <<"f", c.from>> THEN NonceOf(r, a.nonce + 1, time) ELSE r]
             L2 == {u[r] : r \in L}
             A2 == {v[r] : r \in A}
  <1>1. a.nonce \in Nat
    BY DEF AddressRow
  <1>2. \A r \in L : SignedRow(r, a.nonce, time).from = r.from /\ SignedRow(r, a.nonce, time).nonce = a.nonce
    BY ZenonT(60), <1>1, RowSigned
  <1>3. \A r \in L : u[r].from = r.from /\ u[r].nonce = IF r = c THEN a.nonce ELSE r.nonce
    BY <1>2
  <1>4. \A r \in A : NonceOf(r, a.nonce + 1, time).addr = r.addr /\ NonceOf(r, a.nonce + 1, time).nonce = a.nonce + 1
    BY DEF NonceOf, AddressRow
  <1>5. \A r \in A : v[r].addr = r.addr /\ v[r].nonce = IF r.addr = <<"f", c.from>> THEN a.nonce + 1 ELSE r.nonce
    BY <1>4
  <1>6. \A r \in A : r.addr = <<"f", c.from>> => r = a
    OBVIOUS
  <1> HIDE DEF u, v
  <1>7. \A r \in L : r.nonce \in Nat
    BY DEF RowOK, MessageRow
  <1>8. ASSUME NEW r \in L, u[r].nonce > 0
        PROVE  \E b \in A : v[b].addr = <<"f", u[r].from>> /\ u[r].nonce < v[b].nonce
    <2>1. CASE r = c
      BY <1>1, <1>3, <1>5, <2>1
    <2>2. CASE r # c
      <3>1. PICK b \in A : b.addr = <<"f", r.from>> /\ r.nonce < b.nonce
        BY <1>3, <1>8, <2>2 DEF NoncesFollow
      <3>2. CASE b = a
        BY <1>1, <1>3, <1>5, <1>7, <2>2, <3>1, <3>2
      <3>3. CASE b # a
        BY <1>3, <1>5, <1>6, <2>2, <3>1, <3>3
      <3> QED
        BY <3>2, <3>3
    <2> QED
      BY <2>1, <2>2
  <1>9. ASSUME NEW r \in L, NEW q \in L, u[r].nonce > 0, u[q].from = u[r].from, u[q].nonce = u[r].nonce
        PROVE  u[q] = u[r]
    <2>1. \A x \in L : x.nonce > 0 /\ x.from = c.from => x.nonce < a.nonce
      <3> SUFFICES ASSUME NEW x \in L, x.nonce > 0, x.from = c.from PROVE x.nonce < a.nonce
        OBVIOUS
      <3>1. PICK b \in A : b.addr = <<"f", x.from>> /\ x.nonce < b.nonce
        BY DEF NoncesFollow
      <3> QED
        BY <1>6, <3>1
    <2>2. CASE r = c
      <3>1. q = c
        BY <1>1, <1>3, <1>7, <1>9, <2>1, <2>2
      <3> QED
        BY <2>2, <3>1
    <2>3. CASE q = c
      <3>1. r = c
        BY <1>1, <1>3, <1>7, <1>9, <2>1, <2>3
      <3> QED
        BY <2>3, <3>1
    <2>4. CASE r # c /\ q # c
      BY <1>3, <1>9, <2>4 DEF NoncesFollow
    <2> QED
      BY <2>2, <2>3, <2>4
  <1>10. NoncesFollow(L2, A2)
    <2> SUFFICES ASSUME NEW r \in L, u[r].nonce > 0
                 PROVE  /\ \E b \in A2 : b.addr = <<"f", u[r].from>> /\ u[r].nonce < b.nonce
                        /\ \A q \in L2 : q.from = u[r].from /\ q.nonce = u[r].nonce => q = u[r]
      BY SMTT(60) DEF NoncesFollow
    <2>1. PICK b \in A : v[b].addr = <<"f", u[r].from>> /\ u[r].nonce < v[b].nonce
      BY <1>8
    <2>2. v[b] \in A2
      OBVIOUS
    <2>3. \A q \in L2 : q.from = u[r].from /\ q.nonce = u[r].nonce => q = u[r]
      BY <1>9
    <2> QED
      BY <2>1, <2>2, <2>3
  <1> QED
    BY ZenonT(60), <1>10 DEF u, v, SignedIn, NonceMoved

(* Both databases return the same message for the same row. *)
LEMMA MessageRead ==
    ASSUME NEW r, RowOK(r)
    PROVE  /\ My!Message(r) = Lite!Message(r)
           /\ Lite!Message(r).id = r.id /\ Lite!Message(r).from = r.from /\ Lite!Message(r).nonce = r.nonce
           /\ Lite!Message(r).method = MethodOf[r.id] /\ Lite!Message(r).sig = r.sig /\ Lite!Message(r).height = r.height
           /\ Lite!Message(r).state = r.state /\ Lite!Message(r).created = r.created
           /\ Lite!Message(r).ucid = Lite!CidOf(r.ucid) /\ Lite!Message(r).scid = Lite!CidOf(r.scid)
  <1>1. PICK d : d = MethodOf[r.id] /\ d = Lite!Scan(r.method)
    BY MethodStored
  <1>2. PICK x, y, z, K : /\ x = Lite!CidOf(r.ucid) /\ y = Lite!CidOf(r.scid) /\ z = Lite!NewFromGo(r.cap)
                          /\ K = IF r.tsk = <<>> THEN {} ELSE r.tsk[1]
    OBVIOUS
  <1>3. r \in MessageRow
    BY DEF RowOK
  <1>4. Lite!Message(r) = [r EXCEPT !.method = d, !.ucid = x, !.scid = y, !.cap = z, !.tsk = K]
    BY Zenon, <1>1, <1>2 DEF Lite!Message
  <1>5. PICK k : k = Lite!Message(r)
    OBVIOUS
  <1>6. /\ k.id = r.id /\ k.from = r.from /\ k.nonce = r.nonce /\ k.method = d /\ k.sig = r.sig /\ k.height = r.height
        /\ k.state = r.state /\ k.created = r.created /\ k.ucid = x /\ k.scid = y
    BY <1>3, <1>4, <1>5 DEF MessageRow
  <1> QED
    BY <1>1, <1>2, <1>5, <1>6, SameMessage

(* The message either database returns for an id. *)
LEMMA RowRead ==
    ASSUME NEW M, NEW L, MessagesAgree(M, L), NEW id
    PROVE  /\ \A m \in My!GetMessageByUid(M, id) :
                \E c \in L : c.id = id /\ Holds(c) /\ m = My!Message(c) /\ m.from = c.from /\ m.nonce = c.nonce
           /\ \A k \in Lite!GetMessageByUid(L, id) : \E c \in L : c.id = id /\ k = Lite!Message(c)
  <1>1. \A r \in L : My!Message(r).from = r.from /\ My!Message(r).nonce = r.nonce
    BY MessageRead DEF MessagesAgree
  <1> QED
    BY <1>1 DEF My!GetMessageByUid, My!Messages, Lite!GetMessageByUid, Lite!Find, MessagesAgree

(* The receipt of a message on chain, and its withdrawal. *)
LEMMA InfoKept ==
    ASSUME BackendInv, NEW u, NEW id, UpdateInfo(u, id) \/ Revert(id)
    PROVE  BackendInv'
  <1>0. now \in Nat /\ height \in Nat /\ {height} \in SUBSET Nat /\ {} \in SUBSET Nat
    BY DEF BackendInv
  <1>1. MessagesAgree(my.messages, lite.messages)
    BY DEF BackendInv
  <1>2. "OnChain" \in MessageState /\ "NonceConflict" \in MessageState /\ "Fill" \in MessageState
    BY DEF MessageState
  <1>3. \A cid : \A st \in MessageState :
          /\ MessagesStep(my.messages, lite.messages,
                          My!UpdateMessageInfoByCid(my.messages, cid, 1, height, st, {height}, now),
                          Lite!UpdateMessageInfoByCid(lite.messages, cid, 1, height, st, {height}, now))
          /\ MessagesStep(my.messages, lite.messages,
                          My!UpdateMessageInfoByCid(my.messages, cid, 0, 0, st, {}, now),
                          Lite!UpdateMessageInfoByCid(lite.messages, cid, 0, 0, st, {}, now))
    BY <1>0, <1>1, InfoWritten
  <1>4. PICK M, L : MessagesStep(my.messages, lite.messages, M, L) /\ Write("chain", "messages", M, L)
    <2>1. CASE UpdateInfo(u, id)
      <3>1. PICK conflict \in BOOLEAN :
              LET state == IF conflict THEN "NonceConflict" ELSE "OnChain" IN
              Write("chain", "messages",
                    My!UpdateMessageInfoByCid(my.messages, Row(id).ucid, 1, height, state, {height}, now),
                    Lite!UpdateMessageInfoByCid(lite.messages, Row(id).ucid, 1, height, state, {height}, now))
        BY <2>1 DEF UpdateInfo
      <3>2. PICK st \in MessageState : st = IF conflict THEN "NonceConflict" ELSE "OnChain"
        BY <1>2
      <3>3. Write("chain", "messages",
                    My!UpdateMessageInfoByCid(my.messages, Row(id).ucid, 1, height, st, {height}, now),
                    Lite!UpdateMessageInfoByCid(lite.messages, Row(id).ucid, 1, height, st, {height}, now))
        BY Zenon, <3>1, <3>2
      <3> QED
        BY Zenon, <1>3, <3>3
    <2>2. CASE Revert(id)
      <3>1. Write("chain", "messages",
                  My!UpdateMessageInfoByCid(my.messages, Row(id).ucid, 0, 0, "Fill", {}, now),
                  Lite!UpdateMessageInfoByCid(lite.messages, Row(id).ucid, 0, 0, "Fill", {}, now))
        BY <2>2 DEF Revert
      <3> QED
        BY Zenon, <1>2, <1>3, <3>1
    <2> QED
      BY <2>1, <2>2
  <1>5. my' = [my EXCEPT !.messages = M] /\ lite' = [lite EXCEPT !.messages = L] /\ now' = now + 1 /\ UNCHANGED <<scene, height, up>>
    BY Zenon, <1>4 DEF Write
  <1> QED
    BY <1>4, <1>5, MessagesWrite

(* A message signed again. *)
LEMMA ReplaceKept ==
    ASSUME BackendInv, NEW u, NEW id, Replace(u, id)
    PROVE  BackendInv'
  <1>1. MessagesAgree(my.messages, lite.messages) /\ now \in Nat
    BY DEF BackendInv
  <1>2. PICK m \in My!GetMessageByUid(my.messages, id), k \in Lite!GetMessageByUid(lite.messages, id) :
          Write("replace", "messages",
                My!UpdateMessageByState(my.messages, ToSignedMsg(m, m.nonce, 2), "Fill", now),
                Lite!UpdateMessageByState(lite.messages, ToSignedMsg(k, k.nonce, 2), "Fill", now))
    BY Zenon DEF Replace
  <1>3. PICK c \in lite.messages : c.id = id /\ Holds(c) /\ m = My!Message(c)
    BY <1>1, RowRead
  <1>4. k = Lite!Message(c)
    <2>1. PICK q \in lite.messages : q.id = id /\ k = Lite!Message(q)
      BY <1>1, RowRead
    <2> QED
      BY <1>1, <1>3, <2>1 DEF MessagesAgree
  <1> DEFINE M == My!UpdateMessageByState(my.messages, ToSignedMsg(m, m.nonce, 2), "Fill", now)
             L == Lite!UpdateMessageByState(lite.messages, ToSignedMsg(k, k.nonce, 2), "Fill", now)
  <1>5. MessagesStep(my.messages, lite.messages, M, L)
    BY Zenon, <1>1, <1>3, <1>4, MessageReplaced
  <1>6. my' = [my EXCEPT !.messages = M] /\ lite' = [lite EXCEPT !.messages = L] /\ now' = now + 1 /\ UNCHANGED <<scene, height, up>>
    BY Zenon, <1>2 DEF Write
  <1> HIDE DEF M, L
  <1> QED
    BY <1>5, <1>6, MessagesWrite

(* A state set by an operator. *)
LEMMA StateKept ==
    ASSUME BackendInv, NEW u, NEW id, NEW state \in {"UnFill", "Fill", "Failed"}, SetMessageState(u, id, state)
    PROVE  BackendInv'
  <1>1. MessagesAgree(my.messages, lite.messages) /\ now \in Nat /\ state \in MessageState
    BY DEF BackendInv, MessageState
  <1>2. PICK M, L : /\ MessagesStep(my.messages, lite.messages, M, L)
                    /\ Write("state", "messages", M, L)
    <2>1. \A cid : /\ MessagesStep(my.messages, lite.messages, My!UpdateMessageStateByID(my.messages, id, state, now),
                                   Lite!UpdateMessageStateByID(lite.messages, id, state, now))
                   /\ MessagesStep(my.messages, lite.messages, My!MarkBadMessage(my.messages, id, now),
                                   Lite!MarkBadMessage(lite.messages, id, now))
                   /\ MessagesStep(my.messages, lite.messages, My!ExpireMessage(my.messages, {id}, now),
                                   Lite!ExpireMessage(lite.messages, {id}, now))
                   /\ MessagesStep(my.messages, lite.messages, My!UpdateMessageStateByCid(my.messages, cid, state, now),
                                   Lite!UpdateMessageStateByCid(lite.messages, cid, state, now))
      BY <1>1, StateWritten
    <2> QED
      BY Zenon, <2>1 DEF SetMessageState
  <1>3. my' = [my EXCEPT !.messages = M] /\ lite' = [lite EXCEPT !.messages = L] /\ now' = now + 1 /\ UNCHANGED <<scene, height, up>>
    BY Zenon, <1>2 DEF Write
  <1> QED
    BY <1>2, <1>3, MessagesWrite

Refilled(T, time, ids) == Each(LAMBDA U, id : My!UpdateMessageStateByID(U, id, "Fill", time), T, ids)
LiteRefilled(T, time, ids) == Each(LAMBDA U, id : Lite!UpdateMessageStateByID(U, id, "Fill", time), T, ids)
Marked(T, time, ids) == Each(LAMBDA U, id : My!MarkBadMessage(U, id, time), T, ids)
LiteMarked(T, time, ids) == Each(LAMBDA U, id : Lite!MarkBadMessage(U, id, time), T, ids)

(* Failed messages filled again. *)
LEMMA RecoverKept ==
    ASSUME BackendInv, NEW u, NEW from, RecoverFailedMsg(u, from)
    PROVE  BackendInv'
  <1>1. MessagesAgree(my.messages, lite.messages) /\ now \in Nat
    BY DEF BackendInv
  <1>2. PICK ids : Write("recover", "messages", Refilled(my.messages, now, ids), LiteRefilled(lite.messages, now, ids))
    BY Zenon DEF RecoverFailedMsg, Refilled, LiteRefilled
  <1> DEFINE M == Refilled(my.messages, now, ids)
             L == LiteRefilled(lite.messages, now, ids)
  <1>3. MessagesStep(my.messages, lite.messages, M, L)
    BY <1>1, EachWritten DEF Refilled, LiteRefilled
  <1>4. my' = [my EXCEPT !.messages = M] /\ lite' = [lite EXCEPT !.messages = L] /\ now' = now + 1 /\ UNCHANGED <<scene, height, up>>
    BY Zenon, <1>2 DEF Write
  <1> HIDE DEF M, L
  <1> QED
    BY <1>3, <1>4, MessagesWrite

(* A sender's messages marked as failed. *)
LEMMA RunClearKept ==
    ASSUME BackendInv, NEW h, RunClearUnFill(h)
    PROVE  BackendInv'
  <1>1. MessagesAgree(my.messages, lite.messages) /\ now \in Nat
    BY DEF BackendInv
  <1>2. now' = now + 1 /\ UNCHANGED <<scene, height, up>>
    BY Zenon DEF RunClearUnFill
  <1>3. CASE UNCHANGED <<my, lite>>
    BY <1>2, <1>3 DEF BackendInv
  <1>4. CASE ~UNCHANGED <<my, lite>>
    <2>1. PICK c :
            /\ my' = [my EXCEPT !.messages = Marked(my.messages, now, {m.id : m \in My!ListUnFilledMessage(my.messages, ClearOf[c])})]
            /\ lite' = [lite EXCEPT !.messages = LiteMarked(lite.messages, now, {m.id : m \in Lite!ListUnFilledMessage(lite.messages, ClearOf[c])})]
      BY Zenon, <1>4 DEF RunClearUnFill, Marked, LiteMarked
    <2> DEFINE jds == {m.id : m \in My!ListUnFilledMessage(my.messages, ClearOf[c])}
               ids == {m.id : m \in Lite!ListUnFilledMessage(lite.messages, ClearOf[c])}
               M == Marked(my.messages, now, jds)
               L == LiteMarked(lite.messages, now, ids)
    <2>2. \A r \in lite.messages : Holds(r) => (r.id \in ids <=> r.id \in jds)
      <3>1. \A r \in lite.messages : RowOK(r) /\ \A q \in lite.messages : q.id = r.id => q = r
        BY <1>1 DEF MessagesAgree
      <3>2. \A r \in lite.messages : Lite!Message(r).id = r.id /\ My!Message(r).id = r.id
        BY <3>1, MessageRead
      <3>3. \A x : x \in ids <=> \E r \in lite.messages : x = r.id /\ r.from = ClearOf[c] /\ r.state = "UnFill"
        BY <3>2 DEF Lite!ListUnFilledMessage, Lite!Find
      <3>4. \A x : x \in jds <=> \E r \in lite.messages : Holds(r) /\ x = r.id /\ r.from = ClearOf[c] /\ r.state = "UnFill"
        BY <1>1, <3>2 DEF My!ListUnFilledMessage, My!Messages, MessagesAgree
      <3> HIDE DEF ids, jds
      <3> QED
        BY <3>1, <3>3, <3>4
    <2>3. my' = [my EXCEPT !.messages = M] /\ lite' = [lite EXCEPT !.messages = L]
      BY Zenon, <2>1
    <2> HIDE DEF ids, jds
    <2>4. MessagesStep(my.messages, lite.messages, M, L)
      BY <1>1, <2>2, EachWritten DEF Marked, LiteMarked
    <2> HIDE DEF M, L
    <2> QED
      BY <1>2, <2>3, <2>4, MessagesWrite
  <1> QED
    BY <1>3, <1>4

(* A push: the row of a new sender, and the message. *)
LEMMA PushKept ==
    ASSUME BackendInv, NEW u, NEW id \in MsgId, NEW from \in Addr, PushMessage(u, id, from)
    PROVE  BackendInv'
  <1> DEFINE M == My!CreateMessage(my.messages, NewMessage(id, from), now)
             L == Lite!CreateMessage(lite.messages, NewMessage(id, from), now)
             A == IF My!HasAddress(my.addresses, from) THEN my.addresses ELSE My!SaveAddress(my.addresses, NewAddress(from), now)
             B == IF Lite!HasAddress(lite.addresses, from) THEN lite.addresses
                  ELSE Lite!SaveAddress(lite.addresses, NewAddress(from), now)
  <1>1. /\ MessagesAgree(my.messages, lite.messages) /\ AddressesAgree(my.addresses, lite.addresses) /\ now \in Nat
        /\ up /\ \A r \in lite.addresses : r.addr[1] = "f"
    BY DEF BackendInv, PushMessage
  <1>2. my' = [my EXCEPT !.addresses = A, !.messages = M] /\ lite' = [lite EXCEPT !.addresses = B, !.messages = L]
    BY Zenon DEF PushMessage
  <1>3. now' = now + 1 /\ UNCHANGED <<scene, height, up>>
    BY Zenon DEF PushMessage
  <1>4. MessagesStep(my.messages, lite.messages, M, L)
    BY <1>1, MessageCreated
  <1>5. AddressesAgree(A, B) /\ (\A r \in B : r.addr[1] = "f") /\ lite.addresses \subseteq B
    <2> DEFINE known == \E r \in lite.addresses : r.addr = <<"f", from>>
    <2>1. (My!HasAddress(my.addresses, from) <=> known) /\ (Lite!HasAddress(lite.addresses, from) <=> known)
      BY <1>1, AddressNamed
    <2>2. CASE known
      <3>1. A = my.addresses /\ B = lite.addresses
        BY <2>1, <2>2
      <3> QED
        BY <1>1, <3>1
    <2>3. CASE ~known
      <3>1. A = My!SaveAddress(my.addresses, NewAddress(from), now) /\ B = Lite!SaveAddress(lite.addresses, NewAddress(from), now)
        BY <2>1, <2>3
      <3>2. AddressesAgree(A, B) /\ \E row : row.addr = <<"f", from>> /\ B = lite.addresses \cup {row}
        <4>1. Unknown(lite.addresses, from)
          BY <2>3 DEF Unknown
        <4> HIDE DEF A, B, M, L, known
        <4>2. /\ AddressesAgree(My!SaveAddress(my.addresses, NewAddress(from), now), Lite!SaveAddress(lite.addresses, NewAddress(from), now))
              /\ RowAdded(Lite!SaveAddress(lite.addresses, NewAddress(from), now), lite.addresses, from)
          BY <1>1, <4>1, AddressSaved
        <4> QED
          BY <3>1, <4>2 DEF RowAdded
      <3> HIDE DEF A, B
      <3> QED
        BY <1>1, <3>2
    <2> QED
      BY <2>2, <2>3
  <1> HIDE DEF M, L, A, B
  <1>6. "address" \notin scene.calls => NoncesFollow(L, B)
    <2>1. "address" \notin scene.calls => NoncesFollow(L, lite.addresses)
      BY <1>4 DEF MessagesStep, BackendInv
    <2> QED
      BY <1>5, <2>1 DEF NoncesFollow
  <1>7. MessagesAgree(M, L)
    BY <1>4 DEF MessagesStep
  <1> QED
    BY <1>2, <1>3, <1>5, <1>6, <1>7, BothWritten

LEMMA NonceWritten ==
    ASSUME NEW M, NEW L, AddressesAgree(M, L), NEW from, NEW n \in Nat, NEW time \in Nat
    PROVE  /\ AddressesAgree(My!UpdateNonce(M, from, n, time), Lite!UpdateNonce(L, from, n, time))
           /\ Lite!UpdateNonce(L, from, n, time) = NonceMoved(L, from, n, time)
           /\ Named(Lite!UpdateNonce(L, from, n, time)) = Named(L)
  <1>1. PICK st \in AddrState : TRUE
    BY DEF AddrState
  <1>2. PICK num \in Nat : num = 0
    OBVIOUS
  <1>3. /\ AddressesAgree(My!UpdateNonce(M, from, n, time), Lite!UpdateNonce(L, from, n, time))
        /\ Lite!UpdateNonce(L, from, n, time) = NonceMoved(L, from, n, time)
        /\ AddressesAgree(My!UpdateState(M, from, st, time), Lite!UpdateState(L, from, st, time))
        /\ AddressesAgree(My!UpdateSelectMsgNum(M, from, num, time), Lite!UpdateSelectMsgNum(L, from, num, time))
        /\ Named(Lite!UpdateNonce(L, from, n, time)) = Named(L)
        /\ Named(Lite!UpdateState(L, from, st, time)) = Named(L)
        /\ Named(Lite!UpdateSelectMsgNum(L, from, num, time)) = Named(L)
    BY SMTT(60), <1>1, <1>2, AddressWritten
  <1> QED
    BY <1>3

(* A selection: the message takes the sender's nonce, which moves on, or the reason is saved. *)
LEMMA SelectKept ==
    ASSUME BackendInv, NEW id, Select(id)
    PROVE  BackendInv'
  <1>1. /\ MessagesAgree(my.messages, lite.messages) /\ AddressesAgree(my.addresses, lite.addresses) /\ now \in Nat
        /\ up => \A r \in lite.addresses : r.addr[1] = "f"
    BY DEF BackendInv
  <1>2. PICK m, k, a :
          /\ m \in My!GetMessageByUid(my.messages, id) /\ k \in Lite!GetMessageByUid(lite.messages, id)
          /\ a \in My!GetAddress(my.addresses, m.from)
          /\ now' = now + 1 /\ UNCHANGED <<scene, height, up>>
          /\ \/ /\ my' = [my EXCEPT !.messages = My!UpdateMessage(my.messages, ToSignedMsg(m, a.nonce, 1), now),
                                    !.addresses = My!UpdateNonce(my.addresses, m.from, a.nonce + 1, now)]
                /\ lite' = [lite EXCEPT !.messages = Lite!UpdateMessage(lite.messages, ToSignedMsg(k, a.nonce, 1), now),
                                        !.addresses = Lite!UpdateNonce(lite.addresses, m.from, a.nonce + 1, now)]
             \/ /\ my' = [my EXCEPT !.messages = My!UpdateErrMsg(my.messages, id, 1, now)]
                /\ lite' = [lite EXCEPT !.messages = Lite!UpdateErrMsg(lite.messages, id, 1, now)]
    BY Zenon DEF Select
  <1>3. CASE my' = [my EXCEPT !.messages = My!UpdateErrMsg(my.messages, id, 1, now)]
             /\ lite' = [lite EXCEPT !.messages = Lite!UpdateErrMsg(lite.messages, id, 1, now)]
    <2> DEFINE M == My!UpdateErrMsg(my.messages, id, 1, now)
               L == Lite!UpdateErrMsg(lite.messages, id, 1, now)
    <2>1. MessagesStep(my.messages, lite.messages, M, L)
      BY <1>1, ErrWritten
    <2>2. my' = [my EXCEPT !.messages = M] /\ lite' = [lite EXCEPT !.messages = L]
      BY <1>3
    <2> HIDE DEF M, L
    <2> QED
      BY <1>2, <2>1, <2>2, MessagesWrite
  <1>4. CASE /\ my' = [my EXCEPT !.messages = My!UpdateMessage(my.messages, ToSignedMsg(m, a.nonce, 1), now),
                                 !.addresses = My!UpdateNonce(my.addresses, m.from, a.nonce + 1, now)]
             /\ lite' = [lite EXCEPT !.messages = Lite!UpdateMessage(lite.messages, ToSignedMsg(k, a.nonce, 1), now),
                                     !.addresses = Lite!UpdateNonce(lite.addresses, m.from, a.nonce + 1, now)]
    <2>1. PICK c \in lite.messages : c.id = id /\ Holds(c) /\ m = My!Message(c) /\ m.from = c.from
      BY <1>1, <1>2, RowRead
    <2>2. k = Lite!Message(c)
      <3>1. PICK q \in lite.messages : q.id = id /\ k = Lite!Message(q)
        BY <1>1, <1>2, RowRead
      <3> QED
        BY <1>1, <2>1, <3>1 DEF MessagesAgree
    <2>3. PICK r \in lite.addresses : r.addr = <<"f", c.from>> /\ a.nonce = r.nonce
      <3>1. PICK s \in my.addresses : s.addr = My!AddressNamed(m.from) /\ ~s.deleted /\ a = My!Address(s)
        BY <1>2 DEF My!GetAddress
      <3>2. PICK r \in lite.addresses : s = Rounded(r) /\ r \in AddressRow
        BY <1>1 DEF AddressesAgree
      <3>3. s \in AddressRow /\ s.addr = r.addr /\ s.nonce = r.nonce
        BY <3>2, RoundedRow
      <3>4. a.nonce = s.nonce
        BY <3>1, <3>3 DEF My!Address, AddressRow
      <3> QED
        BY <2>1, <3>1, <3>3, <3>4 DEF My!AddressNamed
    <2>4. PICK n \in Nat : n = a.nonce /\ n + 1 \in Nat
      BY <1>1, <2>3 DEF AddressesAgree, AddressRow
    <2> DEFINE M == My!UpdateMessage(my.messages, ToSignedMsg(My!Message(c), n, 1), now)
               L == Lite!UpdateMessage(lite.messages, ToSignedMsg(Lite!Message(c), n, 1), now)
               A == My!UpdateNonce(my.addresses, c.from, n + 1, now)
               B == Lite!UpdateNonce(lite.addresses, c.from, n + 1, now)
    <2>5. my' = [my EXCEPT !.messages = M, !.addresses = A] /\ lite' = [lite EXCEPT !.messages = L, !.addresses = B]
      BY Zenon, <1>4, <2>1, <2>2, <2>4
    <2>6. /\ MessagesAgree(M, L)
          /\ L = SignedIn(lite.messages, c, n, now)
      BY <1>1, <2>1, MessageSigned DEF SignedIn
    <2>7. /\ AddressesAgree(A, B)
          /\ B = NonceMoved(lite.addresses, c.from, n + 1, now)
          /\ Named(B) = Named(lite.addresses)
      BY <1>1, <2>4, NonceWritten
    <2>8. "address" \notin scene.calls => NoncesFollow(L, B)
      <3>1. \A q \in lite.messages : RowOK(q)
        BY <1>1 DEF MessagesAgree
      <3>2. \A q \in lite.addresses : q \in AddressRow /\ \A x \in lite.addresses : x.addr = q.addr => x = q
        BY <1>1 DEF AddressesAgree
      <3>3. n = r.nonce
        BY <2>3, <2>4
      <3>4. NoncesFollow(lite.messages, lite.addresses)
            => NoncesFollow(SignedIn(lite.messages, c, n, now), NonceMoved(lite.addresses, c.from, n + 1, now))
        BY <1>1, <2>3, <3>1, <3>2, <3>3, NoncesSigned
      <3>5. "address" \notin scene.calls => NoncesFollow(lite.messages, lite.addresses)
        BY DEF BackendInv
      <3> HIDE DEF L, B
      <3> QED
        BY <2>6, <2>7, <3>4, <3>5
    <2> HIDE DEF M, L, A, B
    <2>9. up => \A q \in B : q.addr[1] = "f"
      <3> SUFFICES ASSUME up, NEW q \in B PROVE q.addr[1] = "f"
        OBVIOUS
      <3>1. q.addr \in Named(lite.addresses)
        BY <2>7 DEF Named
      <3> QED
        BY <1>1, <3>1 DEF Named
    <2> QED
      BY <1>2, <2>5, <2>6, <2>7, <2>8, <2>9, BothWritten
  <1> QED
    BY <1>2, <1>3, <1>4

(* The fees that are given are nil or numbers. *)
LEMMA GivenFees == (\A ratio \in Ratios : ratio \in Nat) /\ (\A fee \in Fees : fee \in Seq(Nat))
  <1>1. \A ratio \in Ratios : ratio \in Nat
    BY DEF Ratios
  <1>2. <<>> \in Seq(Nat) /\ <<0>> \in Seq(Nat) /\ <<5>> \in Seq(Nat)
    OBVIOUS
  <1>3. \A fee \in Fees : fee \in Seq(Nat)
    BY Zenon, <1>2 DEF Fees
  <1> QED
    BY <1>1, <1>3

(* What an operator does to an address. *)
LEMMA AddressKept ==
    ASSUME BackendInv, NEW u, NEW from, AddressCall(u, from) \/ SetFeeParams(u, from)
    PROVE  BackendInv'
  <1>1. AddressesAgree(my.addresses, lite.addresses) /\ now \in Nat
    BY DEF BackendInv
  <1>2. PICK A, B : /\ AddressesAgree(A, B) /\ Named(B) \subseteq Named(lite.addresses)
                    /\ Write("address", "addresses", A, B)
    <2>1. CASE SetFeeParams(u, from)
      <3>1. PICK ratio \in Ratios, fee \in Fees :
              Write("address", "addresses", My!UpdateFeeParams(my.addresses, from, ratio, fee, now),
                    Lite!UpdateFeeParams(lite.addresses, from, ratio, fee, now))
        BY <2>1 DEF SetFeeParams
      <3>2. ratio \in Nat /\ fee \in Seq(Nat)
        BY GivenFees
      <3>3. /\ AddressesAgree(My!UpdateFeeParams(my.addresses, from, ratio, fee, now), Lite!UpdateFeeParams(lite.addresses, from, ratio, fee, now))
            /\ Named(Lite!UpdateFeeParams(lite.addresses, from, ratio, fee, now)) = Named(lite.addresses)
        BY <1>1, <3>2, FeeWritten
      <3> QED
        BY <3>1, <3>3
    <2>2. ASSUME NEW n \in Nat, NEW st \in AddrState
          PROVE  /\ AddressesAgree(My!UpdateNonce(my.addresses, from, n, now), Lite!UpdateNonce(lite.addresses, from, n, now))
                 /\ Named(Lite!UpdateNonce(lite.addresses, from, n, now)) = Named(lite.addresses)
                 /\ AddressesAgree(My!UpdateState(my.addresses, from, st, now), Lite!UpdateState(lite.addresses, from, st, now))
                 /\ Named(Lite!UpdateState(lite.addresses, from, st, now)) = Named(lite.addresses)
                 /\ AddressesAgree(My!UpdateSelectMsgNum(my.addresses, from, n, now), Lite!UpdateSelectMsgNum(lite.addresses, from, n, now))
                 /\ Named(Lite!UpdateSelectMsgNum(lite.addresses, from, n, now)) = Named(lite.addresses)
      BY <1>1, AddressWritten
    <2>3. "Alive" \in AddrState /\ "Forbidden" \in AddrState /\ 0 \in Nat /\ 2 \in Nat /\ 3 \in Nat
      BY DEF AddrState
    <2>4. ASSUME NEW n \in {0, 3},
                 Write("address", "addresses", My!UpdateNonce(my.addresses, from, n, now), Lite!UpdateNonce(lite.addresses, from, n, now))
          PROVE  \E A, B : /\ AddressesAgree(A, B) /\ Named(B) \subseteq Named(lite.addresses)
                           /\ Write("address", "addresses", A, B)
      BY <2>2, <2>3, <2>4
    <2>5. ASSUME NEW st \in {"Alive", "Forbidden"},
                 Write("address", "addresses", My!UpdateState(my.addresses, from, st, now), Lite!UpdateState(lite.addresses, from, st, now))
          PROVE  \E A, B : /\ AddressesAgree(A, B) /\ Named(B) \subseteq Named(lite.addresses)
                           /\ Write("address", "addresses", A, B)
      <3>1. st \in AddrState
        BY DEF AddrState
      <3> QED
        BY <2>2, <2>3, <2>5, <3>1
    <2>6. ASSUME Write("address", "addresses", My!UpdateSelectMsgNum(my.addresses, from, 2, now),
                       Lite!UpdateSelectMsgNum(lite.addresses, from, 2, now))
          PROVE  \E A, B : /\ AddressesAgree(A, B) /\ Named(B) \subseteq Named(lite.addresses)
                           /\ Write("address", "addresses", A, B)
      BY <2>2, <2>3, <2>6
    <2>7. ASSUME Write("address", "addresses", My!DelAddress(my.addresses, <<"f", from>>), Lite!DelAddress(lite.addresses, <<"f", from>>))
          PROVE  \E A, B : /\ AddressesAgree(A, B) /\ Named(B) \subseteq Named(lite.addresses)
                           /\ Write("address", "addresses", A, B)
      <3>1. /\ AddressesAgree(My!DelAddress(my.addresses, <<"f", from>>), Lite!DelAddress(lite.addresses, <<"f", from>>))
            /\ Lite!DelAddress(lite.addresses, <<"f", from>>) \subseteq lite.addresses
        BY <1>1, AddressDeleted
      <3>2. Named(Lite!DelAddress(lite.addresses, <<"f", from>>)) \subseteq Named(lite.addresses)
        BY <3>1 DEF Named
      <3> QED
        BY Zenon, <2>7, <3>1, <3>2
    <2>8. CASE AddressCall(u, from)
      BY Zenon, <2>4, <2>5, <2>6, <2>7, <2>8 DEF AddressCall
    <2> QED
      BY <2>1, <2>8
  <1>3. my' = [my EXCEPT !.addresses = A] /\ lite' = [lite EXCEPT !.addresses = B] /\ now' = now + 1 /\ UNCHANGED <<scene, height, up>>
    BY Zenon, <1>2 DEF Write
  <1>4. "address" \in scene.calls /\ up
    BY Zenon, <1>2 DEF Write
  <1>5. \A r \in lite.addresses : r.addr[1] = "f"
    BY <1>4 DEF BackendInv
  <1>6. \A q \in B : q.addr[1] = "f"
    <2> SUFFICES ASSUME NEW q \in B PROVE q.addr[1] = "f"
      OBVIOUS
    <2>1. q.addr \in Named(lite.addresses)
      BY <1>2 DEF Named
    <2> QED
      BY <1>5, <2>1 DEF Named
  <1> QED
    BY <1>2, <1>3, <1>4, <1>6, AddressesWrite

(* The start: the migration, and the default parameters if there are none. *)
LEMMA StartKept ==
    ASSUME BackendInv, Fresh, Start
    PROVE  BackendInv'
  <1> DEFINE T == scene.old
             A == MigrateAddress(T, My!ListAddress(T), {My!fromAddress(a, now) : a \in Missing(T, My!ListAddress(T))})
             B == Migrated(T, now)
             X == NewSharedParams(my.shared, My!SetSharedParams(my.shared, DefSharedParams))
             Y == NewSharedParams(lite.shared, Lite!SetSharedParams(lite.shared, DefSharedParams))
  <1>1. lite = EmptyTables(scene.old) /\ scene \in Scenes /\ now \in Nat
    BY DEF BackendInv, Fresh, Start
  <1>2. lite.addresses = T /\ lite.messages = {}
    BY <1>1 DEF EmptyTables, Tables
  <1>3. /\ IsFiniteSet(T)
        /\ \A r \in T : /\ r \in AddressRow /\ ~r.deleted /\ r.id = r.addr /\ My!Decimal2(r.overEst) = r.overEst
                        /\ \A q \in T : q.addr = r.addr => q = r
    BY <1>1, OldRowsAssumption
  <1>4. my.addresses = T
    <2>1. my.addresses = {Rounded(r) : r \in T}
      BY <1>2 DEF BackendInv, AddressesAgree
    <2>2. \A r \in T : Rounded(r) = r
      BY <1>3 DEF Rounded, AddressRow
    <2> QED
      BY <2>1, <2>2
  <1>5. my' = [my EXCEPT !.addresses = A, !.shared = X] /\ lite' = [lite EXCEPT !.addresses = B, !.shared = Y]
    BY Zenon, <1>2, <1>4 DEF Start, Migrated
  <1>6. up' /\ UNCHANGED <<scene, now, height>>
    BY Zenon DEF Start
  <1>7. AddressesAgree(A, B) /\ \A r \in B : r.addr[1] = "f"
    BY <1>1, <1>3, MigratedAgree
  <1>8. SharedAgree(X, Y)
    <2>0. PICK id \in Nat, num \in Nat, ratio \in Nat : id = 1 /\ num = 20 /\ ratio = 1250
      OBVIOUS
    <2>1. PICK fee : fee = <<7>>
      OBVIOUS
    <2>6. fee \in Seq(Nat)
      BY <2>1
    <2>2. PICK p : p = [id |-> id, selNum |-> num, maxFee |-> fee, overEst |-> ratio]
      OBVIOUS
    <2>3. p = DefSharedParams
      BY Zenon, <2>0, <2>1, <2>2 DEF DefSharedParams
    <2>4. SharedAgree(my.shared, lite.shared)
      BY DEF BackendInv
    <2>5. SharedAgree(NewSharedParams(my.shared, My!SetSharedParams(my.shared, p)),
                      NewSharedParams(lite.shared, Lite!SetSharedParams(lite.shared, p)))
      BY <2>2, <2>4, <2>6, SharedWritten
    <2> QED
      BY Zenon, <2>3, <2>5
  <1> HIDE DEF A, B, X, Y
  <1>9. Holding(my', my.messages, A, my.cfgs, X, my.nodes) /\ Holding(lite', lite.messages, B, lite.cfgs, Y, lite.nodes)
    BY Zenon, <1>5, TablesAfter DEF BackendInv
  <1>10. NoncesFollow(lite.messages, B)
    BY <1>2 DEF NoncesFollow
  <1> QED
    BY <1>6, <1>7, <1>8, <1>9, <1>10 DEF BackendInv, Holding

(* The methods of the configurations are numbers of Width bits. *)
LEMMA MethodsFit == \A method \in Methods : method \in Int /\ method \in 0..(2 ^ Width - 1)
  <1> DEFINE h == 2 ^ (Width - 1)
             w == 2 ^ Width
  <1>1. h \in Nat /\ h >= 4 /\ w = 2 * h
    BY WidthAssumption
  <1> SUFFICES ASSUME NEW method \in {1, w - 4} PROVE method \in Int /\ method \in 0..(w - 1)
    BY DEF Methods
  <1> HIDE DEF h, w
  <1> QED
    BY <1>1

(* The parameters, the configurations and the nodes. *)
LEMMA ParamsKept ==
    ASSUME BackendInv, SetSharedParams \/ SaveActorCfg \/ UpdateActorCfg \/ DelActorCfg \/ SaveNode \/ DeleteNode
    PROVE  BackendInv'
  <1>1. /\ SharedAgree(my.shared, lite.shared) /\ CfgsAgree(my.cfgs, lite.cfgs)
        /\ NodesMatch(my.nodes, lite.nodes) /\ now \in Nat
    BY DEF BackendInv
  <1>2. ASSUME NEW A, NEW B, SharedAgree(A, B), Write("params", "shared", A, B) PROVE BackendInv'
    <2>1. my' = [my EXCEPT !.shared = A] /\ lite' = [lite EXCEPT !.shared = B] /\ now' = now + 1 /\ UNCHANGED <<scene, height, up>>
      BY Zenon, <1>2 DEF Write
    <2> QED
      BY <1>2, <2>1, SharedWrite
  <1>3. ASSUME NEW A, NEW B, CfgsAgree(A, B), Write("params", "cfgs", A, B) PROVE BackendInv'
    <2>1. my' = [my EXCEPT !.cfgs = A] /\ lite' = [lite EXCEPT !.cfgs = B] /\ now' = now + 1 /\ UNCHANGED <<scene, height, up>>
      BY Zenon, <1>3 DEF Write
    <2> QED
      BY <1>3, <2>1, CfgsWrite
  <1>4. ASSUME NEW A, NEW B, NodesMatch(A, B), Write("params", "nodes", A, B) PROVE BackendInv'
    <2>1. my' = [my EXCEPT !.nodes = A] /\ lite' = [lite EXCEPT !.nodes = B] /\ now' = now + 1 /\ UNCHANGED <<scene, height, up>>
      BY Zenon, <1>4 DEF Write
    <2> QED
      BY <1>4, <2>1, NodesWrite
  <1>5. CASE SetSharedParams
    <2>1. PICK ratio \in Ratios, fee \in Fees :
            Write("params", "shared", My!SetSharedParams(my.shared, [id |-> 0, selNum |-> 5, maxFee |-> fee, overEst |-> ratio]),
                  Lite!SetSharedParams(lite.shared, [id |-> 0, selNum |-> 5, maxFee |-> fee, overEst |-> ratio]))
      BY Zenon, <1>5 DEF SetSharedParams
    <2>2. PICK p : p = [id |-> 0, selNum |-> 5, maxFee |-> fee, overEst |-> ratio]
      OBVIOUS
    <2>3. ratio \in Nat /\ fee \in Seq(Nat)
      BY GivenFees
    <2>4. SharedAgree(My!SetSharedParams(my.shared, p), Lite!SetSharedParams(lite.shared, p))
      BY <1>1, <2>2, <2>3, SharedWritten
    <2> QED
      BY Zenon, <1>2, <2>1, <2>2, <2>4
  <1>6. CASE SaveActorCfg
    <2>1. PICK id \in {1, 2}, code \in {0, 1}, method \in Methods :
            \E c : /\ c = [id |-> id, code |-> code, method |-> method, maxFee |-> <<>>, overEst |-> 1255]
                  /\ Write("params", "cfgs", My!SaveActorCfg(my.cfgs, c), Lite!SaveActorCfg(lite.cfgs, c))
      BY <1>6 DEF SaveActorCfg
    <2>2. PICK c : /\ c = [id |-> id, code |-> code, method |-> method, maxFee |-> <<>>, overEst |-> 1255]
                   /\ Write("params", "cfgs", My!SaveActorCfg(my.cfgs, c), Lite!SaveActorCfg(lite.cfgs, c))
      BY <2>1
    <2>3. PICK nil, ratio : nil = <<>> /\ ratio = 1255
      OBVIOUS
    <2>4. id \in Nat /\ code \in Nat /\ ratio \in Nat
      BY <2>3
    <2>5. method \in Int /\ method \in 0..(2 ^ Width - 1)
      BY MethodsFit
    <2>6. c = [id |-> id, code |-> code, method |-> method, maxFee |-> nil, overEst |-> ratio]
      BY Zenon, <2>2, <2>3
    <2>7. CfgsAgree(My!SaveActorCfg(my.cfgs, c), Lite!SaveActorCfg(lite.cfgs, c))
      BY <1>1, <2>3, <2>4, <2>5, <2>6, CfgSaved
    <2>8. Write("params", "cfgs", My!SaveActorCfg(my.cfgs, c), Lite!SaveActorCfg(lite.cfgs, c))
      BY <2>2
    <2> QED
      BY Zenon, <1>3, <2>7, <2>8
  <1>7. CASE UpdateActorCfg
    <2>1. PICK id \in {1, 2}, ratio \in {<<>>, <<0>>}, fee \in Fees :
            Write("params", "cfgs", My!UpdateSelectSpecById(my.cfgs, id, ratio, fee),
                  Lite!UpdateSelectSpecById(lite.cfgs, id, ratio, fee))
      BY <1>7 DEF UpdateActorCfg
    <2>2. <<>> \in Seq(Nat) /\ <<0>> \in Seq(Nat)
      OBVIOUS
    <2>3. ratio \in Seq(Nat)
      BY Zenon, <2>2
    <2>4. fee \in Seq(Nat)
      BY GivenFees
    <2>5. CfgsAgree(My!UpdateSelectSpecById(my.cfgs, id, ratio, fee), Lite!UpdateSelectSpecById(lite.cfgs, id, ratio, fee))
      BY <1>1, <2>3, <2>4, CfgUpdated
    <2> QED
      BY <1>3, <2>1, <2>5
  <1>8. CASE DelActorCfg
    <2>1. ASSUME NEW method \in Methods
          PROVE  CfgsAgree(My!DelActorCfgByMethodType(my.cfgs, 1, method), Lite!DelActorCfgByMethodType(lite.cfgs, 1, method))
      BY <1>1, MethodsFit, CfgDeleted
    <2>2. ASSUME NEW id
          PROVE  CfgsAgree(My!DelActorCfgById(my.cfgs, id), Lite!DelActorCfgById(lite.cfgs, id))
      <3>1. PICK method \in Methods : TRUE
        BY DEF Methods
      <3> QED
        BY <1>1, <3>1, MethodsFit, CfgDeleted
    <2> QED
      BY Zenon, <1>3, <1>8, <2>1, <2>2 DEF DelActorCfg
  <1>9. CASE SaveNode
    <2>1. PICK id \in NodeIds, name \in {"n", "m"}, created \in {0} \cup {q.created : q \in Lite!ListNode(lite.nodes)} :
            \E n : /\ n = [id |-> id, name |-> name, created |-> created, updated |-> 0]
                  /\ Write("params", "nodes", My!SaveNode(my.nodes, n, now), Lite!SaveNode(lite.nodes, n, now))
      BY Zenon, <1>9 DEF SaveNode
    <2>2. PICK n : /\ n = [id |-> id, name |-> name, created |-> created, updated |-> 0]
                   /\ Write("params", "nodes", My!SaveNode(my.nodes, n, now), Lite!SaveNode(lite.nodes, n, now))
      BY <2>1
    <2>3. id \in Nat
      BY DEF NodeIds
    <2>4. created \in Nat
      <3>1. \A q \in lite.nodes : Lite!Node(q).created \in Nat
        BY <1>1 DEF NodesMatch, NodeRow, Lite!Node
      <3> QED
        BY <3>1 DEF Lite!ListNode, Lite!Live
    <2>5. NodesMatch(My!SaveNode(my.nodes, n, now), Lite!SaveNode(lite.nodes, n, now))
      BY <1>1, <2>2, <2>3, <2>4, NodesWritten
    <2> QED
      BY Zenon, <1>4, <2>2, <2>5
  <1>10. CASE DeleteNode
    <2>1. PICK name, id : Write("params", "nodes", My!DelNode(my.nodes, name, id, now), Lite!DelNode(lite.nodes, name, id, now))
      BY Zenon, <1>10 DEF DeleteNode
    <2>2. NodesMatch(My!DelNode(my.nodes, name, id, now), Lite!DelNode(lite.nodes, name, id, now))
      BY <1>1, NodeRemoved
    <2> QED
      BY Zenon, <1>4, <2>1, <2>2
  <1> QED
    BY <1>5, <1>6, <1>7, <1>8, <1>9, <1>10

LEMMA BackendKept == BackendInv /\ Fresh /\ [Next]_vars => BackendInv'
  <1> SUFFICES ASSUME BackendInv, Fresh, [Next]_vars PROVE BackendInv'
    OBVIOUS
  <1>1. ASSUME UNCHANGED <<scene, my, lite, now, up>>, height' \in Nat PROVE BackendInv'
    BY <1>1 DEF BackendInv, IsTables
  <1>2. CASE UNCHANGED vars
    BY <1>1, <1>2 DEF vars, BackendInv
  <1>3. CASE NewHeight \/ Wait \/ Clear
    <2>1. UNCHANGED <<scene, my, lite, now, up>> /\ (height' = height + 1 \/ height' = height)
      BY Zenon, <1>3 DEF NewHeight, Wait, Clear, Unwritten
    <2> QED
      BY <1>1, <2>1 DEF BackendInv
  <1>4. CASE \E u \in Callable, id \in MsgId, from \in Addr : PushMessage(u, id, from)
    BY <1>4, PushKept
  <1>5. CASE \E id \in MsgId : Select(id) \/ Revert(id)
    BY <1>5, SelectKept, InfoKept
  <1>6. CASE \E u \in Callable, id \in MsgId : UpdateInfo(u, id) \/ Replace(u, id)
    BY <1>6, InfoKept, ReplaceKept
  <1>7. CASE \E u \in Callable, id \in MsgId, state \in {"UnFill", "Fill", "Failed"} : SetMessageState(u, id, state)
    BY <1>7, StateKept
  <1>8. CASE \E u \in Callable, from \in Addr : RecoverFailedMsg(u, from) \/ AddressCall(u, from) \/ SetFeeParams(u, from)
    BY <1>8, RecoverKept, AddressKept
  <1>9. CASE \E h \in Goroutine : RunClearUnFill(h)
    BY <1>9, RunClearKept
  <1>10. CASE SetSharedParams \/ SaveActorCfg \/ UpdateActorCfg \/ DelActorCfg \/ SaveNode \/ DeleteNode
    BY <1>10, ParamsKept
  <1>11. CASE Start
    BY <1>11, StartKept
  <1> QED
    BY Zenon, <1>2, <1>3, <1>4, <1>5, <1>6, <1>7, <1>8, <1>9, <1>10, <1>11 DEF Next

LEMMA BackendInit == Init => BackendInv
  <1> SUFFICES ASSUME Init PROVE BackendInv
    OBVIOUS
  <1>1. /\ scene \in Scenes /\ my = EmptyTables(scene.old) /\ lite = EmptyTables(scene.old) /\ now = 1 /\ height = 0 /\ ~up
    BY DEF Init
  <1>2. IsTables(my) /\ IsTables(lite)
    BY <1>1 DEF EmptyTables, IsTables
  <1>3. /\ my.messages = {} /\ my.cfgs = {} /\ my.shared = {} /\ my.nodes = {} /\ my.addresses = scene.old
        /\ lite.messages = {} /\ lite.cfgs = {} /\ lite.shared = {} /\ lite.nodes = {} /\ lite.addresses = scene.old
    BY <1>1 DEF EmptyTables, Tables
  <1>4. AddressesAgree(my.addresses, lite.addresses)
    <2>1. /\ IsFiniteSet(scene.old)
          /\ \A r \in scene.old : /\ r \in AddressRow /\ ~r.deleted /\ r.id = r.addr /\ My!Decimal2(r.overEst) = r.overEst
                                  /\ \A q \in scene.old : q.addr = r.addr => q = r
      BY <1>1, OldRowsAssumption
    <2>2. \A r \in scene.old : Rounded(r) = r
      BY <2>1 DEF Rounded, AddressRow
    <2> QED
      BY <1>3, <2>1, <2>2 DEF AddressesAgree
  <1>5. IsFiniteSet({})
    BY FS_EmptySet
  <1>6. MessagesAgree({}, {}) /\ CfgsAgree({}, {}) /\ SharedAgree({}, {}) /\ NoncesFollow({}, lite.addresses)
        /\ NodesMatch({}, {})
    BY <1>5 DEF MessagesAgree, CfgsAgree, SharedAgree, NoncesFollow, NodesMatch
  <1> QED
    BY <1>1, <1>2, <1>3, <1>4, <1>5, <1>6 DEF BackendInv

-----------------------------------------------------------------------------
(* What is read from databases that hold the same rows *)

(* Rows are read alike, up to the digits of the ratios. *)
LEMMA AddressRead ==
    ASSUME NEW r \in AddressRow
    PROVE  My!Address(Rounded(r)) = Rounded(Lite!Address(r))
  <1>1. PICK a, z, d, s : a = <<"f", r.addr[2]>> /\ z = <<r.maxFee>> /\ d = My!Decimal2(r.overEst) /\ s = Rounded(r)
    OBVIOUS
  <1>2. s = [r EXCEPT !.overEst = d] /\ s.addr = r.addr /\ s.maxFee = r.maxFee
    BY <1>1 DEF Rounded, AddressRow
  <1>3. My!Address(s) = [s EXCEPT !.addr = a, !.maxFee = z]
    BY <1>1, <1>2 DEF My!Address, AddressRow
  <1>4. PICK k : k = Lite!Address(r)
    OBVIOUS
  <1>5. k = [r EXCEPT !.addr = a, !.maxFee = z]
    BY <1>1, <1>4 DEF Lite!Address, Lite!NewFromGo, AddressRow
  <1>6. Rounded(k) = [k EXCEPT !.overEst = d]
    BY <1>1, <1>5 DEF Rounded, AddressRow
  <1>7. [s EXCEPT !.addr = a, !.maxFee = z] = [k EXCEPT !.overEst = d]
    BY <1>2, <1>5 DEF AddressRow
  <1> QED
    BY <1>1, <1>3, <1>4, <1>6, <1>7

LEMMA SharedRead ==
    ASSUME NEW r \in SharedRow
    PROVE  My!SharedParams(Rounded(r)) = Rounded(Lite!SharedParams(r))
  <1>1. PICK z, d, s, k : z = <<r.maxFee>> /\ d = My!Decimal2(r.overEst) /\ s = Rounded(r) /\ k = Lite!SharedParams(r)
    OBVIOUS
  <1>2. s = [r EXCEPT !.overEst = d] /\ s.maxFee = r.maxFee
    BY <1>1 DEF Rounded, SharedRow
  <1>3. My!SharedParams(s) = [s EXCEPT !.maxFee = z]
    BY <1>1, <1>2 DEF My!SharedParams
  <1>4. k = [r EXCEPT !.maxFee = z]
    BY <1>1 DEF Lite!SharedParams, Lite!NewFromGo
  <1>5. Rounded(k) = [k EXCEPT !.overEst = d]
    BY <1>1, <1>4 DEF Rounded, SharedRow
  <1>6. [s EXCEPT !.maxFee = z] = [k EXCEPT !.overEst = d]
    BY <1>2, <1>4 DEF SharedRow
  <1> QED
    BY <1>1, <1>3, <1>5, <1>6

LEMMA CfgRead ==
    ASSUME NEW r, CfgOK(r)
    PROVE  /\ My!ActorCfg(CfgInMysql(r)) = Rounded(Lite!ActorCfg(r))
           /\ My!ActorCfg(CfgInMysql(r)).id = r.id /\ Lite!ActorCfg(r).id = r.id
  <1>0. r \in CfgRow
    BY DEF CfgOK
  <1>1. PICK z, d, m, s, k : /\ z = <<r.maxFee>> /\ d = My!Decimal2(r.overEst) /\ m = Lite!Scan(r.method)
                             /\ s = CfgInMysql(r) /\ k = Lite!ActorCfg(r)
    OBVIOUS
  <1>2. s = [r EXCEPT !.method = m, !.overEst = d]
    BY <1>0, <1>1 DEF CfgInMysql, CfgRow
  <1>3. My!ActorCfg(s) = [s EXCEPT !.maxFee = z]
    BY <1>0, <1>1, <1>2 DEF My!ActorCfg, CfgRow
  <1>4. k = [r EXCEPT !.method = m, !.maxFee = z]
    BY <1>0, <1>1 DEF Lite!ActorCfg, Lite!NewFromGo, CfgRow
  <1>5. Rounded(k) = [k EXCEPT !.overEst = d]
    BY <1>0, <1>1, <1>4 DEF Rounded, CfgRow
  <1>6. [s EXCEPT !.maxFee = z] = [k EXCEPT !.overEst = d] /\ [s EXCEPT !.maxFee = z].id = r.id /\ k.id = r.id
    BY <1>0, <1>2, <1>4 DEF CfgRow
  <1> QED
    BY <1>1, <1>3, <1>5, <1>6

(* The first four conjuncts of BackendsAgree: whole tables. *)
LEMMA TablesRead ==
    ASSUME BackendInv
    PROVE  /\ My!ListMessage(my.messages) = {m \in Lite!ListMessage(lite.messages) : Fits(m)}
           /\ My!ListAddress(my.addresses) = {Rounded(a) : a \in Lite!ListAddress(lite.addresses)}
           /\ My!ListActorCfg(my.cfgs) = {Rounded(c) : c \in Lite!ListActorCfg(lite.cfgs)}
           /\ My!GetSharedParams(my.shared) = {Rounded(p) : p \in Lite!GetSharedParams(lite.shared)}
  <1>1. My!ListMessage(my.messages) = {m \in Lite!ListMessage(lite.messages) : Fits(m)}
    <2>1. PICK L, M : L = lite.messages /\ M = my.messages
      OBVIOUS
    <2>2. M = {r \in L : Holds(r)} /\ \A r \in L : RowOK(r)
      BY <2>1 DEF BackendInv, MessagesAgree
    <2>3. ASSUME NEW r \in L PROVE My!Message(r) = Lite!Message(r) /\ (Fits(Lite!Message(r)) <=> Holds(r))
      <3>1. My!Message(r) = Lite!Message(r) /\ Lite!Message(r).method = MethodOf[r.id]
        BY <2>2, MessageRead
      <3>2. PICK k : k = Lite!Message(r)
        OBVIOUS
      <3>3. My!Fits(k) <=> InRange(Lite!Value(k.method))
        BY SameColumns
      <3> QED
        BY <3>1, <3>2, <3>3 DEF Fits, Holds
    <2> QED
      BY <2>1, <2>2, <2>3 DEF My!ListMessage, My!Messages, Lite!ListMessage, Lite!Find
  <1>2. My!ListAddress(my.addresses) = {Rounded(a) : a \in Lite!ListAddress(lite.addresses)}
    <2>1. PICK L, M : L = lite.addresses /\ M = my.addresses
      OBVIOUS
    <2>2. M = {Rounded(r) : r \in L} /\ \A r \in L : r \in AddressRow /\ ~r.deleted
      BY <2>1 DEF BackendInv, AddressesAgree
    <2>3. \A r \in L : My!Address(Rounded(r)) = Rounded(Lite!Address(r)) /\ ~Rounded(r).deleted
      BY <2>2, AddressRead, RoundedRow
    <2> QED
      BY <2>1, <2>2, <2>3 DEF My!ListAddress, Lite!ListAddress, Lite!Live
  <1>3. My!ListActorCfg(my.cfgs) = {Rounded(c) : c \in Lite!ListActorCfg(lite.cfgs)}
    <2>1. PICK L, M : L = lite.cfgs /\ M = my.cfgs
      OBVIOUS
    <2>2. M = {CfgInMysql(r) : r \in L} /\ \A r \in L : CfgOK(r)
      BY <2>1 DEF BackendInv, CfgsAgree, CfgOK
    <2>3. \A r \in L : My!ActorCfg(CfgInMysql(r)) = Rounded(Lite!ActorCfg(r))
      BY <2>2, CfgRead
    <2> QED
      BY <2>1, <2>2, <2>3 DEF My!ListActorCfg, Lite!ListActorCfg
  <1>4. My!GetSharedParams(my.shared) = {Rounded(p) : p \in Lite!GetSharedParams(lite.shared)}
    <2>1. PICK L, M : L = lite.shared /\ M = my.shared
      OBVIOUS
    <2>2. M = {Rounded(r) : r \in L} /\ \A r \in L : r \in SharedRow
      BY <2>1 DEF BackendInv, SharedAgree
    <2>3. \A r \in L : My!SharedParams(Rounded(r)) = Rounded(Lite!SharedParams(r))
      BY <2>2, SharedRead
    <2> QED
      BY <2>1, <2>2, <2>3 DEF My!GetSharedParams, Lite!GetSharedParams
  <1> QED
    BY <1>1, <1>2, <1>3, <1>4

(* The others: single rows. *)
Ids(S) == {c.id : c \in S}

LEMMA CfgsFound ==
    ASSUME NEW M, NEW L, CfgsAgree(M, L)
    PROVE  /\ \A method \in 0..(2 ^ Width - 1) :
                {c.id : c \in My!GetActorCfgByMethodType(M, 1, method)} = {c.id : c \in Lite!GetActorCfgByMethodType(L, 1, method)}
           /\ \A id : Ids(My!GetActorCfgByID(M, id)) = Ids(Lite!GetActorCfgByID(L, id))
           /\ My!HasActorCfg(M, 1, 1) = Lite!HasActorCfg(L, 1, 1)
  <1>1. \A r \in L : CfgOK(r)
    BY DEF CfgsAgree, CfgOK
  <1>2. M = {CfgInMysql(r) : r \in L}
    BY DEF CfgsAgree
  <1>3. \A r \in L : /\ CfgInMysql(r).id = r.id /\ CfgInMysql(r).code = r.code /\ CfgInMysql(r).method = Lite!Scan(r.method)
                     /\ My!ActorCfg(CfgInMysql(r)).id = r.id /\ Lite!ActorCfg(r).id = r.id
    BY <1>1, CfgRead, CfgInMysqlRow
  <1>4. ASSUME NEW method \in 0..(2 ^ Width - 1)
        PROVE  {c.id : c \in My!GetActorCfgByMethodType(M, 1, method)} = {c.id : c \in Lite!GetActorCfgByMethodType(L, 1, method)}
    <2>1. \A r \in L : CfgInMysql(r).method = method <=> r.method = Lite!Value(method)
      BY <1>1, <1>3, CfgMethod
    <2>2. {c.id : c \in My!GetActorCfgByMethodType(M, 1, method)} = {r.id : r \in {x \in L : x.code = 1 /\ x.method = Lite!Value(method)}}
      BY <1>2, <1>3, <2>1 DEF My!GetActorCfgByMethodType
    <2>3. {c.id : c \in Lite!GetActorCfgByMethodType(L, 1, method)} = {r.id : r \in {x \in L : x.code = 1 /\ x.method = Lite!Value(method)}}
      BY <1>3 DEF Lite!GetActorCfgByMethodType
    <2> QED
      BY <2>2, <2>3
  <1>5. ASSUME NEW id
        PROVE  Ids(My!GetActorCfgByID(M, id)) = Ids(Lite!GetActorCfgByID(L, id))
    BY <1>2, <1>3 DEF Ids, My!GetActorCfgByID, Lite!GetActorCfgByID
  <1>6. My!HasActorCfg(M, 1, 1) = Lite!HasActorCfg(L, 1, 1)
    <2>1. 2 ^ (Width - 1) \in Nat /\ 2 ^ (Width - 1) >= 4 /\ 2 ^ Width = 2 * 2 ^ (Width - 1)
      BY WidthAssumption
    <2>2. PICK one \in Int : one = 1
      OBVIOUS
    <2>3. one \in 0..(2 ^ Width - 1) /\ Lite!Value(one) = one /\ one < 2 ^ (Width - 1)
      <3> DEFINE h == 2 ^ (Width - 1)
                 w == 2 ^ Width
      <3>1. Lite!Value(one) = IF one >= h THEN one - w ELSE one
        BY DEF Lite!Value
      <3>2. h \in Nat /\ h >= 4 /\ w = 2 * h
        BY <2>1
      <3> SUFFICES one \in 0..(w - 1) /\ Lite!Value(one) = one /\ one < h
        OBVIOUS
      <3> HIDE DEF h, w
      <3> QED
        BY <2>2, <3>1, <3>2
    <2>4. \A r \in L : CfgInMysql(r).method = one <=> r.method = Lite!Value(one)
      BY <1>1, <1>3, <2>3, CfgMethod
    <2>5. My!HasActorCfg(M, 1, one) <=> \E r \in L : r.code = 1 /\ r.method = one
      BY <1>2, <1>3, <2>3, <2>4 DEF My!HasActorCfg
    <2>6. Lite!HasActorCfg(L, 1, one) <=> \E r \in L : r.code = 1 /\ r.method = one
      BY <2>3 DEF Lite!HasActorCfg
    <2>7. My!HasActorCfg(M, 1, 1) \in BOOLEAN /\ Lite!HasActorCfg(L, 1, 1) \in BOOLEAN
      BY DEF My!HasActorCfg, Lite!HasActorCfg
    <2> QED
      BY <2>2, <2>5, <2>6, <2>7
  <1> QED
    BY <1>4, <1>5, <1>6

(* A node as it is returned, without its time of creation. *)
NodeShown == [id : Nat, name : {"n", "m"}, created : Nat, updated : Nat]
Shown(c) == [id |-> c.id, name |-> c.name, created |-> 0, updated |-> c.updated]

LEMMA NodeRead ==
    ASSUME NEW r \in NodeRow
    PROVE  /\ [My!Node(r) EXCEPT !.created = 0] = Shown(NodeColumns(r))
           /\ [Lite!Node(r) EXCEPT !.created = 0] = Shown(NodeColumns(r))
           /\ NodeColumns(r).name = r.name /\ NodeColumns(r).deleted = r.deleted
  <1>1. PICK a, b, c, d : /\ a = My!Node(r) /\ b = Lite!Node(r) /\ c = NodeColumns(r) /\ d = Shown(NodeColumns(r))
    OBVIOUS
  <1>2. c.id = r.id /\ c.name = r.name /\ c.deleted = r.deleted /\ c.updated = r.updated
    BY <1>1 DEF NodeColumns
  <1>3. d \in NodeShown /\ d.id = r.id /\ d.name = r.name /\ d.created = 0 /\ d.updated = r.updated
    BY <1>1, <1>2 DEF Shown, NodeShown, NodeRow
  <1>4. /\ a \in NodeShown /\ a.id = r.id /\ a.name = r.name /\ a.updated = r.updated
        /\ b \in NodeShown /\ b.id = r.id /\ b.name = r.name /\ b.updated = r.updated
    BY <1>1 DEF My!Node, Lite!Node, NodeShown, NodeRow
  <1>5. [a EXCEPT !.created = 0] = d /\ [b EXCEPT !.created = 0] = d
    BY <1>3, <1>4 DEF NodeShown
  <1> QED
    BY <1>1, <1>2, <1>5

LEMMA NodesFound ==
    ASSUME NEW M, NEW L, NodesMatch(M, L), ~StrictDates
    PROVE  /\ Untimed(My!ListNode(M)) = Untimed(Lite!ListNode(L))
           /\ \A name : /\ Untimed(My!GetNode(M, name)) = Untimed(Lite!GetNode(L, name))
                        /\ My!HasNode(M, name) = Lite!HasNode(L, name)
  <1>1. M \subseteq NodeRow /\ L \subseteq NodeRow /\ IsFiniteSet(L)
    BY DEF NodesMatch
  <1>2. ColumnsOf(M) = ColumnsOf(L)
    BY <1>1, NodesUntimed DEF NodesMatch
  <1>3. \A r \in NodeRow : /\ [My!Node(r) EXCEPT !.created = 0] = Shown(NodeColumns(r))
                           /\ [Lite!Node(r) EXCEPT !.created = 0] = Shown(NodeColumns(r))
                           /\ NodeColumns(r).name = r.name /\ NodeColumns(r).deleted = r.deleted
    BY NodeRead
  <1>4. Untimed(My!ListNode(M)) = {Shown(c) : c \in {k \in ColumnsOf(M) : ~k.deleted}}
    BY <1>1, <1>3 DEF Untimed, My!ListNode, ColumnsOf
  <1>5. Untimed(Lite!ListNode(L)) = {Shown(c) : c \in {k \in ColumnsOf(L) : ~k.deleted}}
    BY <1>1, <1>3 DEF Untimed, Lite!ListNode, Lite!Live, ColumnsOf
  <1>6. ASSUME NEW name
        PROVE  Untimed(My!GetNode(M, name)) = Untimed(Lite!GetNode(L, name)) /\ My!HasNode(M, name) = Lite!HasNode(L, name)
    <2> DEFINE S == {x \in L : x.name = name /\ ~x.deleted}
               C(T) == {k \in ColumnsOf(T) : k.name = name /\ ~k.deleted}
    <2>1. Untimed(My!GetNode(M, name)) = {Shown(c) : c \in C(M)}
      BY <1>1, <1>3 DEF Untimed, My!GetNode, ColumnsOf
    <2>2. Untimed(Lite!GetNode(L, name)) = {Shown(c) : c \in C(L)}
      BY <1>1, <1>3 DEF Untimed, Lite!GetNode, Lite!Live, ColumnsOf
    <2>3. IsFiniteSet(S)
      BY <1>1, FS_Subset
    <2>4. Lite!GetNode(L, name) = {Lite!Node(r) : r \in S}
      BY DEF Lite!GetNode, Lite!Live
    <2>5. IsFiniteSet(Lite!GetNode(L, name))
      <3> DEFINE f == [r \in S |-> Lite!Node(r)]
      <3>1. {f[x] : x \in S} = Lite!GetNode(L, name)
        BY <2>4
      <3> HIDE DEF f, S
      <3>2. IsFiniteSet({f[x] : x \in S})
        BY <2>3, ImageFinite
      <3> QED
        BY <3>1, <3>2
    <2>6. Lite!HasNode(L, name) <=> Lite!GetNode(L, name) # {}
      BY <2>5, SomeCounted DEF Lite!HasNode
    <2>7. Lite!HasNode(L, name) <=> \E c \in ColumnsOf(L) : c.name = name /\ ~c.deleted
      BY <1>1, <1>3, <2>4, <2>6 DEF ColumnsOf
    <2>8. My!HasNode(M, name) <=> \E c \in ColumnsOf(M) : c.name = name /\ ~c.deleted
      BY <1>1, <1>3 DEF My!HasNode, ColumnsOf
    <2>9. My!HasNode(M, name) \in BOOLEAN /\ Lite!HasNode(L, name) \in BOOLEAN
      BY DEF My!HasNode, Lite!HasNode
    <2> HIDE DEF S, C
    <2>10. C(M) = C(L)
      BY Zenon, <1>2 DEF C
    <2> QED
      BY <1>2, <2>1, <2>2, <2>7, <2>8, <2>9, <2>10
  <1> QED
    BY <1>2, <1>4, <1>5, <1>6

LEMMA BackendsRead == BackendInv => BackendsAgree
  <1> SUFFICES ASSUME BackendInv PROVE BackendsAgree
    OBVIOUS
  <1>1. CfgsAgree(my.cfgs, lite.cfgs) /\ NodesMatch(my.nodes, lite.nodes)
    BY DEF BackendInv
  <1>2. \A method \in Methods :
          {c.id : c \in My!GetActorCfgByMethodType(my.cfgs, 1, method)} = {c.id : c \in Lite!GetActorCfgByMethodType(lite.cfgs, 1, method)}
    BY <1>1, CfgsFound, MethodsFit
  <1>3. ASSUME NEW id
        PROVE  Ids(My!GetActorCfgByID(my.cfgs, id)) = Ids(Lite!GetActorCfgByID(lite.cfgs, id))
    BY <1>1, CfgsFound
  <1>4. My!HasActorCfg(my.cfgs, 1, 1) = Lite!HasActorCfg(lite.cfgs, 1, 1)
    BY <1>1, CfgsFound
  <1>5. ~StrictDates =>
          /\ Untimed(My!ListNode(my.nodes)) = Untimed(Lite!ListNode(lite.nodes))
          /\ \A name \in {"n", "m"} : /\ Untimed(My!GetNode(my.nodes, name)) = Untimed(Lite!GetNode(lite.nodes, name))
                                      /\ My!HasNode(my.nodes, name) = Lite!HasNode(lite.nodes, name)
    BY <1>1, NodesFound
  <1> QED
    BY Zenon, <1>2, <1>3, <1>4, <1>5, TablesRead DEF BackendsAgree, Ids

(* Messages signed with nonces above 0 have different cids, as their senders or nonces differ. *)
LEMMA CidsDiffer ==
    ASSUME NEW r, NEW q, RowOK(r), RowOK(q), r.sig, r.ucid = q.ucid \/ r.scid = q.scid
    PROVE  q.from = r.from /\ q.nonce = r.nonce
  <1>1. CidOfRow(r.ucid, r, r.nonce) /\ r.scid = SignedCid(r.ucid)
    BY DEF RowOK
  <1>2. r.ucid # <<>> /\ r.scid # <<>>
    BY <1>1, CidsTell, SignedCidsTell DEF CidOfRow
  <1>3. q.sig
    BY <1>2 DEF RowOK
  <1>4. CidOfRow(q.ucid, q, q.nonce) /\ q.scid = SignedCid(q.ucid)
    BY <1>3 DEF RowOK
  <1>5. r.ucid = q.ucid
    BY <1>1, <1>4, SignedCidsTell
  <1>6. \A m, k, c, d : UnsignedCid(r.from, m, r.nonce, c) = UnsignedCid(q.from, k, q.nonce, d)
                          => r.from = q.from /\ r.nonce = q.nonce
    BY CidsTell
  <1> QED
    BY <1>1, <1>4, <1>5, <1>6 DEF CidOfRow

LEMMA LookupsRead == BackendInv => LookupsAgree
  <1> SUFFICES ASSUME BackendInv, NEW m \in Lite!ListMessage(lite.messages), m.sig
               PROVE  LET found == {WithConfidence(m)} IN
                      /\ GetMessageByUid(lite.messages, m.id) = found
                      /\ m.scid = <<SignedCid(m.ucid[1])>>
                      /\ found \subseteq ListMessageByAddress(lite.messages, m.from)
                      /\ m.nonce > 0 /\ "address" \notin scene.calls =>
                           /\ GetMessageByCid(lite.messages, m.ucid[1]) = found
                           /\ GetMessageByUnsignedCid(lite.messages, m.ucid[1]) = found
                           /\ GetMessageBySignedCid(lite.messages, m.scid[1]) = found
                           /\ GetMessageByFromAndNonce(lite.messages, m.from, m.nonce) = found
    BY Zenon DEF LookupsAgree
  <1>1. PICK L : L = lite.messages
    OBVIOUS
  <1>2. \A r \in L : RowOK(r) /\ \A q \in L : q.id = r.id => q = r
    BY <1>1 DEF BackendInv, MessagesAgree
  <1>3. PICK r \in L : m = Lite!Message(r)
    BY <1>1 DEF Lite!ListMessage, Lite!Find
  <1>4. /\ m.id = r.id /\ m.from = r.from /\ m.nonce = r.nonce /\ m.sig = r.sig
        /\ m.ucid = Lite!CidOf(r.ucid) /\ m.scid = Lite!CidOf(r.scid)
    BY <1>2, <1>3, MessageRead
  <1>5. r.ucid # <<>> /\ r.scid # <<>> /\ r.scid = SignedCid(r.ucid)
    <2>1. CidOfRow(r.ucid, r, r.nonce) /\ r.scid = SignedCid(r.ucid)
      BY <1>2, <1>4 DEF RowOK
    <2> QED
      BY <2>1, CidsTell, SignedCidsTell DEF CidOfRow
  <1>6. m.ucid = <<r.ucid>> /\ m.scid = <<r.scid>>
    BY Zenon, <1>4, <1>5 DEF Lite!CidOf
  <1>7. m.ucid[1] = r.ucid /\ m.scid[1] = r.scid
    BY <1>6
  <1> DEFINE found == {WithConfidence(m)}
             only == {Lite!Message(r)}
             given == m.nonce > 0 /\ "address" \notin scene.calls
  <1>8. ASSUME given, NEW q \in L, q.from = r.from, q.nonce = r.nonce PROVE q = r
    BY <1>1, <1>4, <1>8 DEF BackendInv, NoncesFollow
  <1>9. ASSUME given, NEW q \in L, q.ucid = r.ucid \/ q.scid = r.scid PROVE q = r
    <2>1. q.from = r.from /\ q.nonce = r.nonce
      BY <1>2, <1>4, <1>9, CidsDiffer
    <2> QED
      BY <1>8, <1>9, <2>1
  <1>10. Lite!GetMessageByUid(L, r.id) = only
    BY <1>2 DEF Lite!GetMessageByUid, Lite!Find
  <1>11. given => Lite!GetMessageByCid(L, r.ucid) = only
    BY <1>9 DEF Lite!GetMessageByCid, Lite!Find
  <1>12. given => Lite!GetMessageBySignedCid(L, r.scid) = only
    BY <1>9 DEF Lite!GetMessageBySignedCid, Lite!Find
  <1>13. only \subseteq Lite!ListMessageByAddress(L, r.from)
    BY DEF Lite!ListMessageByAddress, Lite!Find
  <1>14. given => Lite!GetMessageByFromAndNonce(L, r.from, r.nonce) = only
    BY <1>8 DEF Lite!GetMessageByFromAndNonce, Lite!Find
  <1>15. only = {m} /\ found = {WithConfidence(k) : k \in only}
    BY <1>3
  <1> HIDE DEF only
  <1>16. GetMessageByUid(L, m.id) = found
    BY <1>4, <1>10, <1>15 DEF GetMessageByUid
  <1>17. given => GetMessageByCid(L, m.ucid[1]) = found /\ GetMessageByUnsignedCid(L, m.ucid[1]) = found
    BY <1>7, <1>11, <1>15 DEF GetMessageByCid, GetMessageByUnsignedCid
  <1>18. given => GetMessageBySignedCid(L, m.scid[1]) = found
    BY <1>7, <1>12, <1>15 DEF GetMessageBySignedCid
  <1>19. found \subseteq ListMessageByAddress(L, m.from)
    BY <1>4, <1>13, <1>15 DEF ListMessageByAddress
  <1>20. given => GetMessageByFromAndNonce(L, m.from, m.nonce) = found
    BY <1>4, <1>14, <1>15 DEF GetMessageByFromAndNonce
  <1>21. m.scid = <<SignedCid(m.ucid[1])>>
    BY Zenon, <1>5, <1>6, <1>7
  <1> QED
    BY <1>1, <1>16, <1>17, <1>18, <1>19, <1>20, <1>21

(* models/mysql and models/sqlite behave alike: whatever calls are made, with whatever methods and
   senders, the rows they return are the same, for the methods that MySQL's column holds once they
   are signed and up to the two digits of its ratios; the nodes too if MySQL takes the zero date,
   but for their times of creation. *)
THEOREM BackendsAlwaysAgree == Spec => []BackendsAgree
  <1>1. Init => Fresh
    BY DEF Init, Fresh
  <1> QED
    BY <1>1, FreshKept, BackendInit, BackendKept, BackendsRead, PTL DEF Spec

(* However a signed message is looked up, the answer is its one row: unless an operator sets an
   address's nonce, no replacement, recovery, revert or new message gives two messages signed above
   nonce 0 the same sender and nonce, which their cids cover. *)
THEOREM LookupsAlwaysAgree == Spec => []LookupsAgree
  <1>1. Init => Fresh
    BY DEF Init, Fresh
  <1> QED
    BY <1>1, FreshKept, BackendInit, BackendKept, LookupsRead, PTL DEF Spec

-----------------------------------------------------------------------------
(* Rows in an order *)

(* B, a set of pairs, orders S. *)
TotalOrder(S, B) ==
    /\ \A r \in S : <<r, r>> \notin B
    /\ \A r, q, s \in S : <<r, q>> \in B /\ <<q, s>> \in B => <<r, s>> \in B
    /\ \A r, q \in S : r = q \/ <<r, q>> \in B \/ <<q, r>> \in B

Below(S, B, r) == {s \in S : <<s, r>> \in B}

(* A finite set has a last element: in a smallest set without one, the others have. *)
LEMMA LastExists ==
    ASSUME NEW S, IsFiniteSet(S), NEW B, TotalOrder(S, B), S # {}
    PROVE  \E r \in S : \A q \in S : q = r \/ <<q, r>> \in B
  <1> DEFINE Good(T) == \E r \in T : \A q \in T : q = r \/ <<q, r>> \in B
             Bad == {T \in SUBSET S : T # {} /\ ~Good(T)}
  <1>1. SUFFICES ASSUME Bad # {} PROVE FALSE
    OBVIOUS
  <1>2. Bad \subseteq FiniteSubsetsOf(S)
    BY FS_Subset DEF FiniteSubsetsOf
  <1> HIDE DEF Bad
  <1>3. PICK T \in Bad : \A U \in Bad : ~(<<U, T>> \in StrictSubsetOrdering(S))
    BY <1>1, <1>2, WFMin, FS_StrictSubsetOrderingWellFounded
  <1>4. T \subseteq S /\ T # {} /\ ~Good(T)
    BY DEF Bad
  <1>5. PICK x \in T : TRUE
    BY <1>4
  <1> DEFINE U == T \ {x}
  <1>6. <<U, T>> \in StrictSubsetOrdering(S)
    BY <1>4, <1>5 DEF StrictSubsetOrdering
  <1>7. U = {} \/ Good(U)
    BY <1>3, <1>4, <1>6 DEF Bad
  <1>8. CASE U = {}
    BY <1>4, <1>5, <1>8
  <1>9. CASE Good(U)
    <2>1. PICK y \in U : \A q \in U : q = y \/ <<q, y>> \in B
      BY <1>9
    <2>2. x \in S /\ y \in S /\ T \subseteq S /\ x # y
      BY <1>4, <1>5, <2>1
    <2>3. CASE <<x, y>> \in B
      BY <1>4, <2>1, <2>3
    <2>4. CASE <<y, x>> \in B
      BY <1>4, <1>5, <2>1, <2>2, <2>4 DEF TotalOrder
    <2> QED
      BY <2>2, <2>3, <2>4 DEF TotalOrder
  <1> QED
    BY <1>7, <1>8, <1>9

(* For each place there is an element with as many below it: in a smallest set without, removing the
   last element changes no other place. *)
LEMMA PlaceTaken ==
    ASSUME NEW S, IsFiniteSet(S), NEW B, TotalOrder(S, B)
    PROVE  \A i \in 1..Cardinality(S) : \E r \in S : Cardinality(Below(S, B, r)) = i - 1
  <1> DEFINE Good(T) == \A i \in 1..Cardinality(T) : \E r \in T : Cardinality(Below(T, B, r)) = i - 1
             Bad == {T \in SUBSET S : ~Good(T)}
  <1>1. SUFFICES ASSUME Bad # {} PROVE FALSE
    OBVIOUS
  <1>2. Bad \subseteq FiniteSubsetsOf(S)
    BY FS_Subset DEF FiniteSubsetsOf
  <1> HIDE DEF Bad
  <1>3. PICK T \in Bad : \A U \in Bad : ~(<<U, T>> \in StrictSubsetOrdering(S))
    BY <1>1, <1>2, WFMin, FS_StrictSubsetOrderingWellFounded
  <1>4. T \subseteq S /\ IsFiniteSet(T) /\ ~Good(T)
    BY <1>2 DEF Bad, FiniteSubsetsOf
  <1>5. T # {}
    BY <1>4, FS_EmptySet
  <1>6. TotalOrder(T, B)
    BY <1>4 DEF TotalOrder
  <1>7. PICK x \in T : \A q \in T : q = x \/ <<q, x>> \in B
    BY <1>4, <1>5, <1>6, LastExists
  <1> DEFINE U == T \ {x}
  <1>8. <<U, T>> \in StrictSubsetOrdering(S)
    BY <1>4 DEF StrictSubsetOrdering
  <1>9. Good(U)
    BY <1>3, <1>4, <1>8 DEF Bad
  <1>10. Cardinality(T) \in Nat /\ Cardinality(U) = Cardinality(T) - 1
    BY <1>4, FS_CardinalityType, FS_RemoveElement
  <1>11. \A r \in U : Below(T, B, r) = Below(U, B, r)
    <2>1. \A r \in U : <<x, r>> \notin B
      BY <1>6, <1>7 DEF TotalOrder
    <2> QED
      BY <2>1 DEF Below
  <1>12. Below(T, B, x) = U
    BY <1>6, <1>7 DEF Below, TotalOrder
  <1>13. ASSUME NEW i \in 1..Cardinality(T)
         PROVE  \E r \in T : Cardinality(Below(T, B, r)) = i - 1
    <2>1. CASE i = Cardinality(T)
      BY <2>1, <1>10, <1>12
    <2>2. CASE i # Cardinality(T)
      <3>1. i \in 1..Cardinality(U)
        BY <2>2, <1>10
      <3>2. PICK r \in U : Cardinality(Below(U, B, r)) = i - 1
        BY <3>1, <1>9
      <3> QED
        BY <3>2, <1>11
    <2> QED
      BY <2>1, <2>2
  <1> QED
    BY <1>4, <1>13

(* Elements are in the order of their places. *)
LEMMA PlaceGrows ==
    ASSUME NEW S, IsFiniteSet(S), NEW B, TotalOrder(S, B), NEW r \in S, NEW q \in S
    PROVE  /\ Cardinality(Below(S, B, r)) \in 0..(Cardinality(S) - 1)
           /\ (<<r, q>> \in B <=> Cardinality(Below(S, B, r)) < Cardinality(Below(S, B, q)))
           /\ (r = q <=> Cardinality(Below(S, B, r)) = Cardinality(Below(S, B, q)))
  <1>1. ASSUME NEW x \in S PROVE Cardinality(Below(S, B, x)) \in 0..(Cardinality(S) - 1)
    <2>1. Below(S, B, x) \in SUBSET S /\ Below(S, B, x) # S
      BY DEF Below, TotalOrder
    <2>2. /\ IsFiniteSet(Below(S, B, x)) /\ Cardinality(Below(S, B, x)) <= Cardinality(S)
          /\ Cardinality(S) # Cardinality(Below(S, B, x))
      BY <2>1, FS_Subset
    <2> QED
      BY <2>2, FS_CardinalityType
  <1>2. ASSUME NEW x \in S, NEW y \in S, <<x, y>> \in B
        PROVE  Cardinality(Below(S, B, x)) < Cardinality(Below(S, B, y))
    <2>1. Below(S, B, x) \in SUBSET Below(S, B, y) /\ x \in Below(S, B, y) /\ x \notin Below(S, B, x)
      BY <1>2 DEF Below, TotalOrder
    <2>2. IsFiniteSet(Below(S, B, y))
      <3>1. Below(S, B, y) \in SUBSET S
        BY DEF Below
      <3> QED
        BY <3>1, FS_Subset
    <2>3. /\ Cardinality(Below(S, B, x)) <= Cardinality(Below(S, B, y))
          /\ Cardinality(Below(S, B, x)) # Cardinality(Below(S, B, y))
      BY <2>1, <2>2, FS_Subset
    <2> QED
      BY <1>1, <2>3
  <1>3. r = q \/ <<r, q>> \in B \/ <<q, r>> \in B
    BY DEF TotalOrder
  <1>4. <<r, r>> \notin B
    BY DEF TotalOrder
  <1> QED
    BY <1>1, <1>2, <1>3, <1>4

(* The elements of S laid out by their places. *)
LaidOut(rows, S, B) ==
    /\ rows \in [1..Cardinality(S) -> S]
    /\ \A i \in 1..Cardinality(S) : Cardinality(Below(S, B, rows[i])) = i - 1

(* They are all there, each once, and in order. *)
LEMMA LaidOutAll ==
    ASSUME NEW S, IsFiniteSet(S), NEW B, TotalOrder(S, B), NEW rows, LaidOut(rows, S, B)
    PROVE  /\ Cardinality(S) \in Nat /\ rows \in Seq(S) /\ Len(rows) = Cardinality(S)
           /\ S = {rows[i] : i \in 1..Cardinality(S)}
           /\ \A i, j \in 1..Cardinality(S) : i < j <=> <<rows[i], rows[j]>> \in B
           /\ \A i, j \in 1..Cardinality(S) : rows[i] = rows[j] => i = j
  <1>1. Cardinality(S) \in Nat
    BY FS_CardinalityType
  <1>2. PICK n \in Nat : n = Cardinality(S)
    BY <1>1
  <1>3. rows \in [1..n -> S] /\ \A i \in 1..n : rows[i] \in S /\ Cardinality(Below(S, B, rows[i])) = i - 1
    BY <1>2 DEF LaidOut
  <1>4. rows \in Seq(S) /\ Len(rows) = n
    BY <1>3
  <1>5. ASSUME NEW r \in S PROVE \E i \in 1..n : r = rows[i]
    <2>0. Cardinality(Below(S, B, r)) \in 0..(Cardinality(S) - 1)
      BY PlaceGrows
    <2>1. PICK k \in Int : k = Cardinality(Below(S, B, r)) /\ k \in 0..(n - 1)
      BY <1>2, <2>0
    <2>2. k + 1 \in 1..n /\ (k + 1) - 1 = k
      BY <2>1
    <2>3. rows[k + 1] \in S /\ Cardinality(Below(S, B, rows[k + 1])) = k
      BY <1>3, <2>2
    <2>4. PICK s \in S : s = rows[k + 1] /\ Cardinality(Below(S, B, r)) = Cardinality(Below(S, B, s))
      BY <2>1, <2>3
    <2>5. /\ Cardinality(Below(S, B, r)) \in 0..(Cardinality(S) - 1)
          /\ (<<r, s>> \in B <=> Cardinality(Below(S, B, r)) < Cardinality(Below(S, B, s)))
          /\ (r = s <=> Cardinality(Below(S, B, r)) = Cardinality(Below(S, B, s)))
      BY PlaceGrows
    <2> QED
      BY Zenon, <2>2, <2>4, <2>5
  <1>6. \A i, j \in 1..n : i < j <=> <<rows[i], rows[j]>> \in B
    <2> TAKE i, j \in 1..n
    <2>1. <<rows[i], rows[j]>> \in B <=> Cardinality(Below(S, B, rows[i])) < Cardinality(Below(S, B, rows[j]))
      BY <1>3, PlaceGrows
    <2>2. Cardinality(Below(S, B, rows[i])) = i - 1 /\ Cardinality(Below(S, B, rows[j])) = j - 1
      BY <1>3
    <2> QED
      BY <2>1, <2>2
  <1>7. \A i, j \in 1..n : rows[i] = rows[j] => i = j
    <2> TAKE i, j \in 1..n
    <2>1. Cardinality(Below(S, B, rows[i])) = i - 1 /\ Cardinality(Below(S, B, rows[j])) = j - 1
      BY <1>3
    <2> QED
      BY <2>1
  <1>8. S = {rows[i] : i \in 1..n}
    BY <1>3, <1>5
  <1>9. /\ n \in Nat /\ rows \in Seq(S) /\ Len(rows) = n /\ S = {rows[i] : i \in 1..n}
        /\ \A i, j \in 1..n : i < j <=> <<rows[i], rows[j]>> \in B
        /\ \A i, j \in 1..n : rows[i] = rows[j] => i = j
    BY <1>4, <1>6, <1>7, <1>8
  <1> QED
    BY Zenon, <1>2, <1>9

(* There is one way to lay a set out. *)
LEMMA LaidOutOnce ==
    ASSUME NEW S, IsFiniteSet(S), NEW B, TotalOrder(S, B), NEW x, NEW y, LaidOut(x, S, B), LaidOut(y, S, B)
    PROVE  x = y
  <1>1. ASSUME NEW i \in 1..Cardinality(S) PROVE x[i] = y[i]
    <2>1. PICK r \in S, q \in S : r = x[i] /\ q = y[i] /\ Cardinality(Below(S, B, r)) = Cardinality(Below(S, B, q))
      BY DEF LaidOut
    <2>2. /\ Cardinality(Below(S, B, r)) \in 0..(Cardinality(S) - 1)
          /\ (<<r, q>> \in B <=> Cardinality(Below(S, B, r)) < Cardinality(Below(S, B, q)))
          /\ (r = q <=> Cardinality(Below(S, B, r)) = Cardinality(Below(S, B, q)))
      BY PlaceGrows
    <2> QED
      BY Zenon, <2>1, <2>2
  <1>2. x \in [1..Cardinality(S) -> S] /\ y \in [1..Cardinality(S) -> S]
    BY DEF LaidOut
  <1>3. PICK D : D = 1..Cardinality(S)
    OBVIOUS
  <1>4. x \in [D -> S] /\ y \in [D -> S] /\ \A i \in D : x[i] = y[i]
    BY <1>1, <1>2, <1>3
  <1> QED
    BY <1>4

(* ORDER BY a column of numbers, and the rows have different ids. *)
Sortable(S, col) ==
    /\ IsFiniteSet(S)
    /\ \A r \in S : r[col] \in Nat /\ r.id \in Nat /\ \A q \in S : q.id = r.id => q = r

Ordering(S, col, asc) == {p \in S \X S : My!Before(p[1], p[2], col, asc)}

LEMMA OrderedRows ==
    ASSUME NEW S, NEW col, Sortable(S, col), NEW asc \in BOOLEAN
    PROVE  /\ TotalOrder(S, Ordering(S, col, asc))
           /\ LaidOut(My!OrderBy(S, col, asc), S, Ordering(S, col, asc))
           /\ LaidOut(Lite!OrderBy(S, col, asc), S, Ordering(S, col, asc))
  <1> DEFINE B == Ordering(S, col, asc)
  <1>1. \A r, q \in S : <<r, q>> \in B <=> IF r[col] = q[col] THEN r.id < q.id ELSE (r[col] < q[col]) = asc
    BY DEF Ordering, My!Before
  <1> HIDE DEF B
  <1>2. \A r \in S : r[col] \in Nat /\ r.id \in Nat
    BY DEF Sortable
  <1>3. TotalOrder(S, B)
    <2>1. \A r \in S : <<r, r>> \notin B
      BY <1>1, <1>2
    <2>2. ASSUME NEW r \in S, NEW q \in S PROVE r = q \/ <<r, q>> \in B \/ <<q, r>> \in B
      <3>1. PICK a \in Nat, b \in Nat, k \in Nat, l \in Nat : a = r[col] /\ b = q[col] /\ k = r.id /\ l = q.id
        BY <1>2
      <3>2. k = l => r = q
        BY <3>1 DEF Sortable
      <3>3. k = l \/ (IF a = b THEN k < l ELSE (a < b) = asc) \/ (IF b = a THEN l < k ELSE (b < a) = asc)
        OBVIOUS
      <3> QED
        BY <1>1, <3>1, <3>2, <3>3
    <2>3. ASSUME NEW r \in S, NEW q \in S, NEW s \in S, <<r, q>> \in B, <<q, s>> \in B
          PROVE  <<r, s>> \in B
      <3>1. PICK a \in Nat, b \in Nat, c \in Nat, k \in Nat, l \in Nat, m \in Nat :
              a = r[col] /\ b = q[col] /\ c = s[col] /\ k = r.id /\ l = q.id /\ m = s.id
        BY <1>2
      <3>2. (IF a = b THEN k < l ELSE (a < b) = asc) /\ (IF b = c THEN l < m ELSE (b < c) = asc)
        BY <1>1, <2>3, <3>1
      <3>3. IF a = c THEN k < m ELSE (a < c) = asc
        BY <3>2
      <3> QED
        BY <1>1, <3>1, <3>3
    <2> QED
      BY <2>1, <2>2, <2>3 DEF TotalOrder
  <1>4. \A r \in S : {s \in S : My!Before(s, r, col, asc)} = Below(S, B, r)
    BY DEF B, Ordering, Below
  <1>5. \A r \in S : {s \in S : Lite!Before(s, r, col, asc)} = Below(S, B, r)
    BY <1>4 DEF My!Before, Lite!Before
  <1>6. IsFiniteSet(S)
    BY DEF Sortable
  <1>7. \A i \in 1..Cardinality(S) : \E r \in S : Cardinality(Below(S, B, r)) = i - 1
    BY <1>3, <1>6, PlaceTaken
  <1> DEFINE m(r) == My!Cardinality({s \in S : My!Before(s, r, col, asc)})
             l(r) == Lite!Cardinality({s \in S : Lite!Before(s, r, col, asc)})
  <1>8. \A r \in S : m(r) = Cardinality(Below(S, B, r)) /\ l(r) = Cardinality(Below(S, B, r))
    BY <1>4, <1>5, StoresCount
  <1>9. My!OrderBy(S, col, asc) = [i \in 1..Cardinality(S) |-> CHOOSE r \in S : m(r) = i - 1]
    <2>1. My!OrderBy(S, col, asc) = [i \in 1..My!Cardinality(S) |-> CHOOSE r \in S : m(r) = i - 1]
      BY Zenon DEF My!OrderBy
    <2> QED
      BY Zenon, <2>1, StoresCount
  <1>10. Lite!OrderBy(S, col, asc) = [i \in 1..Cardinality(S) |-> CHOOSE r \in S : l(r) = i - 1]
    <2>1. Lite!OrderBy(S, col, asc) = [i \in 1..Lite!Cardinality(S) |-> CHOOSE r \in S : l(r) = i - 1]
      BY Zenon DEF Lite!OrderBy
    <2> QED
      BY Zenon, <2>1, StoresCount
  <1> HIDE DEF m, l
  <1>11. LaidOut(My!OrderBy(S, col, asc), S, B)
    BY <1>7, <1>8, <1>9 DEF LaidOut
  <1>12. LaidOut(Lite!OrderBy(S, col, asc), S, B)
    BY <1>7, <1>8, <1>10 DEF LaidOut
  <1> QED
    BY <1>3, <1>11, <1>12 DEF B

(* A page of some rows. *)
PageStart(offset) == IF offset > 0 THEN offset + 1 ELSE 1
PageEnd(n, offset, limit) ==
    IF limit > 0 /\ PageStart(offset) + limit - 1 < n THEN PageStart(offset) + limit - 1 ELSE n
PageLen(n, offset, limit) ==
    IF PageStart(offset) <= PageEnd(n, offset, limit) THEN PageEnd(n, offset, limit) - PageStart(offset) + 1 ELSE 0

LEMMA PageRows ==
    ASSUME NEW S, NEW rows \in Seq(S), NEW offset \in Int, NEW limit \in Int, NEW n, n = Len(rows),
           NEW k, k = PageLen(n, offset, limit), NEW page, page = My!Page(rows, offset, limit)
    PROVE  /\ k \in Nat /\ Lite!Page(rows, offset, limit) = page /\ page \in Seq(S) /\ Len(page) = k /\ DOMAIN page = 1..k
           /\ \A i \in 1..k : PageStart(offset) + i - 1 \in 1..n /\ page[i] = rows[PageStart(offset) + i - 1]
  <1>1. n \in Nat /\ n = Len(rows)
    OBVIOUS
  <1>2. PICK s \in Nat : s = PageStart(offset) /\ s >= 1
    BY DEF PageStart
  <1>3. PICK e \in Int : e = PageEnd(n, offset, limit) /\ e <= n
    BY <1>1, <1>2 DEF PageEnd
  <1>4. k = IF s <= e THEN e - s + 1 ELSE 0
    BY Zenon, <1>2, <1>3 DEF PageLen
  <1>5. k \in Nat
    <2>1. CASE s <= e
      BY <1>4, <2>1
    <2>2. CASE ~(s <= e)
      BY <1>4, <2>2
    <2> QED
      BY <2>1, <2>2
  <1>6. page = SubSeq(rows, s, e)
    BY Zenon, <1>1, <1>2, <1>3 DEF My!Page, PageStart, PageEnd
  <1>8. Lite!Page(rows, offset, limit) = page
    BY Zenon, <1>1, <1>2, <1>3, <1>6 DEF Lite!Page, PageStart, PageEnd
  <1>9. rows \in [1..n -> S]
    BY <1>1
  <1>10. ASSUME NEW i \in s..e PROVE rows[i] \in S
    <2>1. i \in 1..n
      BY <1>2, <1>3
    <2> QED
      BY <1>9, <2>1
  <1>11. /\ page \in Seq(S) /\ Len(page) = IF s <= e THEN e - s + 1 ELSE 0
         /\ \A i \in 1 .. e - s + 1 : page[i] = rows[s + i - 1]
    BY <1>6, <1>10, SubSeqProperties
  <1>12. Len(page) = k /\ DOMAIN page = 1..k
    BY <1>4, <1>5, <1>11
  <1>13. ASSUME NEW i \in 1..k PROVE s + i - 1 \in 1..n /\ page[i] = rows[s + i - 1]
    <2>1. i \in Int /\ i >= 1 /\ i <= k /\ k \in Nat
      BY <1>5
    <2>2. s <= e /\ k = e - s + 1
      BY <1>4, <2>1
    <2>4. i \in 1 .. e - s + 1
      BY <2>1, <2>2
    <2>5. s + i - 1 \in Int /\ s + i - 1 >= 1
      BY <1>2, <2>1
    <2>6. i <= e - s + 1
      BY <2>1, <2>2
    <2>8. e <= n /\ n \in Nat
      BY <1>1, <1>3
    <2>7. s + i - 1 <= n
      BY <2>1, <2>6, <2>8
    <2>3. i \in 1 .. e - s + 1 /\ s + i - 1 \in 1..n
      BY <2>4, <2>5, <2>7
    <2> QED
      BY <1>11, <2>3
  <1> QED
    BY <1>1, <1>2, <1>5, <1>8, <1>11, <1>12, <1>13

-----------------------------------------------------------------------------
(* Queries *)

Query(p) ==
    /\ p = [from |-> p.from, state |-> p.state, since |-> p.since, asc |-> p.asc, offset |-> p.offset, limit |-> p.limit]
    /\ p.asc \in BOOLEAN /\ p.offset \in Nat /\ p.limit \in Nat

LEMMA QueryOfParams ==
    /\ \A p \in Params : Query(p)
    /\ Query(NoParams) /\ NoParams.from = {} /\ NoParams.state = {} /\ NoParams.since = <<>>
    /\ NoParams.asc = FALSE /\ NoParams.offset = 0 /\ NoParams.limit = 0
  <1>1. ASSUME NEW p \in Params PROVE Query(p)
    <2>1. PICK f \in {{}, Addr}, t \in {<<>>, <<2>>}, a \in BOOLEAN, o \in {0, 1}, l \in {0, 1} :
            p = [from |-> f, state |-> {}, since |-> t, asc |-> a, offset |-> o, limit |-> l]
      BY DEF Params
    <2>2. o \in Nat /\ l \in Nat
      OBVIOUS
    <2>3. p.from = f /\ p.state = {} /\ p.since = t /\ p.asc = a /\ p.offset = o /\ p.limit = l
      BY <2>1
    <2> QED
      BY <2>1, <2>2, <2>3 DEF Query
  <1>2. Query(NoParams)
    BY DEF Query, NoParams
  <1> QED
    BY <1>1, <1>2 DEF NoParams

LEMMA SendersGiven ==
    ASSUME NEW p, Query(p), NEW x, NEW q, q = [p EXCEPT !.from = x]
    PROVE  Query(q) /\ q.from = x
  <1>1. PICK f, s, t, a, o, l : /\ p = [from |-> f, state |-> s, since |-> t, asc |-> a, offset |-> o, limit |-> l]
                                /\ a \in BOOLEAN /\ o \in Nat /\ l \in Nat
    BY DEF Query
  <1>2. q = [from |-> x, state |-> s, since |-> t, asc |-> a, offset |-> o, limit |-> l]
    BY <1>1
  <1> QED
    BY <1>1, <1>2 DEF Query

LEMMA StatesGiven ==
    ASSUME NEW p, Query(p), NEW x, NEW q, q = [p EXCEPT !.state = x]
    PROVE  /\ Query(q) /\ q.state = x /\ q.from = p.from /\ q.since = p.since /\ q.asc = p.asc
           /\ q.offset = p.offset /\ q.limit = p.limit
  <1>1. PICK f, s, t, a, o, l : /\ p = [from |-> f, state |-> s, since |-> t, asc |-> a, offset |-> o, limit |-> l]
                                /\ a \in BOOLEAN /\ o \in Nat /\ l \in Nat
    BY DEF Query
  <1>2. q = [from |-> f, state |-> x, since |-> t, asc |-> a, offset |-> o, limit |-> l]
    BY <1>1
  <1> QED
    BY <1>1, <1>2 DEF Query

(* What the rows of the table of messages are sorted by. *)
LEMMA MessagesSortable ==
    ASSUME NEW S, IsFiniteSet(S), \A r \in S : RowOK(r) /\ \A q \in S : q.id = r.id => q = r, NEW T \in SUBSET S
    PROVE  Sortable(T, "created") /\ Sortable(T, "updated")
  <1>1. IsFiniteSet(T)
    BY FS_Subset
  <1>2. \A r \in T : r.created \in Nat /\ r.updated \in Nat /\ r.id \in MsgId
    BY DEF RowOK, MessageRow
  <1>3. \A id \in MsgId : id \in Nat
    BY MessagesAssumption
  <1> QED
    BY <1>1, <1>2, <1>3 DEF Sortable

(* An arrangement of a set, and the set ordered by a column, is a sequence of its elements. *)
LEMMA ArrangedRows ==
    ASSUME NEW S, IsFiniteSet(S), NEW s \in Lite!Arrangements(S)
    PROVE  s \in Seq(S)
  <1>1. PICK n : n = Lite!Cardinality(S) /\ n = Cardinality(S)
    BY StoresCount
  <1>2. n \in Nat
    BY <1>1, FS_CardinalityType
  <1>3. s \in [1..n -> S]
    BY Zenon, <1>1 DEF Lite!Arrangements
  <1> QED
    BY <1>2, <1>3

LEMMA SortedRows ==
    ASSUME NEW S, NEW col, Sortable(S, col), NEW asc \in BOOLEAN
    PROVE  Lite!OrderBy(S, col, asc) \in Seq(S)
  <1>1. PICK rows : rows = Lite!OrderBy(S, col, asc)
    OBVIOUS
  <1>2. TotalOrder(S, Ordering(S, col, asc)) /\ LaidOut(rows, S, Ordering(S, col, asc)) /\ IsFiniteSet(S)
    BY <1>1, OrderedRows DEF Sortable
  <1>3. rows \in Seq(S)
    BY <1>2, LaidOutAll
  <1> QED
    BY <1>1, <1>3

(* A query for the messages of some senders returns no others, whichever order the rows come in. *)
LEMMA OfSenders ==
    ASSUME NEW L, IsFiniteSet(L), \A r \in L : RowOK(r) /\ \A q \in L : q.id = r.id => q = r,
           NEW p, Query(p), p.from # {}
    PROVE  /\ \A msgs \in Lite!ListMessageByParams(L, p) : \A i \in DOMAIN msgs : msgs[i].from \in p.from
           /\ \A msgs \in Lite!ListFailedMessage(L, p) : \A i \in DOMAIN msgs : msgs[i].from \in p.from
  <1>1. ASSUME NEW T \in SUBSET L, \A r \in T : r.from \in p.from, NEW rows \in Seq(T),
               NEW msgs, msgs = Lite!FindAll(Lite!Page(rows, p.offset, p.limit))
        PROVE  \A i \in DOMAIN msgs : msgs[i].from \in p.from
    <2>1. PICK offset \in Int, limit \in Int : offset = p.offset /\ limit = p.limit
      BY DEF Query
    <2>2. PICK page, n, k : page = My!Page(rows, offset, limit) /\ n = Len(rows) /\ k = PageLen(n, offset, limit)
      OBVIOUS
    <2>3. page \in Seq(T) /\ Lite!Page(rows, offset, limit) = page
      BY <2>2, PageRows
    <2>4. msgs = [i \in DOMAIN page |-> Lite!Message(page[i])]
      BY Zenon, <1>1, <2>1, <2>3 DEF Lite!FindAll
    <2>5. \A i \in DOMAIN page : page[i] \in T
      BY <2>3
    <2>6. \A r \in T : Lite!Message(r).from = r.from
      BY MessageRead
    <2> QED
      BY <1>1, <2>4, <2>5, <2>6
  <1>2. ASSUME NEW msgs \in Lite!ListMessageByParams(L, p) PROVE \A i \in DOMAIN msgs : msgs[i].from \in p.from
    <2>1. PICK T : T = Lite!Matching(L, p)
      OBVIOUS
    <2>2. T \in SUBSET L /\ \A r \in T : r.from \in p.from
      BY <2>1 DEF Lite!Matching
    <2>3. PICK rows \in Lite!parseQueryParams(L, p) : msgs = Lite!FindAll(Lite!Page(rows, p.offset, p.limit))
      BY Zenon DEF Lite!ListMessageByParams, Lite!Answers
    <2>4. rows \in Lite!Arrangements(T)
      BY Zenon, <2>1, <2>3 DEF Lite!parseQueryParams
    <2>5. IsFiniteSet(T)
      BY <2>2, FS_Subset
    <2>6. rows \in Seq(T)
      BY <2>4, <2>5, ArrangedRows
    <2> QED
      BY <1>1, <2>2, <2>3, <2>6
  <1>3. ASSUME NEW msgs \in Lite!ListFailedMessage(L, p) PROVE \A i \in DOMAIN msgs : msgs[i].from \in p.from
    <2>0. PICK q : q = [p EXCEPT !.state = {"UnFill"}]
      OBVIOUS
    <2>1. PICK T : T = Lite!Matching({r \in L : r.err # 0}, q)
      OBVIOUS
    <2>2. T \in SUBSET L /\ \A r \in T : r.from \in p.from
      BY <2>0, <2>1, StatesGiven DEF Lite!Matching
    <2>3. PICK rows : rows = Lite!OrderBy(T, "created", TRUE)
      OBVIOUS
    <2>4. msgs = Lite!FindAll(Lite!Page(rows, p.offset, p.limit))
      BY Zenon, <2>0, <2>1, <2>3 DEF Lite!ListFailedMessage, Lite!Answers
    <2>5. Sortable(T, "created")
      BY <2>2, MessagesSortable
    <2>6. rows \in Seq(T)
      BY <2>3, <2>5, SortedRows
    <2> QED
      BY <1>1, <2>2, <2>4, <2>6
  <1> QED
    BY <1>2, <1>3

LEMMA OwnMessages == BackendInv => OwnMessagesOnly
  <1> SUFFICES ASSUME BackendInv, NEW u \in User
               PROVE  /\ \A p \in Params : \A msgs \in ListMessage(u, p) : \A i \in DOMAIN msgs : msgs[i].msg.from \in Signers[u]
                      /\ \A msgs \in ListFailedMessage(u) : \A i \in DOMAIN msgs : msgs[i].from \in Signers[u]
                      /\ \A a \in ListAddress(u) : a.addr[2] \in Signers[u]
    BY Zenon DEF OwnMessagesOnly
  <1>1. PICK L : L = lite.messages
    OBVIOUS
  <1>2. IsFiniteSet(L) /\ \A r \in L : RowOK(r) /\ \A q \in L : q.id = r.id => q = r
    BY <1>1 DEF BackendInv, MessagesAgree
  <1>3. u # "admin"
    BY UsersAssumption
  <1>4. ASSUME NEW q, Query(q), q.from # {}, q.from \subseteq Signers[u]
        PROVE  /\ \A msgs \in Listed(q) : \A i \in DOMAIN msgs : msgs[i].msg.from \in Signers[u]
               /\ \A msgs \in Lite!ListFailedMessage(L, q) : \A i \in DOMAIN msgs : msgs[i].from \in Signers[u]
    <2>1. /\ \A msgs \in Lite!ListMessageByParams(L, q) : \A i \in DOMAIN msgs : msgs[i].from \in q.from
          /\ \A msgs \in Lite!ListFailedMessage(L, q) : \A i \in DOMAIN msgs : msgs[i].from \in q.from
      BY <1>2, <1>4, OfSenders
    <2>2. ASSUME NEW msgs \in Listed(q) PROVE \A i \in DOMAIN msgs : msgs[i].msg.from \in Signers[u]
      <3>1. PICK seq \in Lite!ListMessageByParams(L, q) : msgs = Confident(seq)
        BY Zenon, <1>1 DEF Listed
      <3>2. \A i \in DOMAIN msgs : i \in DOMAIN seq /\ msgs[i].msg = seq[i]
        BY <3>1 DEF Confident, WithConfidence
      <3> QED
        BY <1>4, <2>1, <3>2
    <2> QED
      BY <1>4, <2>1, <2>2
  <1>5. ASSUME NEW p \in Params, NEW msgs \in ListMessage(u, p) PROVE \A i \in DOMAIN msgs : msgs[i].msg.from \in Signers[u]
    <2>1. Query(p)
      BY QueryOfParams
    <2>2. CASE p.from = {} /\ Signers[u] = {}
      <3>1. msgs = <<>>
        BY <1>3, <2>2 DEF ListMessage
      <3> QED
        BY <3>1
    <2>3. CASE p.from = {} /\ Signers[u] # {}
      <3>1. PICK q : q = [p EXCEPT !.from = Signers[u]]
        OBVIOUS
      <3>2. Query(q) /\ q.from = Signers[u]
        BY <2>1, <3>1, SendersGiven
      <3>3. msgs \in Listed(q)
        BY <1>3, <2>3, <3>1 DEF ListMessage
      <3> QED
        BY <1>4, <2>3, <3>2, <3>3
    <2>4. CASE p.from # {} /\ p.from \subseteq Signers[u]
      <3>1. msgs \in Listed(p)
        BY <1>3, <2>4 DEF ListMessage, CheckPermissionBySigner
      <3> QED
        BY <1>4, <2>1, <2>4, <3>1
    <2>5. CASE p.from # {} /\ ~(p.from \subseteq Signers[u])
      BY <1>3, <2>5 DEF ListMessage, CheckPermissionBySigner
    <2> QED
      BY <2>2, <2>3, <2>4, <2>5
  <1>6. ASSUME NEW msgs \in ListFailedMessage(u) PROVE \A i \in DOMAIN msgs : msgs[i].from \in Signers[u]
    <2>1. CASE Signers[u] = {}
      <3>1. msgs = <<>>
        BY <1>3, <2>1 DEF ListFailedMessage
      <3> QED
        BY <3>1
    <2>2. CASE Signers[u] # {}
      <3>1. PICK q : q = [NoParams EXCEPT !.from = Signers[u]]
        OBVIOUS
      <3>2. Query(q) /\ q.from = Signers[u]
        BY SMTT(60), QueryOfParams, <3>1, SendersGiven
      <3>3. msgs \in Lite!ListFailedMessage(L, q)
        BY <1>1, <1>3, <2>2, <3>1 DEF ListFailedMessage
      <3> QED
        BY <1>4, <2>2, <3>2, <3>3
    <2> QED
      BY <2>1, <2>2
  <1>7. \A a \in ListAddress(u) : a.addr[2] \in Signers[u]
    BY <1>3 DEF ListAddress, CheckPermissionBySigner
  <1> QED
    BY <1>5, <1>6, <1>7

(* ListMessage, ListFailedMessage and ListAddress show a user nothing of a sender the user is not bound
   to, whatever the user asks for and in whatever order the rows come: "only admin can list all message". *)
THEOREM OthersMessagesHidden == Spec => []OwnMessagesOnly
  <1>1. Init => Fresh
    BY DEF Init, Fresh
  <1> QED
    BY <1>1, FreshKept, BackendInit, BackendKept, OwnMessages, PTL DEF Spec

(* The rows of MySQL. *)
LEMMA MysqlRows ==
    ASSUME BackendInv
    PROVE  /\ IsFiniteSet(my.messages)
           /\ \A s \in my.messages :
                /\ s.id \in Nat /\ s.created \in Nat /\ s.updated \in Nat /\ s.from \in Addr
                /\ \A q \in my.messages : q.id = s.id => q = s
                /\ My!Message(s).id = s.id /\ My!Message(s).created = s.created /\ My!Message(s).from = s.from
                /\ My!Message(s).state = s.state
  <1>1. PICK M, L : M = my.messages /\ L = lite.messages
    OBVIOUS
  <1>2. /\ IsFiniteSet(L) /\ \A r \in L : RowOK(r) /\ \A q \in L : q.id = r.id => q = r
        /\ M = {r \in L : Holds(r)}
    BY <1>1 DEF BackendInv, MessagesAgree
  <1>3. IsFiniteSet(M)
    BY <1>2, FS_Subset
  <1>4. ASSUME NEW s \in M
        PROVE  /\ s.id \in Nat /\ s.created \in Nat /\ s.updated \in Nat /\ s.from \in Addr
               /\ \A q \in M : q.id = s.id => q = s
               /\ My!Message(s).id = s.id /\ My!Message(s).created = s.created /\ My!Message(s).from = s.from
               /\ My!Message(s).state = s.state
    <2>1. RowOK(s)
      BY <1>2
    <2>2. s.id \in MsgId /\ s.created \in Nat /\ s.updated \in Nat /\ s.from \in Addr
      BY <2>1 DEF RowOK, MessageRow
    <2>3. s.id \in Nat
      BY <2>2, MessagesAssumption
    <2>4. \A q \in M : q.id = s.id => q = s
      BY <1>2
    <2>5. /\ My!Message(s) = Lite!Message(s) /\ Lite!Message(s).id = s.id /\ Lite!Message(s).from = s.from
          /\ Lite!Message(s).state = s.state /\ Lite!Message(s).created = s.created
      BY <2>1, MessageRead
    <2> QED
      BY <2>2, <2>3, <2>4, <2>5
  <1> QED
    BY <1>1, <1>3, <1>4

(* The rows on a page, of at most two. *)
LEMMA PageOf ==
    ASSUME NEW n \in Nat, NEW size \in Int, size = 1 \/ size = 2, NEW offset \in Nat
    PROVE  /\ PageStart(offset) = offset + 1 /\ PageLen(n, offset, size) \in Nat /\ PageLen(n, offset, size) <= size
           /\ \A j \in 1..size : j \in 1..PageLen(n, offset, size) <=> offset + j <= n
  <1>1. offset \in Nat
    OBVIOUS
  <1>2. PICK s \in Nat : s = PageStart(offset) /\ s = offset + 1
    BY <1>1 DEF PageStart
  <1>3. PICK e \in Nat : e = PageEnd(n, offset, size) /\ e = IF offset + size < n THEN offset + size ELSE n
    <2>1. PageEnd(n, offset, size) = IF offset + size < n THEN offset + size ELSE n
      BY <1>1, <1>2 DEF PageEnd
    <2> QED
      BY <1>1, <2>1
  <1>4. PageLen(n, offset, size) = IF s <= e THEN e - s + 1 ELSE 0
    BY Zenon, <1>2, <1>3 DEF PageLen
  <1>5. PICK k : k = PageLen(n, offset, size) /\ k = IF s <= e THEN e - s + 1 ELSE 0
    BY Zenon, <1>4
  <1>6. CASE offset + size < n
    <2>1. s <= e /\ e - s + 1 = size
      BY <1>1, <1>2, <1>3, <1>6
    <2>2. k = size
      BY <1>4, <1>5, <2>1
    <2> QED
      BY <1>1, <1>2, <1>5, <1>6, <2>2
  <1>7. CASE ~(offset + size < n) /\ offset < n
    <2>1. e = n /\ s <= e /\ e - s + 1 = n - offset
      BY <1>1, <1>2, <1>3, <1>7
    <2>2. k = n - offset /\ k \in Nat /\ k <= size
      BY <1>1, <1>4, <1>5, <1>7, <2>1
    <2> QED
      BY <1>1, <1>2, <1>5, <2>2
  <1>8. CASE ~(offset < n)
    <2>1. e = n /\ ~(s <= e)
      BY <1>1, <1>2, <1>3, <1>8
    <2>2. k = 0
      BY <1>4, <1>5, <2>1
    <2> QED
      BY <1>1, <1>2, <1>5, <1>8, <2>2
  <1> QED
    BY <1>1, <1>6, <1>7, <1>8

(* What PagesPartition says of one list. *)
ListPaged(from, isAsc, state) ==
    LET page(i, n) == My!ListMessageByFromState(my.messages, from, state, isAsc, i, n, <<>>)
        all == page(1, 0)
        ofSender == UNION {My!ListMessageByAddress(my.messages, a) : a \in {x \in Addr : from \in {<<>>, <<x>>}}}
    IN  /\ \A size \in 1..2 :
             /\ \A i \in 1..Len(all), j \in 1..size :
                  /\ j \in DOMAIN page(i, size) <=> (i - 1) * size + j <= Len(all)
                  /\ j \in DOMAIN page(i, size) => page(i, size)[j] = all[(i - 1) * size + j]
             /\ \A i \in 1..Len(all) : Len(page(i, size)) <= size
             /\ page(0, size) = page(1, size)
        /\ \A i, j \in DOMAIN all :
             i < j => /\ all[i].id # all[j].id
                      /\ all[i].created # all[j].created => (all[i].created < all[j].created) = isAsc
        /\ {all[i] : i \in DOMAIN all} = {m \in ofSender : m.state = state}

LEMMA Pages == BackendInv => PagesPartition
  <1> SUFFICES ASSUME BackendInv, NEW from \in {<<>>} \cup {<<a>> : a \in Addr}, NEW isAsc \in BOOLEAN,
                      NEW state \in {"UnFill"} \cup {r.state : r \in my.messages}
               PROVE  ListPaged(from, isAsc, state)
    BY Zenon DEF PagesPartition, ListPaged
  <1> DEFINE page(i, n) == My!ListMessageByFromState(my.messages, from, state, isAsc, i, n, <<>>)
             all == page(1, 0)
             ofSender == UNION {My!ListMessageByAddress(my.messages, a) : a \in {x \in Addr : from \in {<<>>, <<x>>}}}
             S == {r \in my.messages : from \in {<<>>, <<r.from>>} /\ r.state = state}
             B == Ordering(S, "created", isAsc)
  <1>1. IsFiniteSet(S) /\ Sortable(S, "created")
    <2>1. IsFiniteSet(S)
      BY MysqlRows, FS_Subset
    <2> QED
      BY <2>1, MysqlRows DEF Sortable
  <1>2. PICK rows : rows = My!OrderBy(S, "created", isAsc)
    OBVIOUS
  <1>3. \A r \in S : /\ r.id \in Nat /\ r.created \in Nat /\ \A q \in S : q.id = r.id => q = r
                     /\ My!Message(r).id = r.id /\ My!Message(r).created = r.created
    BY MysqlRows
  <1>4. \A r, q \in S : <<r, q>> \in B => IF r.created = q.created THEN r.id < q.id ELSE (r.created < q.created) = isAsc
    BY DEF Ordering, My!Before
  <1>5. \A i, n : page(i, n) = My!MessageSeq(My!Page(rows, (i - 1) * n, n))
    <2>1. S = {r \in my.messages : from \in {<<>>, <<r.from>>} /\ r.state = state /\ (<<>> = <<>> \/ r.created < <<>>[1])}
      OBVIOUS
    <2> HIDE DEF S
    <2> QED
      BY Zenon, <1>2, <2>1 DEF My!ListMessageByFromState
  <1>6. {My!Message(r) : r \in S} = {m \in ofSender : m.state = state}
    <2>1. \A r \in my.messages : r.from \in Addr /\ My!Message(r).state = r.state
      BY MysqlRows
    <2> QED
      BY <2>1 DEF My!ListMessageByAddress, My!Messages
  <1> HIDE DEF page, ofSender, S, B
  <1>7. PICK n \in Nat : /\ n = Len(rows) /\ rows \in Seq(S) /\ S = {rows[i] : i \in 1..n}
                         /\ \A i, j \in 1..n : i < j <=> <<rows[i], rows[j]>> \in B
                         /\ \A i, j \in 1..n : rows[i] = rows[j] => i = j
    <2>1. TotalOrder(S, B) /\ LaidOut(rows, S, B)
      BY <1>1, <1>2, OrderedRows DEF B
    <2> QED
      BY SMTT(60), <1>1, <2>1, LaidOutAll
  <1>8. DOMAIN all = 1..n /\ Len(all) = n /\ \A i \in 1..n : all[i] = My!Message(rows[i])
    <2>1. PICK pg : pg = My!Page(rows, 0, 0)
      OBVIOUS
    <2>2. all = My!MessageSeq(pg)
      <3>1. (1 - 1) * 0 = 0
        OBVIOUS
      <3> QED
        BY <1>5, <2>1, <3>1
    <2>3. PageStart(0) = 1 /\ n = PageLen(n, 0, 0)
      BY DEF PageStart, PageEnd, PageLen
    <2>6. PICK z \in Int, w \in Int, k \in Nat : z = 0 /\ w = 0 /\ k = n
      OBVIOUS
    <2>7. k = PageLen(n, z, w) /\ pg = My!Page(rows, z, w)
      BY <2>1, <2>3, <2>6
    <2>8. /\ k \in Nat /\ Lite!Page(rows, z, w) = pg /\ pg \in Seq(S) /\ Len(pg) = k /\ DOMAIN pg = 1..k
          /\ \A x \in 1..k : PageStart(z) + x - 1 \in 1..n /\ pg[x] = rows[PageStart(z) + x - 1]
      BY SMTT(60), <1>7, <2>7, PageRows
    <2>4. DOMAIN pg = 1..n /\ \A i \in 1..n : pg[i] = rows[i]
      BY <2>3, <2>6, <2>8
    <2>5. DOMAIN all = 1..n /\ \A i \in 1..n : all[i] = My!Message(rows[i])
      BY <2>2, <2>4 DEF My!MessageSeq
    <2> QED
      BY <2>2, <2>4, <2>5 DEF My!MessageSeq
  <1> HIDE DEF all
  <1>9. ASSUME NEW size \in 1..2, NEW i \in 1..n
        PROVE  /\ \A j \in 1..size : /\ j \in DOMAIN page(i, size) <=> (i - 1) * size + j <= n
                                     /\ j \in DOMAIN page(i, size) => page(i, size)[j] = all[(i - 1) * size + j]
               /\ Len(page(i, size)) <= size
    <2>1. PICK offset \in Nat : offset = (i - 1) * size
      <3>1. i \in Int /\ i >= 1
        OBVIOUS
      <3>2. CASE size = 1
        BY <3>1, <3>2
      <3>3. CASE size = 2
        BY <3>1, <3>3
      <3> QED
        BY <3>2, <3>3
    <2>2. i \in Int /\ i >= 1 /\ size \in Int /\ (size = 1 \/ size = 2)
      OBVIOUS
    <2>3. PICK k : k = PageLen(n, offset, size)
      OBVIOUS
    <2>4. /\ PageStart(offset) = offset + 1 /\ k \in Nat /\ k <= size
          /\ \A j \in 1..size : j \in 1..k <=> offset + j <= n
      <3>1. /\ PageStart(offset) = offset + 1 /\ PageLen(n, offset, size) \in Nat /\ PageLen(n, offset, size) <= size
            /\ \A j \in 1..size : j \in 1..PageLen(n, offset, size) <=> offset + j <= n
        BY <2>2, PageOf
      <3> QED
        BY Zenon, <2>3, <3>1
    <2>5. PICK pg : pg = My!Page(rows, offset, size)
      OBVIOUS
    <2>11. /\ k \in Nat /\ Lite!Page(rows, offset, size) = pg /\ pg \in Seq(S) /\ Len(pg) = k /\ DOMAIN pg = 1..k
           /\ \A x \in 1..k : PageStart(offset) + x - 1 \in 1..n /\ pg[x] = rows[PageStart(offset) + x - 1]
      BY SMTT(60), <1>7, <2>2, <2>3, <2>5, PageRows
    <2>6. DOMAIN pg = 1..k /\ \A j \in 1..k : offset + 1 + j - 1 \in 1..n /\ pg[j] = rows[offset + 1 + j - 1]
      BY <2>4, <2>11
    <2>7. page(i, size) = My!MessageSeq(pg)
      BY <1>5, <2>1, <2>5
    <2>8. DOMAIN page(i, size) = 1..k /\ \A j \in 1..k : page(i, size)[j] = My!Message(pg[j])
      BY <2>6, <2>7 DEF My!MessageSeq
    <2>9. Len(page(i, size)) = k
      BY <2>4, <2>6, <2>7 DEF My!MessageSeq
    <2>10. ASSUME NEW j \in 1..k PROVE page(i, size)[j] = all[offset + j]
      <3>1. offset + 1 + j - 1 = offset + j
        BY <2>4
      <3> QED
        BY <1>8, <2>6, <2>8, <3>1
    <2> QED
      BY <2>1, <2>4, <2>8, <2>9, <2>10
  <1>10. ASSUME NEW size \in 1..2 PROVE page(0, size) = page(1, size)
    <2>1. PICK x \in Int, y \in Int : x = (0 - 1) * size /\ y = (1 - 1) * size
      OBVIOUS
    <2>2. x <= 0 /\ y = 0
      BY <2>1
    <2>3. PageStart(x) = PageStart(y)
      BY <2>2 DEF PageStart
    <2>4. PageEnd(n, x, size) = PageEnd(n, y, size)
      BY <2>3 DEF PageEnd
    <2>5. \A offset : My!Page(rows, offset, size) = SubSeq(rows, PageStart(offset), PageEnd(n, offset, size))
      BY Zenon, <1>7 DEF My!Page, PageStart, PageEnd
    <2>6. My!Page(rows, x, size) = My!Page(rows, y, size)
      BY Zenon, <2>3, <2>4, <2>5
    <2> QED
      BY Zenon, <1>5, <2>1, <2>6
  <1>11. ASSUME NEW i \in 1..n, NEW j \in 1..n, i < j
         PROVE  /\ all[i].id # all[j].id
                /\ all[i].created # all[j].created => (all[i].created < all[j].created) = isAsc
    <2>1. PICK r \in S, q \in S : r = rows[i] /\ q = rows[j]
      BY <1>7
    <2>2. r # q /\ <<r, q>> \in B
      BY <1>7, <1>11, <2>1
    <2>3. all[i].id = r.id /\ all[j].id = q.id /\ all[i].created = r.created /\ all[j].created = q.created
      BY <1>3, <1>8, <2>1
    <2>4. r.created # q.created => (r.created < q.created) = isAsc
      BY <1>4, <2>2
    <2>5. r.id # q.id
      BY <1>3, <2>2
    <2> QED
      BY <2>3, <2>4, <2>5
  <1>12. {all[i] : i \in DOMAIN all} = {m \in ofSender : m.state = state}
    BY <1>6, <1>7, <1>8
  <1>13. \A i, j \in DOMAIN all :
           i < j => /\ all[i].id # all[j].id
                    /\ all[i].created # all[j].created => (all[i].created < all[j].created) = isAsc
    BY <1>8, <1>11
  <1>14. ASSUME NEW size \in 1..2
         PROVE  /\ \A i \in 1..Len(all), j \in 1..size :
                     /\ j \in DOMAIN page(i, size) <=> (i - 1) * size + j <= Len(all)
                     /\ j \in DOMAIN page(i, size) => page(i, size)[j] = all[(i - 1) * size + j]
                /\ \A i \in 1..Len(all) : Len(page(i, size)) <= size
    BY Zenon, <1>8, <1>9
  <1> QED
    BY Zenon, <1>10, <1>12, <1>13, <1>14 DEF page, all, ofSender, ListPaged

(* The pages of ListMessageByFromState hold every message of the list once, in the order of creation,
   on the page its place says. *)
THEOREM ListsArePaged == Spec => []PagesPartition
  <1>1. Init => Fresh
    BY DEF Init, Fresh
  <1> QED
    BY <1>1, FreshKept, BackendInit, BackendKept, Pages, PTL DEF Spec

-----------------------------------------------------------------------------
(* Queries on databases that hold the same messages *)

(* What both copies have: every row, if every method fits, and then they read it alike. *)
BothHold(L) == IsFiniteSet(L) /\ \A r \in L : RowOK(r) /\ \A q \in L : q.id = r.id => q = r

(* Queries without an order. *)
LEMMA SetsRead ==
    ASSUME NEW L, BothHold(L)
    PROVE  /\ \A a \in Addr :
                /\ My!ListMessageByAddress(L, a) = Lite!ListMessageByAddress(L, a)
                /\ My!ListFilledMessageByAddress(L, a) = Lite!ListFilledMessageByAddress(L, a)
                /\ My!ListFilledMessageBelowNonce(L, a, 1) = Lite!ListFilledMessageBelowNonce(L, a, 1)
                /\ My!ListUnFilledMessage(L, a) = Lite!ListUnFilledMessage(L, a)
                /\ My!GetSignedMessageFromFailedMsg(L, a) = Lite!GetSignedMessageFromFailedMsg(L, a)
                /\ My!GetMessageByFromAndNonce(L, a, 0) = Lite!GetMessageByFromAndNonce(L, a, 0)
                /\ My!GetMessageByFromNonceAndState(L, a, 0, "Fill") = Lite!GetMessageByFromNonceAndState(L, a, 0, "Fill")
           /\ \A h \in 0..MaxHeight :
                /\ My!ListChainMessageByHeight(L, h) = Lite!ListChainMessageByHeight(L, h)
                /\ My!GetSignedMessageByHeight(L, h) = Lite!GetSignedMessageByHeight(L, h)
                /\ My!GetSignedMessageByTime(L, h) = Lite!GetSignedMessageByTime(L, h)
           /\ My!ListSignedMsgs(L) = Lite!ListSignedMsgs(L)
  <1>1. ASSUME NEW S \in SUBSET L PROVE My!Messages(S) = Lite!Find(S)
    <2>1. \A r \in S : My!Message(r) = Lite!Message(r)
      BY MessageRead DEF BothHold
    <2> QED
      BY <2>1 DEF My!Messages, Lite!Find
  <1>2. ASSUME NEW a
        PROVE  /\ My!ListMessageByAddress(L, a) = Lite!ListMessageByAddress(L, a)
               /\ My!ListFilledMessageByAddress(L, a) = Lite!ListFilledMessageByAddress(L, a)
               /\ My!ListFilledMessageBelowNonce(L, a, 1) = Lite!ListFilledMessageBelowNonce(L, a, 1)
               /\ My!ListUnFilledMessage(L, a) = Lite!ListUnFilledMessage(L, a)
               /\ My!GetSignedMessageFromFailedMsg(L, a) = Lite!GetSignedMessageFromFailedMsg(L, a)
               /\ My!GetMessageByFromAndNonce(L, a, 0) = Lite!GetMessageByFromAndNonce(L, a, 0)
               /\ My!GetMessageByFromNonceAndState(L, a, 0, "Fill") = Lite!GetMessageByFromNonceAndState(L, a, 0, "Fill")
    BY <1>1 DEF My!ListMessageByAddress, Lite!ListMessageByAddress, My!ListFilledMessageByAddress,
       Lite!ListFilledMessageByAddress, My!ListFilledMessageBelowNonce, Lite!ListFilledMessageBelowNonce,
       My!ListUnFilledMessage, Lite!ListUnFilledMessage, My!GetSignedMessageFromFailedMsg,
       Lite!GetSignedMessageFromFailedMsg, My!GetMessageByFromAndNonce, Lite!GetMessageByFromAndNonce,
       My!GetMessageByFromNonceAndState, Lite!GetMessageByFromNonceAndState
  <1>3. ASSUME NEW h
        PROVE  /\ My!ListChainMessageByHeight(L, h) = Lite!ListChainMessageByHeight(L, h)
               /\ My!GetSignedMessageByHeight(L, h) = Lite!GetSignedMessageByHeight(L, h)
               /\ My!GetSignedMessageByTime(L, h) = Lite!GetSignedMessageByTime(L, h)
    BY <1>1 DEF My!ListChainMessageByHeight, Lite!ListChainMessageByHeight, My!GetSignedMessageByHeight,
       Lite!GetSignedMessageByHeight, My!GetSignedMessageByTime, Lite!GetSignedMessageByTime
  <1>4. My!ListSignedMsgs(L) = Lite!ListSignedMsgs(L)
    BY <1>1 DEF My!ListSignedMsgs, Lite!ListSignedMsgs
  <1> QED
    BY Zenon, <1>2, <1>3, <1>4

(* Queries for one id. *)
LEMMA IdsRead ==
    ASSUME NEW L, BothHold(L), NEW id
    PROVE  /\ My!GetMessageState(L, id) = Lite!GetMessageState(L, id)
           /\ My!HasMessageByUid(L, id) = Lite!HasMessageByUid(L, id)
  <1> DEFINE S == {r \in L : r.id = id}
  <1>1. IsFiniteSet(S)
    BY FS_Subset DEF BothHold
  <1>2. S # {} <=> \E r \in L : r.id = id
    OBVIOUS
  <1> HIDE DEF S
  <1>3. Lite!Cardinality(S) > 0 <=> S # {}
    BY <1>1, SomeCounted
  <1>4. Lite!HasMessageByUid(L, id) <=> Lite!Cardinality(S) > 0
    BY Zenon DEF Lite!HasMessageByUid, S
  <1>5. My!HasMessageByUid(L, id) <=> \E r \in L : r.id = id
    BY Zenon DEF My!HasMessageByUid
  <1>6. My!HasMessageByUid(L, id) \in BOOLEAN /\ Lite!HasMessageByUid(L, id) \in BOOLEAN
    BY DEF My!HasMessageByUid, Lite!HasMessageByUid
  <1>7. My!GetMessageState(L, id) = Lite!GetMessageState(L, id)
    BY Zenon DEF My!GetMessageState, Lite!GetMessageState
  <1> QED
    BY <1>2, <1>3, <1>4, <1>5, <1>6, <1>7

(* Both copies sort and arrange rows alike. *)
LEMMA SortedAlike ==
    ASSUME NEW S, NEW col, Sortable(S, col), NEW asc \in BOOLEAN
    PROVE  My!OrderBy(S, col, asc) = Lite!OrderBy(S, col, asc)
  <1>1. PICK x, y, B : x = My!OrderBy(S, col, asc) /\ y = Lite!OrderBy(S, col, asc) /\ B = Ordering(S, col, asc)
    OBVIOUS
  <1>2. TotalOrder(S, B) /\ LaidOut(x, S, B) /\ LaidOut(y, S, B) /\ IsFiniteSet(S)
    BY <1>1, OrderedRows DEF Sortable
  <1>3. x = y
    BY <1>2, LaidOutOnce
  <1> QED
    BY <1>1, <1>3

LEMMA ArrangedAlike == \A S : My!Arrangements(S) = Lite!Arrangements(S)
  <1>1. ASSUME NEW S PROVE My!Arrangements(S) = Lite!Arrangements(S)
    <2>1. PICK n : n = Lite!Cardinality(S) /\ n = My!Cardinality(S)
      BY StoresCount
    <2>2. My!Arrangements(S) = {s \in [1..n -> S] : \A i, j \in DOMAIN s : s[i] = s[j] => i = j}
      BY Zenon, <2>1 DEF My!Arrangements
    <2>3. Lite!Arrangements(S) = {s \in [1..n -> S] : \A i, j \in DOMAIN s : s[i] = s[j] => i = j}
      BY Zenon, <2>1 DEF Lite!Arrangements
    <2> QED
      BY Zenon, <2>2, <2>3
  <1> QED
    BY <1>1

(* They cut the same page out of them, and read it alike. *)
LEMMA PageRead ==
    ASSUME NEW L, BothHold(L), NEW S \in SUBSET L, NEW rows \in Seq(S), NEW offset \in Int, NEW limit \in Int
    PROVE  My!MessageSeq(My!Page(rows, offset, limit)) = Lite!FindAll(Lite!Page(rows, offset, limit))
  <1>1. PICK page, n, k : page = My!Page(rows, offset, limit) /\ n = Len(rows) /\ k = PageLen(n, offset, limit)
    OBVIOUS
  <1>2. page \in Seq(S) /\ Lite!Page(rows, offset, limit) = page
    BY <1>1, PageRows
  <1>3. ASSUME NEW i \in DOMAIN page PROVE My!Message(page[i]) = Lite!Message(page[i])
    <2>1. page[i] \in S
      BY <1>2
    <2>2. RowOK(page[i])
      BY <2>1 DEF BothHold
    <2> QED
      BY <2>2, MessageRead
  <1>4. My!MessageSeq(page) = Lite!FindAll(page)
    BY <1>3 DEF My!MessageSeq, Lite!FindAll
  <1> QED
    BY <1>1, <1>2, <1>4

(* Hence the answers for the same orders are the same, unless MySQL refuses the query. *)
LEMMA AnswersRead ==
    ASSUME NEW L, BothHold(L), NEW S \in SUBSET L, NEW orders, \A s \in orders : s \in Seq(S),
           NEW p, Query(p), p.offset = 0 \/ p.limit > 0
    PROVE  My!Answers(orders, p) = Lite!Answers(orders, p)
  <1>1. PICK offset \in Int, limit \in Int : offset = p.offset /\ limit = p.limit
    BY DEF Query
  <1>2. ~(p.offset > 0 /\ p.limit = 0)
    BY <1>1
  <1>3. \A s \in orders : My!MessageSeq(My!Page(s, p.offset, p.limit)) = Lite!FindAll(Lite!Page(s, p.offset, p.limit))
    BY <1>1, PageRead
  <1>4. My!Answers(orders, p) = {My!MessageSeq(My!Page(s, p.offset, p.limit)) : s \in orders}
    BY Zenon, <1>2 DEF My!Answers
  <1>5. Lite!Answers(orders, p) = {Lite!FindAll(Lite!Page(s, p.offset, p.limit)) : s \in orders}
    BY Zenon DEF Lite!Answers
  <1> QED
    BY <1>3, <1>4, <1>5

(* The rows a query matches, and the orders they may come in. *)
LEMMA OrdersRead ==
    ASSUME NEW L, BothHold(L), NEW K \in SUBSET L, NEW p, Query(p)
    PROVE  /\ {r \in K : My!Matches(r, p)} = Lite!Matching(K, p) /\ Lite!Matching(K, p) \in SUBSET L
           /\ My!parseQueryParams(Lite!Matching(K, p), p) = Lite!parseQueryParams(K, p)
           /\ \A s \in Lite!parseQueryParams(K, p) : s \in Seq(Lite!Matching(K, p))
  <1>1. PICK T : T = Lite!Matching(K, p)
    OBVIOUS
  <1>2. {r \in K : My!Matches(r, p)} = T /\ T \in SUBSET L
    BY <1>1 DEF My!Matches, Lite!Matching
  <1>3. PICK A : A = Lite!Arrangements(T) /\ A = My!Arrangements(T)
    BY ArrangedAlike
  <1>4. PICK asc \in BOOLEAN : asc = p.asc
    BY DEF Query
  <1>5. My!parseQueryParams(T, p) = {s \in A : asc \/ \A i, j \in DOMAIN s : i < j => s[i].updated >= s[j].updated}
    BY Zenon, <1>3, <1>4 DEF My!parseQueryParams
  <1>6. Lite!parseQueryParams(K, p) = {s \in A : ~asc => \A i, j \in DOMAIN s : i < j => s[i].updated >= s[j].updated}
    BY Zenon, <1>1, <1>3, <1>4 DEF Lite!parseQueryParams
  <1>7. IsFiniteSet(T)
    BY <1>2, FS_Subset DEF BothHold
  <1>8. \A s \in A : s \in Seq(T)
    BY <1>3, <1>7, ArrangedRows
  <1> QED
    BY <1>1, <1>2, <1>5, <1>6, <1>8

(* Queries with parameters. *)
LEMMA ParamsRead ==
    ASSUME NEW L, BothHold(L), NEW p \in Params, p.offset = 0 \/ p.limit > 0, NEW before
    PROVE  /\ My!ListMessageByParams(L, p) = Lite!ListMessageByParams(L, p)
           /\ My!ListFailedMessage(L, p) = Lite!ListFailedMessage(L, p)
           /\ My!ListBlockedMessage(L, p, before) = Lite!ListBlockedMessage(L, p, before)
  <1>1. Query(p)
    BY QueryOfParams
  <1>2. My!ListMessageByParams(L, p) = Lite!ListMessageByParams(L, p)
    <2>1. PICK K, T, O : K \in SUBSET L /\ K = L /\ T = Lite!Matching(K, p) /\ O = Lite!parseQueryParams(K, p)
      OBVIOUS
    <2>2. /\ {r \in K : My!Matches(r, p)} = T /\ T \in SUBSET L /\ My!parseQueryParams(T, p) = O /\ \A s \in O : s \in Seq(T)
      BY <1>1, <2>1, OrdersRead
    <2>3. My!Answers(O, p) = Lite!Answers(O, p)
      BY <1>1, <2>2, AnswersRead
    <2> QED
      BY Zenon, <2>1, <2>2, <2>3 DEF My!ListMessageByParams, Lite!ListMessageByParams
  <1>3. My!ListFailedMessage(L, p) = Lite!ListFailedMessage(L, p)
    <2>1. PICK q : q = [p EXCEPT !.state = {"UnFill"}]
      OBVIOUS
    <2>2. Query(q)
      BY <1>1, <2>1, StatesGiven
    <2>3. PICK K, T : K \in SUBSET L /\ K = {r \in L : r.err # 0} /\ T = Lite!Matching(K, q)
      OBVIOUS
    <2>4. {r \in K : My!Matches(r, q)} = T /\ T \in SUBSET L
      BY <2>2, <2>3, OrdersRead
    <2>5. {r \in L : My!Matches(r, q) /\ r.err # 0} = T
      BY <2>3, <2>4
    <2>6. Sortable(T, "created")
      BY <2>4, MessagesSortable DEF BothHold
    <2>7. PICK rows : rows = Lite!OrderBy(T, "created", TRUE) /\ rows = My!OrderBy(T, "created", TRUE)
      BY <2>6, SortedAlike
    <2>8. rows \in Seq(T)
      BY <2>6, <2>7, SortedRows
    <2>9. PICK O : O = {rows}
      OBVIOUS
    <2>10. \A s \in O : s \in Seq(T)
      BY <2>8, <2>9
    <2>11. My!Answers(O, p) = Lite!Answers(O, p)
      BY <1>1, <2>4, <2>10, AnswersRead
    <2>12. My!ListFailedMessage(L, p) = My!Answers(O, p)
      BY Zenon, <2>1, <2>5, <2>7, <2>9 DEF My!ListFailedMessage
    <2>13. Lite!ListFailedMessage(L, p) = Lite!Answers(O, p)
      BY Zenon, <2>1, <2>3, <2>7, <2>9 DEF Lite!ListFailedMessage
    <2> QED
      BY <2>11, <2>12, <2>13
  <1>4. My!ListBlockedMessage(L, p, before) = Lite!ListBlockedMessage(L, p, before)
    <2>0. PICK st : st = {"Fill", "UnFill"}
      OBVIOUS
    <2>1. PICK q : q = [p EXCEPT !.state = st]
      OBVIOUS
    <2>2. Query(q)
      BY <1>1, <2>1, StatesGiven
    <2>2a. PICK K \in SUBSET L : K = {r \in L : r.created < before}
      OBVIOUS
    <2>3. PICK T, O : T = Lite!Matching(K, q) /\ O = Lite!parseQueryParams(K, q)
      OBVIOUS
    <2>4. /\ {r \in K : My!Matches(r, q)} = T /\ T \in SUBSET L /\ My!parseQueryParams(T, q) = O /\ \A s \in O : s \in Seq(T)
      BY <2>2, <2>3, OrdersRead
    <2>5. {r \in L : My!Matches(r, q) /\ r.created < before} = T
      BY <2>2a, <2>4
    <2>6. PICK W : W = {s \in O : \A i, j \in DOMAIN s :
                          i < j /\ (p.asc \/ s[i].updated = s[j].updated) => s[i].created <= s[j].created}
      OBVIOUS
    <2>7. \A s \in W : s \in Seq(T)
      BY <2>4, <2>6
    <2>8. My!Answers(W, p) = Lite!Answers(W, p)
      BY <1>1, <2>4, <2>7, AnswersRead
    <2>9. My!ListBlockedMessage(L, p, before) = My!Answers(W, p)
      BY Zenon, <2>0, <2>1, <2>4, <2>5, <2>6 DEF My!ListBlockedMessage
    <2>10. Lite!ListBlockedMessage(L, p, before) = Lite!Answers(W, p)
      BY Zenon, <2>0, <2>1, <2>3, <2>2a, <2>6 DEF Lite!ListBlockedMessage
    <2> QED
      BY <2>8, <2>9, <2>10
  <1> QED
    BY <1>2, <1>3, <1>4

(* The newest waiting message of a sender. *)
LEMMA UnChainRead ==
    ASSUME NEW L, BothHold(L), NEW a
    PROVE  My!ListUnChainMessageByAddress(L, a, 1) = Lite!ListUnChainMessageByAddress(L, a, 1)
  <1>1. PICK S \in SUBSET L : S = {r \in L : r.from = a /\ r.state = "UnFill"}
    OBVIOUS
  <1>2. Sortable(S, "created")
    BY MessagesSortable DEF BothHold
  <1>3. PICK rows : rows = Lite!OrderBy(S, "created", FALSE) /\ rows = My!OrderBy(S, "created", FALSE)
    BY <1>2, SortedAlike
  <1>4. rows \in Seq(S)
    BY <1>2, <1>3, SortedRows
  <1>5. PICK o \in Int, l \in Int : o = 0 /\ l = 1
    OBVIOUS
  <1>6. My!MessageSeq(My!Page(rows, o, l)) = Lite!FindAll(Lite!Page(rows, o, l))
    BY <1>4, PageRead
  <1> QED
    BY Zenon, <1>1, <1>3, <1>5, <1>6 DEF My!ListUnChainMessageByAddress, Lite!ListUnChainMessageByAddress

LEMMA QueriesRead == BackendInv => QueriesAgree
  <1> SUFFICES ASSUME BackendInv, \A m \in Lite!ListMessage(lite.messages) : Fits(m)
               PROVE  QueriesAgree
    BY Zenon DEF QueriesAgree
  <1>1. PICK L : L = lite.messages
    OBVIOUS
  <1>2. MessagesAgree(my.messages, L)
    BY <1>1 DEF BackendInv
  <1>3. BothHold(L)
    BY <1>2 DEF MessagesAgree, BothHold
  <1>4. my.messages = L
    <2>1. ASSUME NEW r \in L PROVE Holds(r)
      <3>1. PICK k : k = Lite!Message(r)
        OBVIOUS
      <3>2. k \in Lite!ListMessage(L)
        BY <3>1 DEF Lite!ListMessage, Lite!Find
      <3>3. k.method = MethodOf[r.id]
        BY <1>2, <3>1, MessageRead DEF MessagesAgree
      <3>4. My!Fits(k) <=> InRange(Lite!Value(k.method))
        BY SameColumns
      <3> QED
        BY <1>1, <3>2, <3>3, <3>4 DEF Fits, Holds
    <2> QED
      BY <1>2, <2>1 DEF MessagesAgree
  <1>5. PICK before : before = now - 1
    OBVIOUS
  <1>6. \A p \in Params : p.offset = 0 \/ p.limit > 0 =>
          /\ My!ListMessageByParams(L, p) = Lite!ListMessageByParams(L, p)
          /\ My!ListFailedMessage(L, p) = Lite!ListFailedMessage(L, p)
          /\ My!ListBlockedMessage(L, p, before) = Lite!ListBlockedMessage(L, p, before)
    BY <1>3, ParamsRead
  <1>7. \A a \in Addr : My!HasAddress(my.addresses, a) = Lite!HasAddress(lite.addresses, a)
    <2>1. PICK A, B : A = my.addresses /\ B = lite.addresses
      OBVIOUS
    <2>2. AddressesAgree(A, B)
      BY <2>1 DEF BackendInv
    <2>3. ASSUME NEW a PROVE My!HasAddress(A, a) <=> Lite!HasAddress(B, a)
      <3>1. /\ My!HasAddress(A, a) <=> \E r \in B : r.addr = <<"f", a>>
            /\ Lite!HasAddress(B, a) <=> \E r \in B : r.addr = <<"f", a>>
        BY <2>2, AddressNamed
      <3> QED
        BY Zenon, <3>1
    <2>4. \A a : My!HasAddress(A, a) \in BOOLEAN /\ Lite!HasAddress(B, a) \in BOOLEAN
      BY DEF My!HasAddress, Lite!HasAddress
    <2> QED
      BY <2>1, <2>3, <2>4
  <1>8. \A a \in Addr : My!ListUnChainMessageByAddress(L, a, 1) = Lite!ListUnChainMessageByAddress(L, a, 1)
    BY <1>3, UnChainRead
  <1>9. \A id \in MsgId : /\ My!GetMessageState(L, id) = Lite!GetMessageState(L, id)
                          /\ My!HasMessageByUid(L, id) = Lite!HasMessageByUid(L, id)
    BY <1>3, IdsRead
  <1>10. /\ \A a \in Addr :
              /\ My!ListMessageByAddress(L, a) = Lite!ListMessageByAddress(L, a)
              /\ My!ListFilledMessageByAddress(L, a) = Lite!ListFilledMessageByAddress(L, a)
              /\ My!ListFilledMessageBelowNonce(L, a, 1) = Lite!ListFilledMessageBelowNonce(L, a, 1)
              /\ My!ListUnFilledMessage(L, a) = Lite!ListUnFilledMessage(L, a)
              /\ My!GetSignedMessageFromFailedMsg(L, a) = Lite!GetSignedMessageFromFailedMsg(L, a)
              /\ My!GetMessageByFromAndNonce(L, a, 0) = Lite!GetMessageByFromAndNonce(L, a, 0)
              /\ My!GetMessageByFromNonceAndState(L, a, 0, "Fill") = Lite!GetMessageByFromNonceAndState(L, a, 0, "Fill")
         /\ \A h \in 0..MaxHeight :
              /\ My!ListChainMessageByHeight(L, h) = Lite!ListChainMessageByHeight(L, h)
              /\ My!GetSignedMessageByHeight(L, h) = Lite!GetSignedMessageByHeight(L, h)
              /\ My!GetSignedMessageByTime(L, h) = Lite!GetSignedMessageByTime(L, h)
         /\ My!ListSignedMsgs(L) = Lite!ListSignedMsgs(L)
    BY <1>3, SetsRead
  <1> QED
    BY Zenon, <1>1, <1>4, <1>5, <1>6, <1>7, <1>8, <1>9, <1>10 DEF QueriesAgree

(* models/mysql and models/sqlite may answer the queries for messages in the same ways, paged and
   sorted ones too, as long as MySQL could hold every message and no offset comes without a limit. *)
THEOREM QueriesAlwaysAgree == Spec => []QueriesAgree
  <1>1. Init => Fresh
    BY DEF Init, Fresh
  <1> QED
    BY <1>1, FreshKept, BackendInit, BackendKept, QueriesRead, PTL DEF Spec
=============================================================================
