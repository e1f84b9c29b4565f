----------------------------- MODULE MessageApi -----------------------------
(***************************************************************************)
(* The calls of the API on the tables, through the services and the        *)
(* repositories, on both kinds of database at once: every call is made on  *)
(* my (models/mysql) and on lite (models/sqlite).  Calls do not interleave *)
(* here, except WaitMessage and ClearUnFillMessage, which are composed     *)
(* from their own modules; MsgSelector interleaves push and selection.     *)
(***************************************************************************)
EXTENDS WaitMessage, ClearUnFill, Sequences

CONSTANTS
    Addr,          \* senders
    MsgId,         \* ids of messages, positive numbers
    MethodOf,      \* MethodOf[id]: the method number of a message
    User,          \* users of the API that are no administrators
    Signers,       \* Signers[u]: the senders bound to a user
    ClearOf,       \* ClearOf[c]: the sender whose messages a call of ClearUnFillMessage clears
    MaxInt, Width, StrictDates,   \* see MysqlStore and SqliteStore
    MaxHeight,     \* bound of the chain's height
    Scenes         \* what bounds a behaviour: the calls that occur in it, the messages pushed, the number
                   \* of writes, and the address rows an earlier version left

My   == INSTANCE MysqlStore
Lite == INSTANCE SqliteStore

(* A row of the table of addresses; an earlier version wrote addresses with the prefix t. *)
Prefixed == {"f", "t"} \X Addr
AddressRow == [id : Prefixed, addr : Prefixed, nonce : Nat, state : {"Alive", "Forbidden"}, selNum : Nat,
               deleted : BOOLEAN, maxFee : Nat, overEst : Nat, updated : Nat]

(* The column addr has a unique index, and DelAddress deletes a row for good.  The id, a uuid, tells
   rows apart like the address it stands for, and both databases can hold the row. *)
ASSUME OldRowsAssumption ==
    \A s \in Scenes :
      /\ IsFiniteSet(s.old)
      /\ \A r \in s.old : /\ r \in AddressRow /\ ~r.deleted /\ r.id = r.addr
                          /\ My!Decimal2(r.overEst) = r.overEst
                          /\ \A q \in s.old : q.addr = r.addr => q = r

(* A method number is an unsigned integer of Width bits. *)
ASSUME MessagesAssumption ==
    /\ MsgId \subseteq Nat \ {0}
    /\ \A id \in MsgId : MethodOf[id] \in 0..(2 ^ Width - 1)

(* There are more than two bits; the rest is arithmetic the provers are not told of. *)
ASSUME WidthAssumption ==
    /\ Width \in Nat /\ MaxInt \in Nat
    /\ 2 ^ (Width - 1) \in Nat /\ 2 ^ (Width - 1) >= 4 /\ 2 ^ Width = 2 * 2 ^ (Width - 1)

ASSUME StrictDatesAssumption == StrictDates \in BOOLEAN

(* An administrator is not among the users with signers of their own. *)
ASSUME UsersAssumption == "admin" \notin User

VARIABLES
    scene,     \* the bounds of this behaviour: [calls, ids, writes, old]
    my, lite,  \* the tables: [messages, addresses, cfgs, shared, nodes]
    now,       \* the clock: one more than the number of writes
    height,    \* height of the chain's head
    up         \* whether the process has been started

vars == <<scene, my, lite, now, height, up, wait, caller, worker>>

Tables == {"messages", "addresses", "cfgs", "shared", "nodes"}

EmptyTables(addrs) == [t \in Tables |-> IF t = "addresses" THEN addrs ELSE {}]

Init ==
    /\ scene \in Scenes
    /\ my = EmptyTables(scene.old)
    /\ lite = EmptyTables(scene.old)
    /\ now = 1
    /\ height = 0
    /\ up = FALSE
    /\ wait = NotWaiting
    /\ ClearInit

Idle == UNCHANGED <<wait, caller, worker>>

(* One write to a table of either database. *)
Write(call, table, m, l) ==
    /\ up
    /\ call \in scene.calls
    /\ now <= scene.writes
    /\ now' = now + 1
    /\ my' = [my EXCEPT ![table] = m]
    /\ lite' = [lite EXCEPT ![table] = l]
    /\ UNCHANGED <<scene, height, up>>

(* jwtclient.CheckPermissionBySigner: an administrator, or a user bound to all the senders. *)
CheckPermissionBySigner(u, addrs) == IF u = "admin" THEN TRUE ELSE addrs \subseteq Signers[u]

Callable == User \cup {"admin"}

-----------------------------------------------------------------------------
(* Start: migration of the addresses and default shared parameters *)

(* The addresses of the list that have no row with the prefix f. *)
Missing(T, listed) == {[a EXCEPT !.id = a.addr] : a \in {k \in listed : \A r \in T : r.addr # k.addr}}

(* Mutant: the row with the old prefix goes first. *)
MigrateDeletesFirst(T, listed, made) == {r \in T : \A a \in listed : r.addr # <<"t", a.addr[2]>>}

(* MigrateAddress: for every listed address the row with the old prefix t is deleted, after a row
   with the prefix f was made from it if there was none. *)
MigrateAddress(T, listed, made) == {r \in T : \A a \in listed : r.addr # <<"t", a.addr[2]>>} \cup made

DefSharedParams == [id |-> 1, selNum |-> 20, maxFee |-> <<7>>, overEst |-> 1250]

(* NewSharedParamsService: the defaults, unless there is a row. *)
NewSharedParams(T, default) == IF T = {} THEN default ELSE T

Start ==
    /\ ~up
    /\ up' = TRUE
    /\ my' = [my EXCEPT !.addresses = LET listed == My!ListAddress(@) IN
                            MigrateAddress(@, listed, {My!fromAddress(a, now) : a \in Missing(@, listed)}),
                        !.shared = NewSharedParams(@, My!SetSharedParams(@, DefSharedParams))]
    /\ lite' = [lite EXCEPT !.addresses = LET listed == Lite!ListAddress(@) IN
                                MigrateAddress(@, listed, {Lite!fromAddress(a, now) : a \in Missing(@, listed)}),
                            !.shared = NewSharedParams(@, Lite!SetSharedParams(@, DefSharedParams))]
    /\ UNCHANGED <<scene, now, height>> /\ Idle

-----------------------------------------------------------------------------
(* Messages *)

NewMessage(id, from) ==
    [id |-> id, from |-> from, nonce |-> 0, method |-> MethodOf[id], ucid |-> <<>>, scid |-> <<>>, sig |-> FALSE,
     cap |-> <<>>, height |-> 0, rcpt |-> 0, tsk |-> {}, state |-> "UnFill", err |-> 0, created |-> 0, updated |-> 0]

NewAddress(from) ==
    [id |-> <<"f", from>>, addr |-> <<"f", from>>, nonce |-> 0, state |-> "Alive", selNum |-> 0, deleted |-> FALSE,
     maxFee |-> <<>>, overEst |-> 0, updated |-> 0]

Forbidden(T, from) == \E r \in T : r.addr = <<"f", from>> /\ r.state = "Forbidden"

(* PushMessageWithId with a known sender: refused if it is forbidden, and if the id is taken.  The
   sender's row, if new, is saved before the message, and stays when the message is refused. *)
PushMessage(u, id, from) ==
    /\ CheckPermissionBySigner(u, {from})
    /\ ~Forbidden(my.addresses, from)
    /\ up /\ "push" \in scene.calls /\ id \in scene.ids /\ now <= scene.writes
    /\ now' = now + 1
    /\ my' = [my EXCEPT !.addresses = IF My!HasAddress(@, from) THEN @ ELSE My!SaveAddress(@, NewAddress(from), now),
                        !.messages = My!CreateMessage(@, NewMessage(id, from), now)]
    /\ lite' = [lite EXCEPT
            !.addresses = IF Lite!HasAddress(@, from) THEN @ ELSE Lite!SaveAddress(@, NewAddress(from), now),
            !.messages = Lite!CreateMessage(@, NewMessage(id, from), now)]
    /\ UNCHANGED <<scene, height, up>> /\ Idle

(* A cid stands for what it is the hash of: of the content the parts that tell messages apart here.
   The signed cid covers the signature too (that of a BLS message is its unsigned cid). *)
UnsignedCid(from, method, nonce, cap) == <<from, method, nonce, cap>>
SignedCid(ucid) == <<"signed", ucid>>

(* Mutant: the signed cid keeps its old value. *)
KeepsSignedCid(m, nonce, cap) ==
    LET ucid == UnsignedCid(m.from, m.method, nonce, cap) IN
    [m EXCEPT !.nonce = nonce, !.cap = <<cap>>, !.ucid = <<ucid>>, !.scid = IF @ = <<>> THEN <<SignedCid(ucid)>> ELSE @,
              !.sig = TRUE, !.state = "Fill", !.err = 0]

(* ToSignedMsg *)
ToSignedMsg(m, nonce, cap) ==
    LET ucid == UnsignedCid(m.from, m.method, nonce, cap) IN
    [m EXCEPT !.nonce = nonce, !.cap = <<cap>>, !.ucid = <<ucid>>, !.scid = <<SignedCid(ucid)>>,
              !.sig = TRUE, !.state = "Fill", !.err = 0]

(* A selection (in full in MsgSelector): the message and its sender's nonce are saved in one
   transaction, or the reason why it could not be is. *)
Select(id) ==
    \E m \in My!GetMessageByUid(my.messages, id) :
    \E k \in Lite!GetMessageByUid(lite.messages, id) :
    \E a \in My!GetAddress(my.addresses, m.from) :
      LET new == ToSignedMsg(m, a.nonce, 1) IN
      /\ m.state = "UnFill"
      /\ up /\ "select" \in scene.calls /\ now <= scene.writes
      /\ now' = now + 1
      /\ \/ /\ my' = [my EXCEPT !.messages = My!UpdateMessage(@, new, now),
                                !.addresses = My!UpdateNonce(@, m.from, a.nonce + 1, now)]
            /\ lite' = [lite EXCEPT !.messages = Lite!UpdateMessage(@, ToSignedMsg(k, a.nonce, 1), now),
                                    !.addresses = Lite!UpdateNonce(@, m.from, a.nonce + 1, now)]
         \/ /\ my' = [my EXCEPT !.messages = My!UpdateErrMsg(@, id, 1, now)]
            /\ lite' = [lite EXCEPT !.messages = Lite!UpdateErrMsg(@, id, 1, now)]
      /\ UNCHANGED <<scene, height, up>> /\ Idle

Row(id) == CHOOSE r \in lite.messages : r.id = id

(* UpdateMessageInfoByCid, called by the refresh when a message is executed or reverted, and by
   UpdateFilledMessageByID when the node has found an unsettled message on the chain. *)
UpdateInfo(u, id) ==
    /\ Lite!HasMessageByUid(lite.messages, id)
    /\ CheckPermissionBySigner(u, {Row(id).from})
    /\ Row(id).scid # <<>>
    /\ ~IsChainMsg(Row(id).state)
    /\ \E conflict \in BOOLEAN :
         LET state == IF conflict THEN "NonceConflict" ELSE "OnChain" IN
         Write("chain", "messages",
               My!UpdateMessageInfoByCid(my.messages, Row(id).ucid, 1, height, state, {height}, now),
               Lite!UpdateMessageInfoByCid(lite.messages, Row(id).ucid, 1, height, state, {height}, now))
    /\ Idle

Revert(id) ==
    /\ Lite!HasMessageByUid(lite.messages, id)
    /\ IsChainMsg(Row(id).state)
    /\ Write("chain", "messages",
             My!UpdateMessageInfoByCid(my.messages, Row(id).ucid, 0, 0, "Fill", {}, now),
             Lite!UpdateMessageInfoByCid(lite.messages, Row(id).ucid, 0, 0, "Fill", {}, now))
    /\ Idle

(* ReplaceMessage (the gas it computes is in ReplaceMessage.tla): only a row still in Fill changes. *)
Replace(u, id) ==
    /\ \E m \in My!GetMessageByUid(my.messages, id) :
       \E k \in Lite!GetMessageByUid(lite.messages, id) :
         /\ CheckPermissionBySigner(u, {m.from})
         /\ m.state # "OnChain"
         /\ Write("replace", "messages",
                  My!UpdateMessageByState(my.messages, ToSignedMsg(m, m.nonce, 2), "Fill", now),
                  Lite!UpdateMessageByState(lite.messages, ToSignedMsg(k, k.nonce, 2), "Fill", now))
    /\ Idle

(* MarkBadMessage, UpdateMessageStateByID and, by the cid, UpdateMessageStateByCid. *)
SetMessageState(u, id, state) ==
    /\ Lite!HasMessageByUid(lite.messages, id)
    /\ CheckPermissionBySigner(u, {Row(id).from})
    /\ \/ /\ state = "Failed"
          /\ Write("state", "messages", My!MarkBadMessage(my.messages, id, now),
                   Lite!MarkBadMessage(lite.messages, id, now))
       \/ Write("state", "messages", My!UpdateMessageStateByID(my.messages, id, state, now),
                Lite!UpdateMessageStateByID(lite.messages, id, state, now))
       \/ Write("state", "messages", My!UpdateMessageStateByCid(my.messages, Row(id).ucid, state, now),
                Lite!UpdateMessageStateByCid(lite.messages, Row(id).ucid, state, now))
       \/ /\ state = "Failed"
          /\ Write("state", "messages", My!ExpireMessage(my.messages, {id}, now),
                   Lite!ExpireMessage(lite.messages, {id}, now))
    /\ Idle

(* An update of one row, for each of some ids. *)
Each(Update(_, _), T, ids) ==
    {r \in T : r.id \notin ids} \cup UNION {{r \in Update(T, id) : r.id = id} : id \in ids}

(* RecoverFailedMsg: nothing while the address is behind the chain; the failed
   messages that are signed and not below the nonce of the chain are filled again. *)
RecoverFailedMsg(u, from) ==
    /\ CheckPermissionBySigner(u, {from})
    /\ \E a \in Lite!GetAddress(lite.addresses, from), actorNonce \in {0, 1} :
         LET ids == {m.id : m \in {k \in Lite!GetSignedMessageFromFailedMsg(lite.messages, from) : k.nonce >= actorNonce}}
         IN  /\ a.nonce >= actorNonce
             /\ ids # {}
             /\ Write("recover", "messages",
                      Each(LAMBDA T, id : My!UpdateMessageStateByID(T, id, "Fill", now), my.messages, ids),
                      Each(LAMBDA T, id : Lite!UpdateMessageStateByID(T, id, "Fill", now), lite.messages, ids))
    /\ Idle

-----------------------------------------------------------------------------
(* The calls that only read *)

(* The confidence of a message on chain is its depth under the head. *)
WithConfidence(m) == [msg |-> m, confidence |-> IF IsChainMsg(m.state) THEN height - m.height ELSE 0]
Confident(msgs) == [i \in DOMAIN msgs |-> WithConfidence(msgs[i])]
Listed(p) == {Confident(msgs) : msgs \in Lite!ListMessageByParams(lite.messages, p)}

GetMessageByUid(T, id) == {WithConfidence(m) : m \in Lite!GetMessageByUid(T, id)}
GetMessageByCid(T, cid) == {WithConfidence(m) : m \in Lite!GetMessageByCid(T, cid)}
GetMessageBySignedCid(T, cid) == {WithConfidence(m) : m \in Lite!GetMessageBySignedCid(T, cid)}
GetMessageByUnsignedCid(T, cid) == {WithConfidence(m) : m \in Lite!GetMessageByCid(T, cid)}
GetMessageByFromAndNonce(T, from, nonce) ==
    {WithConfidence(m) : m \in Lite!GetMessageByFromAndNonce(T, from, nonce)}
ListMessageByAddress(T, from) == {WithConfidence(m) : m \in Lite!ListMessageByAddress(T, from)}
ListMessageByFromState(T, from, state, isAsc, pageIndex, pageSize, before) ==
    Confident(Lite!ListMessageByFromState(T, from, state, isAsc, pageIndex, pageSize, before))

NoParams == [from |-> {}, state |-> {}, since |-> <<>>, asc |-> FALSE, offset |-> 0, limit |-> 0]

(* Mutant: a user without signers is not sent away. *)
ListWithoutSigners(u, p) ==
    IF p.from = {} /\ u # "admin" THEN Listed([p EXCEPT !.from = Signers[u]])
    ELSE IF CheckPermissionBySigner(u, p.from) THEN Listed(p) ELSE {}

(* What may be answered.  Without a sender: an administrator sees all, a user the messages of the
   signers, or the empty list; with senders that are not the user's no list at all. *)
ListMessage(u, p) ==
    CASE p.from = {} /\ u # "admin" /\ Signers[u] = {} -> {<<>>}
      [] p.from = {} /\ u # "admin" /\ Signers[u] # {} -> Listed([p EXCEPT !.from = Signers[u]])
      [] p.from = {} /\ u = "admin" -> Listed(p)
      [] OTHER -> IF CheckPermissionBySigner(u, p.from) THEN Listed(p) ELSE {}

ListFailedMessage(u) ==
    IF u = "admin" THEN Lite!ListFailedMessage(lite.messages, NoParams)
    ELSE IF Signers[u] = {} THEN {<<>>}
    ELSE Lite!ListFailedMessage(lite.messages, [NoParams EXCEPT !.from = Signers[u]])

(* Without a sender: those of the active addresses. *)
ListBlockedMessage(from, before) ==
    Lite!ListBlockedMessage(lite.messages,
        [NoParams EXCEPT !.from = IF from # {} THEN from
                                  ELSE {a.addr[2] : a \in Lite!ListActiveAddress(lite.addresses)}], before)

ListAddress(u) == {a \in Lite!ListAddress(lite.addresses) : CheckPermissionBySigner(u, {a.addr[2]})}

-----------------------------------------------------------------------------
(* Addresses, shared parameters, actor configurations, nodes *)

AddressCall(u, from) ==
    /\ CheckPermissionBySigner(u, {from})
    /\ \/ \E n \in {0, 3} :
            Write("address", "addresses", My!UpdateNonce(my.addresses, from, n, now),
                  Lite!UpdateNonce(lite.addresses, from, n, now))
       \/ Write("address", "addresses", My!DelAddress(my.addresses, <<"f", from>>),
                Lite!DelAddress(lite.addresses, <<"f", from>>))
       \/ \E state \in {"Alive", "Forbidden"} :
            Write("address", "addresses", My!UpdateState(my.addresses, from, state, now),
                  Lite!UpdateState(lite.addresses, from, state, now))
       \/ Write("address", "addresses", My!UpdateSelectMsgNum(my.addresses, from, 2, now),
                Lite!UpdateSelectMsgNum(lite.addresses, from, 2, now))
    /\ Idle

Ratios == {0, 1255}
Fees == {<<>>, <<0>>, <<5>>}

(* Refused for an address that does not exist. *)
SetFeeParams(u, from) ==
    /\ CheckPermissionBySigner(u, {from})
    /\ Lite!HasAddress(lite.addresses, from)
    /\ \E ratio \in Ratios, fee \in Fees :
         Write("address", "addresses", My!UpdateFeeParams(my.addresses, from, ratio, fee, now),
               Lite!UpdateFeeParams(lite.addresses, from, ratio, fee, now))
    /\ Idle

SetSharedParams ==
    /\ \E ratio \in Ratios, fee \in Fees :
         LET p == [id |-> 0, selNum |-> 5, maxFee |-> fee, overEst |-> ratio] IN
         Write("params", "shared", My!SetSharedParams(my.shared, p), Lite!SetSharedParams(lite.shared, p))
    /\ Idle

Methods == {1, 2 ^ Width - 4}

(* A client that saves a known configuration sends back the time of creation it has read. *)
SaveActorCfg ==
    /\ \E id \in {1, 2}, code \in {0, 1}, method \in Methods :
         LET c == [id |-> id, code |-> code, method |-> method, maxFee |-> <<>>, overEst |-> 1255] IN
         Write("params", "cfgs", My!SaveActorCfg(my.cfgs, c), Lite!SaveActorCfg(lite.cfgs, c))
    /\ Idle

UpdateActorCfg ==
    /\ \E id \in {1, 2}, ratio \in {<<>>, <<0>>}, fee \in Fees :
         Write("params", "cfgs", My!UpdateSelectSpecById(my.cfgs, id, ratio, fee),
               Lite!UpdateSelectSpecById(lite.cfgs, id, ratio, fee))
    /\ Idle

DelActorCfg ==
    /\ \/ \E method \in Methods :
            Write("params", "cfgs", My!DelActorCfgByMethodType(my.cfgs, 1, method),
                  Lite!DelActorCfgByMethodType(lite.cfgs, 1, method))
       \/ \E id \in {1, 2} :
            Write("params", "cfgs", My!DelActorCfgById(my.cfgs, id), Lite!DelActorCfgById(lite.cfgs, id))
    /\ Idle

NodeIds == {1, 2}

(* After the node was dialled.  A client that saves a known node may send back the time of creation
   it was shown; a new one has none. *)
SaveNode ==
    /\ \E id \in NodeIds, name \in {"n", "m"}, created \in {0} \cup {n.created : n \in Lite!ListNode(lite.nodes)} :
         LET n == [id |-> id, name |-> name, created |-> created, updated |-> 0] IN
         Write("params", "nodes", My!SaveNode(my.nodes, n, now), Lite!SaveNode(lite.nodes, n, now))
    /\ Idle

(* Both databases happen to return the row of the same id. *)
DeleteNode ==
    /\ \E name \in {"n", "m"}, id \in NodeIds :
         Write("params", "nodes", My!DelNode(my.nodes, name, id, now), Lite!DelNode(lite.nodes, name, id, now))
    /\ Idle

-----------------------------------------------------------------------------
(* Waiting and clearing *)

Waited == 1    \* the message WaitMessage is called for

Unwritten == UNCHANGED <<scene, my, lite, now, up>>

NewHeight ==
    /\ "wait" \in scene.calls
    /\ height < MaxHeight
    /\ height' = height + 1
    /\ Unwritten /\ Idle

Wait ==
    /\ "wait" \in scene.calls
    /\ Lite!HasMessageByUid(lite.messages, Waited)
    /\ \/ StartWait
       \/ Tick
       \/ TakeToken(height)
       \/ ReadRow(Row(Waited).state, Row(Waited).height, 0)
       \/ TakeTick
       \/ CtxDone
    /\ UNCHANGED <<height, caller, worker>> /\ Unwritten

(* clearUnFillMessage: in one transaction, or with an error not at all. *)
RunClearUnFill(h) ==
    /\ RunClear(h)
    /\ up /\ now <= scene.writes
    /\ now' = now + 1
    /\ \/ \E c \in worker[h].req :
            /\ my' = [my EXCEPT !.messages = Each(LAMBDA T, id : My!MarkBadMessage(T, id, now), @,
                                                 {m.id : m \in My!ListUnFilledMessage(@, ClearOf[c])})]
            /\ lite' = [lite EXCEPT !.messages = Each(LAMBDA T, id : Lite!MarkBadMessage(T, id, now), @,
                                                     {m.id : m \in Lite!ListUnFilledMessage(@, ClearOf[c])})]
       \/ UNCHANGED <<my, lite>>
    /\ UNCHANGED <<scene, height, up, wait>>

Clear ==
    /\ "clear" \in scene.calls
    /\ up
    /\ \/ \E c \in Caller : ClearUnFillMessage(c) \/ GiveUp(c)
       \/ \E h \in Goroutine : TryClearUnFillMsg(h) \/ SendResult(h)
    /\ UNCHANGED <<height, wait>> /\ Unwritten

Next ==
    \/ Start
    \/ \E u \in Callable, id \in MsgId, from \in Addr : PushMessage(u, id, from)
    \/ \E id \in MsgId : Select(id) \/ Revert(id)
    \/ \E u \in Callable, id \in MsgId : UpdateInfo(u, id) \/ Replace(u, id)
    \/ \E u \in Callable, id \in MsgId, state \in {"UnFill", "Fill", "Failed"} : SetMessageState(u, id, state)
    \/ \E u \in Callable, from \in Addr : RecoverFailedMsg(u, from) \/ AddressCall(u, from) \/ SetFeeParams(u, from)
    \/ SetSharedParams \/ SaveActorCfg \/ UpdateActorCfg \/ DelActorCfg \/ SaveNode \/ DeleteNode
    \/ NewHeight \/ Wait \/ Clear
    \/ \E h \in Goroutine : RunClearUnFill(h)

Spec == Init /\ [][Next]_vars

-----------------------------------------------------------------------------
(* Properties *)

Fits(m) == My!Fits(m)
Rounded(r) == [r EXCEPT !.overEst = My!Decimal2(@)]
Untimed(nodes) == {[n EXCEPT !.created = 0] : n \in nodes}
Params == {[from |-> f, state |-> {}, since |-> t, asc |-> a, offset |-> o, limit |-> l] :
             f \in {{}, Addr}, t \in {<<>>, <<2>>}, a \in BOOLEAN, o \in {0, 1}, l \in {0, 1}}

(* models/mysql and models/sqlite are two copies of one design: after any calls the rows either
   returns are the same, for the methods that are in the range of a MySQL int column once they are
   signed, and up to the two digits of its ratios.  Nodes agree only if MySQL takes the zero date,
   and then up to the time of creation, which MySQL's copy forgets. *)
BackendsAgree ==
    /\ My!ListMessage(my.messages) = {m \in Lite!ListMessage(lite.messages) : Fits(m)}
    /\ My!ListAddress(my.addresses) = {Rounded(a) : a \in Lite!ListAddress(lite.addresses)}
    /\ My!ListActorCfg(my.cfgs) = {Rounded(c) : c \in Lite!ListActorCfg(lite.cfgs)}
    /\ My!GetSharedParams(my.shared) = {Rounded(p) : p \in Lite!GetSharedParams(lite.shared)}
    /\ \A method \in Methods :
         {c.id : c \in My!GetActorCfgByMethodType(my.cfgs, 1, method)}
           = {c.id : c \in Lite!GetActorCfgByMethodType(lite.cfgs, 1, method)}
    /\ \A id \in {1, 2} : {c.id : c \in My!GetActorCfgByID(my.cfgs, id)} = {c.id : c \in Lite!GetActorCfgByID(lite.cfgs, id)}
    /\ My!HasActorCfg(my.cfgs, 1, 1) = Lite!HasActorCfg(lite.cfgs, 1, 1)
    /\ ~StrictDates =>
         /\ Untimed(My!ListNode(my.nodes)) = Untimed(Lite!ListNode(lite.nodes))
         /\ \A name \in {"n", "m"} : /\ Untimed(My!GetNode(my.nodes, name)) = Untimed(Lite!GetNode(lite.nodes, name))
                                     /\ My!HasNode(my.nodes, name) = Lite!HasNode(lite.nodes, name)

(* The same of the queries for messages, as long as every message is in both databases.  Where the
   statement leaves the order open, so do both copies: the possible answers are the same.  An
   offset without a limit is left out: MySQL refuses it. *)
QueriesAgree ==
    LET M == my.messages  L == lite.messages IN
    (\A m \in Lite!ListMessage(L) : Fits(m)) =>
      /\ \A p \in Params :
           p.offset = 0 \/ p.limit > 0 =>
             /\ My!ListMessageByParams(M, p) = Lite!ListMessageByParams(L, p)
             /\ My!ListFailedMessage(M, p) = Lite!ListFailedMessage(L, p)
             /\ My!ListBlockedMessage(M, p, now - 1) = Lite!ListBlockedMessage(L, p, now - 1)
      /\ \A a \in Addr :
           /\ My!ListUnChainMessageByAddress(M, a, 1) = Lite!ListUnChainMessageByAddress(L, a, 1)
           /\ My!ListMessageByAddress(M, a) = Lite!ListMessageByAddress(L, a)
           /\ My!ListFilledMessageByAddress(M, a) = Lite!ListFilledMessageByAddress(L, a)
           /\ My!ListFilledMessageBelowNonce(M, a, 1) = Lite!ListFilledMessageBelowNonce(L, a, 1)
           /\ My!ListUnFilledMessage(M, a) = Lite!ListUnFilledMessage(L, a)
           /\ My!GetSignedMessageFromFailedMsg(M, a) = Lite!GetSignedMessageFromFailedMsg(L, a)
           /\ My!GetMessageByFromAndNonce(M, a, 0) = Lite!GetMessageByFromAndNonce(L, a, 0)
           /\ My!GetMessageByFromNonceAndState(M, a, 0, "Fill") = Lite!GetMessageByFromNonceAndState(L, a, 0, "Fill")
           /\ My!HasAddress(my.addresses, a) = Lite!HasAddress(lite.addresses, a)
      /\ \A h \in 0..MaxHeight : /\ My!ListChainMessageByHeight(M, h) = Lite!ListChainMessageByHeight(L, h)
                                 /\ My!GetSignedMessageByHeight(M, h) = Lite!GetSignedMessageByHeight(L, h)
                                 /\ My!GetSignedMessageByTime(M, h) = Lite!GetSignedMessageByTime(L, h)
      /\ My!ListSignedMsgs(M) = Lite!ListSignedMsgs(L)
      /\ \A id \in MsgId : /\ My!GetMessageState(M, id) = Lite!GetMessageState(L, id)
                            /\ My!HasMessageByUid(M, id) = Lite!HasMessageByUid(L, id)

(* The pages of ListMessageByFromState, laid end to end, are the whole list in the order of creation:
   no message is shown twice or on no page, and page 0 is the first page too. *)
PagesPartition ==
    \A from \in {<<>>} \cup {<<a>> : a \in Addr}, isAsc \in BOOLEAN,
       state \in {"UnFill"} \cup {r.state : r \in my.messages} :
      LET page(i, n) == My!ListMessageByFromState(my.messages, from, state, isAsc, i, n, <<>>)
          all == page(1, 0)
          ofSender == UNION {My!ListMessageByAddress(my.messages, a) : a \in {x \in Addr : from \in {<<>>, <<x>>}}}
      IN  /\ \A size \in 1..2 :
               /\ \A i \in 1..Len(all), j \in 1..size :
                    /\ j \in DOMAIN page(i, size) <=> (i - 1) * size + j <= Len(all)
                    /\ j \in DOMAIN page(i, size) => page(i, size)[j] = all[(i - 1) * size + j]
               /\ \A i \in 1..Len(all) : Len(page(i, size)) <= size
               /\ page(0, size) = page(1, size)
          /\ \A i, j \in DOMAIN all :
               i < j => /\ all[i].id # all[j].id
                        /\ all[i].created # all[j].created => (all[i].created < all[j].created) = isAsc
          /\ {all[i] : i \in DOMAIN all} = {m \in ofSender : m.state = state}

(* However a signed message is looked up (id, cid, signed cid, sender and nonce), the answer is the
   same row with the same confidence, after replacements, recoveries and reverts too: a cid covers
   sender and nonce, and no two messages of a sender are given one nonce.  An operator can undo that:
   by setting an address's nonce, and by declaring a message that was never signed filled, so that
   it is replaced, and signed, with nonce 0. *)
LookupsAgree ==
    \A m \in Lite!ListMessage(lite.messages) :
      m.sig =>
        LET found == {WithConfidence(m)} IN
        /\ GetMessageByUid(lite.messages, m.id) = found
        /\ m.scid = <<SignedCid(m.ucid[1])>>
        /\ found \subseteq ListMessageByAddress(lite.messages, m.from)
        /\ m.nonce > 0 /\ "address" \notin scene.calls =>
             /\ GetMessageByCid(lite.messages, m.ucid[1]) = found
             /\ GetMessageByUnsignedCid(lite.messages, m.ucid[1]) = found
             /\ GetMessageBySignedCid(lite.messages, m.scid[1]) = found
             /\ GetMessageByFromAndNonce(lite.messages, m.from, m.nonce) = found

(* Whatever ListMessage and ListFailedMessage may answer, they show a user no message of a sender the
   user is not bound to ("only admin can list all message"), and ListAddress no such address. *)
OwnMessagesOnly ==
    \A u \in User :
      /\ \A p \in Params : \A msgs \in ListMessage(u, p) : \A i \in DOMAIN msgs : msgs[i].msg.from \in Signers[u]
      /\ \A msgs \in ListFailedMessage(u) : \A i \in DOMAIN msgs : msgs[i].from \in Signers[u]
      /\ \A a \in ListAddress(u) : a.addr[2] \in Signers[u]

(* The migration at start leaves one row for each address, with the new prefix, and the nonce of
   the row that had it, or else of the old one: an address that lost its nonce would sign again
   with nonces already used. *)
MigrationKeepsNonce ==
    [][Start =>
        \A a \in Addr :
          LET before(pre) == {r.nonce : r \in {x \in lite.addresses : x.addr = <<pre, a>>}}
              after == {r \in lite'.addresses : r.addr[2] = a}
          IN  /\ Cardinality(after) = Cardinality({x.addr[2] : x \in {y \in lite.addresses : y.addr[2] = a}})
              /\ \A r \in after : /\ r.addr[1] = "f"
                                  /\ r.nonce \in IF before("f") # {} THEN before("f") ELSE before("t")]_vars
=============================================================================
