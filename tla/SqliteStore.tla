---------------------------- MODULE SqliteStore -----------------------------
(***************************************************************************)
(* The repositories of models/sqlite, over the same tables as MysqlStore.  *)
(* What differs: a ratio is a REAL and keeps all its digits, the method    *)
(* number of a configuration is stored as a signed integer of the same     *)
(* width, every method number fits, and a node keeps its times.            *)
(***************************************************************************)
EXTENDS Gorm

CONSTANT Width    \* bits of an integer

(* sqliteUint64.Value and Scan: the high half of the numbers is stored as negative ones. *)
Value(u) == IF u >= 2 ^ (Width - 1) THEN u - 2 ^ Width ELSE u
Scan(i)  == i % (2 ^ Width)

(* mtypes.Int: a nil integer is written as zero, and never comes back as nil. *)
SafeFromGo(i) == IF i = <<>> THEN 0 ELSE i[1]
NewFromGo(i)  == <<i>>

-----------------------------------------------------------------------------
(* messages *)

CidString(c) == IF c = <<>> THEN <<>> ELSE c[1]
CidOf(str)   == IF str = <<>> THEN <<>> ELSE <<str>>

fromMessage(m) ==
    [m EXCEPT !.method = Value(m.method), !.ucid = CidString(m.ucid), !.scid = CidString(m.scid),
              !.cap = SafeFromGo(m.cap), !.tsk = IF m.tsk = {} THEN <<>> ELSE <<m.tsk>>]

Message(r) ==
    [r EXCEPT !.method = Scan(@), !.ucid = CidOf(@), !.scid = CidOf(@), !.cap = NewFromGo(@),
              !.tsk = IF @ = <<>> THEN {} ELSE @[1]]

Find(rows) == {Message(r) : r \in rows}
FindAll(rows) == [i \in DOMAIN rows |-> Message(rows[i])]

CreateMessage(T, m, now) == Create(T, [fromMessage(m) EXCEPT !.created = now, !.updated = now])

UpdateMessage(T, m, now) == Save(T, [fromMessage(m) EXCEPT !.updated = now])

(* Mutant: the row may have left the state meanwhile. *)
UpdateAnyState(T, m, state, now) ==
    LET new == fromMessage(m)
    IN  UpdateWhere(T, LAMBDA r : r.id = m.id, LAMBDA r : [r EXCEPT !.state = new.state, !.cap = new.cap, !.updated = now])

(* Updates with a struct: zero columns of m are left alone. *)
UpdateMessageByState(T, m, state, now) ==
    LET new == fromMessage(m)
    IN  UpdateWhere(T, LAMBDA r : r.id = m.id /\ r.state = state,
                    LAMBDA r : [r EXCEPT !.nonce = NonZero(new.nonce, @, 0), !.ucid = NonZero(new.ucid, @, <<>>),
                                         !.scid = NonZero(new.scid, @, <<>>), !.sig = new.sig \/ @,
                                         !.cap = new.cap, !.state = new.state, !.height = NonZero(new.height, @, 0),
                                         !.rcpt = NonZero(new.rcpt, @, 0), !.tsk = NonZero(new.tsk, @, <<>>),
                                         !.err = NonZero(new.err, @, 0), !.updated = now])

SetState(r, state, now) == [r EXCEPT !.state = state, !.updated = now]

ExpireMessage(T, ids, now) == UpdateWhere(T, LAMBDA r : r.id \in ids, LAMBDA r : SetState(r, "Failed", now))
UpdateMessageStateByCid(T, cid, state, now) ==
    UpdateWhere(T, LAMBDA r : r.ucid = cid, LAMBDA r : SetState(r, state, now))
UpdateMessageStateByID(T, id, state, now) ==
    UpdateWhere(T, LAMBDA r : r.id = id, LAMBDA r : SetState(r, state, now))
MarkBadMessage(T, id, now) == UpdateWhere(T, LAMBDA r : r.id = id, LAMBDA r : SetState(r, "Failed", now))
UpdateErrMsg(T, id, err, now) ==
    UpdateWhere(T, LAMBDA r : r.id = id, LAMBDA r : [r EXCEPT !.err = err, !.updated = now])
UpdateMessageInfoByCid(T, cid, rcpt, height, state, tsk, now) ==
    UpdateWhere(T, LAMBDA r : r.ucid = cid,
                LAMBDA r : [SetState(r, state, now) EXCEPT !.rcpt = rcpt, !.height = height, !.tsk = <<tsk>>])

GetMessageState(T, id) ==
    IF \E r \in T : r.id = id THEN (CHOOSE r \in T : r.id = id).state ELSE "UnKnown"
HasMessageByUid(T, id) == Cardinality({r \in T : r.id = id}) > 0
GetMessageByUid(T, id) == Find({r \in T : r.id = id})
GetMessageByCid(T, cid) == Find({r \in T : r.ucid = cid})
GetMessageBySignedCid(T, cid) == Find({r \in T : r.scid = cid})
GetMessageByFromAndNonce(T, from, nonce) == Find({r \in T : r.from = from /\ r.nonce = nonce})
GetMessageByFromNonceAndState(T, from, nonce, state) ==
    Find({r \in T : r.from = from /\ r.nonce = nonce /\ r.state = state})
GetSignedMessageByTime(T, start) == Find({r \in T : r.created >= start /\ r.sig})
GetSignedMessageByHeight(T, height) == Find({r \in T : r.height >= height /\ r.sig})
GetSignedMessageFromFailedMsg(T, from) == Find({r \in T : r.state = "Failed" /\ r.from = from /\ r.sig})
ListMessage(T) == Find(T)
ListMessageByAddress(T, from) == Find({r \in T : r.from = from})
ListFilledMessageByAddress(T, from) == Find({r \in T : r.from = from /\ r.state = "Fill"})
ListFilledMessageBelowNonce(T, from, nonce) ==
    Find({r \in T : r.from = from /\ r.state = "Fill" /\ r.nonce < nonce})
ListChainMessageByHeight(T, height) == Find({r \in T : r.height = height /\ r.state = "OnChain"})
ListUnFilledMessage(T, from) == Find({r \in T : r.from = from /\ r.state = "UnFill"})
ListSignedMsgs(T) == Find({r \in T : r.height = 0 /\ r.sig})

ListUnChainMessageByAddress(T, from, topN) ==
    FindAll(Page(OrderBy({r \in T : r.from = from /\ r.state = "UnFill"}, "created", FALSE), 0, topN))

ListMessageByFromState(T, from, state, isAsc, pageIndex, pageSize, before) ==
    LET S == {r \in T : /\ from = <<>> \/ r.from = from[1]
                        /\ before = <<>> \/ r.created < before[1]
                        /\ r.state = state}
    IN  FindAll(Page(OrderBy(S, "created", isAsc), (pageIndex - 1) * pageSize, pageSize))

(* Mutant: a message updated at the given moment itself is left out. *)
MatchesLater(T, p) ==
    {r \in T : /\ p.from # {} => r.from \in p.from
               /\ p.state # {} => r.state \in p.state
               /\ p.since # <<>> => r.updated > p.since[1]}

(* The conditions of parseQueryParams. *)
Matching(T, p) ==
    {r \in T : /\ p.from # {} => r.from \in p.from
               /\ p.state # {} => r.state \in p.state
               /\ p.since # <<>> => r.updated >= p.since[1]}

(* The rows that match, in the order of the last update (of one moment in any), or with asc in any. *)
parseQueryParams(T, p) ==
    {s \in Arrangements(Matching(T, p)) :
       ~p.asc => \A i, j \in DOMAIN s : i < j => s[i].updated >= s[j].updated}

(* What the database may answer.  Sqlite's grammar has no OFFSET without LIMIT either; what its gorm
   driver makes of one is not known here: it is answered, and no property speaks of such a query. *)
Answers(orders, p) == {FindAll(Page(s, p.offset, p.limit)) : s \in orders}

ListMessageByParams(T, p) == Answers(parseQueryParams(T, p), p)

(* ORDER BY created_at comes first in the statement. *)
ListFailedMessage(T, p) ==
    LET S == Matching({r \in T : r.err # 0}, [p EXCEPT !.state = {"UnFill"}])
    IN  Answers({OrderBy(S, "created", TRUE)}, p)

(* And here last. *)
ListBlockedMessage(T, p, before) ==
    Answers({s \in parseQueryParams({r \in T : r.created < before}, [p EXCEPT !.state = {"Fill", "UnFill"}]) :
               \A i, j \in DOMAIN s :
                 i < j /\ (p.asc \/ s[i].updated = s[j].updated) => s[i].created <= s[j].created}, p)

-----------------------------------------------------------------------------
(* addresses *)

fromAddress(a, now) == [a EXCEPT !.maxFee = SafeFromGo(a.maxFee), !.updated = now]

Address(r) == [r EXCEPT !.addr = <<"f", @[2]>>, !.maxFee = NewFromGo(@)]

Live(T) == {r \in T : ~r.deleted}
Named(T, addr) == {r \in Live(T) : r.addr = <<"f", addr>>}

SaveAddress(T, a, now) ==
    IF \E r \in T : r.addr = a.addr /\ r.id # a.id THEN T ELSE Save(T, fromAddress(a, now))

GetAddress(T, addr) == {Address(r) : r \in Named(T, addr)}
GetAddressByID(T, id) == {Address(r) : r \in {x \in Live(T) : x.id = id}}
GetOneRecord(T, str) == {Address(r) : r \in {x \in T : x.addr = str}}
HasAddress(T, addr) == Cardinality(Named(T, addr)) > 0
ListAddress(T) == {Address(r) : r \in Live(T)}
ListActiveAddress(T) == {Address(r) : r \in {x \in Live(T) : x.state = "Alive"}}
DelAddress(T, str) == {r \in T : r.addr # str}

UpdateNonce(T, addr, nonce, now) ==
    UpdateWhere(T, LAMBDA r : r \in Named(T, addr), LAMBDA r : [r EXCEPT !.nonce = nonce, !.updated = now])
UpdateState(T, addr, state, now) ==
    UpdateWhere(T, LAMBDA r : r \in Named(T, addr), LAMBDA r : SetState(r, state, now))
UpdateSelectMsgNum(T, addr, num, now) ==
    UpdateWhere(T, LAMBDA r : r \in Named(T, addr), LAMBDA r : [r EXCEPT !.selNum = num, !.updated = now])

(* Nothing given, nothing written, not even the time of the update. *)
UpdateFeeParams(T, addr, overEst, maxFee, now) ==
    UpdateWhere(T, LAMBDA r : r \in Named(T, addr) /\ (maxFee # <<>> \/ overEst # 0),
                LAMBDA r : [r EXCEPT !.maxFee = IF maxFee = <<>> THEN @ ELSE SafeFromGo(maxFee),
                                     !.overEst = NonZero(overEst, @, 0), !.updated = now])

-----------------------------------------------------------------------------
(* actor_cfg *)

fromActorCfg(c) == [c EXCEPT !.method = Value(c.method), !.maxFee = SafeFromGo(c.maxFee)]

ActorCfg(r) == [r EXCEPT !.method = Scan(@), !.maxFee = NewFromGo(@)]

SaveActorCfg(T, c) ==
    LET row == fromActorCfg(c)
    IN  IF c.code = 0 \/ \E r \in T : r.id # row.id /\ r.code = row.code /\ r.method = row.method
        THEN T ELSE Save(T, row)

(* The number is passed as it is, and the driver refuses one with the high bit set. *)
HasActorCfg(T, code, method) ==
    method < 2 ^ (Width - 1) /\ \E r \in T : r.code = code /\ r.method = method
GetActorCfgByMethodType(T, code, method) ==
    {ActorCfg(r) : r \in {x \in T : x.code = code /\ x.method = Value(method)}}
GetActorCfgByID(T, id) == {ActorCfg(r) : r \in {x \in T : x.id = id}}
ListActorCfg(T) == {ActorCfg(r) : r \in T}
DelActorCfgByMethodType(T, code, method) == {r \in T : ~(r.code = code /\ r.method = Value(method))}
DelActorCfgById(T, id) == {r \in T : r.id # id}
UpdateSelectSpecById(T, id, overEst, maxFee) ==
    UpdateWhere(T, LAMBDA r : r.id = id,
                LAMBDA r : [r EXCEPT !.maxFee = IF maxFee = <<>> THEN @ ELSE SafeFromGo(maxFee),
                                     !.overEst = IF overEst = <<>> THEN @ ELSE overEst[1]])

-----------------------------------------------------------------------------
(* shared_params *)

fromSharedParams(p) == [p EXCEPT !.maxFee = SafeFromGo(p.maxFee)]
SharedParams(r) == [r EXCEPT !.maxFee = NewFromGo(@)]
GetSharedParams(T) == {SharedParams(r) : r \in T}
SetSharedParams(T, p) == Save(T, fromSharedParams([p EXCEPT !.id = 1]))

-----------------------------------------------------------------------------
(* nodes *)

fromNode(n) == [id |-> n.id, name |-> n.name, deleted |-> FALSE, created |-> n.created, updated |-> n.updated]
Node(r) == [id |-> r.id, name |-> r.name, created |-> r.created, updated |-> r.updated]
SaveNode(T, n, now) == Save(T, Stamped(T, [fromNode(n) EXCEPT !.updated = now], now))
GetNode(T, name) == {Node(r) : r \in {x \in Live(T) : x.name = name}}
HasNode(T, name) == Cardinality(GetNode(T, name)) > 0
ListNode(T) == {Node(r) : r \in Live(T)}
DelNode(T, name, id, now) ==
    UpdateWhere(T, LAMBDA r : r \in Live(T) /\ r.id = id /\ r.name = name,
                LAMBDA r : [r EXCEPT !.deleted = TRUE, !.updated = now])
=============================================================================
