----------------------------- MODULE MysqlStore -----------------------------
(***************************************************************************)
(* The repositories of models/mysql.  A table T is a set of rows; a write  *)
(* is an operator from the table to the new table, a query one from the    *)
(* table to what it returns: a set where the statement gives no order, and *)
(* for a single row the set of the rows it may return.                     *)
(*                                                                         *)
(* Optional values are sequences: <<>> is nil.  Of the gas columns that    *)
(* are handled alike one is kept: cap (a big integer) of messages, maxFee  *)
(* (a big integer) and overEst (a ratio, in thousandths) of a fee spec.    *)
(***************************************************************************)
EXTENDS Gorm

CONSTANTS
    MaxInt,       \* the largest value of a MySQL int column
    Width,        \* bits of Go's int and uint64
    StrictDates   \* whether the server refuses the zero date, as its default sql_mode does

(* decimal(10,2): two digits after the point. *)
Decimal2(x) == ((x + 5) \div 10) * 10

(* SafeFromGo: nil is stored as zero. *)
SafeFromGo(i) == IF i = <<>> THEN 0 ELSE i[1]

(* Go's int(u) of an unsigned number: the high half of them becomes negative. *)
AsInt(u) == IF u >= 2 ^ (Width - 1) THEN u - 2 ^ Width ELSE u

-----------------------------------------------------------------------------
(* messages *)

(* A nil cid is the empty string. *)
CidString(c) == IF c = <<>> THEN <<>> ELSE c[1]
CidOf(str)   == IF str = <<>> THEN <<>> ELSE <<str>>

(* An empty tipset key is the empty string too, a nil signature NULL. *)
fromMessage(m) ==
    [m EXCEPT !.method = AsInt(m.method), !.ucid = CidString(m.ucid), !.scid = CidString(m.scid),
              !.cap = SafeFromGo(m.cap), !.tsk = IF m.tsk = {} THEN <<>> ELSE <<m.tsk>>]

(* StringToTipsetKey: what was printed, or with an error the empty key. *)
StringToTipsetKey(str) == IF str = <<>> \/ str = <<{}>> THEN {} ELSE str[1]

Message(r) ==
    [r EXCEPT !.method = @ % (2 ^ Width), !.ucid = CidOf(@), !.scid = CidOf(@), !.cap = <<@>>,
              !.tsk = StringToTipsetKey(@)]

Messages(S) == {Message(r) : r \in S}
MessageSeq(rows) == [i \in DOMAIN rows |-> Message(rows[i])]

(* A method out of the column's range: the statement is refused.  (The lengths of the other columns
   are left out: no message is too long for them.) *)
Fits(m) == AsInt(m.method) >= -(MaxInt + 1) /\ AsInt(m.method) <= MaxInt

CreateMessage(T, m, now) ==
    IF Fits(m) THEN Create(T, [fromMessage(m) EXCEPT !.created = now, !.updated = now]) ELSE T

UpdateMessage(T, m, now) == IF Fits(m) THEN Save(T, [fromMessage(m) EXCEPT !.updated = now]) ELSE T

(* The columns of m that are not zero, if the row is still in the given state. *)
UpdateMessageByState(T, m, state, now) ==
    LET new == fromMessage(m)
    IN  UpdateWhere(T, LAMBDA r : r.id = m.id /\ r.state = state,
                    LAMBDA r : [r EXCEPT !.nonce = NonZero(new.nonce, @, 0), !.ucid = NonZero(new.ucid, @, <<>>),
                                         !.scid = NonZero(new.scid, @, <<>>), !.sig = new.sig \/ @,
                                         !.cap = new.cap, !.state = new.state, !.height = NonZero(new.height, @, 0),
                                         !.rcpt = NonZero(new.rcpt, @, 0), !.tsk = NonZero(new.tsk, @, <<>>),
                                         !.err = NonZero(new.err, @, 0), !.updated = now])

SetState(T, matching, state, now) ==
    (T \ matching) \cup {[r EXCEPT !.state = state, !.updated = now] : r \in matching}

ExpireMessage(T, ids, now) == SetState(T, {r \in T : r.id \in ids}, "Failed", now)
UpdateMessageStateByCid(T, cid, state, now) == SetState(T, {r \in T : r.ucid = cid}, state, now)
UpdateMessageStateByID(T, id, state, now) == SetState(T, {r \in T : r.id = id}, state, now)
MarkBadMessage(T, id, now) == SetState(T, {r \in T : r.id = id}, "Failed", now)

UpdateErrMsg(T, id, err, now) ==
    UpdateWhere(T, LAMBDA r : r.id = id, LAMBDA r : [r EXCEPT !.err = err, !.updated = now])

(* The key is printed even if it is empty: the column then holds "{}". *)
UpdateMessageInfoByCid(T, cid, rcpt, height, state, tsk, now) ==
    UpdateWhere(T, LAMBDA r : r.ucid = cid,
                LAMBDA r : [r EXCEPT !.rcpt = rcpt, !.height = height, !.state = state, !.tsk = <<tsk>>,
                                     !.updated = now])

GetMessageByUid(T, id) == Messages({r \in T : r.id = id})
HasMessageByUid(T, id) == \E r \in T : r.id = id
GetMessageState(T, id) ==
    IF \E r \in T : r.id = id THEN (CHOOSE r \in T : r.id = id).state ELSE "UnKnown"
GetMessageByCid(T, cid) == Messages({r \in T : r.ucid = cid})
GetMessageBySignedCid(T, cid) == Messages({r \in T : r.scid = cid})
GetMessageByFromAndNonce(T, from, nonce) == Messages({r \in T : r.from = from /\ r.nonce = nonce})
GetMessageByFromNonceAndState(T, from, nonce, state) ==
    Messages({r \in T : r.from = from /\ r.nonce = nonce /\ r.state = state})
GetSignedMessageByTime(T, start) == Messages({r \in T : r.created >= start /\ r.sig})
GetSignedMessageByHeight(T, height) == Messages({r \in T : r.height >= height /\ r.sig})
GetSignedMessageFromFailedMsg(T, from) == Messages({r \in T : r.state = "Failed" /\ r.from = from /\ r.sig})
ListMessage(T) == Messages(T)
ListMessageByAddress(T, from) == Messages({r \in T : r.from = from})
ListFilledMessageByAddress(T, from) == Messages({r \in T : r.from = from /\ r.state = "Fill"})
ListFilledMessageBelowNonce(T, from, nonce) ==
    Messages({r \in T : r.from = from /\ r.state = "Fill" /\ r.nonce < nonce})
ListChainMessageByHeight(T, height) == Messages({r \in T : r.height = height /\ r.state = "OnChain"})
ListUnFilledMessage(T, from) == Messages({r \in T : r.from = from /\ r.state = "UnFill"})
ListSignedMsgs(T) == Messages({r \in T : r.height = 0 /\ r.sig})

(* The newest first, at most topN of them. *)
ListUnChainMessageByAddress(T, from, topN) ==
    MessageSeq(Page(OrderBy({r \in T : r.from = from /\ r.state = "UnFill"}, "created", FALSE), 0, topN))

(* Mutant: pages are counted from zero. *)
FromStateOffByOne(T, from, state, isAsc, pageIndex, pageSize, before) ==
    LET S == {r \in T : from \in {<<>>, <<r.from>>} /\ r.state = state /\ (before = <<>> \/ r.created < before[1])}
    IN  MessageSeq(Page(OrderBy(S, "created", isAsc), pageIndex * pageSize, pageSize))

(* One page of the messages in a state, of one sender or of all, created before a time or at any. *)
ListMessageByFromState(T, from, state, isAsc, pageIndex, pageSize, before) ==
    LET S == {r \in T : from \in {<<>>, <<r.from>>} /\ r.state = state /\ (before = <<>> \/ r.created < before[1])}
    IN  MessageSeq(Page(OrderBy(S, "created", isAsc), (pageIndex - 1) * pageSize, pageSize))

(* The conditions of parseQueryParams; no sender or no state means any. *)
Matches(r, p) ==
    /\ p.from = {} \/ r.from \in p.from
    /\ p.state = {} \/ r.state \in p.state
    /\ p.since = <<>> \/ r.updated >= p.since[1]

(* The orders the rows may come in: the newest update first, those of one moment in any order, or
   with asc all in any order, as no ORDER BY is given then. *)
parseQueryParams(S, p) ==
    {s \in Arrangements(S) : p.asc \/ \A i, j \in DOMAIN s : i < j => s[i].updated >= s[j].updated}

(* What the database may answer, for each of these orders; an offset without a limit is an error. *)
Answers(orders, p) ==
    IF p.offset > 0 /\ p.limit = 0 THEN {} ELSE {MessageSeq(Page(s, p.offset, p.limit)) : s \in orders}

ListMessageByParams(T, p) == Answers(parseQueryParams({r \in T : Matches(r, p)}, p), p)

(* Ordered by creation: the order of parseQueryParams comes second and never counts. *)
ListFailedMessage(T, p) ==
    LET q == [p EXCEPT !.state = {"UnFill"}]
    IN  Answers({OrderBy({r \in T : Matches(r, q) /\ r.err # 0}, "created", TRUE)}, p)

(* Here the order of creation comes second, or with asc alone. *)
ListBlockedMessage(T, p, before) ==
    LET q == [p EXCEPT !.state = {"Fill", "UnFill"}]
    IN  Answers({s \in parseQueryParams({r \in T : Matches(r, q) /\ r.created < before}, q) :
                   \A i, j \in DOMAIN s :
                     i < j /\ (p.asc \/ s[i].updated = s[j].updated) => s[i].created <= s[j].created}, p)

-----------------------------------------------------------------------------
(* addresses: addr is <<prefix, address>>, the prefix "f" or, in old rows, "t" *)

fromAddress(a, now) ==
    [a EXCEPT !.maxFee = SafeFromGo(a.maxFee), !.overEst = Decimal2(a.overEst), !.updated = now]

Address(r) == [r EXCEPT !.addr = <<"f", @[2]>>, !.maxFee = <<@>>]

AddressNamed(addr) == <<"f", addr>>

SaveAddress(T, a, now) ==
    IF \E r \in T : r.addr = a.addr /\ r.id # a.id THEN T ELSE Save(T, fromAddress(a, now))

GetAddress(T, addr) == {Address(r) : r \in {x \in T : x.addr = AddressNamed(addr) /\ ~x.deleted}}
GetAddressByID(T, id) == {Address(r) : r \in {x \in T : x.id = id /\ ~x.deleted}}
GetOneRecord(T, str) == {Address(r) : r \in {x \in T : x.addr = str}}
HasAddress(T, addr) == \E r \in T : r.addr = AddressNamed(addr) /\ ~r.deleted
ListAddress(T) == {Address(r) : r \in {x \in T : ~x.deleted}}
ListActiveAddress(T) == {Address(r) : r \in {x \in T : ~x.deleted /\ x.state = "Alive"}}
DelAddress(T, str) == {r \in T : r.addr # str}

UpdateAddress(T, addr, Change(_)) == UpdateWhere(T, LAMBDA r : r.addr = AddressNamed(addr) /\ ~r.deleted, Change)

UpdateNonce(T, addr, nonce, now) == UpdateAddress(T, addr, LAMBDA r : [r EXCEPT !.nonce = nonce, !.updated = now])
UpdateState(T, addr, state, now) == UpdateAddress(T, addr, LAMBDA r : [r EXCEPT !.state = state, !.updated = now])
UpdateSelectMsgNum(T, addr, num, now) ==
    UpdateAddress(T, addr, LAMBDA r : [r EXCEPT !.selNum = num, !.updated = now])

(* A nil integer and a zero ratio leave the column alone: a ratio cannot be set back to zero. *)
UpdateFeeParams(T, addr, overEst, maxFee, now) ==
    IF maxFee = <<>> /\ overEst = 0 THEN T
    ELSE UpdateAddress(T, addr,
            LAMBDA r : [r EXCEPT !.maxFee = IF maxFee = <<>> THEN @ ELSE maxFee[1],
                                 !.overEst = IF overEst = 0 THEN @ ELSE Decimal2(overEst), !.updated = now])

-----------------------------------------------------------------------------
(* actor_cfg: at most one row for a code and method *)

fromActorCfg(c) == [c EXCEPT !.maxFee = SafeFromGo(c.maxFee), !.overEst = Decimal2(c.overEst)]

ActorCfg(r) == [r EXCEPT !.maxFee = <<@>>]

SaveActorCfg(T, c) ==
    IF \/ c.code = 0
       \/ \E r \in T : r.id # c.id /\ r.code = c.code /\ r.method = c.method
    THEN T ELSE Save(T, fromActorCfg(c))

HasActorCfg(T, code, method) == \E r \in T : r.code = code /\ r.method = method
GetActorCfgByMethodType(T, code, method) == {ActorCfg(r) : r \in {x \in T : x.code = code /\ x.method = method}}
GetActorCfgByID(T, id) == {ActorCfg(r) : r \in {x \in T : x.id = id}}
ListActorCfg(T) == {ActorCfg(r) : r \in T}
DelActorCfgByMethodType(T, code, method) == {r \in T : r.code # code \/ r.method # method}
DelActorCfgById(T, id) == {r \in T : r.id # id}

(* Here nil means unchanged for ratios too. *)
UpdateSelectSpecById(T, id, overEst, maxFee) ==
    UpdateWhere(T, LAMBDA r : r.id = id,
                LAMBDA r : [r EXCEPT !.maxFee = IF maxFee = <<>> THEN @ ELSE maxFee[1],
                                     !.overEst = IF overEst = <<>> THEN @ ELSE Decimal2(overEst[1])])

-----------------------------------------------------------------------------
(* shared_params: one row, of id 1 *)

fromSharedParams(p) == [p EXCEPT !.maxFee = SafeFromGo(p.maxFee), !.overEst = Decimal2(p.overEst)]

SharedParams(r) == [r EXCEPT !.maxFee = <<@>>]

GetSharedParams(T) == {SharedParams(r) : r \in T}

SetSharedParams(T, p) == Save(T, [fromSharedParams(p) EXCEPT !.id = 1])

-----------------------------------------------------------------------------
(* nodes *)

(* The times of the node that is saved are left behind. *)
fromNode(n) == [id |-> n.id, name |-> n.name, deleted |-> FALSE, created |-> 0, updated |-> 0]

Node(r) == [id |-> r.id, name |-> r.name, created |-> r.created, updated |-> r.updated]

(* The row of a known id would lose its time of creation: a strict server refuses that. *)
SaveNode(T, n, now) ==
    LET row == Stamped(T, [fromNode(n) EXCEPT !.updated = now], now)
    IN  IF StrictDates /\ row.created = 0 THEN T ELSE Save(T, row)

GetNode(T, name) == {Node(r) : r \in {x \in T : x.name = name /\ ~x.deleted}}
HasNode(T, name) == \E r \in T : r.name = name /\ ~r.deleted
ListNode(T) == {Node(r) : r \in {x \in T : ~x.deleted}}

(* One row of that name; id says which of them the database returned. *)
DelNode(T, name, id, now) ==
    UpdateWhere(T, LAMBDA r : r.id = id /\ r.name = name /\ ~r.deleted,
                LAMBDA r : [r EXCEPT !.deleted = TRUE, !.updated = now])
=============================================================================
