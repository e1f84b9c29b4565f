----------------------------- MODULE Publisher -----------------------------
(***************************************************************************)
(* The way of signed messages from the services to the nodes (package      *)
(* publisher): the receiver groups them by sender, the cache drops what it *)
(* has seen lately, workers hand batches to the main node's thread, to one *)
(* thread for every node of the table, and to the gossip topic.  All of it *)
(* is joined by bounded channels.                                          *)
(***************************************************************************)
EXTENDS Integers, Sequences, FiniteSets

CONSTANTS
    Msg,       \* signed messages
    From,      \* From[m]: the sender
    NonceOf,   \* NonceOf[m]: the nonce
    Bls,       \* the messages whose cid is that of the unsigned message
    Worker,    \* the workers of ConcurrentPublisher
    NodeId,    \* ids of the table of nodes
    Main,      \* the main node, of the configuration
    Cap,       \* capacity of the channels
    Scenes     \* see scene

(* A batch as a service sends it: no two messages of a sender have the same nonce. *)
Sendable(msgs) ==
    /\ msgs \in Seq(Msg)
    /\ \A i, j \in DOMAIN msgs : i # j /\ From[msgs[i]] = From[msgs[j]] => NonceOf[msgs[i]] # NonceOf[msgs[j]]

(* The main node is not in the table, and the table holds known nodes. *)
ASSUME MainAssumption == Main \notin NodeId
ASSUME NonceAssumption == NonceOf \in [Msg -> Nat]
ASSUME ScenesAssumption ==
    \A s \in Scenes : /\ s.nodes \subseteq NodeId
                      /\ s.offers \in Seq(Seq(Msg)) /\ \A k \in DOMAIN s.offers : Sendable(s.offers[k])

Thread == NodeId \cup {Main}
NoNode == "none"

VARIABLES
    scene,     \* the configuration and what bounds a behaviour: [offers, nodes, changes, hung, useCache, multi, p2p]
    offers,    \* batches the services have yet to publish
    msgReceiver, group,   \* the receiver's channel, and the groups of the batch it works on
    cacheCh, cache, newMsgs,  \* CachePublisher: its channel, cache[m] and what it is about to hand on
    msgCh,     \* ConcurrentPublisher's channel
    work,      \* work[w]: a worker
    lk,        \* the workers that hold the lock of RpcPublisher
    nodes,     \* the ids in the table of nodes
    nodeThreads,  \* RpcPublisher's map: the ids that have a thread
    running,   \* running[n]: the number of threads that serve node n
    msgChan,   \* msgChan[n]: the channel of the node's thread
    pool,      \* pool[n]: messages the node was given
    topic,     \* messages published on the gossip topic
    refused,   \* messages of batches that a node refused for another reason than a used or known nonce
    errored,   \* messages with a recorded error
    quiet,     \* quiet[m]: ticks since the cache saw m last, up to 2
    resent     \* messages handed on again before their time was over

queues == <<offers, msgReceiver, group>>
cacheVars == <<cacheCh, cache, newMsgs, quiet, resent>>
threadVars == <<nodeThreads, running, msgChan>>
outVars == <<pool, topic, refused, errored>>
vars == <<scene, queues, cacheVars, msgCh, work, lk, nodes, threadVars, outVars>>

Idle == [pc |-> "idle", msgs |-> <<>>, todo |-> {}, list |-> {}, node |-> NoNode]

Init ==
    /\ scene \in Scenes
    /\ offers = scene.offers
    /\ msgReceiver = <<>> /\ group = {}
    /\ cacheCh = <<>> /\ newMsgs = <<>> /\ msgCh = <<>>
    /\ cache = [m \in Msg |-> "absent"]
    /\ quiet = [m \in Msg |-> 2] /\ resent = {}
    /\ work = [w \in Worker |-> Idle]
    /\ lk = {}
    /\ nodes = scene.nodes
    /\ nodeThreads = {}
    /\ running = [n \in NodeId |-> 0]
    /\ msgChan = [n \in Thread |-> <<>>]
    /\ pool = [n \in Thread |-> {}]
    /\ topic = {} /\ refused = {} /\ errored = {}

Room(ch) == Len(ch) < Cap
Msgs(seq) == {seq[i] : i \in DOMAIN seq}

-----------------------------------------------------------------------------
(* MessageReceiver *)

(* A service sends a batch. *)
Offer ==
    /\ offers # <<>> /\ Room(msgReceiver)
    /\ msgReceiver' = Append(msgReceiver, Head(offers))
    /\ offers' = Tail(offers)
    /\ UNCHANGED <<scene, group, cacheVars, msgCh, work, lk, nodes, threadVars, outVars>>

(* Mutant: the messages keep their order. *)
GroupOnly(msgs) ==
    {SelectSeq(msgs, LAMBDA m : From[m] = a) : a \in {From[m] : m \in Msgs(msgs)}}

(* The elements of a finite set in the order of their keys. *)
Ordered(S, key) ==
    CHOOSE q \in [1..Cardinality(S) -> S] :
        \A i, j \in 1..Cardinality(S) : i < j => q[i] # q[j] /\ key[q[i]] <= key[q[j]]

(* MsgsGroupByAddress, each group sorted by nonce. *)
GroupByAddress(msgs) ==
    {Ordered({m \in Msgs(msgs) : From[m] = a}, NonceOf) : a \in {From[m] : m \in Msgs(msgs)}}

Receive ==
    /\ group = {} /\ msgReceiver # <<>>
    /\ group' = GroupByAddress(Head(msgReceiver))
    /\ msgReceiver' = Tail(msgReceiver)
    /\ UNCHANGED <<scene, offers, cacheVars, msgCh, work, lk, nodes, threadVars, outVars>>

(* The groups are handed on in any order, to the cache or, without one, to the workers. *)
PublishMessages ==
    /\ \E g \in group :
         /\ group' = group \ {g}
         /\ IF scene.useCache
            THEN Room(cacheCh) /\ cacheCh' = Append(cacheCh, g) /\ UNCHANGED msgCh
            ELSE Room(msgCh) /\ msgCh' = Append(msgCh, g) /\ UNCHANGED cacheCh
    /\ UNCHANGED <<scene, offers, msgReceiver, cache, newMsgs, quiet, resent, work, lk, nodes, threadVars, outVars>>

-----------------------------------------------------------------------------
(* CachePublisher *)

(* Mutant: a message seen again is not marked as new. *)
MarkFirst(msgs) == [m \in Msg |-> IF m \in Msgs(msgs) /\ cache[m] = "absent" THEN "new" ELSE cache[m]]

(* Every message of the batch is marked as new, those handed on and those dropped. *)
Mark(msgs) == [m \in Msg |-> IF m \in Msgs(msgs) THEN "new" ELSE cache[m]]

(* The messages of the batch that the cache does not know, in their order. *)
Unknown(msgs) ==
    LET keep == {i \in DOMAIN msgs : cache[msgs[i]] = "absent"}
        at == Ordered(keep, [i \in keep |-> i])
    IN  [k \in 1..Cardinality(keep) |-> msgs[at[k]]]

(* What the cache does not know is handed on. *)
CacheTake ==
    /\ newMsgs = <<>> /\ cacheCh # <<>>
    /\ LET msgs == Head(cacheCh)
           new == Unknown(msgs)
       IN  /\ newMsgs' = new
           /\ cache' = Mark(msgs)
           /\ quiet' = [m \in Msg |-> IF m \in Msgs(msgs) THEN 0 ELSE quiet[m]]
           /\ resent' = resent \cup {m \in Msgs(new) : quiet[m] < 2}
    /\ cacheCh' = Tail(cacheCh)
    /\ UNCHANGED <<scene, queues, msgCh, work, lk, nodes, threadVars, outVars>>

CacheForward ==
    /\ newMsgs # <<>> /\ Room(msgCh)
    /\ msgCh' = Append(msgCh, newMsgs)
    /\ newMsgs' = <<>>
    /\ UNCHANGED <<scene, queues, cacheCh, cache, quiet, resent, work, lk, nodes, threadVars, outVars>>

(* The ticker: new becomes old, old is forgotten. *)
CacheTick ==
    /\ newMsgs = <<>>
    /\ \E m \in Msg : quiet[m] < 2
    /\ cache' = [m \in Msg |-> IF cache[m] = "new" THEN "old" ELSE "absent"]
    /\ quiet' = [m \in Msg |-> IF quiet[m] < 2 THEN quiet[m] + 1 ELSE 2]
    /\ UNCHANGED <<scene, queues, cacheCh, newMsgs, resent, msgCh, work, lk, nodes, threadVars, outVars>>

-----------------------------------------------------------------------------
(* ConcurrentPublisher, MergePublisher, RpcPublisher *)

Take(w) ==
    /\ work[w].pc = "idle" /\ msgCh # <<>>
    /\ work' = [work EXCEPT ![w] = [Idle EXCEPT !.pc = "main", !.msgs = Head(msgCh)]]
    /\ msgCh' = Tail(msgCh)
    /\ UNCHANGED <<scene, queues, cacheVars, lk, nodes, threadVars, outVars>>

(* HandleMsg: waits for room. *)
HandleMsg(n, msgs) == Room(msgChan[n]) /\ msgChan' = [msgChan EXCEPT ![n] = Append(@, msgs)]

Step(w, pc) == work' = [work EXCEPT ![w].pc = pc]

(* Mutant: the main node is skipped while its channel is full. *)
ToMainOrDrop(w) ==
    /\ work[w].pc = "main"
    /\ HandleMsg(Main, work[w].msgs) \/ (~Room(msgChan[Main]) /\ UNCHANGED msgChan)
    /\ Step(w, IF scene.multi THEN "list" ELSE "p2p")
    /\ UNCHANGED <<scene, queues, cacheVars, msgCh, lk, nodes, nodeThreads, running, outVars>>

(* The main node comes first. *)
ToMain(w) ==
    /\ work[w].pc = "main"
    /\ HandleMsg(Main, work[w].msgs)
    /\ Step(w, IF scene.multi THEN "list" ELSE "p2p")
    /\ UNCHANGED <<scene, queues, cacheVars, msgCh, lk, nodes, nodeThreads, running, outVars>>

(* The table is read before the lock is taken; a failure ends RpcPublisher's part. *)
ListNode(w) ==
    /\ work[w].pc = "list"
    /\ \/ work' = [work EXCEPT ![w].pc = "lock", ![w].list = nodes, ![w].todo = nodes]
       \/ Step(w, "p2p")
    /\ UNCHANGED <<scene, queues, cacheVars, msgCh, lk, nodes, threadVars, outVars>>

(* Mutant: several workers at once. *)
LockShared(w) ==
    /\ work[w].pc = "lock"
    /\ lk' = lk \cup {w}
    /\ Step(w, "node")
    /\ UNCHANGED <<scene, queues, cacheVars, msgCh, nodes, threadVars, outVars>>

Lock(w) ==
    /\ work[w].pc = "lock" /\ lk = {}
    /\ lk' = {w}
    /\ Step(w, "node")
    /\ UNCHANGED <<scene, queues, cacheVars, msgCh, nodes, threadVars, outVars>>

(* The next node of the list as read, whose thread is looked up. *)
NextNode(w) ==
    /\ work[w].pc = "node"
    /\ \E n \in work[w].todo :
         work' = [work EXCEPT ![w].pc = IF n \in nodeThreads THEN "send" ELSE "dial",
                              ![w].node = n, ![w].todo = @ \ {n}]
    /\ UNCHANGED <<scene, queues, cacheVars, msgCh, lk, nodes, threadVars, outVars>>

(* A node without a thread is connected and gets one, or is left out this time. *)
Dial(w) ==
    LET n == work[w].node IN
    /\ work[w].pc = "dial"
    /\ \/ /\ nodeThreads' = nodeThreads \cup {n}
          /\ running' = [running EXCEPT ![n] = @ + 1]
          /\ msgChan' = [msgChan EXCEPT ![n] = <<>>]
          /\ Step(w, "send")
       \/ Step(w, "node") /\ UNCHANGED threadVars
    /\ UNCHANGED <<scene, queues, cacheVars, msgCh, lk, nodes, outVars>>

ToNode(w) ==
    /\ work[w].pc = "send"
    /\ HandleMsg(work[w].node, work[w].msgs)
    /\ Step(w, "node")
    /\ UNCHANGED <<scene, queues, cacheVars, msgCh, lk, nodes, nodeThreads, running, outVars>>

(* recordPushMessageError looks for the cid of the signed message among those of unsigned ones. *)
recordPushMessageError(msgs) ==
    /\ refused' = refused \cup msgs
    /\ errored' = errored \cup (msgs \cap Bls)

(* The threads of nodes that are not in the list are closed, with what they have queued: of that
   they may still take some batches, whose push fails. *)
CloseThreads(w) ==
    LET gone == nodeThreads \ work[w].list IN
    /\ work[w].pc = "node" /\ work[w].todo = {}
    /\ nodeThreads' = nodeThreads \ gone
    /\ running' = [n \in NodeId |-> IF n \in gone THEN running[n] - 1 ELSE running[n]]
    /\ msgChan' = [n \in Thread |-> IF n \in gone THEN <<>> ELSE msgChan[n]]
    /\ \E taken \in [gone -> 0..Cap] :
         recordPushMessageError(UNION {UNION {Msgs(msgChan[n][i]) : i \in DOMAIN msgChan[n] \cap 1..taken[n]} : n \in gone})
    /\ lk' = lk \ {w}
    /\ Step(w, "p2p")
    /\ UNCHANGED <<scene, queues, cacheVars, msgCh, nodes, pool, topic>>

(* MergePublisher goes on to the gossip topic, if there is one, whatever became of the nodes; a
   failure leaves the rest of the batch out. *)
ToTopic(w) ==
    /\ work[w].pc = "p2p"
    /\ \E k \in IF scene.p2p THEN 0..Len(work[w].msgs) ELSE {0} :
         topic' = topic \cup Msgs(SubSeq(work[w].msgs, 1, k))
    /\ work' = [work EXCEPT ![w] = Idle]
    /\ UNCHANGED <<scene, queues, cacheVars, msgCh, lk, nodes, threadVars, pool, refused, errored>>

-----------------------------------------------------------------------------
(* The threads of the nodes, and the table *)

(* run: the batch is pushed.  A refusal that says the nonce is used or known is no error; any other
   is recorded for all messages of the batch.  The thread of a node that hangs is stuck in a push. *)
run(n) ==
    /\ n \in (nodeThreads \ scene.hung) \cup {Main}
    /\ msgChan[n] # <<>>
    /\ LET msgs == Head(msgChan[n]) IN
       /\ pool' = [pool EXCEPT ![n] = @ \cup Msgs(msgs)]
       /\ recordPushMessageError(Msgs(msgs)) \/ UNCHANGED <<refused, errored>>
    /\ msgChan' = [msgChan EXCEPT ![n] = Tail(@)]
    /\ UNCHANGED <<scene, queues, cacheVars, msgCh, work, lk, nodes, nodeThreads, running, topic>>

(* NodeService: a node is saved or deleted. *)
ChangeNodes ==
    /\ scene.changes > 0
    /\ scene' = [scene EXCEPT !.changes = @ - 1]
    /\ \E n \in NodeId : nodes' = IF n \in nodes THEN nodes \ {n} ELSE nodes \cup {n}
    /\ UNCHANGED <<queues, cacheVars, msgCh, work, lk, threadVars, outVars>>

WorkerStep(w) ==
    \/ Take(w) \/ ToMain(w) \/ ListNode(w) \/ Lock(w) \/ NextNode(w) \/ Dial(w) \/ ToNode(w)
    \/ CloseThreads(w) \/ ToTopic(w)

Next ==
    \/ Offer \/ Receive \/ PublishMessages
    \/ CacheTake \/ CacheForward \/ CacheTick
    \/ \E w \in Worker : WorkerStep(w)
    \/ \E n \in Thread : run(n)
    \/ ChangeNodes

(* Every goroutine goes on, every node but those that hang answers in the end, and the lock is
   handed on. *)
Fairness ==
    /\ WF_vars(Receive) /\ WF_vars(PublishMessages) /\ WF_vars(CacheTake) /\ WF_vars(CacheForward)
    /\ \A w \in Worker : WF_vars(WorkerStep(w))
    /\ \A n \in Thread : WF_vars(run(n))

Spec == Init /\ [][Next]_vars /\ Fairness

-----------------------------------------------------------------------------
(* Properties *)

InFlight ==
    Msgs(cacheCh) \cup Msgs(msgCh) \cup {newMsgs} \cup {work[w].msgs : w \in Worker}
    \cup UNION {Msgs(msgChan[n]) : n \in Thread}

(* A batch on its way to a node holds messages of one sender in increasing order of their nonces,
   after the cache has dropped some too: a node given a later nonce first refuses it. *)
BatchInOrder ==
    \A b \in InFlight : \A i, j \in DOMAIN b :
        i < j => From[b[i]] = From[b[j]] /\ NonceOf[b[i]] < NonceOf[b[j]]

(* The cache hands a message on again only after two ticks without it, one period at least. *)
CacheQuiets == resent = {}

(* However many workers publish at once, a node has one thread, and it is the one of the map: no
   thread is left behind that nobody can close. *)
OneThreadPerNode ==
    \A n \in NodeId : running[n] = IF n \in nodeThreads THEN 1 ELSE 0

(* Every batch a service handed to the receiver reaches the main node, whatever nodes come, go or
   cannot be connected.  If another node hangs, so do its queue and every worker in the end, but
   Cap + Cardinality(Worker) batches reach the main node. *)
ReachesMain ==
    \A m \in Msg : (\E i \in DOMAIN msgReceiver : m \in Msgs(msgReceiver[i])) ~> m \in pool[Main]

(* The error of a refused push is recorded for every message of the batch. *)
ErrorsRecorded == refused \subseteq errored
=============================================================================
