--------------------------- MODULE PublisherProofs ---------------------------
(***************************************************************************)
(* Proofs about the way of messages to the nodes, for any number of        *)
(* senders, messages, workers, nodes and batches, and any capacity of the  *)
(* channels: the threads of the nodes, the order in a batch, the cache.    *)
(***************************************************************************)
EXTENDS Publisher, FiniteSetTheorems, TLAPS

(* A record of the shape of a worker. *)
IsWork(r) ==
    /\ DOMAIN r = {"pc", "msgs", "todo", "list", "node"}
    /\ r = [x \in {"pc", "msgs", "todo", "list", "node"} |-> r[x]]
    /\ r.todo \subseteq NodeId

WorkShape ==
    /\ DOMAIN work = Worker
    /\ work = [w \in Worker |-> work[w]]
    /\ \A w \in Worker : IsWork(work[w])

(* A worker between Lock and Unlock is the only one. *)
LockHeld == \A w \in Worker : work[w].pc \in {"node", "dial", "send"} => lk = {w}

(* A node that is being dialled has no thread yet: it had none when it was looked up, and only the
   worker that holds the lock makes one. *)
DialsMissing == \A w \in Worker : work[w].pc = "dial" => work[w].node \in NodeId \ nodeThreads

ThreadInv ==
    /\ nodes \subseteq NodeId
    /\ nodeThreads \subseteq NodeId
    /\ running \in [NodeId -> Int]
    /\ WorkShape
    /\ LockHeld
    /\ DialsMissing
    /\ OneThreadPerNode

LEMMA ThreadInit ==
    ASSUME Init
    PROVE  ThreadInv
<1>1. nodes \subseteq NodeId
  BY ScenesAssumption DEF Init
<1>2. WorkShape /\ \A w \in Worker : work[w].pc = "idle"
  <2>1. IsWork(Idle) /\ Idle.pc = "idle"
    BY DEF IsWork, Idle
  <2> QED
    BY <2>1 DEF Init, WorkShape
<1>3. nodeThreads = {} /\ running = [n \in NodeId |-> 0]
  BY DEF Init
<1> QED
  BY <1>1, <1>2, <1>3 DEF ThreadInv, LockHeld, DialsMissing, OneThreadPerNode

(* What a worker's step makes of the others: nothing. *)
LEMMA WorkUpdate ==
    ASSUME WorkShape, NEW w \in Worker, NEW r, IsWork(r), work' = [work EXCEPT ![w] = r]
    PROVE  /\ WorkShape'
           /\ work'[w] = r
           /\ \A v \in Worker : v # w => work'[v] = work[v]
BY DEF WorkShape

LEMMA StepKeeps ==
    ASSUME WorkShape, NEW w \in Worker, NEW pc, Step(w, pc)
    PROVE  /\ WorkShape'
           /\ work'[w].pc = pc /\ work'[w].node = work[w].node
           /\ \A v \in Worker : v # w => work'[v] = work[v]
<1> DEFINE r == [work[w] EXCEPT !.pc = pc]
<1>1. IsWork(r) /\ r.pc = pc /\ r.node = work[w].node
  BY DEF WorkShape, IsWork
<1>2. work' = [work EXCEPT ![w] = r]
  BY DEF Step
<1> HIDE DEF r
<1> QED
  BY <1>1, <1>2, WorkUpdate

(* A step that leaves the threads and the lock alone, and brings no worker to them. *)
LEMMA Elsewhere ==
    ASSUME ThreadInv, nodes' \subseteq NodeId, UNCHANGED <<lk, nodeThreads, running>>, WorkShape',
           \A v \in Worker : (work'[v].pc = work[v].pc /\ work'[v].node = work[v].node)
                             \/ work'[v].pc \notin {"node", "dial", "send"}
    PROVE  ThreadInv'
BY DEF ThreadInv, LockHeld, DialsMissing, OneThreadPerNode

LEMMA NotAtNodes ==
    ASSUME ThreadInv, NEW w \in Worker, Take(w) \/ ToMain(w) \/ ListNode(w) \/ ToTopic(w)
    PROVE  ThreadInv'
<1>1. WorkShape /\ nodes \subseteq NodeId
  BY DEF ThreadInv
<1>2. CASE Take(w)
  <2> DEFINE r == [Idle EXCEPT !.pc = "main", !.msgs = Head(msgCh)]
  <2>1. IsWork(r) /\ r.pc = "main"
    BY DEF IsWork, Idle
  <2>2. work' = [work EXCEPT ![w] = r] /\ UNCHANGED <<nodes, lk, nodeThreads, running>>
    BY <1>2 DEF Take, threadVars
  <2> HIDE DEF r
  <2> QED
    BY <1>1, <2>1, <2>2, WorkUpdate, Elsewhere
<1>3. CASE ToMain(w)
  <2>1. UNCHANGED <<nodes, lk, nodeThreads, running>> /\ \E pc \in {"list", "p2p"} : Step(w, pc)
    BY <1>3 DEF ToMain
  <2> QED
    BY <1>1, <2>1, StepKeeps, Elsewhere
<1>4. CASE ListNode(w)
  <2>1. UNCHANGED <<nodes, lk, nodeThreads, running>>
    BY <1>4 DEF ListNode, threadVars
  <2>2. CASE Step(w, "p2p")
    BY <1>1, <2>1, <2>2, StepKeeps, Elsewhere
  <2>3. CASE work' = [work EXCEPT ![w].pc = "lock", ![w].list = nodes, ![w].todo = nodes]
    <3> DEFINE r == [work[w] EXCEPT !.pc = "lock", !.list = nodes, !.todo = nodes]
    <3>1. IsWork(r) /\ r.pc = "lock"
      BY <1>1 DEF WorkShape, IsWork
    <3>2. work' = [work EXCEPT ![w] = r]
      BY <1>1, <2>3 DEF WorkShape
    <3> HIDE DEF r
    <3> QED
      BY <1>1, <2>1, <3>1, <3>2, WorkUpdate, Elsewhere
  <2> QED
    BY <1>4, <2>2, <2>3 DEF ListNode
<1>5. CASE ToTopic(w)
  <2>1. IsWork(Idle) /\ Idle.pc = "idle"
    BY DEF IsWork, Idle
  <2>2. work' = [work EXCEPT ![w] = Idle] /\ UNCHANGED <<nodes, lk, nodeThreads, running>>
    BY <1>5 DEF ToTopic, threadVars
  <2> QED
    BY <1>1, <2>1, <2>2, WorkUpdate, Elsewhere
<1> QED
  BY <1>2, <1>3, <1>4, <1>5

LEMMA AtNodes ==
    ASSUME ThreadInv, NEW w \in Worker, Lock(w) \/ NextNode(w) \/ Dial(w) \/ ToNode(w) \/ CloseThreads(w)
    PROVE  ThreadInv'
<1>1. WorkShape /\ nodes \subseteq NodeId /\ nodeThreads \subseteq NodeId
  BY DEF ThreadInv
<1>2. CASE Lock(w)
  <2>1. UNCHANGED <<nodes, nodeThreads, running>> /\ lk = {} /\ lk' = {w} /\ Step(w, "node")
    BY <1>2 DEF Lock, threadVars
  <2>2. WorkShape' /\ work'[w].pc = "node" /\ \A v \in Worker : v # w => work'[v] = work[v]
    BY <1>1, <2>1, StepKeeps
  <2> QED
    BY <2>1, <2>2 DEF ThreadInv, LockHeld, DialsMissing, OneThreadPerNode
<1>3. CASE NextNode(w)
  <2>1. UNCHANGED <<nodes, nodeThreads, running, lk>> /\ work[w].pc = "node" /\ lk = {w}
    BY <1>3 DEF NextNode, threadVars, ThreadInv, LockHeld
  <2>2. PICK n \in work[w].todo :
          work' = [work EXCEPT ![w].pc = IF n \in nodeThreads THEN "send" ELSE "dial",
                               ![w].node = n, ![w].todo = @ \ {n}]
    BY <1>3 DEF NextNode
  <2> DEFINE pc == IF n \in nodeThreads THEN "send" ELSE "dial"
             r == [work[w] EXCEPT !.pc = pc, !.node = n, !.todo = @ \ {n}]
  <2>3. IsWork(r) /\ r.pc = pc /\ r.node = n
    <3> HIDE DEF pc
    <3> QED
      BY <1>1 DEF WorkShape, IsWork
  <2>4. work' = [work EXCEPT ![w] = r]
    BY <1>1, <2>2 DEF WorkShape
  <2>5. n \in NodeId /\ (pc = "dial" => n \notin nodeThreads)
    BY <1>1, <2>2 DEF WorkShape, IsWork
  <2> HIDE DEF r, pc
  <2>6. WorkShape' /\ work'[w] = r /\ \A v \in Worker : v # w => work'[v] = work[v]
    BY <1>1, <2>3, <2>4, WorkUpdate
  <2> QED
    BY <2>1, <2>3, <2>5, <2>6 DEF ThreadInv, LockHeld, DialsMissing, OneThreadPerNode
<1>4. CASE Dial(w)
  <2>1. UNCHANGED <<nodes, lk>> /\ work[w].pc = "dial" /\ lk = {w} /\ work[w].node \in NodeId \ nodeThreads
    BY <1>4 DEF Dial, ThreadInv, LockHeld, DialsMissing
  <2>2. \A v \in Worker : v # w => work[v].pc \notin {"node", "dial", "send"}
    BY <2>1 DEF ThreadInv, LockHeld
  <2>3. CASE Step(w, "node") /\ UNCHANGED threadVars
    <3>1. WorkShape' /\ work'[w].pc = "node" /\ \A v \in Worker : v # w => work'[v] = work[v]
      BY <1>1, <2>3, StepKeeps
    <3> QED
      BY <2>1, <2>3, <3>1 DEF ThreadInv, LockHeld, DialsMissing, OneThreadPerNode, threadVars
  <2>4. CASE /\ nodeThreads' = nodeThreads \cup {work[w].node}
             /\ running' = [running EXCEPT ![work[w].node] = @ + 1]
             /\ Step(w, "send")
    <3>1. WorkShape' /\ work'[w].pc = "send" /\ \A v \in Worker : v # w => work'[v] = work[v]
      BY <1>1, <2>4, StepKeeps
    <3>2. LockHeld' /\ DialsMissing'
      BY <2>1, <2>2, <3>1 DEF LockHeld, DialsMissing
    <3>3. running' \in [NodeId -> Int] /\ OneThreadPerNode' /\ nodeThreads' \subseteq NodeId
      BY <2>1, <2>4 DEF ThreadInv, OneThreadPerNode
    <3> QED
      BY <2>1, <3>1, <3>2, <3>3 DEF ThreadInv
  <2> QED
    BY <1>4, <2>3, <2>4 DEF Dial
<1>5. CASE ToNode(w)
  <2>1. UNCHANGED <<nodes, nodeThreads, running, lk>> /\ work[w].pc = "send" /\ Step(w, "node") /\ lk = {w}
    BY <1>5 DEF ToNode, ThreadInv, LockHeld
  <2>2. WorkShape' /\ work'[w].pc = "node" /\ \A v \in Worker : v # w => work'[v] = work[v]
    BY <1>1, <2>1, StepKeeps
  <2> QED
    BY <2>1, <2>2 DEF ThreadInv, LockHeld, DialsMissing, OneThreadPerNode
<1>6. CASE CloseThreads(w)
  <2> DEFINE gone == nodeThreads \ work[w].list
  <2>1. /\ UNCHANGED nodes /\ work[w].pc = "node" /\ Step(w, "p2p")
        /\ nodeThreads' = nodeThreads \ gone
        /\ running' = [n \in NodeId |-> IF n \in gone THEN running[n] - 1 ELSE running[n]]
    BY <1>6 DEF CloseThreads
  <2>2. \A v \in Worker : v # w => work[v].pc \notin {"node", "dial", "send"}
    BY <2>1 DEF ThreadInv, LockHeld
  <2>3. WorkShape' /\ work'[w].pc = "p2p" /\ \A v \in Worker : v # w => work'[v] = work[v]
    BY <1>1, <2>1, StepKeeps
  <2>4. LockHeld' /\ DialsMissing'
    BY <2>2, <2>3 DEF LockHeld, DialsMissing
  <2>5. running' \in [NodeId -> Int] /\ OneThreadPerNode' /\ nodeThreads' \subseteq NodeId
    BY <2>1 DEF ThreadInv, OneThreadPerNode
  <2> QED
    BY <2>1, <2>3, <2>4, <2>5 DEF ThreadInv
<1> QED
  BY <1>2, <1>3, <1>4, <1>5, <1>6

LEMMA ThreadStep ==
    ASSUME ThreadInv, [Next]_vars
    PROVE  ThreadInv'
<1>1. ASSUME UNCHANGED <<lk, nodeThreads, running, work>>, nodes' \subseteq NodeId
      PROVE  ThreadInv'
  BY <1>1 DEF ThreadInv, WorkShape, LockHeld, DialsMissing, OneThreadPerNode
<1>2. CASE Offer \/ Receive \/ PublishMessages \/ CacheTake \/ CacheForward \/ CacheTick
  BY <1>2, <1>1 DEF Offer, Receive, PublishMessages, CacheTake, CacheForward, CacheTick, threadVars, ThreadInv
<1>3. ASSUME NEW w \in Worker, WorkerStep(w)
      PROVE  ThreadInv'
  BY <1>3, NotAtNodes, AtNodes DEF WorkerStep
<1>4. ASSUME NEW n \in Thread, run(n)
      PROVE  ThreadInv'
  BY <1>4, <1>1 DEF run, ThreadInv
<1>5. CASE ChangeNodes
  <2>1. nodes' \subseteq NodeId
    BY <1>5 DEF ChangeNodes, ThreadInv
  <2> QED
    BY <1>5, <1>1, <2>1 DEF ChangeNodes, threadVars
<1>6. CASE UNCHANGED vars
  BY <1>6, <1>1 DEF vars, threadVars, ThreadInv
<1> QED
  BY <1>2, <1>3, <1>4, <1>5, <1>6 DEF Next

(* However many workers of ConcurrentPublisher call RpcPublisher.PublishMessages at once, with
   whatever lists of nodes they read before the lock, a node has one thread if it is in the map and
   none otherwise: no thread is doubled, and none is left that nobody can close. *)
THEOREM ThreadsUnique == Spec => []OneThreadPerNode
<1>1. Init => ThreadInv
  BY ThreadInit
<1>2. ThreadInv /\ [Next]_vars => ThreadInv'
  BY ThreadStep
<1>3. ThreadInv => OneThreadPerNode
  BY DEF ThreadInv
<1> QED
  BY <1>1, <1>2, <1>3, PTL DEF Spec

-----------------------------------------------------------------------------
(* Sorting: a finite set has an order of its elements by any numbers *)

IsOrder(q, S, key) ==
    /\ q \in [1..Cardinality(S) -> S]
    /\ \A i, j \in 1..Cardinality(S) : i < j => q[i] # q[j] /\ key[q[i]] <= key[q[j]]

LEMMA LeastKey ==
    ASSUME NEW T, T # {}, NEW key, \A x \in T : key[x] \in Nat
    PROVE  \E x \in T : \A y \in T : key[x] <= key[y]
<1> DEFINE K == {key[x] : x \in T}
<1>1. K \subseteq Nat /\ K # {}
  OBVIOUS
<1> HIDE DEF K
<1>2. \E k \in K : \A l \in K : ~(<<l, k>> \in OpToRel(<, Nat))
  BY <1>1, WFMin, NatLessThanWellFounded
<1>3. PICK k \in K : \A l \in K : ~(<<l, k>> \in OpToRel(<, Nat))
  BY <1>2
<1>4. ASSUME NEW l \in K
      PROVE  k <= l
  <2>1. k \in Nat /\ l \in Nat
    BY <1>1
  <2>2. OpToRel(<, Nat) = {ss \in Nat \X Nat : ss[1] < ss[2]}
    BY Zenon DEF OpToRel
  <2>3. l < k => <<l, k>> \in {ss \in Nat \X Nat : ss[1] < ss[2]}
    BY <2>1
  <2>4. ~(l < k)
    BY <1>3, <2>2, <2>3, Zenon
  <2> QED
    BY <2>1, <2>4
<1> QED
  BY <1>4 DEF K

LEMMA OrderExtends ==
    ASSUME NEW T, IsFiniteSet(T), NEW key, \A x \in T : key[x] \in Nat,
           NEW x \in T, \A y \in T : key[x] <= key[y], NEW p, IsOrder(p, T \ {x}, key)
    PROVE  \E q : IsOrder(q, T, key)
<1> DEFINE n == Cardinality(T)
           q == [i \in 1..n |-> IF i = 1 THEN x ELSE p[i - 1]]
<1>1. n \in Nat /\ n # 0 /\ Cardinality(T \ {x}) = n - 1
  BY FS_CardinalityType, FS_RemoveElement, FS_EmptySet
<1> HIDE DEF n
<1>2. p \in [1..n-1 -> T \ {x}] /\ \A i, j \in 1..n-1 : i < j => p[i] # p[j] /\ key[p[i]] <= key[p[j]]
  BY <1>1 DEF IsOrder
<1>3. q \in [1..n -> T]
  BY <1>1, <1>2
<1>4. ASSUME NEW i \in 1..n, NEW j \in 1..n, i < j
      PROVE  q[i] # q[j] /\ key[q[i]] <= key[q[j]]
  <2>1. q[j] = p[j - 1] /\ j - 1 \in 1..n-1
    BY <1>1, <1>4
  <2>2. CASE i = 1
    BY <1>2, <1>4, <2>1, <2>2
  <2>3. CASE i # 1
    <3>1. q[i] = p[i - 1] /\ i - 1 \in 1..n-1 /\ i - 1 < j - 1
      BY <1>1, <1>4, <2>3
    <3> QED
      BY <1>2, <2>1, <3>1
  <2> QED
    BY <2>2, <2>3
<1>5. IsOrder(q, T, key)
  <2> HIDE DEF q
  <2> QED
    BY <1>3, <1>4 DEF IsOrder, n
<1> QED
  BY <1>5

LEMMA OrderExists ==
    ASSUME NEW S, IsFiniteSet(S), NEW key, \A x \in S : key[x] \in Nat
    PROVE  \E q : IsOrder(q, S, key)
<1> DEFINE Bad == {T \in SUBSET S : ~ \E q : IsOrder(q, T, key)}
<1>1. SUFFICES ASSUME Bad # {} PROVE FALSE
  OBVIOUS
<1>2. Bad \subseteq FiniteSubsetsOf(S)
  BY FS_Subset DEF FiniteSubsetsOf
<1> HIDE DEF Bad
<1>3. \E T \in Bad : \A U \in Bad : ~(<<U, T>> \in StrictSubsetOrdering(S))
  BY <1>1, <1>2, WFMin, FS_StrictSubsetOrderingWellFounded
<1>4. PICK T \in Bad : \A U \in Bad : ~(<<U, T>> \in StrictSubsetOrdering(S))
  BY <1>3
<1>5. T \subseteq S /\ IsFiniteSet(T) /\ ~ \E q : IsOrder(q, T, key)
  BY <1>2 DEF Bad, FiniteSubsetsOf
<1>6. CASE T = {}
  <2>1. Cardinality(T) = 0
    BY <1>6, FS_EmptySet
  <2>2. IsOrder([i \in 1..0 |-> i], T, key)
    BY <2>1 DEF IsOrder
  <2> QED
    BY <1>5, <2>2
<1>7. CASE T # {}
  <2>1. PICK x \in T : \A y \in T : key[x] <= key[y]
    BY <1>5, <1>7, LeastKey
  <2>2. <<T \ {x}, T>> \in StrictSubsetOrdering(S)
    BY <1>5 DEF StrictSubsetOrdering
  <2>3. T \ {x} \notin Bad
    BY <1>4, <2>2
  <2>4. \E q : IsOrder(q, T \ {x}, key)
    BY <1>5, <2>3 DEF Bad
  <2> QED
    BY <1>5, <2>1, <2>4, OrderExtends
<1> QED
  BY <1>6, <1>7

LEMMA OrderedIsOrder ==
    ASSUME NEW S, IsFiniteSet(S), NEW key, \A x \in S : key[x] \in Nat
    PROVE  IsOrder(Ordered(S, key), S, key)
<1>1. PICK q : IsOrder(q, S, key)
  BY OrderExists
<1>2. \E p \in [1..Cardinality(S) -> S] :
        \A i, j \in 1..Cardinality(S) : i < j => p[i] # p[j] /\ key[p[i]] <= key[p[j]]
  BY <1>1, Zenon DEF IsOrder
<1> QED
  BY <1>2, Zenon DEF Ordered, IsOrder

-----------------------------------------------------------------------------
(* Batches *)

Offered == {b \in Seq(Msg) : Sendable(b)}

InOrder(b) == \A i, j \in DOMAIN b : i < j => From[b[i]] = From[b[j]] /\ NonceOf[b[i]] < NonceOf[b[j]]

Batch == {b \in Seq(Msg) : InOrder(b)}

LEMMA EmptyBatch == <<>> \in Batch
BY DEF Batch, InOrder

LEMMA MsgsFinite ==
    ASSUME NEW b \in Seq(Msg)
    PROVE  IsFiniteSet(Msgs(b)) /\ Msgs(b) \subseteq Msg
<1>1. Len(b) \in Nat /\ DOMAIN b = 1..Len(b) /\ b \in [1..Len(b) -> Msgs(b)] /\ Msgs(b) \subseteq Msg
  BY DEF Msgs
<1>2. b \in Surjection(1..Len(b), Msgs(b))
  BY <1>1 DEF Surjection, Msgs
<1>3. IsFiniteSet(1..Len(b))
  BY <1>1, FS_Interval
<1> QED
  BY <1>1, <1>2, <1>3, FS_Surjection

(* The receiver's sort makes batches of what services offer. *)
LEMMA GroupsAreBatches ==
    ASSUME NEW b \in Offered
    PROVE  GroupByAddress(b) \subseteq Batch
<1> SUFFICES ASSUME NEW a, NEW q, q = Ordered({m \in Msgs(b) : From[m] = a}, NonceOf)
             PROVE  q \in Batch
  BY DEF GroupByAddress
<1> DEFINE S == {m \in Msgs(b) : From[m] = a}
           n == Cardinality(S)
<1>1. b \in Seq(Msg) /\ Sendable(b)
  BY DEF Offered
<1>2. IsFiniteSet(S) /\ S \subseteq Msg /\ \A m \in S : NonceOf[m] \in Nat
  BY <1>1, MsgsFinite, FS_Subset, NonceAssumption
<1>3. n \in Nat
  BY <1>2, FS_CardinalityType
<1>4. \A x, y \in S : x # y => NonceOf[x] # NonceOf[y]
  BY <1>1 DEF Msgs, Sendable
<1>5. \A m \in S : From[m] = a
  OBVIOUS
<1> HIDE DEF S
<1>6. IsOrder(q, S, NonceOf)
  BY <1>2, OrderedIsOrder DEF S
<1>7. q \in [1..n -> S] /\ \A i, j \in 1..n : i < j => q[i] # q[j] /\ NonceOf[q[i]] <= NonceOf[q[j]]
  BY <1>6 DEF IsOrder
<1> HIDE DEF n
<1>8. q \in Seq(Msg) /\ DOMAIN q = 1..n
  BY <1>2, <1>3, <1>7
<1>9. ASSUME NEW i \in 1..n, NEW j \in 1..n, i < j
      PROVE  From[q[i]] = From[q[j]] /\ NonceOf[q[i]] < NonceOf[q[j]]
  <2>1. q[i] \in S /\ q[j] \in S /\ q[i] # q[j] /\ NonceOf[q[i]] <= NonceOf[q[j]]
    BY <1>7, <1>9
  <2> QED
    BY <2>1, <1>2, <1>4, <1>5
<1> QED
  BY <1>8, <1>9 DEF Batch, InOrder

(* What the cache hands on of a batch is a batch, of messages it did not know. *)
LEMMA UnknownIsBatch ==
    ASSUME NEW b \in Batch
    PROVE  /\ Unknown(b) \in Batch
           /\ \A m \in Msgs(Unknown(b)) : m \in Msg /\ cache[m] = "absent"
<1> DEFINE keep == {i \in DOMAIN b : cache[b[i]] = "absent"}
           key == [i \in keep |-> i]
           at == Ordered(keep, key)
           n == Cardinality(keep)
<1>1. b \in Seq(Msg) /\ InOrder(b) /\ Len(b) \in Nat /\ DOMAIN b = 1..Len(b)
  BY DEF Batch
<1>2. keep \subseteq 1..Len(b) /\ IsFiniteSet(1..Len(b))
  BY <1>1, FS_Interval
<1>3. \A i \in keep : cache[b[i]] = "absent" /\ b[i] \in Msg /\ i \in DOMAIN b
  BY <1>1
<1>4. Unknown(b) = [k \in 1..n |-> b[at[k]]]
  BY DEF Unknown
<1> HIDE DEF keep
<1>5. IsFiniteSet(keep)
  BY <1>2, FS_Subset
<1>6. n \in Nat
  BY <1>5, FS_CardinalityType
<1>7. \A i \in keep : key[i] = i /\ i \in Nat
  BY <1>2
<1> HIDE DEF key
<1>8. IsOrder(at, keep, key)
  BY <1>5, <1>7, OrderedIsOrder
<1>9. at \in [1..n -> keep] /\ \A i, j \in 1..n : i < j => at[i] # at[j] /\ key[at[i]] <= key[at[j]]
  BY <1>8 DEF IsOrder
<1> HIDE DEF at, n
<1>10. \A i, j \in 1..n : i < j => at[i] < at[j]
  BY <1>7, <1>9
<1> DEFINE u == [k \in 1..n |-> b[at[k]]]
<1>11. u \in Seq(Msg) /\ DOMAIN u = 1..n /\ \A k \in 1..n : u[k] = b[at[k]]
  BY <1>3, <1>6, <1>9
<1> HIDE DEF u
<1>12. InOrder(u)
  BY <1>1, <1>3, <1>9, <1>10, <1>11 DEF InOrder
<1>13. \A m \in Msgs(u) : m \in Msg /\ cache[m] = "absent"
  BY <1>3, <1>9, <1>11 DEF Msgs
<1>14. Unknown(b) = u
  BY <1>4 DEF u
<1> QED
  BY <1>11, <1>12, <1>13, <1>14 DEF Batch

(* Every channel holds batches, from the receiver to the threads of the nodes. *)
BatchInv ==
    /\ offers \in Seq(Offered) /\ msgReceiver \in Seq(Offered)
    /\ group \subseteq Batch
    /\ cacheCh \in Seq(Batch) /\ msgCh \in Seq(Batch) /\ newMsgs \in Batch
    /\ \A w \in Worker : work[w].msgs \in Batch
    /\ msgChan \in [Thread -> Seq(Batch)]

(* The cache has forgotten a message only after two ticks without it. *)
CacheInv ==
    /\ cache \in [Msg -> {"absent", "new", "old"}]
    /\ quiet \in [Msg -> 0..2]
    /\ \A m \in Msg : /\ cache[m] = "absent" => quiet[m] = 2
                      /\ cache[m] = "old" => quiet[m] >= 1
    /\ CacheQuiets

LEMMA QueueInit ==
    ASSUME Init
    PROVE  BatchInv /\ CacheInv
<1>1. scene.offers \in Seq(Offered)
  <2> DEFINE o == scene.offers
  <2>1. o \in Seq(Seq(Msg)) /\ \A k \in DOMAIN o : Sendable(o[k])
    BY ScenesAssumption DEF Init
  <2> HIDE DEF o
  <2>2. Len(o) \in Nat /\ DOMAIN o = 1..Len(o) /\ o = [k \in 1..Len(o) |-> o[k]] /\ \A k \in 1..Len(o) : o[k] \in Offered
    BY <2>1 DEF Offered
  <2>3. o \in Seq(Offered)
    BY <2>2
  <2> QED
    BY <2>3 DEF o
<1>2. \A w \in Worker : work[w].msgs = <<>>
  BY DEF Init, Idle
<1>3. BatchInv
  BY <1>1, <1>2, EmptyBatch DEF Init, BatchInv
<1>4. CacheInv
  BY DEF Init, CacheInv, CacheQuiets
<1> QED
  BY <1>3, <1>4

LEMMA ReceiverStep ==
    ASSUME BatchInv, CacheInv, Offer \/ Receive \/ PublishMessages
    PROVE  BatchInv' /\ CacheInv'
<1>1. UNCHANGED <<cache, quiet, resent, newMsgs, work, msgChan>>
  BY DEF Offer, Receive, PublishMessages, cacheVars, threadVars
<1>2. CacheInv'
  BY <1>1 DEF CacheInv, CacheQuiets
<1>3. CASE Offer
  <2>1. offers # <<>> /\ offers' = Tail(offers) /\ msgReceiver' = Append(msgReceiver, Head(offers))
        /\ UNCHANGED <<group, cacheCh, msgCh>>
    BY <1>3 DEF Offer, cacheVars
  <2>2. Head(offers) \in Offered /\ Tail(offers) \in Seq(Offered)
    BY <2>1 DEF BatchInv
  <2> QED
    BY <1>1, <1>2, <2>1, <2>2 DEF BatchInv
<1>4. CASE Receive
  <2>1. msgReceiver # <<>> /\ msgReceiver' = Tail(msgReceiver) /\ group' = GroupByAddress(Head(msgReceiver))
        /\ UNCHANGED <<offers, cacheCh, msgCh>>
    BY <1>4 DEF Receive, cacheVars
  <2>2. Head(msgReceiver) \in Offered /\ Tail(msgReceiver) \in Seq(Offered)
    BY <2>1 DEF BatchInv
  <2>3. group' \subseteq Batch
    BY <2>1, <2>2, GroupsAreBatches
  <2> QED
    BY <1>1, <1>2, <2>1, <2>2, <2>3 DEF BatchInv
<1>5. CASE PublishMessages
  <2>1. UNCHANGED <<offers, msgReceiver>>
    BY <1>5 DEF PublishMessages
  <2>2. PICK g \in group : /\ group' = group \ {g}
                           /\ \/ cacheCh' = Append(cacheCh, g) /\ msgCh' = msgCh
                              \/ msgCh' = Append(msgCh, g) /\ cacheCh' = cacheCh
    BY <1>5 DEF PublishMessages
  <2>3. g \in Batch /\ group' \subseteq Batch
    BY <2>2 DEF BatchInv
  <2>4. Append(cacheCh, g) \in Seq(Batch) /\ Append(msgCh, g) \in Seq(Batch)
    BY <2>3 DEF BatchInv
  <2>5. cacheCh' \in Seq(Batch) /\ msgCh' \in Seq(Batch)
    BY <2>2, <2>4 DEF BatchInv
  <2> QED
    BY <1>1, <1>2, <2>1, <2>3, <2>5 DEF BatchInv
<1> QED
  BY <1>3, <1>4, <1>5

LEMMA CacheStep ==
    ASSUME BatchInv, CacheInv, CacheTake \/ CacheForward \/ CacheTick
    PROVE  BatchInv' /\ CacheInv'
<1>1. UNCHANGED <<offers, msgReceiver, group, work, msgChan>>
  BY DEF CacheTake, CacheForward, CacheTick, queues, threadVars
<1>2. CASE CacheTake
  <2> DEFINE msgs == Head(cacheCh)
             new == Unknown(msgs)
  <2>1. /\ cacheCh # <<>> /\ cacheCh' = Tail(cacheCh) /\ msgCh' = msgCh /\ newMsgs' = new
        /\ cache' = [m \in Msg |-> IF m \in Msgs(msgs) THEN "new" ELSE cache[m]]
        /\ quiet' = [m \in Msg |-> IF m \in Msgs(msgs) THEN 0 ELSE quiet[m]]
        /\ resent' = resent \cup {m \in Msgs(new) : quiet[m] < 2}
    BY <1>2 DEF CacheTake, Mark
  <2>2. msgs \in Batch /\ Tail(cacheCh) \in Seq(Batch)
    BY <2>1 DEF BatchInv
  <2>3. new \in Batch /\ \A m \in Msgs(new) : m \in Msg /\ cache[m] = "absent"
    BY <2>2, UnknownIsBatch
  <2> HIDE DEF msgs, new
  <2>4. BatchInv'
    BY <1>1, <2>1, <2>2, <2>3 DEF BatchInv
  <2>5. \A m \in Msgs(new) : quiet[m] = 2
    BY <2>3 DEF CacheInv
  <2>6. resent' = {}
    BY <2>1, <2>5 DEF CacheInv, CacheQuiets
  <2>7. CacheInv'
    BY <2>1, <2>6 DEF CacheInv, CacheQuiets
  <2> QED
    BY <2>4, <2>7
<1>3. CASE CacheForward
  <2>1. /\ msgCh' = Append(msgCh, newMsgs) /\ newMsgs' = <<>>
        /\ UNCHANGED <<cacheCh, cache, quiet, resent>>
    BY <1>3 DEF CacheForward
  <2> QED
    BY <1>1, <2>1, EmptyBatch DEF BatchInv, CacheInv, CacheQuiets
<1>4. CASE CacheTick
  <2>1. /\ cache' = [m \in Msg |-> IF cache[m] = "new" THEN "old" ELSE "absent"]
        /\ quiet' = [m \in Msg |-> IF quiet[m] < 2 THEN quiet[m] + 1 ELSE 2]
        /\ UNCHANGED <<cacheCh, newMsgs, resent, msgCh>>
    BY <1>4 DEF CacheTick
  <2>2. CacheInv'
    <3>1. ASSUME NEW m \in Msg
          PROVE  /\ cache'[m] \in {"absent", "new", "old"} /\ quiet'[m] \in 0..2
                 /\ cache'[m] = "absent" => quiet'[m] = 2
                 /\ cache'[m] = "old" => quiet'[m] >= 1
      BY <2>1 DEF CacheInv
    <3> QED
      BY <2>1, <3>1 DEF CacheInv, CacheQuiets
  <2>3. BatchInv'
    BY <1>1, <2>1 DEF BatchInv
  <2> QED
    BY <2>2, <2>3
<1> QED
  BY <1>2, <1>3, <1>4

(* Workers take batches from their channel and put them into those of the threads. *)
LEMMA WorkerQueueStep ==
    ASSUME ThreadInv, BatchInv, CacheInv, NEW w \in Worker, WorkerStep(w)
    PROVE  BatchInv' /\ CacheInv'
<1>1. UNCHANGED <<offers, msgReceiver, group, cacheCh, newMsgs>> /\ UNCHANGED <<cache, quiet, resent>>
  BY DEF WorkerStep, Take, ToMain, ListNode, Lock, NextNode, Dial, ToNode, CloseThreads, ToTopic, queues, cacheVars
<1>2. CacheInv'
  BY <1>1 DEF CacheInv, CacheQuiets
<1>3. WorkShape
  BY DEF ThreadInv
<1>4. ASSUME NEW r, work' = [work EXCEPT ![w] = r], r.msgs \in Batch
      PROVE  \A v \in Worker : work'[v].msgs \in Batch
  BY <1>3, <1>4 DEF WorkShape, BatchInv
<1>5. ASSUME NEW pc, Step(w, pc)
      PROVE  \A v \in Worker : work'[v].msgs \in Batch
  <2> DEFINE r == [work[w] EXCEPT !.pc = pc]
  <2>1. work' = [work EXCEPT ![w] = r]
    BY <1>5 DEF Step
  <2>2. r.msgs = work[w].msgs
    BY <1>3 DEF WorkShape, IsWork
  <2> HIDE DEF r
  <2> QED
    BY <2>1, <2>2, <1>4 DEF BatchInv
<1>6. ASSUME msgCh' = msgCh, msgChan' \in [Thread -> Seq(Batch)], \A v \in Worker : work'[v].msgs \in Batch
      PROVE  BatchInv'
  BY <1>1, <1>6 DEF BatchInv
<1>7. ASSUME NEW n, HandleMsg(n, work[w].msgs)
      PROVE  msgChan' \in [Thread -> Seq(Batch)]
  <2>1. msgChan' = [msgChan EXCEPT ![n] = Append(msgChan[n], work[w].msgs)] /\ work[w].msgs \in Batch
    BY <1>7 DEF HandleMsg, BatchInv
  <2> DEFINE c == Append(msgChan[n], work[w].msgs)
  <2>2. n \in Thread => c \in Seq(Batch)
    BY <2>1 DEF BatchInv
  <2>3. msgChan' = [msgChan EXCEPT ![n] = c]
    BY <2>1
  <2> HIDE DEF c
  <2> QED
    BY <2>2, <2>3 DEF BatchInv
<1>8. CASE Take(w)
  <2> DEFINE r == [Idle EXCEPT !.pc = "main", !.msgs = Head(msgCh)]
  <2>1. msgCh # <<>> /\ msgCh' = Tail(msgCh) /\ work' = [work EXCEPT ![w] = r] /\ msgChan' = msgChan
    BY <1>8 DEF Take, threadVars
  <2>2. Head(msgCh) \in Batch /\ Tail(msgCh) \in Seq(Batch)
    BY <2>1 DEF BatchInv
  <2>3. r.msgs = Head(msgCh)
    BY DEF Idle
  <2> HIDE DEF r
  <2>4. \A v \in Worker : work'[v].msgs \in Batch
    BY <2>1, <2>2, <2>3, <1>4
  <2> QED
    BY <1>1, <1>2, <2>1, <2>2, <2>4 DEF BatchInv
<1>9. CASE ToMain(w)
  BY <1>9, <1>2, <1>5, <1>6, <1>7 DEF ToMain
<1>10. CASE ToNode(w)
  BY <1>10, <1>2, <1>5, <1>6, <1>7 DEF ToNode
<1>11. CASE Lock(w)
  BY <1>11, <1>2, <1>5, <1>6 DEF Lock, threadVars, BatchInv
<1>12. CASE ListNode(w)
  <2>1. msgCh' = msgCh /\ msgChan' \in [Thread -> Seq(Batch)]
    BY <1>12 DEF ListNode, threadVars, BatchInv
  <2>2. CASE Step(w, "p2p")
    BY <2>1, <2>2, <1>2, <1>5, <1>6
  <2>3. CASE work' = [work EXCEPT ![w].pc = "lock", ![w].list = nodes, ![w].todo = nodes]
    <3> DEFINE r == [work[w] EXCEPT !.pc = "lock", !.list = nodes, !.todo = nodes]
    <3>1. work' = [work EXCEPT ![w] = r]
      BY <1>3, <2>3 DEF WorkShape
    <3>2. r.msgs \in Batch
      BY <1>3 DEF WorkShape, IsWork, BatchInv
    <3> HIDE DEF r
    <3> QED
      BY <2>1, <3>1, <3>2, <1>2, <1>4, <1>6
  <2> QED
    BY <1>12, <2>2, <2>3 DEF ListNode
<1>13. CASE NextNode(w)
  <2>1. msgCh' = msgCh /\ msgChan' \in [Thread -> Seq(Batch)]
    BY <1>13 DEF NextNode, threadVars, BatchInv
  <2>2. PICK n \in work[w].todo :
          work' = [work EXCEPT ![w].pc = IF n \in nodeThreads THEN "send" ELSE "dial",
                               ![w].node = n, ![w].todo = @ \ {n}]
    BY <1>13 DEF NextNode
  <2> DEFINE pc == IF n \in nodeThreads THEN "send" ELSE "dial"
             r == [work[w] EXCEPT !.pc = pc, !.node = n, !.todo = @ \ {n}]
  <2>3. work' = [work EXCEPT ![w] = r]
    BY <1>3, <2>2 DEF WorkShape
  <2> HIDE DEF pc
  <2>4. r.msgs \in Batch
    BY <1>3 DEF WorkShape, IsWork, BatchInv
  <2> HIDE DEF r
  <2> QED
    BY <2>1, <2>3, <2>4, <1>2, <1>4, <1>6
<1>14. CASE Dial(w)
  <2>1. msgCh' = msgCh /\ \E pc \in {"send", "node"} : Step(w, pc)
    BY <1>14 DEF Dial
  <2>2. msgChan' = msgChan \/ msgChan' = [msgChan EXCEPT ![work[w].node] = <<>>]
    BY <1>14 DEF Dial, threadVars
  <2>3. msgChan' \in [Thread -> Seq(Batch)]
    <3> DEFINE e == <<>>
    <3>1. e \in Seq(Batch) /\ (msgChan' = msgChan \/ msgChan' = [msgChan EXCEPT ![work[w].node] = e])
      BY <2>2
    <3> HIDE DEF e
    <3> QED
      BY <3>1 DEF BatchInv
  <2> QED
    BY <2>1, <2>3, <1>2, <1>5, <1>6
<1>15. CASE CloseThreads(w)
  <2>1. msgCh' = msgCh /\ Step(w, "p2p")
    BY <1>15 DEF CloseThreads
  <2>2. PICK gone : msgChan' = [n \in Thread |-> IF n \in gone THEN <<>> ELSE msgChan[n]]
    BY <1>15 DEF CloseThreads
  <2>3. msgChan' \in [Thread -> Seq(Batch)]
    BY <2>2 DEF BatchInv
  <2> QED
    BY <2>1, <2>3, <1>2, <1>5, <1>6
<1>16. CASE ToTopic(w)
  <2>1. msgCh' = msgCh /\ msgChan' \in [Thread -> Seq(Batch)] /\ work' = [work EXCEPT ![w] = Idle]
    BY <1>16 DEF ToTopic, threadVars, BatchInv
  <2>2. Idle.msgs \in Batch
    BY EmptyBatch DEF Idle
  <2> QED
    BY <2>1, <2>2, <1>2, <1>4, <1>6
<1> QED
  BY SMTT(60), <1>8, <1>9, <1>10, <1>11, <1>12, <1>13, <1>14, <1>15, <1>16 DEF WorkerStep

LEMMA QueueStep ==
    ASSUME ThreadInv, BatchInv, CacheInv, [Next]_vars
    PROVE  BatchInv' /\ CacheInv'
<1>1. CASE Offer \/ Receive \/ PublishMessages
  BY <1>1, ReceiverStep
<1>2. CASE CacheTake \/ CacheForward \/ CacheTick
  BY <1>2, CacheStep
<1>3. ASSUME NEW w \in Worker, WorkerStep(w)
      PROVE  BatchInv' /\ CacheInv'
  BY <1>3, WorkerQueueStep
<1>4. ASSUME NEW n \in Thread, run(n)
      PROVE  BatchInv' /\ CacheInv'
  <2>1. UNCHANGED <<offers, msgReceiver, group, cacheCh, newMsgs, cache, quiet, resent, msgCh, work>>
    BY <1>4 DEF run, queues, cacheVars
  <2>2. msgChan[n] # <<>> /\ msgChan' = [msgChan EXCEPT ![n] = Tail(msgChan[n])]
    BY <1>4 DEF run
  <2>3. Tail(msgChan[n]) \in Seq(Batch)
    BY <2>2 DEF BatchInv
  <2>4. msgChan' \in [Thread -> Seq(Batch)]
    BY <2>2, <2>3 DEF BatchInv
  <2> QED
    BY <2>1, <2>4 DEF BatchInv, CacheInv, CacheQuiets
<1>5. CASE ChangeNodes \/ UNCHANGED vars
  <2>1. UNCHANGED <<offers, msgReceiver, group, cacheCh, newMsgs, cache, quiet, resent, msgCh, work, msgChan>>
    BY <1>5 DEF ChangeNodes, vars, queues, cacheVars, threadVars
  <2> QED
    BY <2>1 DEF BatchInv, CacheInv, CacheQuiets
<1> QED
  BY <1>1, <1>2, <1>3, <1>4, <1>5 DEF Next

LEMMA InFlightAreBatches ==
    ASSUME BatchInv
    PROVE  BatchInOrder
<1>1. ASSUME NEW b \in InFlight
      PROVE  b \in Batch
  BY <1>1 DEF InFlight, Msgs, BatchInv
<1> QED
  BY <1>1 DEF Batch, InOrder, BatchInOrder

(* A batch on its way to the nodes, in whatever channel or worker, holds messages of one sender in
   increasing order of their nonces, also after CachePublisher has dropped some of them. *)
THEOREM BatchesOrdered == Spec => []BatchInOrder
<1> DEFINE Inv == ThreadInv /\ BatchInv /\ CacheInv
<1>1. Init => Inv
  BY ThreadInit, QueueInit
<1>2. Inv /\ [Next]_vars => Inv'
  BY ThreadStep, QueueStep
<1>3. Inv => BatchInOrder
  BY InFlightAreBatches
<1> HIDE DEF Inv
<1> QED
  BY <1>1, <1>2, <1>3, PTL DEF Spec

(* CachePublisher hands a message on again only after two ticks without it: a message that is
   offered again and again is dropped until then, and its time starts anew. *)
THEOREM CacheKeepsQuiet == Spec => []CacheQuiets
<1> DEFINE Inv == ThreadInv /\ BatchInv /\ CacheInv
<1>1. Init => Inv
  BY ThreadInit, QueueInit
<1>2. Inv /\ [Next]_vars => Inv'
  BY ThreadStep, QueueStep
<1>3. Inv => CacheQuiets
  BY DEF CacheInv
<1> HIDE DEF Inv
<1> QED
  BY <1>1, <1>2, <1>3, PTL DEF Spec
==============================================================================
