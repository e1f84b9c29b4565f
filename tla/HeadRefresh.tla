---------------------------- MODULE HeadRefresh ----------------------------
(***************************************************************************)
(* How the messager follows the chain: service/events.go, ProcessNewHead   *)
(* and ReconnectCheck of message_service.go, message_state_refresh.go and  *)
(* the tipset cache of cache.go.                                           *)
(*                                                                         *)
(* A tipset's messages are executed by its child.  Processing tipset t     *)
(* therefore marks the messages of t's parent as on chain, and the cache   *)
(* is meant to hold the tipsets whose own messages have been marked: at    *)
(* most one per height, kept in memory and, after every change, in a file. *)
(* A new head is compared with the cache to find the tipsets to process    *)
(* and the cached ones to revert.                                          *)
(*                                                                         *)
(* The block tree is a constant.  All messages are signed, filled and      *)
(* sent by active addresses, each under a nonce of its own.                *)
(***************************************************************************)
EXTENDS Naturals, Sequences, FiniteSets, SequencesExt

CONSTANTS
    Tipset, Genesis,       \* the block tree
    Parent, Height,        \* of each tipset; Parent[Genesis] is Genesis
    Msg,                   \* filled messages
    Includes,              \* Tipset -> the messages of Msg it contains
    Rivals,                \* Tipset -> messages whose nonce another message takes in it
    GasRivals,             \* messages whose rival differs from them in its gas values only
    NoTs,                  \* the tipset of a message that is not on chain
    LookBackLimit,         \* how far lookAncestors goes back
    MaxStoreTipsetCount,   \* maxStoreTipsetCount: when the cache is reduced
    MaxApply,              \* bound: tipsets applied by one head change, with the feature batch; else 1
    MaxNotifs,             \* bound: head changes waiting in the channel
    MaxFaults,             \* bound: crashes, lost connections and node errors
    FeatureSets,           \* what may happen: one of these sets in each behaviour
    ColdStart              \* TRUE: the first start, without a tipset file

ASSUME TreeAssumption ==
    /\ Genesis \in Tipset
    /\ Parent \in [Tipset -> Tipset] /\ Parent[Genesis] = Genesis
    /\ Height \in [Tipset -> Nat] /\ Height[Genesis] = 0
    /\ \A t \in Tipset \ {Genesis} : Height[Parent[t]] < Height[t]
    /\ Includes \in [Tipset -> SUBSET Msg] /\ Rivals \in [Tipset -> SUBSET Msg]
    /\ Includes[Genesis] = {} /\ Rivals[Genesis] = {} /\ GasRivals \subseteq Msg
    /\ NoTs \notin Tipset
    /\ FeatureSets \subseteq SUBSET {"reorg", "levelReorg", "crash", "disconnect", "nodeError", "diskError",
                                    "lookupError", "queryError", "batch"}
    /\ ColdStart \in BOOLEAN
    /\ IsFiniteSet(Tipset)
    /\ LookBackLimit \in Nat /\ MaxStoreTipsetCount \in Nat /\ MaxFaults \in Nat

VARIABLES
    head,      \* the node's head
    notifs,    \* head changes in the ChainNotify channel: the applied tipsets, ascending
    pc,        \* the listener: "connect", "listen", "refresh" (a headChan waits), "store"
    work,      \* the headChan under way: the tipsets to apply and to revert
    rows,      \* table messages: state and tipset of each message
    cache,     \* TipsetCache.Cache: a set of tipsets of different heights
    file,      \* the cache file
    faults,    \* number of faults so far
    missed,    \* only to be observed: the messages that a step passed over and that no error stopped
    features   \* what may happen in this behaviour

vars == <<head, notifs, pc, work, rows, cache, file, faults, missed, features>>

Row     == [state : {"Fill", "OnChain", "NonceConflict"}, ts : Tipset \cup {NoTs}]
Filled  == [state |-> "Fill", ts |-> NoTs]
NoWork  == [apply |-> <<>>, revert |-> <<>>]

TypeOK ==
    /\ head \in Tipset
    /\ notifs \in Seq(Seq(Tipset))
    /\ pc \in {"connect", "listen", "refresh", "store"}
    /\ work \in [apply : Seq(Tipset), revert : Seq(Tipset)]
    /\ rows \in [Msg -> Row]
    /\ cache \subseteq Tipset /\ file \subseteq Tipset
    /\ \A s, t \in cache : Height[s] = Height[t] => s = t
    /\ faults \in 0..MaxFaults
    /\ missed \subseteq Msg
    /\ features \in FeatureSets

-----------------------------------------------------------------------------
(* The block tree *)

(* A tipset and all its ancestors: the least set that holds it and its members' parents. *)
Branch ==
    [t \in Tipset |-> {s \in Tipset :
        \A S \in SUBSET Tipset : t \in S /\ (\A u \in S : Parent[u] \in S) => s \in S}]

(* Tipsets of different heights, the highest first. *)
Descending(S) ==
    [i \in 1..Cardinality(S) |-> CHOOSE t \in S : Cardinality({s \in S : Height[s] > Height[t]}) = i - 1]

(* What the node reports when its head moves: the tipsets applied, oldest first. *)
Applied(from, to) == Reverse(Descending(Branch[to] \ Branch[from]))

-----------------------------------------------------------------------------
(* lookAncestors walks down from h and along the cached tipsets, highest first, until they meet.
   s.ts is the next tipset, s.idx the number of cached ones passed, s.gap the tipsets passed. *)
Meets(local, s) == s.idx >= Len(local) \/ Height[s.ts] = 0 \/ local[s.idx + 1] = s.ts

(* Mutant: a cached tipset at the same height as the walk is not passed. *)
TurnStrict(local, s) ==
    IF Height[local[s.idx + 1]] > Height[s.ts]
    THEN [s EXCEPT !.idx = @ + 1]
    ELSE [s EXCEPT !.gap = Append(@, s.ts), !.ts = Parent[s.ts]]

Turn(local, s) ==
    IF Height[local[s.idx + 1]] >= Height[s.ts]
    THEN [s EXCEPT !.idx = @ + 1]
    ELSE [s EXCEPT !.gap = Append(@, s.ts), !.ts = Parent[s.ts]]

(* The walk after each number of turns. *)
Walk(local, h) ==
    LET walk[n \in 0 .. LookBackLimit + 1] ==
          IF n = 0 THEN [ts |-> h, idx |-> 0, gap |-> <<>>]
          ELSE LET s == walk[n - 1] IN IF Meets(local, s) THEN s ELSE Turn(local, s)
    IN  walk

(* The result holds the tipsets passed (head first), and the cached ones passed. *)
LookAncestors(local, h) ==
    LET end == Walk(local, h)[LookBackLimit + 1]
    IN  [gap |-> end.gap, revert |-> SubSeq(local, 1, end.idx)]

(* The headChan for head h: the oldest tipset of the gap is the child of a cached one, whose
   messages are marked already. *)
GapWork(h) ==
    LET found == LookAncestors(Descending(cache), h)
    IN  [apply |-> IF found.gap = <<>> THEN <<>> ELSE Front(found.gap), revert |-> found.revert]

CacheTop == Descending(cache)[1]

(* "already processed": the head's parent is the newest cached tipset. *)
UpToDate(h) == cache # {} /\ Parent[h] = CacheTop

(* No cache to compare with, or one that was not used for a long time. *)
NoUsableCache == cache = {} \/ (cache # {} /\ Height[head] >= Height[CacheTop] + LookBackLimit)

(* What StateSearchMsg finds of a message, replaced messages allowed: itself, or the rival that
   differs in gas only. *)
FoundAt(m) ==
    {t \in Branch[Parent[head]] : m \in Includes[t] \/ (m \in GasRivals /\ m \in Rivals[t])}

(* UpdateAllFilledMessage: every filled message is searched in the node's chain. *)
AllFilledUpdated ==
    [m \in Msg |->
        IF rows[m].state = "Fill" /\ FoundAt(m) # {}
        THEN [state |-> "OnChain", ts |-> CHOOSE t \in FoundAt(m) : TRUE]
        ELSE rows[m]]

(* It has no way to see that a nonce is lost. *)
LostNonces == {m \in Msg : rows[m].state = "Fill" /\ \E t \in Branch[Parent[head]] : m \in Rivals[t]}

-----------------------------------------------------------------------------
(* The node *)

(* The head moves on, or over to another branch. *)
HeadChange(h) ==
    /\ h # head
    /\ \/ head \in Branch[h]
       \/ "reorg" \in features
       \/ "levelReorg" \in features /\ Height[h] = Height[head]
    /\ Len(Applied(head, h)) <= IF "batch" \in features THEN MaxApply ELSE 1
    /\ Len(notifs) < MaxNotifs
    /\ head' = h
    /\ notifs' = IF pc = "connect" THEN notifs ELSE Append(notifs, Applied(head, h))
    /\ UNCHANGED <<pc, work, rows, cache, file, faults, missed>>

Fault(f) == f \in features /\ faults < MaxFaults /\ faults' = faults + 1

-----------------------------------------------------------------------------
(* The listener *)

(* Mutant: the current head is not compared with the cache. *)
ConnectUnchecked ==
    /\ pc = "connect"
    /\ pc' = "listen" /\ notifs' = <<>>
    /\ UNCHANGED <<head, work, rows, cache, file, faults, missed>>

(* listenHeadChangesOnce up to and with ReconnectCheck: the current head is compared with the
   cache, unless there is no cache or it is too old: then the node is asked for every filled
   message. *)
Connect ==
    /\ pc = "connect"
    /\ notifs' = <<>>
    /\ \/ /\ NoUsableCache
          /\ rows' = AllFilledUpdated /\ missed' = missed \cup LostNonces
          /\ pc' = "listen" /\ work' = work
       \/ /\ ~NoUsableCache
          /\ IF UpToDate(head) THEN pc' = "listen" /\ work' = work
                               ELSE pc' = "refresh" /\ work' = GapWork(head)
          /\ rows' = rows /\ missed' = missed
    /\ UNCHANGED <<head, cache, file, faults>>

(* updateFilledMessage fails for some of the messages, or an address or its messages cannot be
   listed, which is logged only. *)
ConnectMisses ==
    /\ pc = "connect"
    /\ NoUsableCache
    /\ \E f \in {"lookupError", "queryError"} : Fault(f)
    /\ \E lost \in SUBSET Msg :
          /\ rows' = [m \in Msg |-> IF m \in lost THEN rows[m] ELSE AllFilledUpdated[m]]
          /\ missed' = missed \cup LostNonces \cup {m \in lost : AllFilledUpdated[m] # rows[m]}
    /\ pc' = "listen" /\ notifs' = <<>>
    /\ UNCHANGED <<head, work, cache, file>>

(* ProcessNewHead: without a cache the notification is processed as it is; a head whose
   parent is the newest cached tipset needs nothing; otherwise the gap is looked up. *)
ProcessNewHead ==
    /\ pc = "listen" /\ notifs # <<>>
    /\ LET apply == Head(notifs)
       IN  \/ /\ apply = <<>>
              /\ UNCHANGED <<pc, work>>
           \/ /\ apply # <<>> /\ UpToDate(Last(apply))
              /\ UNCHANGED <<pc, work>>
           \/ /\ apply # <<>> /\ cache = {}
              /\ pc' = "refresh" /\ work' = [apply |-> apply, revert |-> <<>>]
           \/ /\ apply # <<>> /\ cache # {} /\ ~UpToDate(Last(apply))
              /\ pc' = "refresh" /\ work' = GapWork(Last(apply))
    /\ notifs' = Tail(notifs)
    /\ UNCHANGED <<head, rows, cache, file, faults, missed>>

(* The node does not answer lookAncestors, which has to fetch at least one tipset. *)
LookAncestorsFails(h) ==
    /\ cache # {} /\ ~UpToDate(h)
    /\ LookAncestors(Descending(cache), h).gap # <<>>
    /\ Fault("lookupError")

(* In ProcessNewHead the error is logged and the notification is gone. *)
SkipNewHead ==
    /\ pc = "listen" /\ notifs # <<>> /\ Head(notifs) # <<>>
    /\ LookAncestorsFails(Last(Head(notifs)))
    /\ notifs' = Tail(notifs)
    /\ UNCHANGED <<head, pc, work, rows, cache, file, missed>>

(* That needs a client that returns a tipset with its error.  Without one the error message
   itself dereferences a nil tipset, in ReconnectCheck too: the process dies and restarts. *)
LookAncestorsPanics ==
    /\ \/ pc = "listen" /\ notifs # <<>> /\ Head(notifs) # <<>> /\ LookAncestorsFails(Last(Head(notifs)))
       \/ pc = "connect" /\ ~NoUsableCache /\ LookAncestorsFails(head)
    /\ cache' = file
    /\ pc' = "connect" /\ work' = NoWork /\ notifs' = <<>>
    /\ UNCHANGED <<head, rows, file, missed>>

(* Mutant: only the newest reverted tipset counts. *)
RevertMsgsOfFirst ==
    {m \in Msg : rows[m].state = "OnChain" /\ work.revert # <<>> /\ Height[work.revert[1]] < Height[rows[m].ts]}

(* The messages marked on chain at the heights of the reverted tipsets. *)
RevertMsgs ==
    {m \in Msg : rows[m].state = "OnChain" /\ \E t \in Range(work.revert) : Height[t] = Height[rows[m].ts]}

(* updateMessageState, one transaction: reverted messages are filled again; then every filled
   message that is in the parent of an applied tipset, or whose nonce is used there by another
   message, is marked.  The messages of kept and lost are not seen by the one and by the other. *)
UpdatedBut(kept, lost) ==
    LET parents == {Parent[t] : t \in Range(work.apply)}
        At(m, R) == {t \in parents : m \in R[t] \ lost}
    IN  [m \in Msg |->
          IF rows[m].state # "Fill" /\ m \notin RevertMsgs \ kept THEN rows[m]
          ELSE IF At(m, Includes) # {} THEN [state |-> "OnChain", ts |-> CHOOSE t \in At(m, Includes) : TRUE]
          ELSE IF At(m, Rivals) # {} THEN [state |-> "NonceConflict", ts |-> CHOOSE t \in At(m, Rivals) : TRUE]
          ELSE Filled]

UpdateMessageState == UpdatedBut({}, {})

(* doRefreshMessageState up to the cache.  With nothing to apply it does nothing, and leaves
   what is to be reverted for later. *)
DoRefresh ==
    /\ pc = "refresh"
    /\ IF work.apply = <<>>
         THEN rows' = rows /\ pc' = "listen" /\ work' = NoWork
         ELSE rows' = UpdateMessageState /\ pc' = "store" /\ work' = work
    /\ UNCHANGED <<head, notifs, cache, file, faults, missed>>

(* Queries fail and the refresh goes on: ActiveAddresses returns no address then, once for all
   that is applied and once for each reverted tipset, and the error of
   GetMessageByFromNonceAndState is taken for a message of someone else.  The rest is committed
   and the tipset counts as processed. *)
RefreshMisses ==
    /\ pc = "refresh" /\ work.apply # <<>>
    /\ Fault("queryError")
    /\ \E unreverted \in SUBSET Range(work.revert), lost \in SUBSET Msg :
          LET kept == {m \in RevertMsgs : Height[rows[m].ts] \in {Height[t] : t \in unreverted}}
          IN  /\ rows' = UpdatedBut(kept, lost)
              /\ missed' = missed \cup {m \in Msg : rows'[m] # UpdateMessageState[m]}
    /\ pc' = "store"
    /\ UNCHANGED <<head, notifs, work, cache, file>>

(* The node fails, or the database in ListChainMessageByHeight, an update or the commit: the error
   ends listenHeadChangesOnce. *)
RefreshFails ==
    /\ pc = "refresh" /\ work.apply # <<>>
    /\ Fault("nodeError")
    /\ pc' = "connect" /\ work' = NoWork /\ notifs' = <<>>
    /\ UNCHANGED <<head, rows, cache, file, missed>>

(* Mutant: the applied tipsets themselves are stored. *)
ProcessedIsApplied == work.apply

(* storeTipset: one applied tipset stores its parent, several store all but the first. *)
Processed == IF Len(work.apply) = 1 THEN <<Parent[work.apply[1]]>> ELSE Tail(work.apply)

(* Mutant: entries of the same height are kept. *)
AddedToSet(old, list) == old \cup Range(list)

(* Mutant: an existing entry is not replaced. *)
AddedIfAbsent(old, list) ==
    old \cup {t \in Range(list) : \A s \in old : Height[s] # Height[t]}

(* Add and reduce: the map has one entry per height, and the last one added stays. *)
Added(old, list) ==
    {t \in old : \A s \in Range(list) : Height[s] # Height[t]} \cup Range(list)

Reduced(S, currHeight) ==
    IF Cardinality(S) < MaxStoreTipsetCount THEN S
    ELSE {t \in S : Height[t] + MaxStoreTipsetCount >= currHeight}

StoreTipset ==
    /\ pc = "store"
    /\ cache' = Reduced(Added(cache, Processed), Height[Processed[1]])
    /\ file' = cache'
    /\ pc' = "listen" /\ work' = NoWork
    /\ UNCHANGED <<head, notifs, rows, faults, missed>>

(* The parent cannot be fetched: logged only, and the table is ahead of the cache. *)
StoreFails ==
    /\ pc = "store" /\ Len(work.apply) = 1
    /\ Fault("nodeError")
    /\ pc' = "listen" /\ work' = NoWork
    /\ UNCHANGED <<head, notifs, rows, cache, file, missed>>

(* The file cannot be written, before or after it is truncated: logged only, and the cache in
   memory is ahead of it. *)
SaveFails ==
    /\ pc = "store"
    /\ Fault("diskError")
    /\ cache' = Reduced(Added(cache, Processed), Height[Processed[1]])
    /\ file' \in {file, {}}
    /\ pc' = "listen" /\ work' = NoWork
    /\ UNCHANGED <<head, notifs, rows, missed>>

Disconnect ==
    /\ pc = "listen"
    /\ Fault("disconnect")
    /\ pc' = "connect" /\ notifs' = <<>>
    /\ UNCHANGED <<head, work, rows, cache, file, missed>>

(* The process stops and starts again with the cache of the file.  WriteJson truncates the
   file before it writes: a crash meanwhile leaves nothing that can be read. *)
Crash ==
    /\ Fault("crash")
    /\ file' \in {file} \cup (IF pc = "store" THEN {{}} ELSE {})
    /\ cache' = file'
    /\ pc' = "connect" /\ work' = NoWork /\ notifs' = <<>>
    /\ UNCHANGED <<head, rows, missed>>

-----------------------------------------------------------------------------

Init ==
    /\ head = Genesis
    /\ notifs = <<>> /\ pc = "connect" /\ work = NoWork
    /\ rows = [m \in Msg |-> Filled]
    /\ cache = (IF ColdStart THEN {} ELSE {Genesis}) /\ file = cache
    /\ faults = 0 /\ missed = {}
    /\ features \in FeatureSets

Listener == Connect \/ ProcessNewHead \/ DoRefresh \/ StoreTipset

Failure == ConnectMisses \/ SkipNewHead \/ LookAncestorsPanics \/ RefreshMisses \/ RefreshFails
           \/ StoreFails \/ SaveFails \/ Disconnect \/ Crash

Next == (Listener \/ Failure \/ \E h \in Tipset : HeadChange(h)) /\ UNCHANGED features

Spec == Init /\ [][Next]_vars

(* The listener goroutine runs: weak fairness of Listener, with ENABLED Listener written out.
   Nothing is assumed of the node's head. *)
Idle     == pc = "listen" /\ notifs = <<>>
FairSpec == Spec /\ ([]<>Idle \/ []<><<Listener>>_vars)

-----------------------------------------------------------------------------
(* Properties *)

(* The listener has nothing to do and its newest cached tipset is the parent of the head. *)
Settled == pc = "listen" /\ notifs = <<>> /\ UpToDate(head)

(* The state that the node's chain gives to a message. *)
ChainState(m) ==
    IF \E t \in Branch[Parent[head]] : m \in Includes[t] THEN "OnChain"
    ELSE IF \E t \in Branch[Parent[head]] : m \in Rivals[t] THEN "NonceConflict"
    ELSE "Fill"

(* The row of m agrees with the node's chain. *)
Agrees(m) ==
    /\ rows[m].state = ChainState(m)
    /\ rows[m].state = "OnChain" => rows[m].ts \in Branch[head] /\ m \in Includes[rows[m].ts]

(* No tipset was missed: whenever the messager has caught up with the node, a message is
   marked on chain exactly if it is on the chain, at the tipset that contains it, except for the
   very messages whose own query failed, or whose lost nonce UpdateAllFilledMessage cannot see. *)
SettledAgrees == Settled => \A m \in Msg \ missed : Agrees(m)

(* The cached tipsets lie on one branch of the tree, so that what lookAncestors reverts is
   what has left the chain, and where it stops is really behind the head. *)
CacheOnOneBranch == \A s, t \in cache : s \in Branch[t] \/ t \in Branch[s]

(* As long as nothing is reverted, the cache file never runs ahead of the message table: a tipset
   in it has its messages marked, so that a restart at any point leaves no tipset out.  Only the
   messages whose own query failed while the tipset was processed are passed over. *)
FileIsApplied ==
    features \cap {"reorg", "levelReorg"} = {} =>
        \A t \in file : \A m \in Includes[t] \ missed : rows[m].state # "Fill"

(* What the walk of lookAncestors finds, whatever is in the cache, stale entries included: the
   tipsets of h's branch above the highest cached one on it, as long as something lower is
   cached, and the cached tipsets above that one, down to the first tipset after genesis;
   of both as many as LookBackLimit + 1 turns reach. *)
LookAncestorsMeets ==
    \A h \in Tipset :
        LET Above(n)  == \A c \in cache \cap Branch[h] : Height[c] < n
            Turns(n, k) == Cardinality({t \in Branch[h] : Height[t] >= n}) + Cardinality({c \in cache : Height[c] >= k})
            found     == LookAncestors(Descending(cache), h)
        IN  /\ found.gap = Descending({t \in Branch[h] \ {Genesis} :
                  /\ Above(Height[t])
                  /\ \E c \in cache : Height[c] < Height[t]
                  /\ Turns(Height[t], Height[t]) <= LookBackLimit + 1})
            /\ found.revert = Descending({c \in cache \ Branch[h] :
                  /\ Above(Height[c])
                  /\ \E t \in Branch[h] \ {Genesis} : Height[t] <= Height[c]
                  /\ Turns(Height[c] + 1, Height[c]) <= LookBackLimit + 1})

Executed(m) == \E t \in Branch[Parent[head]] : m \in Includes[t]

(* A message that has been executed is eventually marked, or leaves the chain, without the help of
   a later head, through lost connections, failed refreshes and crashes; only a message whose own
   query failed may be passed over. *)
ExecutedIsMarked ==
    \A m \in Msg : Executed(m) ~> (rows[m].state = "OnChain" \/ ~Executed(m) \/ m \in missed)
=============================================================================
