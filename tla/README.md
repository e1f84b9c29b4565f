# A TLA+ development for sophon-messager

sophon-messager accepts unsigned Filecoin messages from its users, gives each of them a
nonce, fills in gas, has them signed by a remote wallet, publishes them, replaces them when
they are too cheap, and follows the chain to tell its users what became of them. The hard parts
are the allocation of nonces (two messages of one sender must not share a nonce, and no nonce may
be left out, or the chain stops taking the sender's messages), following a chain that forks,
through lost connections and restarts, without missing a tipset, and one row of a table that
selection, replacement, refresh and operators all read, think about, and write. All of it is
modelled here and model-checked with TLC, and its
safety properties, all but one, are proved with TLAPS, some under the assumptions of section 4. All paths below are
relative to `src/`.

## 1. The system and its parts

| Part | Source | State | Operations | Modelled by |
|---|---|---|---|---|
| Message selection | `service/message_selector.go` | `MsgSelectMgr.works`, the one-place `controlChan` of each work, the lock; goroutines; the actor cache | `SelectMessage`, `tryUpdateWorks`, `startSelectMessage`, `selectMessage`, `estimateMessage`, `getActorCfg`, `signMessage`, `saveSelectedMessages` | `MsgSelector`; gas and actor cache in `ReplaceMessage` |
| Message service, message API | `service/message_service.go` | table `messages` | `PushMessage`, `MarkBadMessage`, `RecoverFailedMsg`, `RepublishMessage`, `UpdateMessageStateByID`, queries | `MsgSelector` (interleaved), `MessageApi` (on both databases) |
| Blocking calls | same | `doneCh`; `cleanUnFillMsgFunc`, `cleanUnFillMsgRes` | `WaitMessage`; `ClearUnFillMessage`, `tryClearUnFillMsg` | `WaitMessage`, `ClearUnFill`, composed in `MessageApi` |
| Replacement and gas | same; `message_selector.go` | the row of a message | `ReplaceMessage`, `computeRBF`, `CapGasFee`, `mergeMsgSpec`, `ToSignedMsg` | `ReplaceMessage` |
| Scheduling of selections | `StartPushMessage`, `delaySelectMessage` | `triggerPush`, `preCancel` | one delayed goroutine per new head | `MsgSelector` |
| Head processing | `ProcessNewHead`, `ReconnectCheck`, `lookAncestors`; `service/events.go`, `service/modules.go` | `headChans`, the ChainNotify channel | connect, receive a head change, reconnect | `HeadRefresh` |
| Message state refresh | `service/message_state_refresh.go` | table `messages` | `doRefreshMessageState`, `updateMessageState`, `processRevertHead`, `storeTipset` | `HeadRefresh`; its effect on one row in `MsgSelector`, its two halves in `ReplaceMessage` |
| Tipset cache | `service/cache.go`, `utils/util.go` | map of height to tipset, a file | `Add`, `reduce`, `List`, `Load`, `Save` | `HeadRefresh` |
| Address service | `service/address_service.go` | table `addresses` | `UpdateNonce`, `DeleteAddress`, `ForbiddenAddress`, `ActiveAddress`, `SetSelectMsgNum`, `SetFeeParams` | `MsgSelector`, `MessageApi` |
| Repositories | `models/mysql`, `models/sqlite`, `models/modules.go` | five tables, in two kinds of database | queries, whole-row and one-column updates, transactions, migration at start | `MysqlStore`, `SqliteStore`, `Gorm`, `MessageApi` |
| Shared parameters, actor configurations, nodes | `service/`, `models/` | one table each | reads, writes | `MessageApi`; their use in `ReplaceMessage` and `Publisher` |
| Publisher | `publisher/` | message cache, queues, workers, a thread per node | broadcast over RPC and gossip | `Publisher` |
| Wallet gateway | `gateway/` | list of gateways, cache | `WalletSign`, `WalletHas` | `WalletProxy`, composed in `ReplaceMessage` |
| API and authorisation | `api/messager_impl.go` | none | checks by signer, delegation | `MessageApi` |
| Quick send, CLI, configuration, file store, metrics, tools | `service/send.go`, `cli/`, `config/`, `filestore/`, `metrics/`, `tools/` | none of their own | delegation, formatting | not modelled |

How the parts interact. The listener goroutine (`listenHeadChangesOnce`) receives head changes.
For each it puts the head on `triggerPush`, from which `StartPushMessage` starts a goroutine that
waits until the head is stable, runs a waiting `ClearUnFillMessage`, and selects; it also hands the
tipsets to apply and revert over `headChans` to the goroutine of `refreshMessageState` and waits for
its answer. Selection and refresh never call each other: they meet in the tables, which the API
calls write as well. Selection and `RepublishMessage` hand batches to the publisher by a non-blocking
send on `msgReceiver`; from there they pass a cache, a queue, workers, and the queue of a thread
for each node. Selection and replacement ask the wallet gateways for signatures.

What is hard:

- **Selections overlap.** Every head starts a goroutine; `SelectMessage` reads the address rows before
  it takes its lock, and the goroutines it starts outlive it. What keeps two goroutines of one
  address apart is only the token in the work's `controlChan`.
- **Rows are read, and written much later.** gorm's `Save` writes back rows that were read before node and
  wallet calls; replacement and refresh update by cid or by state what they looked up before.
- **Crashes** between signing, saving, pushing, marking and writing the cache file.
- **Partial failure**: a candidate that cannot be estimated or signed, a batch that cannot be saved, a
  full `msgReceiver`, a node that does not answer or hangs, a gateway that lost its wallet.
- **Reorgs, null rounds, several tipsets in one head change**, and a cache that must say exactly which
  tipsets have been processed.
- **Channels with one place or none** between calls of the API and goroutines.
- **Two copies of every repository**, whose column types differ.

The properties that make each part correct:

| Part | Correct when |
|---|---|
| Selection | nonces are unique, never go back, leave no gap, stay in the pending window; one selection per address at a time; the token is not leaked; nothing is published that is not saved; what is saved is published eventually |
| Message and address API | a recovered message's nonce is still its own; all keys of a message lead to it; pages partition the list; users see their own messages |
| Head processing, refresh, cache | having caught up, a message is marked exactly if it is on chain, and an error costs no message but its own; the file never runs ahead of the table; cached tipsets lie on one branch; executed messages are marked eventually |
| Replacement, gas | what is signed is what is stored and published; a settled message is not taken back; a replacement is one a message pool accepts, within the maximal fee |
| Wallet gateway | a stale cache is no reason to fail |
| Publisher | every batch reaches the main node, in the order of its nonces; nothing is resent too early; a node has one thread; errors are recorded |
| `ClearUnFillMessage` | every answer is owed to a caller |
| Repositories | both kinds behave alike; the migration loses no nonce |

## 2. The modules

| Module | What it says |
|---|---|
| `NonceAllocator` | abstract: every message gets at most one nonce, no nonce of a sender twice, in increasing order, and only what has a nonce is published |
| `MsgSelector`, `MCMsgSelector` | selection, message API, address API, chain, refresh by effect; properties and inductive invariants |
| `MsgSelectorProofs`, `NonceProofs` | type correctness; uniqueness and monotony of nonces |
| `SelectionProofs` | the pending window; the control token |
| `AllocProofs` | what is published is saved; no gaps; selection implements `NonceAllocator` |
| `HeadRefresh`, `MCHeadRefresh` | listener, cache, refresh; block trees with a fork, null rounds, messages in both branches, lost nonces |
| `HeadProofs` | block trees, the walk of `lookAncestors`; types; the file and the marks behind a node that moves forward |
| `WalletProxy` | the cache and choice of wallet gateways for one sender |
| `ReplaceMessage`, `MCReplaceMessage` | one message with its gas, between selection, replacements, refresh, operators, upgrades and `WalletProxy` |
| `ReplaceProofs` | what refresh and replacement do to a settled row; signatures and gas; the retry of `WalletProxy`; the actor cache |
| `Publisher`, `MCPublisher` | from `msgReceiver` to the nodes and the gossip topic |
| `PublisherProofs` | the threads of the nodes; batches in order; the cache |
| `Gorm` | what the repositories rely on in gorm (external) |
| `MysqlStore`, `SqliteStore` | the repositories, operator by operator |
| `WaitMessage`, `ClearUnFill` | the two blocking calls |
| `MessageApi`, `MCMessageApi` | the calls of the API on both stores at once, composed with the blocking calls |
| `ApiProofs` | the answers of `ClearUnFillMessage`; the migration of addresses; the rows of the two databases, sorting and paging, and what is read from them |

### MsgSelector

State: the tables `msgs` and `addrs`; `pushing` (a `PushMessage` call between its transaction and
`CreateMessage`); `chain` (who used nonce 0, 1, ... of each address); `pushed`; `tasks` (the
`delaySelectMessage` goroutines with the chain nonces of their tipset and the address rows they
read); `works`, `full`, `closed` (the map of works, and of each work whether its channel holds the
token and whether it was closed); `jobs` (the `startSelectMessage` goroutines).

A step is what happens between two points where another goroutine can be seen. `SelectMessage` is
`ReadActiveAddrs` (before the lock), then `LaunchJobs` (under the lock). `startSelectMessage` is
`CheckCtx`, `TakeControl`, `SyncNonce` (the chain's nonce against the row that was read, and the
save of that row), `ListCandidates` (filled messages, window, unfilled messages, estimate),
`SignCandidate` once per candidate, `SaveSelected` (one transaction) and `PushSelected`; `JobFails`
is every error return, and `finish` is part of each step that ends the goroutine. Panics (a send on
a closed channel, a work kept for an inactive address, a filled message without a signature) are
enabled by `Panics` and `NilSignature` and end the process, as a crash does.

Data that is abstracted: gas and fees (a candidate is selected, skipped, or fails; see
`ReplaceMessage`), signatures and cids (a signed message is a pair of id and nonce), `created_at`
(the order of ids), `updated_at` (any of the 50 rows may be the newest), the contents of errors (a
flag).

### HeadRefresh

The block tree is a constant; messages are filled and sent by active addresses. State: the node's
`head`, the channel `notifs`, the listener's `pc` and `work` (the `headChan` under way), the message
`rows`, the `cache` and its `file`. `Connect` is `ReconnectCheck`; `ProcessNewHead` and `DoRefresh` keep
the early returns of the code; `StoreTipset` is `storeTipset` with `Add`, `reduce` and `Save`. Failures:
an error that ends the refresh (`RefreshFails`: the node, or the database in `ListChainMessageByHeight`, an
update or the commit), a query that fails and is passed over (`RefreshMisses`, `ConnectMisses`), an unreachable
parent, a failed lookup (whose error message dereferences a nil tipset), a lost connection, a file that cannot be
written, a crash at any step, the one while the truncated file is being written included. A query is passed over
in three places: `ActiveAddresses` answers an error with no address at all, for all that is applied and again for
each reverted tipset; the error of `GetMessageByFromNonceAndState` is taken for "not exist in local db"; and
`UpdateAllFilledMessage` logs and goes on. What is missed is any set of messages (a query for one, or the list of
addresses for all), the rest is committed and the tipset stored as processed. `missed` only observes which
messages a step passed over in these ways, and the lost nonces that `UpdateAllFilledMessage` cannot see; no guard
reads it. What may happen in a behaviour is one of
`FeatureSets`, chosen at its start: "batch" lets a head change carry several tipsets, "levelReorg" a
reorg to the same height, "reorg" any. `triggerPush` is not part of this module: nothing in it
depends on selection. The listener waits for the refresh goroutine, so the two are one process.

Where the module reads the configuration it takes the default: `SkipProcessHead` and `SkipPushMessage`
switch the two halves off entirely.

### ReplaceMessage and WalletProxy

One message, because rows do not interact here, and its sender's nonce on the chain (`ChainNonce`).
State: the `row`; `sel`, the selection under way; `rep[c]`, the calls of `ReplaceMessage`; `refresh`
and `applied`, what the refresh works on and has processed; `nv` and `actorCache`; `published`; and
`WalletProxy`'s `cached`, `holds` and `sign`. Selection is `SelRead`, `SelVersion`, `getActorCfg`,
`estimateMessage`, the steps of `WalletSign`, `SelSave`; a replacement is `RepRead`, `RepEstimate`,
`WalletSign`, `RepSave`, `RepublishMessage`. `updateMessageState` is `RefreshRead` and `RefreshWrite`: on
MySQL its transaction reads without a lock, so that others may write in between (sqlite has a single
connection). `mergeMsgSpec`, `CapGasFee`, `computeRBF` and the gas of an automatic replacement are
operators on whole numbers; the node's estimate (`NodeEstimate`) is external. A signature is the
content that was signed. `scene` holds the fees of each level, the parameters of the replacements,
which operators' calls occur and whether wallets move. `mixed` remembers that a replacement of a row
read before it was signed has been stored: the properties about signatures end there (section 6).

### Publisher

`Receive` groups a batch by sender and sorts it; `CacheTake`, `CacheForward` and `CacheTick` are the
cache; `Take` to `ToTopic` are the steps of a worker through `MergePublisher` and `RpcPublisher`: main
node, list of nodes, lock, per node a look-up, a dial and a send, the closing of threads, and the
gossip topic; `run` is a node's thread. Channels are sequences of at most `Cap` batches, and
`HandleMsg` waits for room with the lock held, as the code does. A thread that is closed may take
queued batches whose push then fails. `quiet` and `resent` observe the cache for `CacheQuiets`.

### The stores and MessageApi

A table is a set of rows. A query of a repository is an operator from a table to what it returns, a
write one from a table to a table, in `MysqlStore` and `SqliteStore` separately, with the conversions of
rows: nil integers and cids, `int(srcMsg.Method)` of MySQL, by which a large method number wraps to a negative one,
and its column, which refuses what has more than four bytes (`AsInt`, `Fits`; here integers have `Width` bits and the
column holds numbers up to `MaxInt`), its two digits of ratios, the signed integers of sqlite, and the times
of nodes, which MySQL's `fromNode` drops (`StrictDates`: whether MySQL then refuses the zero date). Of columns that are
treated alike one is kept, and the lengths of text columns are left out. `MessageApi` makes
every call on both at once. Calls do not interleave in it, apart from `WaitMessage` (token, tick,
head, row) and `ClearUnFillMessage` (two unbuffered channels between callers and the goroutines of
heads): what interleaving does to the rows is the subject of `MsgSelector` and `ReplaceMessage`.
`Start` is the migration of addresses and the default parameters.

What a query may answer depends on its `ORDER BY`. With one it returns a sequence: its i-th row is the one with
i - 1 rows before it (`OrderBy`), which says what is returned without saying how it is sorted. Without one, as for
`Asc` in `parseQueryParams`, it may return any arrangement of the rows (`Arrangements`), and a limit any part of it:
such an operator is the set of possible answers, and the two stores agree if these sets do. An offset without a
limit is a syntax error in MySQL, and its store has no answer to it.

A cid is made of what it is computed from: sender, method, content and nonce (`CidOf`), so that two messages that
were pushed with the same content share a cid if they get the same nonce. The updates of one row each
that `RecoverFailedMsg` and `clearUnFillMessage` make in a loop are one step (`Each`).

## 3. The runs

| Run | Bounds | Checks | Shows |
|---|---|---|---|
| `sel_serial` | 1 sender, 2 messages, window 2, 1 task, chain of 2, 1 crash; recover, clear, forbid, foreign messages; 331,362 states | `TypeOK`, `NonceUnique`, `NonceBehindAddress`, `PublishedPersisted`, `NonceNeverBack`, `AllocSpec` | while selections do not overlap nonces are safe, nothing unsaved is published, and selection implements `NonceAllocator` |
| `sel_overlap` | 1 message, 2 tasks, 2 works, 1 crash or panic, no block; delete, reset nonce, set any state; 564,494 states | `OneSelectionPerAddr`, `TokenHeldBySelection` | the control token does its work although works are closed and created again and goroutines panic |
| `sel_live` | 2 messages, window 2 or 1, 2 crashes; mark bad, recover, republish, set window; fairness; 35,799 states | `NoNonceGap`, `PendingWindow`, `FilledIsPublished` | failures and crashes leave no nonce out and exceed no window; a dropped batch is published later |
| `head_settle` | two branches with a null round, a lost nonce; reorgs to the same height with 1 or 2 tipsets at once, or 3 faults, failing queries included; fairness; 10,350 states | `TypeOK`, `SettledAgrees`, `CacheOnOneBranch`, `FileIsApplied`, `ExecutedIsMarked` | such reorgs are followed exactly, faults lose no tipset and failing queries only their own messages, marking needs no later head |
| `head_walk` | cold start, two branches with null rounds, any reorg with up to 4 tipsets at once and a crash, or any fault; cache of 3, look-back limit 4; 68,684 states | `LookAncestorsMeets` | `lookAncestors` finds what its declarative description says, for stale and reduced caches and cut-off walks too |
| `api` | 2 senders, 4 messages (two of one content; one whose method wraps to a number MySQL's column holds, one whose does not), 2 users, up to 5 writes, 2 callers and 2 goroutines, a column of numbers up to 3 and integers of 4 bits; 39,406 states | `BackendsAgree`, `QueriesAgree`, `PagesPartition`, `LookupsAgree`, `OwnMessagesOnly`, `AnswersConserved`, `MigrationKeepsNonce` | the two kinds of repository agree where they can; listing, looking up, clearing and migrating do what they should |
| `replace` | 1 message, 2 replacements, 2 gateways, 2 versions, 2 estimates and base fees, 13 combinations of fees and parameters; 1.9 million states | `SignatureCovers`, `OnChainIsExecuted`, `CodeIsCurrent`, `SignRetrySuffices`, `SettledStays`, `ReplacementAcceptable` | whatever the order of selection, replacements and refresh, signatures, states and gas are right |
| `publish` | 3 messages of 2 senders, 2 workers, 1 node beside the main one, queues of 1, up to 4 batches; 236,201 states | `BatchInOrder`, `CacheQuiets`, `OneThreadPerNode`, `ReachesMain` | the main node gets everything in order, and threads are neither doubled nor lost |
| `sel_overlap_nonce` | 2 tasks | `NonceUnique` violated | see section 6 |
| `head_gap` | 3 tipsets at once, then a reorg | `SettledAgrees` violated | see section 6 |
| `replace_settle` | 1 replacement | `ExecutedIsSettled` violated | see section 6 |
| `publish_error` | 1 batch, gossip on | `ErrorsRecorded` violated | see section 6 |

Why the bounds are enough. Two messages of one sender are what a collision, a gap and a full window
need. Senders share nothing but the lock and the map of works, so one is model-checked and any number
is proved about. Two tasks are what an overlap needs and two works what a closed and recreated one
needs; goroutines and works are interchangeable there, hence the symmetry. In `HeadRefresh` the
interesting distances are those between head, cache and fork: trees of five to ten tipsets contain
each of them, and the limits are made small where reaching them is the point. In `ReplaceMessage` two
replacements, one selection and the refresh are the writers of a row, two gateways what a stale
cache needs; the fees are chosen so that each level decides in some scene, the maximal fee cuts in
some and not in others, and the base fee is too high in some. In `Publisher` two workers meet at the
lock, queues of one place are full at once, and the scene with a hanging node offers exactly as many
batches as get through, `Cap + Cardinality(Worker)`. In `MessageApi` a page size of 2 with 3 messages has
a full and a partial page, a limit of 1 cuts an unordered list of 2 in either way, and the number of
writes is what the longest interesting sequence takes (push, select, replace or revert, look up). That nonces stay unique when an operator sets states at any
moment (`updateState`) needs no run of its own: `NoncesUnique` is proved for every set of features
without a reset of nonces. `MaxChain`, `MaxCrashes`, `MaxFaults`, `MaxApply`, `MaxNotifs`,
`MaxHeight` and the scenes bound the environment in guards. Behaviours are switched by `Features`,
`FeatureSets` and `Scenes`, so that a behaviour has what its question is about; every action occurs in
a passing run.

No run checks deadlock: an instance stops when its bounded environment is exhausted.

### Fairness

`sel_live`: the goroutines of the process are scheduled by the Go runtime (weak fairness of `TaskStep`
and `JobStep`), and a head always follows. That a message is published needs the world's help, and
the assumption says so: the database, the node, the wallet and a full `msgReceiver` do not make
*every* attempt fail (strong fairness of each step in its successful form). Nothing is assumed of
crashes but their number.

`head_settle`: the listener goroutine runs, that is, it is idle again and again or takes steps again and
again. That is weak fairness of its next step, with the enabling condition written out. Nothing is
assumed of the node's head: a message must be marked even if the chain stops.

`publish`: the goroutines run, nodes other than those that hang answer in the end, and a waiting worker
gets the lock (Go's mutexes are handed on to starving waiters). Nothing is assumed of the services
that offer batches, of the cache's ticker or of changes of the table.

## 4. What is proved

For every number of addresses, messages, goroutines, works, crashes, replacements, gateways, workers,
nodes and callers, any finite block tree, any window, limit, gas and fees, and any set of features, unless
an assumption is named.

| Theorem | Statement |
|---|---|
| `TypeCorrect` (`MsgSelectorProofs`) | `Spec => []TypeOK` |
| `WindowNeverExceeded` (`SelectionProofs`) | `Spec => []PendingWindow`, overlapping selections included |
| `OneSelection`, `TokenNeverLeaks` (`SelectionProofs`) | `Spec => []OneSelectionPerAddr`, `Spec => []TokenHeldBySelection`, overlapping selections included |
| `NonceInvariant`, `NoncesUnique`, `RowPastNonces` (`NonceProofs`) | `OneTask`, `NoNonceReset`: `Spec => []NonceUnique`, `Spec => []NonceBehindAddress` |
| `NonceMonotone` (`NonceProofs`) | `OneTask`, `NoNonceReset`: `Spec => NonceNeverBack` |
| `PublishedAreSaved` (`AllocProofs`) | `OneTask`, `NoNonceReset`, `NoStateSet`: `Spec => []PublishedPersisted` |
| `SelectionAllocates` (`AllocProofs`) | `OneTask`, `NoNonceReset`, `NoStateSet`: `Spec => AllocSpec` |
| `NoncesWithoutGap` (`AllocProofs`) | the same and `NoForeign`: `Spec => []NoNonceGap` |
| `HeadTypeCorrect` (`HeadProofs`) | `Spec => []TypeOK`, reorgs, batches and all faults included |
| `FileNeverAhead` (`HeadProofs`) | batches only together with reorgs: `Spec => []FileIsApplied`, that is, without reorgs and batches no tipset in the file has a message that is not marked, unless its own query failed |
| `WalkMeets` (`HeadProofs`) | `Spec => []LookAncestorsMeets`, for any cache, tree with null rounds and look-back limit |
| `SettledStatesAgree` (`HeadProofs`) | `ForwardOnly`, `OneMessagePerNonce`, `LookBackLimit >= 1`: `Spec => []SettledAgrees`, that is, having caught up, every message is marked exactly as the chain has it, but for those whose own query failed |
| `OnChainExecuted` (`ReplaceProofs`) | `Spec => []OnChainIsExecuted` |
| `SettledNeverTakenBack` (`ReplaceProofs`) | `Spec => SettledStays` |
| `SignatureAlwaysCovers` (`ReplaceProofs`) | `Spec => []SignatureCovers` |
| `ReplacementPaysEnough` (`ReplaceProofs`) | `Spec => ReplacementAcceptable` |
| `SignRetryEnough` (`ReplaceProofs`) | `Spec => []SignRetrySuffices` |
| `CodeNeverStale` (`ReplaceProofs`) | `Spec => []CodeIsCurrent` |
| `ThreadsUnique` (`PublisherProofs`) | `Spec => []OneThreadPerNode` |
| `BatchesOrdered` (`PublisherProofs`) | `Spec => []BatchInOrder` |
| `CacheKeepsQuiet` (`PublisherProofs`) | `Spec => []CacheQuiets` |
| `AnswersNeverLost` (`ApiProofs`) | `Spec => []AnswersConserved` |
| `NonceSurvivesMigration` (`ApiProofs`) | `Spec => MigrationKeepsNonce` |
| `BackendsAlwaysAgree` (`ApiProofs`) | `Spec => []BackendsAgree`: up to methods MySQL cannot hold, digits of ratios, and the times of nodes |
| `QueriesAlwaysAgree` (`ApiProofs`) | `Spec => []QueriesAgree`: the same possible answers, but for an offset without a limit |
| `ListsArePaged` (`ApiProofs`) | `Spec => []PagesPartition` |
| `LookupsAlwaysAgree` (`ApiProofs`) | `Spec => []LookupsAgree`: by id always; by cid and by nonce unless an operator sets an address's nonce, for nonces other than 0 |
| `OthersMessagesHidden` (`ApiProofs`) | `Spec => []OwnMessagesOnly`: of `ListMessage`, `ListFailedMessage` and `ListAddress` |

### Assumptions

On the constants, evaluated by TLC in every run of the module: `ConstantsAssumption` of `MsgSelector`;
`TreeAssumption` of `HeadRefresh` (a finite tree in which parents are lower, genesis at height 0 without
messages, limits that are numbers); `SignersAssumption`, `ScenesAssumption`, `VersionAssumption`,
`EstimateAssumption` and `FeesAssumption` of `ReplaceMessage` (a node's estimates are positive, fees are
numbers); `MainAssumption`, `NonceAssumption` and `ScenesAssumption` of `Publisher` (what a service sends in
one batch has different nonces for one sender, `Sendable`); `FiniteAssumption` of `ClearUnFill`;
of `MessageApi`, `OldRowsAssumption` (the address column of an old table is unique, as its index says, the ids
tell rows apart as the addresses do, no row is marked deleted, and ratios have the two digits both databases can
hold), `MessagesAssumption` (method numbers are unsigned integers of `Width` bits), `WidthAssumption` (there are at
least three bits; that `2 ^ Width` is twice `2 ^ (Width - 1)` is part of it, for the provers know no powers) and
`UsersAssumption` (the administrator is not one of the users).

Of a theorem, about what may happen in the behaviours it speaks of:

- `OneTask`: selections do not overlap. `sel_overlap_nonce` shows that uniqueness is false without it, and
  section 6 names the panic of an overlap.
- `NoNonceReset`: neither `UpdateNonce` nor `DeleteAddress`, by which an operator sets the row behind the table.
- `NoStateSet`: no `UpdateMessageStateByID`, which can give a signed message a second nonce and leave a
  filled one without a signature.
- `NoForeign`: nobody else sends from the addresses; else the row jumps forward over nonces it never gave out.
- `ForwardOnly`: the node neither reverts nor applies several tipsets at once nor refuses a lookup.
  `head_gap` shows that `SettledAgrees` fails with the first two; a refused lookup leaves a message in Fill
  until the next start. Queries that fail and are passed over are not excluded: their messages are in `missed`.
  `OneMessagePerNonce`: a chain has one message for a sender's nonce.
  `LookBackLimit >= 1`: with 0 no walk would get past the head (the code has 900).

### Along which argument

**Nonces.** Neither `NonceUnique` nor `NonceBehindAddress` is inductive: a goroutine works with a row read
several steps ago and holds nonces that no table knows of. `NonceInv` adds, per goroutine,

- `SnapFresh`: until the goroutine has synced its nonce, the row that `SelectMessage` read is not behind
  the table;
- `SelectionFresh`: what it has given out and not saved lies between the table's nonce and its own, and
  is pairwise different;
- `RunsInTask`, `SelectsActive`: it belongs to a started task and to an address that was active.

Uniqueness then follows where it is decided, in `SaveSelected`: new nonces are at or past the row's, and
all old ones are before it. `SyncNonce` keeps the invariant because it only moves forward
(`SyncMovesForward`), and a crash because everything but the tables is gone. `NonceMonotone` uses
`AbsentIsZero` in addition: a row that is created has no larger nonce to lose.

**Window.** `selectMessage` computes `nonceGap` by an unsigned subtraction. `WindowInv` says that a
goroutine never works below its tipset's nonce, so the subtraction does not wrap, and that its nonce
and the free places add up to the window all through the signing loop. Nothing in it refers to the
tables, which is why it survives overlaps and resets.

**Token.** `TokenInv`: a goroutine runs for the current work of its address or for one that was closed since
(`WorkKnown`), one that selects holds the token of the current work (`HoldsToken`), and the current work is
never closed. A work whose token is taken is thus never removed, and goroutines of an earlier work of the
same address find it closed before they select. Nothing in it refers to the tables, so it holds for any
overlap.

**Allocation.** `SignInv`: the candidates and the selected messages of a goroutine are unsigned rows of the
table, what it is about to push is in the table under the nonce it read (`SelectsSignable`), unfilled
rows are unsigned, and what was pushed is in the table. Each step then maps to a step of
`NonceAllocator` or to a stutter. `GapInv`, for addresses nobody else uses: the chain is never ahead of the
row, a goroutine starts from the row's own nonce, and what it has given out are all nonces from there to
its own (`GapFree`).

**Block trees.** `Branch` is the least set closed under parents. That branches are linear
(`BranchLinear`), go down (`BranchLower`) and unfold (`BranchUnfold`) is proved from its leastness alone.

**Head, types.** That the cache has one tipset per height needs more than types: what is to be added must
have different heights itself, be it a notification, a gap or a file (`TypeInv`). The gap has, since
the walk goes down (`WalkDown`).

**Head, forward.** `Seen` is the tipset the listener took last. `ForwardInv`: what waits in the channel leads
from `Seen` to the head tipset by tipset (`InOrder`); cache and file are behind the parent of `Seen`
(`CacheBehind`); the `headChan` under way leads down from `Seen` and reverts nothing (`WorkForward`); cached
tipsets, and between the transaction and the file the parents of applied ones, are marked
(`MarkedInv`). `WorkForward` rests on `ForwardWalk`: towards a cached ancestor of the head the walk passes no
cached tipset and stops at it or after `LookBackLimit + 1` turns. The crash that loses the file and the
one that reloads an older one keep the invariant because every subset of a good cache is good.

**Head, settled.** The cache says nothing of what is below it, so `MarkedInv` is too weak. `SettleInv`:
*everything* behind a cached tipset is marked at its tipset or was passed over, everything behind the parent of
`Seen` too while the listener listens or stores, and while a `headChan` waits all but what it is going to mark. A
cut-off walk would break it; in `ProcessNewHead` the walk is one tipset long (`GapCovers`), and in
`ReconnectCheck` the test of the height excludes it, for heights fall by at least one each turn.

**Head, the walk.** `Passed` describes the walk by three values: the tipsets P of the branch and the cached
tipsets Q it has passed, and the next tipset. What it passed is above what is left, nothing passed is on
both sides, every cached tipset as high as one of P is in Q, and every tipset of the branch above one of Q
is in P. Each turn keeps that (`PassCached`, `PassTipset`) and adds one tipset to P or Q. Where the walk
stops, for whichever of its four reasons, P and Q are the two sets of the property (`PassedEnd`): a
cut-off walk has made as many turns as P and Q have tipsets, so that one more tipset would be one turn
too many. Both lists fall in height, and only one order of a set does (`FallingIsDescending`).

**The row.** `OnChainIsExecuted` needs to know that nobody settles the row while the refresh is between
its read and its update, and that what it writes back was signed (`RefreshPending`). `SettledStays`
needs that a selection cannot be under way any more: a row is selected at most once, and is unsigned
until then (`SignedOnce`). Replacements only ever touch rows in Fill. `SignatureInv` follows the content that
the selection, each replacement and the refresh carry from their read to their write (`SelInv`, `CallInv`):
what they carry is signed as it is, or the replacement is one of those that read an unsigned row
(`mixed`), and their gas is that of an estimate within the fees. A signed row has a nonce and a gas limit
other than 0 (`Covered`), for an update does not store zeros.

**Wallets.** `ChosenHolds`: a gateway that this call has chosen, and not taken from the cache, still has
the key while no wallet moves. The cache itself may hold anything.

**Actors.** `CacheCurrent`: what is cached under a version is the code of that version or a later one,
since the version is read first and versions only grow.

**Publisher.** A worker between `Lock` and the end of `CloseThreads` is alone (`LockHeld`), so that a node
found without a thread is still without one when it has been dialled (`DialsMissing`). `BatchInv`: every
queue holds ordered batches of one sender; the cache keeps the order of what it lets through
(`Unknown`). `CacheInv`: the cache has forgotten a message only after two
ticks without it.

**API.** A running or offering goroutine and a caller that waits or gave up come and go together, so that
the two groups have one size (`ClearInv`). Before `Start` the tables are as the earlier version left them
(`Fresh`), and the migration is one function of them.

**The two databases.** None of the properties of what is read is inductive: they speak of what the
conversions return, and a write depends on what is stored. `BackendInv` relates the tables row by row. The messages
of MySQL are those of sqlite whose method it can hold (`Holds`); its addresses, configurations and parameters are
those of sqlite with rounded ratios (`Rounded`, `CfgInMysql`), and its nodes, if it takes the zero date, are those of
sqlite up to their time of creation (`NodesMatch`). Of a row of sqlite it says (`RowOK`) that the method is the stored
form of a number of `Width` bits, that a signed row carries a cid computed from its own sender, method, content and
nonce, and the signed cid that belongs to it, and that an unsigned one carries neither cid nor nonce. That a sender's
nonces other than 0 are different and below the row's (`NoncesFollow`) is part of it unless operators change addresses.
A write is an update of a row in either database, and it keeps the invariant because it commutes with the relation:
each update of the stores has a lemma that says so. The tables agree since reading undoes what writing did
(`ScanOfValue`, `RoundedTwice`, `MessageRead`). That a lookup is unique rests on the nonces alone: two rows with one cid
have one sender and one nonce, and with a nonce given out once that is one row.

**Sorted and paged lists.** `Before` is a total order of rows with different ids, whatever the column
(`OrderedRows`). In a finite total order there is exactly one element with i - 1 below it (`PlaceTaken`,
`PlaceGrows`), so that the rows are laid out completely, once each and in order (`LaidOutAll`), and a copy of the
table under an order-preserving map is laid out alike (`LaidOutCopy`). With what `Limit` and `Offset` cut out
(`PageRows`) this gives `PagesPartition` for MySQL and the sorted lists of `QueriesAgree`. Unordered lists agree since the two sets of
arrangements are those of one set of rows.

Each proof has one lemma per group of actions and, under it, one step per action. Induction, over the
turns of the walk, the ranks of a sorted set, the branches and the finite subsets of a table, is by least
counterexample (`LeastNumber`, `WFMin`), since induction schemes cannot be instantiated.

## 5. What is only model-checked

Liveness and `ENABLED` are outside what the prover can do: `FilledIsPublished`, `ExecutedIsMarked` and
`ReachesMain` stay with TLC. So do reorgs, where the theorem about the marks does not reach:
`SettledAgrees` and `CacheOnOneBranch` hold for reorgs to the same height of one or two tipsets
(`head_settle`), and `SettledAgrees` fails for longer ones (`head_gap`). `CacheOnOneBranch` has no theorem: without reorgs
all tipsets lie on one branch anyway, and with them there is no proof.

## 6. Findings

- **`sel_overlap_nonce`.** `SelectMessage` carries the comment "not concurrency safe" and is started with
  `go` for every head. The second call reads the address row, the first saves its selection, and the
  second, free to take the token by now, gives out the same nonces.
- **`head_gap`.** `lookAncestors` returns the head first. `ProcessNewHead` cuts off the oldest tipset,
  `storeTipset` the head; the parent of the oldest one left has its messages marked and is not stored.
  A reorg that reverts it reverts nothing of it.
- **`replace_settle`.** `updateMessageState` finds the row in Fill, `ReplaceMessage` stores another signature,
  and the update by the old unsigned cid matches no row. The row stays in Fill though its nonce is used
  and the tipset counts as processed. `SettledStays` and `OnChainIsExecuted` hold all the same: the row is
  never wrong in the other direction.
- **`publish_error`.** `recordPushMessageError` looks for `msg.Cid()`, the cid of the signed message unless the
  signature is BLS, among the unsigned cids, so that errors of other messages are not recorded. The
  test of it stores the signed cid as the unsigned one.

The models show further behaviour, which the properties of the passing runs therefore leave room for:

- `startSelectMessage` tests `w.ctx` to "avoid w.controlChan closed", but `tryUpdateWorks` of an overlapping
  call, which holds an older list of addresses, may take the token and close the work between the test and the
  send, which then panics (`Panics`); so do the goroutine of a busy work that was kept for an address which is no
  longer active, and the listing of a filled message that was never signed (`NilSignature`). `sel_overlap` lets these
  panics end the process, and its properties withstand them;
- `SyncNonce` saves the whole row read before, so that a `ForbiddenAddress` in between is undone;
- `SaveSelected` saves whole message rows, so that a `MarkBadMessage` between listing and saving is undone
  and the message is signed and published; `sel_live` has both;
- on a first start with several tipsets in one head change the notification is in ascending order,
  and `storeTipset` stores the head instead of the oldest tipset;
- a query that fails during a refresh is taken for a message of someone else, or for no active address at all: the
  tipset counts as processed, and its message stays in Fill, or a reverted one on chain, until an operator or
  a start without a usable cache (`RefreshMisses`). `SettledAgrees` and `FileIsApplied` except exactly these messages;
- `UpdateAllFilledMessage` looks for the messages themselves, or for replacements that differ in gas: after a lost or
  outdated cache file a message whose nonce another one took meanwhile stays in Fill (`LostNonces`);
- a reverted tipset at a height where the new branch has a null round stays in the cache, and counts as
  processed when the chain comes back to it;
- `UpdateMessageStateByID` on a signed message may give it a second nonce, and on an unsigned one may
  leave a filled row that makes every later selection of its address panic;
- `ReplaceMessage` of a message that is selected meanwhile signs nonce and gas limit 0 and stores the
  signature beside the nonce of the selection (`mixed`);
- the second of two replacements that read the same row may store a premium the pool refuses;
- `WaitMessage` blocks for ever when it takes a tick while the token is still in its one-place channel, which it
  alone reads (`TakeTick`): then neither its context nor the state of the message ends it, so that no property
  says that a wait ends;
- a caller of `ClearUnFillMessage` that gives up leaves a result that holds the goroutine of a head, until
  another caller takes it for its own;
- MySQL's `fromNode` drops the time of creation, so that a known node which is saved again gets the zero time,
  or with strict dates an error, where sqlite keeps it; a method number is stored if its wrapped value fits the
  column and refused if not; and an offset without a limit is an error in MySQL only;
- two messages of one content get one cid if they get one nonce, as after a reset of the address's nonce: a lookup
  by cid then finds either;
- `ListMessageByFromState` and `ListMessageByAddress` make no check by signer, and `ListBlockedMessage` makes none
  without an address, as its own comment says: `OwnMessagesOnly` is about the other lists;
- with manual parameters `ReplaceMessage` compares the fee cap and the premium of the stored message, not
  the ones it is about to set;
- the largest nonce of the table is compared with `>`, so that after a reset of the address nonce a
  message that holds exactly the chain's nonce is not counted;
- `updateFilledMessage` stores what `StateSearchMsg` found although the refresh may have reverted that
  tipset since;
- batches of one sender may overtake each other between workers, the newest messages are selected
  first, and a lookup of nonce 0 may return a message that was never signed;
- a node that hangs stops the publisher after as many batches as queues and workers take.

## 7. Not modelled

Quick send, CLI, configuration, metrics, file store, wiring and the maintenance tools hold no state
that the properties are about: they decode, format and call. The API's calls that only delegate
(network, version, log level) are left out. Joining and publishing on the gossip topic is libp2p's
work. Test helpers and mocks are no part of the program. Goroutines of
`fastSelectAvaGatewayClient` whose answer comes too late change no state; with three or more gateways
that have the key some of them wait for ever on the one-place channel. Ratios of gas are whole
numbers in `ReplaceMessage`. `SkipProcessHead` and `SkipPushMessage` are configurations in which nothing of
interest runs.

Simplifications inside the modules, and why they are safe for what is stated:

- Addresses print with the prefix f (`MigrationKeepsNonce`): this is set by a dependency, not by `main.go`.
- A signature is the content signed: selection signs the bytes the protocol asks for, `ToSignedMsg` those of the unsigned
  cid, and no property compares the two. `updateFilledMessage`, a second writer of a settled row, is in `HeadRefresh` only.
- A thread of `Publisher` holds at most `Cap` batches, the one it is pushing included; the code's holds one more,
  so that the model is stuck one batch earlier. `Concurrency = 0` in the configuration, with which nothing is published,
  is not modelled.
- Rows of one `created_at` are ordered by their ids; the databases leave them open.
- The time of creation of actor configurations, the lengths of text and blob columns, and what the
  sqlite driver makes of a number beyond 64 bits are left out. `CreateNode` of the repositories is called by no part
  of the program.

## 8. State of the development

The modules of section 2, their runs and the theorems of section 4 are complete: every invariant and every
action property that a passing run checks, except `CacheOnOneBranch`, is stated by a theorem, for all behaviours or
under the assumptions of section 4. Worth adding: a characterisation of the reorgs that are followed exactly, and `SettledAgrees` for
them; rows of one time of creation; and overlapping writes in `MessageApi`, which makes its calls one after the other.
