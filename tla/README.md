# A TLA+ model of era-test-node

era-test-node is an in-memory zkSync node for local testing. It executes
transactions in a VM, produces blocks, can fork a remote chain, and offers
control methods (time travel, mining, snapshots, resets) that a real chain does
not have. Nearly everything that can go wrong in it is a *sequence* of such
requests: each handler is simple, but the same facts are kept in several places
and every handler updates some of them. This project models that state, the
requests that change it, and checks and proves that the copies keep agreeing.

Paths below are relative to the repository root; the crate is `src/`.

## The system

| Component | State | Operations | Correct when |
|---|---|---|---|
| `InMemoryNodeInner` (`src/node/in_memory.rs`) | the counters `current_batch`, `current_miniblock`, `current_timestamp`, `current_miniblock_hash`; the maps `tx_results`, `blocks`, `block_hashes`; `filters`; `previous_states`; `fork_storage` | `run_l2_tx`, `run_l2_call`, `archive_state`, `snapshot`, `restore_snapshot`, `new` | counters, maps and storage describe one chain; the commit loop's checks hold |
| `mine_empty_blocks` (`src/utils.rs`) | none of its own | one loop, under the write lock | it leaves the node as a transaction would |
| Control methods (`src/node/in_memory_ext.rs` behind `evm.rs`, `hardhat.rs`, `anvil.rs`) | the list of snapshots | time, mine, snapshot, revert, reset, set balance / nonce / code / storage, impersonation | no sequence of them breaks the above |
| Filters (`src/filters.rs`) | installed filters with their queues, the id counter | add, remove, poll, notify | queues hold what happened, in order; criteria mean what they document |
| eth, zks and debug namespaces (`src/node/eth.rs`, `zks.rs`, `debug.rs`) | none of their own | queries | the methods agree with each other and with the chain |
| `ForkStorage` (`src/fork.rs`), `InMemoryStorage`, `StorageView` (`src/deps/`) | local words and bytecodes, the read caches, the fork point, what a VM run has read and written | read through, write, commit | a read returns the last write |
| Gas estimation (`src/node/in_memory.rs`) | the two bounds of a search | a binary search over VM runs | the estimate suffices, and is tight |
| Fork points, fee model, configuration, start-up, logging, system contracts (`fork.rs`, `fee_model.rs`, `config/`, `main.rs`, `observability.rs`, `system_contracts.rs`) | settings and where they come from | start, replay, `config_` methods, reset | options win, a reset keeps what it should |
| Remote cache, its client and the selector resolver (`src/cache.rs`, `http_fork_source.rs`, `resolver.rs`) | answers of remote services, in memory and in a directory that outlives the process | get, insert, load, reset | what it returns is what the remote once said |
| Locks | two locks on the node, one on its storage | acquire, release | nobody waits for ever; nothing is used after it went stale |

**Interaction.** All handlers share one `Arc<RwLock<InMemoryNodeInner>>`, a
second lock guards the snapshots and a third, inside `ForkStorage`, the storage.
`src/main.rs` runs the server with one thread and handlers do not await between
their steps, so requests run one after the other. The VM is a library: given a
batch environment (from `create_l1_batch_env`) and a `StorageView`, it returns
modified keys and events, among the keys the *system context* words that record
the last batch and block. `create_l1_batch_env` reads those words back for the
next batch. That feedback is the heart of the model: the tip of the chain is
known to the counters, to the words in storage and to the block maps.
`run_l2_tx` checks that they agree and panics if not, and a panic under the
write lock poisons it: the node then refuses every request. The words in storage
are storage like any other, so `hardhat_setStorageAt` reaches them too. A read that finds no
local word goes through `ForkStorage` to the remote chain, and queries about
blocks below the fork point go there through the remote cache.

**What is hard.** Long sequences of legal requests (mine, move the clock,
revert, reset to a fork, send) that leave the copies apart; states restored only
in part; limits and intervals off by one; stale hashes used as keys; absent and
zero words taken for each other; a process that is stopped while it writes its
cache; settings that should survive a reset, and ones that should not; locks
taken in different orders, and released between execution and commit. These are
listed line by line as hazards in `PROJECT.json`.

## Modules

| Module | Models | Uses |
|---|---|---|
| `EthFilters` | the filter registry and `LogFilter::matches`, as operators on a record | |
| `InMemoryNode` | the chain: one action per request that changes it | `EthFilters` |
| `NodeQueries` | what the eth, zks and debug queries answer, as operators over that state | `InMemoryNode` |
| `Ledger` | abstract: an append-only chain with savepoints | |
| `ForkStorage` | storage, its caches, VM runs on a view, the methods that write words | |
| `KeyValueStore` | abstract: a store with a base, savepoints and renewal | |
| `RemoteCache` | the cache, its client, the resolver, over restarts | |
| `TestNode` | start-up, settings, fees, fork points, replay, impersonation, logging | |
| `NodeLocks` | the three locks, requests as programs over them | |
| `GasEstimate` | `estimate_gas_impl`: trial run, binary search, scaling, last run | |
| `MCInMemoryNode`, `MCForkStorage`, `MCRemoteCache`, `MCTestNode`, `MCGasEstimate` | values of the constants for TLC | |
| `InMemoryNodeProofs`, `HistoryProofs` | theorems about `InMemoryNode`, the second resting on the first | `InMemoryNode` |
| `QueryProofs` | theorems about the answers | `NodeQueries`, `HistoryProofs` |
| `ForkStorageProofs`, `RemoteCacheProofs`, `TestNodeProofs`, `NodeLocksProofs`, `GasEstimateProofs` | theorems about the module of the same name | |

Three refinements tie them to what they promise: `InMemoryNode` implements
`Ledger` (`IsLedger`), and both `ForkStorage` (`IsKeyValueStore`) and the
accounts of `TestNode` (`IsAccountRegister`) implement `KeyValueStore`.

The definitions under "Faulty variant" comments are plausible bugs. No action
uses them; each one, put in the place of the definition it varies, makes
some property fail, which shows that the property depends on that code.

External parts are modelled from how the code uses them: `HashMap` and
`IndexMap` insertion, `std::sync::RwLock` with its poisoning and its preference
for waiting writers, the multivm's `load_last_l2_block` and what executing a
batch leaves in the system context, the remote chain's answers. The VM itself is
taken not to panic, and the system contracts to be the ones that are shipped:
whoever replaces the system context's bytecode is outside the model.

### InMemoryNode and NodeQueries

The variables carry the names of the struct's fields. `raw_storage` has two
parts: the system context's words `l1` and `l2` (number and timestamp of the
last batch and block) and all other `slots`. A hash is the pair it is computed
from. `mining` and `poisoned` stand for control state: a mining loop in progress
and a poisoned lock.

| Action | Code |
|---|---|
| `TxRejected`, `TxHalted`, `RunL2Tx`, `RunL2TxPanics` | the outcomes of `run_l2_tx`: refused by `validate_tx`; halted by the VM after the pending filters were told; committed; a failed check in the commit loop |
| `MineBlocks`, `MineNext`, `MineNone` | `mine_block`, `mine_blocks` and the iterations of `mine_empty_blocks` |
| `RemoteReadFails` | a failed remote read unwrapped under the write lock (`run_l2_call`, `mine_empty_blocks`) |
| `increase_time`, `set_next_block_timestamp`, `set_time` | the methods of the same names |
| `set_storage_at`, `set_context_word` | `set_storage_at`: on a slot of `Keys`, and on a word of the system context |
| `SetNonceOverflows` | `set_nonce` with 2^128 or more, where `nonces_to_full_nonce` panics under the write lock |
| `TakeSnapshot`, `revert_snapshot`, `reset` | `snapshot`, `revert_snapshot`, `reset_network` with `reset` |
| `new_filter`, `new_block_filter`, `new_pending_transaction_filter`, `uninstall_filter`, `get_filter_changes` | the methods of the same names |
| `ServePoisoned` | any request after a panic |

`CommitTx` is the tail of `run_l2_tx` as one step, in its order: keys, log
filters, receipt, and then for each of the two blocks `archive_state`, counters,
maps and block filters. When a check panics midway the node is poisoned and what
had been written cannot be read any more, so `RunL2TxPanics` leaves the rest as
it was.

A query is an operator whose value is the set of its possible answers: empty for
"not found" or an error, one element otherwise. The remote chain is a constant
with blocks past the fork point, because several queries ask it about them.
The queries change nothing here, so they are not actions: the properties
evaluate all of them in every state. `get_transaction_by_hash` answers for an
own transaction as the code does, with the transaction's own hash in
`block_hash` (`eth.rs:516`). It leaves by `?` for one whose input data or chain
id cannot be had (`eth.rs:511`): those are the transactions of `Unanswerable`.

### ForkStorage

| Action | Code |
|---|---|
| `QueryWords`, `QueryCode`, `QueryBytecode` | `eth_getBalance`, `eth_getTransactionCount`, `zks_getAllAccountBalances`, `eth_getCode`, `zks_getBytecodeByHash`: what they leave in the caches; the answers are the operators of those names |
| `call`, `trace_call`, `run_l2_tx` | a view is opened; only the last may commit |
| `ViewRead`, `ViewWrite`, `ViewInitial`, `ViewDeploy`, `ViewNonce` | the VM's steps on its `StorageView` |
| `Commit`, `Discard` | the keys and bytecodes `run_l2_tx` writes; a call, or a halt |
| `set_balance`, `set_rich_account`, `set_nonce`, `set_storage_at`, `set_code`, `override_bytecode` | the methods of these names; `set_storage_at` on ordinary slots, on the code slot (`EditedHashes`) and on the nonce slot (`EditedNonces`), `set_nonce` also with a nonce that does not fit |
| `TakeSnapshot`, `revert_snapshot`, `reset` | as in `InMemoryNode`, for storage |

One account with a code slot and a nonce slot and any ordinary slots stand for
storage. Words are numbers; the full nonce packs two nonces with `NONCE_RADIX`
in place of 2^128.

### RemoteCache

A process is started for a network with a `CacheConfig`, makes requests, forks
another network through `hardhat_reset`, and is stopped at any moment. A file may
be left incomplete by any write. A remote answer has a stage, because the chain
gains blocks while the node runs: a pending transaction gets a block, a block
its batch. An action is a lookup that misses; a hit changes nothing and is what
the `get_` operators say. The resolver opens a cache of its own on the default
directory for each lookup. A selector the database does not know is filed as an
empty name, so that a later lookup answers `Some("")` where the first answered
`None` (`resolver.rs:257`); `get_resolver_selector` is what is filed, and what
the resolver's callers make of the two is left out.

### TestNode

`phase` follows `main`: `Configure` (file, debug mode, options), `Create` or
`CannotFork` (fork point and node), `OverrideBytecodes`, `ApplyTx` (replay, one
transaction at a time), `Serve`. Then `config_set`, `config_set_log_level`,
`config_set_logging`, `impersonate_account`, `stop_impersonating_account`,
`snapshot`, `revert_snapshot`, `reset_network`. A value is modelled by where it
comes from ("default", "file", "debug", "cli", "api" or a remote chain's url),
which is all that precedence and resets are about. `fees` has the four prices and
factors that options set and, as `ChainParameters`, the pubdata price and the
overheads, which only a chain sets. `applied` and `by_api` are history variables.

### NodeLocks

A request is a sequence of operations: `read`, `write` and `drop` of a lock, and
the steps under it that other requests can tell (`Execute`, `Commit`, `Mine`,
`Shift`, `Save`, `Restore`, `Exchange`, ...). `Programs` has one request for
every pattern in which the code takes the locks. `parallel` says whether threads
take turns by request (the server) or by operation (a library user with several
threads: `InMemoryNode` is documented as thread safe and is `Clone`). A handler
may panic, with one thread as well: over a failed remote read (`ReadFails`), or in
the commit loop (`CommitPanics`), for whichever of the reasons `PanicCauses` lists
or because another thread moved the tip. `Panics` then poisons what it holds for
writing.

### GasEstimate

The variables are the local variables of `estimate_gas_impl`; `pc` says which of
its three parts is next. A request carries the set of gas limits at which the VM
fails (`request.fails`), the pubdata it publishes and the overhead added to its
limit. The product with the scale factor is an f32: `Scaled` is the set of
values it may truncate to, the exact product off by one part in `F32_PRECISION`.
Two roundings of an f32 are off by less than one part in 2^22. Searching for
the limit happens under a read lock, so the handler changes nothing and one call
is one behaviour.

## Runs

`tlc -config X.cfg M` with the module M of the run in `PROJECT.json`: the MC
module of the component, `NodeLocks` itself for `locks`.

| Run | Bounds | Shows |
|---|---|---|
| `snapshots` | started locally or on a fork point in the middle of a batch; 2 transactions, up to block 6, mining 0, 1 or 3 blocks at intervals 1 and 3, clock changes that do not go back, 2 nested snapshots, resets to the fork and back | `TypeOK`, `NoPanic`, `TipsAgree`, `TimestampsIncrease`, `BatchStructure`, `BlockMapsAgree`, `ParentLinks`, `TipHashOnChain`, `ReceiptsOnChain`, `SnapshotsArePrefixes`, `IsLedger` |
| `queries` | as above up to block 5, with transactions that write and emit three logs, one of them `Unanswerable`, one filter of any kind, one snapshot, an archive limit of 1, and every range and kind of topics asked of `eth_getLogs` | `BlockAnswersAgree`, `TransactionAnswersAgree`, `LogAnswersExact`, `AnswersStable`, `QueuesOnChain`, `TxBlocksTold`, `ArchiveBounded`, `ArchiveKeepsNewest`, `ArchiveStable` |
| `rewind` | up to block 4, mining 1 or 2 blocks, with a clock that may go back, a remote that may fail, nonces past 2^128 and a client that writes a block past the tip, with a later time, over a word of the system context | `PanicCauses`, `MiningResyncs` |
| `storage` | one ordinary slot, one bytecode that is set or deployed and one that the remote serves, nonces up to 1 and one that does not fit, VM runs over two keys, one snapshot, one fork point, and a client that writes a hash without bytecode into the code slot and a lower nonce into the nonce slot | `CachesMatchFork`, `CodeAvailable`, `OnlyForward`, `IsKeyValueStore` |
| `cache` | two networks of up to two blocks and the signature database, all types of cache, two answers filed and one file incomplete at a time | `HitsOnceTrue`, `IndexExact`, `ServedNetworks` |
| `settings` | six command lines and two files, two remote chains, one rich and one other account, two snapshots, one setting changed by a request | `OptionsWin`, `ReplayInPlace`, `KeptOverResets`, `IsAccountRegister` |
| `locks` | two threads, two blocks, one snapshot | `StuckCauses`, `EveryRequestEnds`, `CommitsWhereExecuted` |
| `gas` | maximal limit 11, tolerance 1, factor 1.3; every set of failing limits up to 10 and every threshold up to 22 | `SearchBracket`, `TightEstimate`, `NoFalseRejection`, `Answered` |

**Why the bounds are enough.** A transaction adds two blocks and a mined block
one, so six blocks hold every mix of the two; two transactions make four archive
calls, enough to evict with a limit of one; two snapshots allow a revert past
one of them. In `rewind` the clock is behind or ahead after one request, and four
blocks leave room for a transaction or mining before and after it; the written
word is in the future of a new node and in the past of one that has mined. In
`storage` the same key can be local, remote, cached, zero and
absent, which are all the cases `read_value` tells apart; two keys per run let a
view hold one word it has read and one it has written. In
`cache` two answers are what a mix-up needs: two networks under one number, two kinds of block under
one hash, a block and its index. In `settings` the command lines cover each
subcommand, options with and without debug mode, a fork that fails and a replay
that fails. In `locks` a deadlock of the kinds found needs two threads; a cycle
of three would need three locks taken in a cycle, but the storage lock is always
taken last and nothing is acquired under it. `MaxMiniblock`, `MaxTimestamp`, `MaxPending`,
`MaxNonce`, `MaxViewKeys`, `MaxHead`, `MaxTorn`, `MaxEntries`, `MaxChanged`,
`MaxBlocks` and `MaxClock` are bounds of the model, not of the code. Symmetry is
used for transactions (not in `queries`, where one is unanswerable) and for
networks, which nothing tells apart, and only in runs without liveness
properties.

**Deadlock** is checked where the node can always serve a request. It is
switched off in `gas` (the call ends), `settings` (the process exits when it
cannot fork) and `locks` (threads do wait for each other; `StuckCauses` says
exactly when).

**Fairness.** `Answered`: a call of `estimate_gas_impl` ends, under weak fairness
of the handler's own steps: nothing else runs on its thread and it waits for
nothing. `EveryRequestEnds`: on the server every request ends, under weak
fairness of each thread, which the operating system schedules; no fairness of
the locks is assumed. For the other modules no liveness is stated: requests come
from clients whenever they like, each is one step, and the one loop, mining, is
bounded by its argument.

### Where the code and its own words part

Each of these runs checks a statement of a comment, a document or a test, and TLC
finds a behaviour of the code that contradicts it. `PROJECT.json` quotes them.

| Run | Behaviour |
|---|---|
| `v_zero_interval` | `hardhat_mine` of two blocks with interval 0 leaves the clock behind storage, and the next transaction panics |
| `v_fork_zero` | a zero written over a remote non-zero word reads as the remote word |
| `v_history` | the state archived for the block before a transaction contains the transaction's writes, so `eth_getStorageAt` for that block changes its answer (and where the archived word is zero, `get_storage` answers from the present state) |
| `v_cache_none` | with `--cache=none` the selector resolver still writes to the default cache directory |

Others are stated, as exceptions, inside properties that hold:

* `PanicCauses`: a clock moved into the past by `evm_setTime` makes the next
  transaction panic, unless a block is mined first (the method warns of "an
  invalid state"). So does a block or batch number that `hardhat_setStorageAt`
  wrote over the system context's, while a failed remote read and a
  `hardhat_setNonce` of 2^128 or more panic at once. What else is claimed of the
  chain, that its numbers go on without gaps above all, is claimed for clients
  that leave those words alone: the runs other than `rewind` set `ContextWords`
  to the empty set, and the theorems assume `ContextKept`.
* `TipHashOnChain`: `current_miniblock_hash`, "The latest miniblock hash", is
  stale after mining.
* `ParentLinks`: a block mined directly on a fork point does not name the remote
  block as its parent.
* `ArchiveBounded`: the archive, "Limited to [MAX_PREVIOUS_STATES]", holds one
  state more.
* `TxBlocksTold`: block filters are told of a transaction's blocks, but not of
  mined ones.
* `LogAnswersExact`: criteria on a topic position also match logs that lack that
  position. Exactness is claimed for the logs that have it (`FullLog`); what the
  code does with the others is not checked.
* `BlockAnswersAgree`, `TransactionAnswersAgree`: agreement is claimed up to the
  tip. Past it the remote chain answers, and transactions past the fork point are
  found by hash. `eth_getTransactionByHash` names an own transaction's block by
  number only: the block hash it gives is the transaction's own hash. And it does
  not find a transaction that it cannot rebuild, which all other methods do.
* `CodeAvailable`, `OnlyForward`: `hardhat_setStorageAt` on the code slot may leave
  a hash without bytecode, and on the nonce slot takes either nonce anywhere.
* `ServedNetworks`: the cache directory does not record which network it belongs
  to. A node that forks another network with the same directory is given the
  first one's answers for what is filed by number.
* `KeptOverResets`: a reset keeps the gas prices and scale factors, but takes the
  pubdata price and the overheads from the chain it forks, although the comment at
  `src/node/in_memory.rs:834` calls the fee provider "immutable during the test
  node life cycle". The cache configuration is kept from fork to fork, but a node
  started with `run` and reset onto a fork caches on disk whatever `--cache` said.
* `IsAccountRegister` (`AsAsked`): any number of accounts is impersonated, and
  `hardhat_stopImpersonatingAccount` ends it for the address it is given, as the
  comments in `src/namespaces/hardhat.rs` say. `SUPPORTED_APIS.md:1630` says that
  one account is impersonated at a time and is cleared whatever the address is.
  (`CanAct`): impersonation is accepted, but with local
  system contracts the bootloader still wants a signature.
* `StuckCauses`: with several threads `reset_network` and `snapshot` or
  `revert_snapshot` can wait for each other, and so can a transaction that shows
  gas details and any writer; `CommitsWhereExecuted`: a transaction executed
  before a revert can be committed after it. Neither says that nothing panics: a
  lock is poisoned with one thread as with several, and what holds then is that
  no request moves the chain any more.

And some are visible in the definitions, without a property of their own:
`config_setLogLevel` joins one name with `"=level,"` and so drops the level
(`set_log_level`); `--cache-dir` and `--reset-cache` count only along with
`--cache`, and `--cache=disk` without a directory panics; a configuration file
that lacks one required setting is ignored as a whole, also one that says
`BuiltInNoVerify` as the example file's comment suggests; after a replay the
chain id is the test node's own (260) again once the node is reset.

## Proofs

`tlapm M.tla` checks the theorems of a module, for every value of the constants
that satisfies the named assumptions: any number of transactions, blocks,
snapshots, keys, networks or threads, where a run has two or three. The bounds of
the model (`MaxMiniblock` and the like) are constants too, so a bound is never
the reason why a theorem holds. Every inductive invariant below was first checked
with TLC on the run of its component.

### The node: InMemoryNodeProofs, HistoryProofs

Assumed of the constants: values are natural numbers with 0 among them, fork
points have a batch opened no later than their block, limits are natural numbers,
what a transaction emits is a list.

* `TypeCorrect`: `TypeOK`. It covers every snapshot as well, as all the
  invariants below do: a revert brings a snapshot's fields back, so what is only
  said of the node is not inductive.
* `ArchiveIsBounded`: `ArchiveBounded`, by `ArchiveInv`.
All but `TypeCorrect`, `ArchiveIsBounded`, `MiningBringsUpToDate` and
`PanicsHaveCauses` assume `ContextKept`: no client writes over the system
context's words. With such a word the environment of the next batch has a number
of the client's choice, and a block number may be used twice.

* `TipsAlwaysAgree` and `NodeNeverPanics`: under `WellBehaved` (the clock is not
  moved back, mining intervals are positive, the remote chain answers, no nonce
  overflows and `ContextKept`) `TipsAgree`
  and `NoPanic`, together as `SafeInv`, which adds that the interval of a mining
  loop in progress is one of `Intervals`. If storage and counters name the same
  tip and the clock is not behind it, `create_l1_batch_env` yields exactly the
  block the commit loop expects (`EnvFollowsTips`, `TipsConsistent`); a commit and
  a mined block re-establish the agreement (`TipsCommit`, `TipsMine`); clock
  changes go forward (`TipsFrame`); a revert takes it from the snapshot and a
  reset from the new node (`TipsBecome`, `NewOK`). Without `WellBehaved` it is
  false, as `v_zero_interval` shows for the interval.
* `MapsDescribeOneChain`, `ParentsAreLinked`, `BatchesAreStructured`,
  `TipHashNamesBlock`, `ReceiptsNameBlocks`: `BlockMapsAgree`, `ParentLinks`,
  `BatchStructure`, `TipHashOnChain`, `ReceiptsOnChain`, whatever the clock does.
  The inductive invariant is `ChainInv`: `ChainOK` of the node and of every
  snapshot. None of its parts is inductive alone: that a new block overwrites no
  entry of the maps needs `NumbersAgree` (the numbers in storage and in the
  counters agree, also where the times do not), and links, batches and receipts
  need the maps. All changes of the chain are one shape, a block put on top
  (`Puts`): a commit puts two (`CommitPuts`), a mined block is one (`MinePuts`),
  and the lemmas `PutBlock`, `PutLinks`, `PutEmpty`, `PutReceipt` say what that
  keeps.
* `TimestampsAlwaysIncrease`: under `ClockForward` (no rewinding, no interval 0)
  `TimestampsIncrease`, by `TimeInv`: the clock is never behind the newest block.
* `MiningBringsUpToDate`: the action property `MiningResyncs`, if no interval is
  0, by `LoopInv`: the blocks a loop has mined so far have left counters and
  storage in agreement, whatever they were before it.
* `PanicsHaveCauses`: `PanicCauses`, without any assumption on clients. The
  invariant `WordsInv` says of the node and of every snapshot that each of the
  two words has the counter's number or is one that a client wrote, so that a
  check of the commit loop fails on the time or over such a word.
* `SnapshotsLieInHistory`, `NewestStaysArchived`, `ArchivedStatesAreFinal`,
  `FiltersAreTold`: `SnapshotsArePrefixes`, `ArchiveKeepsNewest` and the action
  properties `ArchiveStable` and `TxBlocksTold`. The inductive invariant is
  `HistoryInv`: the archive is ordered, below the tip and without gaps, and the
  node and its snapshots are states of one history. The latter is said of every
  two snapshots and not only of neighbours, because a revert puts one far down
  the list in the node's place, which cuts the others off.
* `QueuesStayOnChain`: `QueuesOnChain`, by `QueueInv`, which says of the node and
  of every snapshot what their filters hold. All requests but a commit only poll,
  add or remove filters or queue pending transactions (`QueueKinds`); a commit
  puts its two blocks behind those held, which `ChainInv` numbers lower
  (`QueueTwo`), and the logs that match (`QueueLogs`). That selecting logs from a
  list yields logs of it that match (`MatchingLogsMatch`) is an induction over the
  list's length: the library's induction theorems take a predicate and cannot be
  used, but its theorem on least elements (`WFMin`) takes a set, which gives
  induction as the absence of a least counterexample (`AllNumbers`).
* `NodeIsLedger`: `IsLedger`, the refinement. Every action is a step of `Ledger`
  or stutters (`LedgerStep`): transactions and mined blocks extend what is shown,
  a snapshot is a savepoint, a revert goes back to one, a reset renews it.

### Queries: QueryProofs

Assumed, besides what is assumed of the node: the remote chain is a list of
blocks without gaps which holds a transaction once, and a fork point's block is
the block of that number (`RemoteChainAssumption`); criteria name their blocks by
a tag or a number, and the topics of a log are a list (`QueryAssumption`).

`ChainInv` says where blocks and receipts are, but not what they hold.
`ContentInv` does, again of the node and of every snapshot: a block the node
produced holds one transaction of a client or none, the block of the fork point
is the remote one, and the logs of a receipt are those its transaction emits, at
the receipt's place. With it every block number falls into one of three cases
(`AnswersOf`): the node has the block, the remote chain has it, or nobody has it
and it is above the tip.

* `BlockAnswersAlwaysAgree`: `BlockAnswersAgree`. In the first two cases all
  methods give the answers of one block (`LocalAnswers`, `RemoteAnswers`). A
  remote block is never mistaken for a local one of another number, because its
  hash is not among the local ones (`LocalBlocks`), and it is found by its hash
  (`RemoteBlocks`). That raw transactions and traces are complete needs
  `ReceiptsOK` (`OwnAnswers`).
* `TransactionAnswersAlwaysAgree`: `TransactionAnswersAgree`. A receipt names a
  block the node produced, and not the fork point's: that one holds remote
  transactions only (`TxHasBlock`). A transaction of the forked chain has one
  place there and its block is shown (`ForkedTxHasBlock`).
* `LogQueriesAreExact`: `LogAnswersExact`. `MatchesDocumented` compares the
  matching of criteria with what they document; it needs that no log lies above
  the tip. What `QueueInv` says of the logs in a queue still holds when the tip
  has moved on, unless the criteria start at the newest block (`MatchesLater`).
* `AnswersStayTheSame`: the action property `AnswersStable`. Any step but a revert
  or a reset only puts blocks on top and adds receipts (`StepKeeps`), and the
  answers depend on nothing else (`AnswersKnown`).

### Storage: ForkStorageProofs

Assumed: nonces are below the radix they are packed with, the code slot and the
nonce slot are two and no ordinary slots, and a chain that serves the account's
code hash serves its bytecode. The inductive invariant is `StorageInv`, of the
storage, of every snapshot and of an open view.

* `CachesAlwaysMatch`: `CachesMatchFork`: a cache only holds what the fork point
  answers. A reset and a revert exchange storage and fork point together.
* `CodeAlwaysAvailable`: `CodeAvailable`: whatever order runs, methods and reverts
  come in, the code slot's hash leads to a bytecode, unless a client wrote it
  there (`EditedHashes`). A run needs to be followed
  from its view's first write, which is what `RunOK` does.
* `NodesMoveForward`: the action property `OnlyForward`: only a client that edits
  the nonce slot (`EditedNonces`), a revert and a reset take a nonce back, although
  the two share a word (`NonceRoundTrip`: packing and unpacking lose nothing).
* `StorageIsKeyValueStore`: `IsKeyValueStore`, the refinement: what a reader is
  given, the caches aside, changes as `KeyValueStore` says.

### Remote cache: RemoteCacheProofs

Assumed: the cache types are those the code lists and networks are told from the
signature database. `CacheInv` says of each entry, in memory and in files that are
whole, that the remote once gave it and under what it is filed.

* `HitsAreOnceTrue`: `HitsOnceTrue`, over restarts, incomplete files and files of
  other processes.
* `IndexIsExact`: `IndexExact`: the index by number that a start rebuilds from the
  files leads to a block of that number.
* `NetworksAreServed`: `ServedNetworks`: an answer comes from the network of this
  process or, with a directory, from one that wrote to it.

### Settings: TestNodeProofs

Assumed: options are settings the program has, a remote block is a sequence of
transactions, and the genesis block of a remote chain is empty (otherwise
`replay_tx` would fork block -1). `NodeInv` follows `main` from phase to phase.

* `OptionsAlwaysWin`: `OptionsWin`. `SettingsInv` has the settings, `PriceInv` the
  gas prices, which pass from `gas` into the fee model when the node is made.
* `ReplaysInPlace`: `ReplayInPlace`, by `ReplayInv`: what was applied and what is
  still to be applied make up the block down to the transaction.
* `SettingsAreKept`: the action property `KeptOverResets`: prices and factors stay,
  because `get_gas_values` hands them on, and the other parameters are those of the
  fork a start or a reset has made, which a revert does not change.
* `AccountsAreRegistered`: `IsAccountRegister`, the refinement of `KeyValueStore`
  by impersonated and rich accounts, together with which request changes which
  mark (`MarksAsAsked`). `KeyValueStore` alone would allow any mark to change.

### Locks: NodeLocksProofs

Assumed: `None` is no thread, no request and no record. For every program a table
(`Reads`, `Writes`) says which guards a request holds before each operation, and
eight lemmas (`QueryFits` ... `SendFits`) that the program does to them what the
table says. `LocksInv`: each thread holds what its place in its program says, a
writer is alone, and what was executed is still the beginning of the chain unless
the chain was exchanged since.

* `OnlyTwoWaysToStick`: `StuckCauses`, for any number of threads. Who holds the
  storage waits for nothing, so nobody waits for it (`StuckOffStorage`); who
  holds the snapshots and waits is a reset (`StuckOnSnapshots`); so somebody
  holds the node's lock and waits, and the table leaves two cases.
* `CommitsAreCurrent`: `CommitsWhereExecuted`: only who has the node's lock to
  itself changes the chain (`ChainUnderLock`), and equal length then means the
  same chain. Nobody is given a poisoned lock, and who panicked let go of it
  (`PoisonInv`, `PanicKeeps`), so nothing changes the chain after that.

### Gas: GasEstimateProofs

For every limit, tolerance, factor and VM. The inductive invariant `SearchInv` is
`SearchBracket` with the types, the bounds before the search and the shape of an
answer (`AnswerInv`).

* `BoundsBracket`: `SearchBracket`, monotone or not.
* `EstimateIsTight`: for a monotone transaction everything under the lower bound
  fails, because the limit just under it was seen to fail; the search ends when
  the bounds are within the tolerance.
* `NobodyFalselyRejected`: the upper bound succeeds, scaling by a factor that
  outweighs the roundings does not go below it (`ScaledAbove`, `DivAbove`), so
  the last run succeeds.

### Only model-checked

* `Answered` and `EveryRequestEnds` are liveness properties under fairness, which
  is out of the prover's reach.

Every other property of a passing run is stated by a theorem. The four runs that
expect a violation state what the code does not keep, so there is nothing to prove.

## Not modelled

* The VM. Which transactions halt, what they write and which events they emit is
  free, except that a transaction on the chain is not executed again (its nonce).
* The arithmetic of the fee model and of pubdata, which is in the zksync
  libraries; `TestNode` has where each price comes from.
* Token prices and the L1 constants of the zks namespace, `net`, `web3` and the
  constant answers of `eth`: fixed values.
* Diagnostics (`formatter.rs`, `console_log.rs`, the call and error tracers'
  output), the logging middleware: what is printed; no state that others read.
* `testing.rs` (mock servers and builders of the unit tests), the namespace
  declarations (traits without code of their own), the compiled contracts.
* The collision of hashes, and numbers near their 64-bit limits, where the code
  saturates (the 128-bit limit of `set_nonce` is modelled).
* A replaced system contract: `set_code` and `set_storage_at` can change what the
  system context or the nonce holder does, and then the VM's part is no longer the
  one modelled.

## State of the project

The model is complete as far as this code has state worth checking, and every
safety property, action property and refinement is proved. After a change of the
code: change the action that models it, run TLC on the run of its component, and
check the proofs of the modules above that build on it, lowest first. What is
left out (see above) would add constants and arithmetic rather than state.
