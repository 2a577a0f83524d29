---------------------------- MODULE InMemoryNode ----------------------------
(***************************************************************************)
(* The in-memory node: block production, the clock, storage, historical    *)
(* states, filters and snapshots (node/in_memory.rs, node/in_memory_ext.rs,*)
(* node/eth.rs and utils.rs under src/src).                                *)
(*                                                                         *)
(* One action is one request handler: the shipped server runs its handlers *)
(* on one thread, so they do not interleave.  The exception is the loop of *)
(* mine_empty_blocks, whose iterations are steps of their own (MineBlocks, *)
(* then MineNext) taken while the write lock is held, so nothing else is   *)
(* enabled between them.                                                   *)
(*                                                                         *)
(* Three copies of the chain tip exist: the counters current_batch,        *)
(* current_miniblock and current_timestamp; the words the system contracts *)
(* keep in storage; and the block maps.  run_l2_tx panics when they        *)
(* disagree, and the panic poisons the lock every handler needs.           *)
(***************************************************************************)
EXTENDS Integers, Sequences, EthFilters

CONSTANTS
    Txs,                  \* transaction hashes
    NoTx,                 \* H256::zero() in the place of a transaction hash
    RemoteTx,             \* stands for whatever makes up a remote block's hash
    RemoteTxs,            \* transactions of the remote chain
    Keys,                 \* storage slots other than the system context's words
    Values,               \* slot values; 0 is H256::zero()
    Writes,               \* what a transaction may write: functions from slots
    TxLogs,               \* the events each transaction emits
    LogCriteria,          \* criteria clients give to eth_newFilter
    GenesisSlots,         \* slots of a new node, rich accounts included
    ContextWords,         \* what clients write over the system context's words;
                          \* {} if nobody does
    HugeNonces,           \* does anybody set a nonce of 2^128 or more?
    NoFork,               \* the node does not fork a remote chain
    Forks,                \* fork points that exist on the remote chain
    InitialForks,         \* what the node is started with
    MAX_PREVIOUS_STATES,
    MAX_SNAPSHOTS,
    NumBlocks,            \* num_blocks arguments of hardhat_mine
    Intervals,            \* interval arguments of hardhat_mine
    TimeDeltas,           \* arguments of evm_increaseTime
    Times,                \* arguments of evm_setTime, evm_setNextBlockTimestamp
    AllowRewind,          \* may evm_setTime move the clock back?
    RemoteFails,          \* may the remote chain fail to answer a read?
    MaxMiniblock,         \* bound of the model: the highest block produced
    MaxTimestamp,         \* bound of the model: where increase_time stops
    MaxPending            \* bound of the model: when a halting transaction is
                          \* no longer sent, so that queues stay finite

(* What the remote chain serves for a fork point agrees with itself: the   *)
(* batch was opened no later than the block.                               *)
ForkPoint == [number : Nat, batch : Nat, timestamp : Nat, l1_timestamp : Nat,
              slots : [Keys -> Values], transactions : Seq(RemoteTxs)]

ASSUME TxAssumption ==
    /\ NoTx \notin Txs /\ RemoteTx \notin Txs /\ NoTx # RemoteTx
    /\ RemoteTxs \cap (Txs \cup {NoTx, RemoteTx}) = {}
ASSUME SlotAssumption ==
    /\ Values \subseteq Nat /\ 0 \in Values
    /\ GenesisSlots \in [Keys -> Values]
    /\ \A w \in Writes : DOMAIN w \subseteq Keys /\ \A k \in DOMAIN w : w[k] \in Values
ASSUME ContextAssumption ==
    /\ ContextWords \subseteq [number : Nat, timestamp : Nat]
    /\ HugeNonces \in BOOLEAN
ASSUME EventAssumption ==        \* what a transaction emits is a list
    \A t \in Txs : TxLogs[t] \in Seq({TxLogs[t][i] : i \in DOMAIN TxLogs[t]})
ASSUME ForkAssumption ==
    /\ NoFork \notin Forks
    /\ InitialForks \subseteq Forks \cup {NoFork}
    /\ \A f \in Forks : f \in ForkPoint /\ f.l1_timestamp <= f.timestamp
ASSUME LimitAssumption ==
    /\ MAX_PREVIOUS_STATES \in Nat /\ MAX_SNAPSHOTS \in Nat
    /\ MaxMiniblock \in Nat /\ MaxTimestamp \in Nat /\ MaxPending \in Nat
ASSUME ArgumentAssumption ==
    /\ NumBlocks \subseteq Nat /\ Intervals \subseteq Nat
    /\ TimeDeltas \subseteq Nat /\ Times \subseteq Nat
    /\ AllowRewind \in BOOLEAN /\ RemoteFails \in BOOLEAN

VARIABLES
    current_timestamp, current_batch, current_miniblock, current_miniblock_hash,
    tx_results,       \* transaction -> receipt
    blocks,           \* block hash -> block
    block_hashes,     \* block number -> block hash
    filters,          \* the EthFilters registry
    previous_states,  \* the archived states, oldest first (an IndexMap)
    raw_storage,      \* [l1, l2: the system context's words, slots]
    fork,             \* the fork point, or NoFork
    snapshots,        \* InMemoryNode::snapshots
    mining,           \* [left, interval] of a mine_empty_blocks in progress
    poisoned          \* a panic has poisoned the lock on the node

counters == << current_timestamp, current_batch, current_miniblock,
               current_miniblock_hash >>
chain    == << tx_results, blocks, block_hashes >>
vars     == << counters, chain, filters, previous_states, raw_storage, fork,
               snapshots, mining, poisoned >>

-----------------------------------------------------------------------------
(* Hashes and blocks.  A hash is the pair it is computed from: keccak256 is *)
(* taken to have no collisions.                                             *)

NON_FORK_FIRST_BLOCK_TIMESTAMP == 1000

(* Faulty variant: the block number is left out of the digest. *)
HashOfTxOnly(block_number, tx_hash) == << 0, tx_hash >>

compute_hash(block_number, tx_hash) == << block_number, tx_hash >>

(* create_empty_block with an explicit parent, and with None. *)
EmptyBlock(ctx, parent_hash) ==
    [hash |-> compute_hash(ctx.miniblock, NoTx), parent_hash |-> parent_hash,
     number |-> ctx.miniblock, timestamp |-> ctx.timestamp,
     l1_batch_number |-> ctx.batch, transactions |-> << >>]

(* Faulty variant: off by one. *)
SelfParent(block_number) ==
    IF block_number = 0 THEN NoTx ELSE compute_hash(block_number, NoTx)

DefaultParent(block_number) ==
    IF block_number = 0 THEN NoTx ELSE compute_hash(block_number - 1, NoTx)

create_empty_block(ctx) == EmptyBlock(ctx, DefaultParent(ctx.miniblock))

(* The block of the fork point, with the transactions the remote put in it. *)
RemoteBlock(f) ==
    LET hash == compute_hash(f.number, RemoteTx)
    IN  [hash |-> hash, parent_hash |-> RemoteTx,
         number |-> f.number, timestamp |-> f.timestamp,
         l1_batch_number |-> f.batch,
         transactions |->
            [i \in DOMAIN f.transactions |->
                [hash |-> f.transactions[i], block_hash |-> hash,
                 block_number |-> f.number]]]

(* The map m with k bound to v. *)
Insert(m, k, v) == [x \in DOMAIN m \cup {k} |-> IF x = k THEN v ELSE m[x]]

-----------------------------------------------------------------------------
(* The state a snapshot copies, and a new node's. *)

snapshot ==
    [current_timestamp |-> current_timestamp, current_batch |-> current_batch,
     current_miniblock |-> current_miniblock,
     current_miniblock_hash |-> current_miniblock_hash,
     tx_results |-> tx_results, blocks |-> blocks, block_hashes |-> block_hashes,
     filters |-> filters, previous_states |-> previous_states,
     raw_storage |-> raw_storage]

NoInfo == [number |-> 0, timestamp |-> 0]

NewLocal ==
    LET genesis == create_empty_block([batch |-> 0, miniblock |-> 0,
                       timestamp |-> NON_FORK_FIRST_BLOCK_TIMESTAMP])
    IN  [current_timestamp |-> genesis.timestamp, current_batch |-> 0,
         current_miniblock |-> 0, current_miniblock_hash |-> genesis.hash,
         tx_results |-> << >>, blocks |-> Insert(<< >>, genesis.hash, genesis),
         block_hashes |-> Insert(<< >>, 0, genesis.hash),
         filters |-> EmptyRegistry, previous_states |-> << >>,
         raw_storage |-> [l1 |-> NoInfo, l2 |-> NoInfo, slots |-> GenesisSlots]]

(* Faulty variant: the block map starts without the fork block. *)
NewForkedWithoutBlock(f) ==
    [NewLocal EXCEPT !.current_timestamp = f.timestamp, !.current_batch = f.batch,
        !.current_miniblock = f.number, !.blocks = << >>,
        !.block_hashes = Insert(<< >>, f.number, RemoteBlock(f).hash)]

NewForked(f) ==
    LET tip == RemoteBlock(f)
    IN  [current_timestamp |-> f.timestamp, current_batch |-> f.batch,
         current_miniblock |-> f.number, current_miniblock_hash |-> tip.hash,
         tx_results |-> << >>, blocks |-> Insert(<< >>, tip.hash, tip),
         block_hashes |-> Insert(<< >>, f.number, tip.hash),
         filters |-> EmptyRegistry, previous_states |-> << >>,
         raw_storage |-> [l1 |-> NoInfo, l2 |-> NoInfo, slots |-> GenesisSlots]]

new(f) == IF f = NoFork THEN NewLocal ELSE NewForked(f)

(* Replace the node's state by s, as a revert and a reset do. *)
Become(s) ==
    /\ current_timestamp' = s.current_timestamp
    /\ current_batch' = s.current_batch
    /\ current_miniblock' = s.current_miniblock
    /\ current_miniblock_hash' = s.current_miniblock_hash
    /\ tx_results' = s.tx_results
    /\ blocks' = s.blocks
    /\ block_hashes' = s.block_hashes
    /\ filters' = s.filters
    /\ previous_states' = s.previous_states
    /\ raw_storage' = s.raw_storage

(* Faulty variants: one of the fields is not restored. *)
RestoreKeepingResults(s) == Become([s EXCEPT !.tx_results = tx_results])
RestoreKeepingFilters(s) == Become([s EXCEPT !.filters = filters])
RestoreKeepingStorage(s) == Become([s EXCEPT !.raw_storage = raw_storage])
RestoreKeepingTipHash(s) ==
    Become([s EXCEPT !.current_miniblock_hash = current_miniblock_hash])

restore_snapshot(s) == Become(s)

Init ==
    \E f \in InitialForks :
        /\ current_timestamp = new(f).current_timestamp
        /\ current_batch = new(f).current_batch
        /\ current_miniblock = new(f).current_miniblock
        /\ current_miniblock_hash = new(f).current_miniblock_hash
        /\ tx_results = new(f).tx_results
        /\ blocks = new(f).blocks
        /\ block_hashes = new(f).block_hashes
        /\ filters = new(f).filters
        /\ previous_states = new(f).previous_states
        /\ raw_storage = new(f).raw_storage
        /\ fork = f
        /\ snapshots = << >>
        /\ mining = [left |-> 0, interval |-> 0]
        /\ poisoned = FALSE

-----------------------------------------------------------------------------
(* Reading storage: ForkStorage::read_value_internal.  A local zero means  *)
(* "not here": it is looked up at the fork point.                          *)

read_value(slots, f, key) ==
    IF f = NoFork \/ slots[key] # 0 THEN slots[key] ELSE f.slots[key]

ReadL1(rs, f) ==
    IF f = NoFork \/ rs.l1 # NoInfo THEN rs.l1
    ELSE [number |-> f.batch, timestamp |-> f.l1_timestamp]

ReadL2(rs, f) ==
    IF f = NoFork \/ rs.l2 # NoInfo THEN rs.l2
    ELSE [number |-> f.number, timestamp |-> f.timestamp]

(* The last batch and block according to storage, in a node state s; the   *)
(* counters where storage has none yet.                                    *)
load_last_l1_batch(s, f) ==
    LET info == ReadL1(s.raw_storage, f)
    IN  IF info.number # 0 THEN info
        ELSE [number |-> s.current_batch, timestamp |-> s.current_timestamp]

load_last_l2_block(s, f) ==
    LET info == ReadL2(s.raw_storage, f)
    IN  IF info.number # 0 THEN info
        ELSE [number |-> s.current_miniblock, timestamp |-> s.current_timestamp]

MaxOf(a, b) == IF a >= b THEN a ELSE b

(* Faulty variants: the node's own clock is ignored; the clock does not     *)
(* advance; the batch does not.                                             *)
EnvIgnoringClock ==
    LET l1 == load_last_l1_batch(snapshot, fork)
        l2 == load_last_l2_block(snapshot, fork)
    IN  [batch |-> l1.number + 1, miniblock |-> l2.number + 1,
         timestamp |-> MaxOf(l1.timestamp, l2.timestamp) + 1]

EnvSameTime ==
    LET l1 == load_last_l1_batch(snapshot, fork)
        l2 == load_last_l2_block(snapshot, fork)
    IN  [batch |-> l1.number + 1, miniblock |-> l2.number + 1,
         timestamp |-> MaxOf(MaxOf(l1.timestamp, l2.timestamp), current_timestamp)]

EnvSameBatch ==
    LET l1 == load_last_l1_batch(snapshot, fork)
        l2 == load_last_l2_block(snapshot, fork)
    IN  [batch |-> l1.number, miniblock |-> l2.number + 1,
         timestamp |-> MaxOf(MaxOf(l1.timestamp, l2.timestamp), current_timestamp) + 1]

(* The BlockContext of the next batch. *)
create_l1_batch_env ==
    LET l1 == load_last_l1_batch(snapshot, fork)
        l2 == load_last_l2_block(snapshot, fork)
    IN  [batch |-> l1.number + 1, miniblock |-> l2.number + 1,
         timestamp |-> MaxOf(MaxOf(l1.timestamp, l2.timestamp), current_timestamp) + 1]

new_block(ctx) ==
    [batch |-> ctx.batch, miniblock |-> ctx.miniblock + 1, timestamp |-> ctx.timestamp + 1]

(* What executing a batch leaves in the system context: the batch, and the *)
(* last of its blocks.                                                     *)
SystemContext(ctx, last) ==
    [l1 |-> [number |-> ctx.batch, timestamp |-> ctx.timestamp],
     l2 |-> [number |-> last.miniblock, timestamp |-> last.timestamp]]

-----------------------------------------------------------------------------
(* archive_state: make room, then file the slots under the hash.  Inserting *)
(* an existing key of an IndexMap replaces its value in place.              *)

ArchivedHashes(ps) == {ps[i].hash : i \in DOMAIN ps}

ArchiveInsert(ps, hash, slots) ==
    IF hash \in ArchivedHashes(ps)
      THEN [i \in DOMAIN ps |->
              IF ps[i].hash = hash THEN [hash |-> hash, slots |-> slots] ELSE ps[i]]
      ELSE Append(ps, [hash |-> hash, slots |-> slots])

(* Faulty variants: the limit is off by one; a full archive takes no more. *)
ArchiveOneMore(ps, hash, slots) ==
    ArchiveInsert(IF Len(ps) > MAX_PREVIOUS_STATES + 1 THEN Tail(ps) ELSE ps, hash, slots)

ArchiveRefusing(ps, hash, slots) ==
    IF Len(ps) > MAX_PREVIOUS_STATES THEN ps ELSE ArchiveInsert(ps, hash, slots)

archive_state(ps, hash, slots) ==
    ArchiveInsert(IF Len(ps) > MAX_PREVIOUS_STATES THEN Tail(ps) ELSE ps, hash, slots)

-----------------------------------------------------------------------------
(* Requests are served when the node is not inside a mining loop and no    *)
(* panic has poisoned the lock.                                            *)
Ready == mining.left = 0 /\ ~poisoned

(* Every handler answers with an error once the lock is poisoned. *)
ServePoisoned == poisoned /\ UNCHANGED vars

-----------------------------------------------------------------------------
(* run_l2_tx.  The handler validates the transaction, queues it on the     *)
(* pending-transaction filters, executes it in a batch of its own and then *)
(* commits: the transaction's block, and the fictive empty block the VM    *)
(* adds at the end of every batch.                                         *)

(* validate_tx refuses it (gas limit or fees): nothing has happened yet. *)
TxRejected == Ready /\ UNCHANGED vars

(* The VM halts, for instance on a bad signature, or the remote chain fails *)
(* while it runs, under a read lock that is not poisoned by the panic:      *)
(* nothing is persisted, but the pending-transaction filters were told.     *)
TxHalted(t) ==
    /\ Ready
    /\ \A id \in Installed(filters) : Len(filters.filters[id].updates) < MaxPending
    /\ filters' = notify_new_pending_transaction(filters, t)
    /\ UNCHANGED << counters, chain, previous_states, raw_storage, fork,
                    snapshots, mining, poisoned >>

(* The API transaction inside the block names the node's tip at execution. *)
TxBlock(t, ctx) ==
    [hash |-> compute_hash(ctx.miniblock, t),
     parent_hash |-> IF ctx.miniblock - 1 \in DOMAIN block_hashes
                       THEN block_hashes[ctx.miniblock - 1] ELSE NoTx,
     number |-> ctx.miniblock, timestamp |-> ctx.timestamp,
     l1_batch_number |-> ctx.batch,
     transactions |-> << [hash |-> t, block_hash |-> current_miniblock_hash,
                          block_number |-> current_miniblock] >>]

(* The checks of the commit loop: the i-th block must be the i-th after the *)
(* counters, all in the next batch.                                         *)
Expected(block, i) ==
    /\ block.l1_batch_number = current_batch + 1
    /\ block.number = current_miniblock + i
    /\ block.timestamp = current_timestamp + i

(* The storage writes w of an execution, on top of the slots. *)
Apply(slots, w) == [k \in Keys |-> IF k \in DOMAIN w THEN w[k] ELSE slots[k]]

TxLogEntries(t, block) ==
    [i \in DOMAIN TxLogs[t] |->
        [address |-> TxLogs[t][i].address, topics |-> TxLogs[t][i].topics,
         transaction_hash |-> t, log_index |-> i,
         block_hash |-> block.hash, block_number |-> block.number]]

Receipt(t, block) ==
    [block_hash |-> block.hash, block_number |-> block.number,
     l1_batch_number |-> block.l1_batch_number, logs |-> TxLogEntries(t, block)]

(* The VM executes t and does not halt.  Success and Revert are committed   *)
(* alike, with the keys and events the VM reports.  The VM checks the       *)
(* nonce, so a transaction already on the chain halts.                      *)
Executes(t) ==
    /\ t \notin DOMAIN tx_results
    /\ create_l1_batch_env.miniblock + 1 <= MaxMiniblock

(* Committing t: the keys, the log filters, the receipt, then for each of   *)
(* the two blocks archive_state, the counters, the maps and the block       *)
(* filters.                                                                 *)
CommitTx(t, w) ==
    LET ctx   == create_l1_batch_env
        block == TxBlock(t, ctx)
        last  == EmptyBlock(new_block(ctx), block.hash)
        slots == Apply(raw_storage.slots, w)
        told  == notify_new_logs(notify_new_pending_transaction(filters, t),
                                 TxLogEntries(t, block), block.number)
    IN  /\ raw_storage' = [l1 |-> SystemContext(ctx, new_block(ctx)).l1,
                           l2 |-> SystemContext(ctx, new_block(ctx)).l2,
                           slots |-> slots]
        /\ tx_results' = Insert(tx_results, t, Receipt(t, block))
        /\ previous_states' =
              archive_state(archive_state(previous_states, current_miniblock_hash, slots),
                            block.hash, slots)
        /\ current_batch' = current_batch + 1
        /\ current_miniblock' = current_miniblock + 2
        /\ current_timestamp' = current_timestamp + 2
        /\ current_miniblock_hash' = last.hash
        /\ block_hashes' = Insert(Insert(block_hashes, block.number, block.hash),
                                  last.number, last.hash)
        /\ blocks' = Insert(Insert(blocks, block.hash, block), last.hash, last)
        /\ filters' = notify_new_block(notify_new_block(told, block.hash), last.hash)
        /\ UNCHANGED << fork, snapshots, mining, poisoned >>

Consistent(t) ==
    LET ctx == create_l1_batch_env
    IN  /\ Expected(TxBlock(t, ctx), 1)
        /\ Expected(EmptyBlock(new_block(ctx), TxBlock(t, ctx).hash), 2)

RunL2Tx(t, w) ==
    /\ Ready
    /\ Executes(t)
    /\ Consistent(t)
    /\ CommitTx(t, w)

(* A check fails: the handler panics with the write lock held.  What it had *)
(* written so far stays behind the poisoned lock, where nobody reads it.    *)
RunL2TxPanics(t) ==
    /\ Ready
    /\ Executes(t)
    /\ ~Consistent(t)
    /\ poisoned' = TRUE
    /\ UNCHANGED << counters, chain, filters, previous_states, raw_storage,
                    fork, snapshots, mining >>

-----------------------------------------------------------------------------
(* mine_empty_blocks: one iteration.  The VM is given the context's own     *)
(* timestamp; the block and the clock get `timestamp`.  No state is         *)
(* archived, no filter is told and current_miniblock_hash is left alone.    *)
MineOne(ctx, timestamp) ==
    LET block == create_empty_block([ctx EXCEPT !.timestamp = timestamp])
    IN  /\ raw_storage' = [l1 |-> SystemContext(ctx, ctx).l1,
                           l2 |-> SystemContext(ctx, ctx).l2,
                           slots |-> raw_storage.slots]
        /\ block_hashes' = Insert(block_hashes, block.number, block.hash)
        /\ blocks' = Insert(blocks, block.hash, block)
        /\ current_batch' = ctx.batch
        /\ current_miniblock' = ctx.miniblock
        /\ current_timestamp' = timestamp
        /\ UNCHANGED << current_miniblock_hash, tx_results, filters,
                        previous_states, fork, snapshots, poisoned >>

(* hardhat_mine and evm_mine (one block): the first iteration of the loop.  *)
MineBlocks(num_blocks, interval) ==
    /\ Ready
    /\ num_blocks > 0
    /\ create_l1_batch_env.miniblock + num_blocks - 1 <= MaxMiniblock
    /\ MineOne(create_l1_batch_env, create_l1_batch_env.timestamp)
    /\ mining' = [left |-> num_blocks - 1,
                  interval |-> IF num_blocks = 1 THEN 0 ELSE interval]

(* Faulty variant: the interval is off by one. *)
MineNextTooEarly ==
    /\ mining.left > 0
    /\ MineOne(create_l1_batch_env, current_timestamp + mining.interval - 1)
    /\ mining' = [left |-> mining.left - 1,
                  interval |-> IF mining.left = 1 THEN 0 ELSE mining.interval]

(* A later iteration: the block is `interval` after the previous one. *)
MineNext ==
    /\ mining.left > 0
    /\ MineOne(create_l1_batch_env, current_timestamp + mining.interval)
    /\ mining' = [left |-> mining.left - 1,
                  interval |-> IF mining.left = 1 THEN 0 ELSE mining.interval]

MineNone == Ready /\ 0 \in NumBlocks /\ UNCHANGED vars      \* an error

(* A remote read fails inside the VM while the write lock is held, in any   *)
(* iteration of mine_empty_blocks or in run_l2_call (eth_call):             *)
(* ForkStorage::read_value unwraps the error, and the panic poisons the     *)
(* lock.                                                                    *)
RemoteReadFails ==
    /\ RemoteFails /\ fork # NoFork /\ ~poisoned
    /\ poisoned' = TRUE
    /\ mining' = [left |-> 0, interval |-> 0]
    /\ UNCHANGED << counters, chain, filters, previous_states, raw_storage,
                    fork, snapshots >>

-----------------------------------------------------------------------------
(* The clock. *)

ClockTo(t) ==
    /\ current_timestamp' = t
    /\ UNCHANGED << current_batch, current_miniblock, current_miniblock_hash,
                    chain, filters, previous_states, raw_storage, fork,
                    snapshots, mining, poisoned >>

increase_time(time_delta_seconds) ==
    /\ Ready
    /\ current_timestamp + time_delta_seconds * 1000 <= MaxTimestamp
    /\ ClockTo(current_timestamp + time_delta_seconds * 1000)

(* Faulty variant: the check against the current time is missing. *)
SetNextTimestampUnchecked(timestamp) == Ready /\ ClockTo(timestamp - 1)

set_next_block_timestamp(timestamp) ==
    /\ Ready
    /\ IF timestamp <= current_timestamp THEN UNCHANGED vars      \* an error
       ELSE ClockTo(timestamp - 1)

set_time(time) ==
    /\ Ready
    /\ AllowRewind \/ time >= current_timestamp
    /\ ClockTo(time)

-----------------------------------------------------------------------------
(* hardhat_setStorageAt, and likewise hardhat_setBalance: one set_value. *)
set_storage_at(key, value) ==
    /\ Ready
    /\ raw_storage' = [raw_storage EXCEPT !.slots[key] = value]
    /\ UNCHANGED << counters, chain, filters, previous_states, fork, snapshots,
                    mining, poisoned >>

(* The same method on one of the system context's two words.  Nothing       *)
(* forbids it: the method takes any address and any slot.  (The bounds keep *)
(* batches and times finite that the model would otherwise count up.)       *)
set_context_word(info) ==
    /\ Ready
    /\ current_batch <= MaxMiniblock /\ current_timestamp <= MaxTimestamp
    /\ \/ raw_storage' = [raw_storage EXCEPT !.l1 = info]
       \/ raw_storage' = [raw_storage EXCEPT !.l2 = info]
    /\ UNCHANGED << counters, chain, filters, previous_states, fork, snapshots,
                    mining, poisoned >>

(* hardhat_setNonce of 2^128 or more: no nonce stands in its way, and the   *)
(* product that packs it overflows.  The handler panics with the write lock *)
(* held.  (Any other hardhat_setNonce is a set_value or an error, see       *)
(* ForkStorage.)                                                            *)
SetNonceOverflows ==
    /\ Ready
    /\ HugeNonces
    /\ poisoned' = TRUE
    /\ UNCHANGED << counters, chain, filters, previous_states, raw_storage,
                    fork, snapshots, mining >>

-----------------------------------------------------------------------------
(* Snapshots.  Ids are positions in the list; id 0 is served like id 1. *)

TakeSnapshot ==
    /\ Ready
    /\ IF Len(snapshots) >= MAX_SNAPSHOTS THEN UNCHANGED snapshots   \* an error
       ELSE snapshots' = Append(snapshots, snapshot)
    /\ UNCHANGED << counters, chain, filters, previous_states, raw_storage,
                    fork, mining, poisoned >>

SnapshotIndex(id) == IF id = 0 THEN 1 ELSE id

(* Faulty variant: later snapshots survive. *)
RevertKeepingLater(id) ==
    /\ Ready
    /\ SnapshotIndex(id) <= Len(snapshots)
    /\ snapshots' = SubSeq(snapshots, 1, SnapshotIndex(id) - 1)
                      \o SubSeq(snapshots, SnapshotIndex(id) + 1, Len(snapshots))
    /\ restore_snapshot(snapshots[SnapshotIndex(id)])
    /\ UNCHANGED << fork, mining, poisoned >>

revert_snapshot(id) ==
    /\ Ready
    /\ IF SnapshotIndex(id) > Len(snapshots)
         THEN UNCHANGED vars                                          \* an error
         ELSE /\ snapshots' = SubSeq(snapshots, 1, SnapshotIndex(id) - 1)
              /\ restore_snapshot(snapshots[SnapshotIndex(id)])
              /\ UNCHANGED << fork, mining, poisoned >>

(* A new node takes the place of the old one, and its snapshots go. *)
reset(f) ==
    /\ snapshots' = << >>
    /\ Become(new(f))
    /\ fork' = f
    /\ UNCHANGED << mining, poisoned >>

(* hardhat_reset to no fork, to a fork point given by URL, or to another   *)
(* block of the chain already forked.  It is refused when both attributes  *)
(* are given, when there is no fork to move, or when the remote fails.     *)
reset_network(f) == Ready /\ (reset(f) \/ UNCHANGED vars)

-----------------------------------------------------------------------------
(* The filter methods of the eth namespace. *)

WithFilters(registry) ==
    /\ Ready
    /\ filters' = registry
    /\ UNCHANGED << counters, chain, previous_states, raw_storage, fork,
                    snapshots, mining, poisoned >>

new_block_filter == WithFilters(add_block_filter(filters))

new_pending_transaction_filter == WithFilters(add_pending_transaction_filter(filters))

new_filter(criteria) == WithFilters(add_log_filter(filters, criteria))

uninstall_filter(id) == WithFilters(remove_filter(filters, id))

get_filter_changes(id) ==
    /\ id \in Installed(filters)
    /\ WithFilters(get_new_changes(filters, id))

-----------------------------------------------------------------------------
SendTransaction ==
    \/ TxRejected
    \/ \E t \in Txs :
        \/ TxHalted(t)
        \/ \E w \in Writes : RunL2Tx(t, w)
        \/ RunL2TxPanics(t)

Mine == MineNone \/ \E n \in NumBlocks, i \in Intervals : MineBlocks(n, i)

Clock ==
    \/ \E d \in TimeDeltas : increase_time(d)
    \/ \E t \in Times : set_next_block_timestamp(t) \/ set_time(t)

Snapshots ==
    \/ TakeSnapshot
    \/ \E id \in 0 .. MAX_SNAPSHOTS : revert_snapshot(id)
    \/ \E f \in Forks \cup {NoFork} : reset_network(f)

FilterMethods ==
    \/ new_block_filter
    \/ new_pending_transaction_filter
    \/ \E c \in LogCriteria : new_filter(c)
    \/ \E id \in 1 .. MAX_FILTER_ID : uninstall_filter(id) \/ get_filter_changes(id)

Next ==
    \/ SendTransaction
    \/ Mine
    \/ MineNext
    \/ Clock
    \/ \E k \in Keys, v \in Values : set_storage_at(k, v)
    \/ \E info \in ContextWords : set_context_word(info)
    \/ SetNonceOverflows
    \/ Snapshots
    \/ FilterMethods
    \/ RemoteReadFails
    \/ ServePoisoned

Spec == Init /\ [][Next]_vars

-----------------------------------------------------------------------------
(* Properties. *)

Hash == Nat \X (Txs \cup {NoTx, RemoteTx})
Info == [number : Nat, timestamp : Nat]
RawStorage == [l1 : Info, l2 : Info, slots : [Keys -> Values]]
Archive == Seq([hash : Hash, slots : [Keys -> Values]])

(* The part of the type of a node, or of a snapshot of one, that the other  *)
(* properties and the proofs build on.                                      *)
StateTypeOK(s) ==
    /\ s.current_timestamp \in Nat
    /\ s.current_batch \in Nat
    /\ s.current_miniblock \in Nat
    /\ s.current_miniblock_hash \in Hash
    /\ s.raw_storage \in RawStorage
    /\ s.previous_states \in Archive
    /\ DOMAIN s.tx_results \subseteq Txs
    /\ DOMAIN s.block_hashes \subseteq Nat
    /\ \A n \in DOMAIN s.block_hashes : s.block_hashes[n] \in Hash
    /\ DOMAIN s.blocks \subseteq Hash

(* Type correctness of the node's state and of every snapshot of it. *)
TypeOK ==
    /\ StateTypeOK(snapshot)
    /\ snapshots \in Seq({snapshots[i] : i \in DOMAIN snapshots})
    /\ \A i \in DOMAIN snapshots : StateTypeOK(snapshots[i])
    /\ fork \in Forks \cup {NoFork}
    /\ mining \in [left : Nat, interval : Nat]
    /\ poisoned \in BOOLEAN

(* The commit loop of run_l2_tx never panics: the block the VM produced is  *)
(* always the one the counters predict, so the lock is never poisoned.      *)
(* (This is of a node whose clock is not moved back, whose remote chain     *)
(* answers, and on which nobody overwrites the system context's words or    *)
(* sets a huge nonce: PanicCauses speaks of the others.)                    *)
NoPanic == ~poisoned

(* What NoPanic rests on: the last batch and block according to storage are *)
(* the ones the counters name, and the clock is not behind them.            *)
TipsAgreeIn(s, f) ==
    /\ load_last_l1_batch(s, f).number = s.current_batch
    /\ load_last_l2_block(s, f).number = s.current_miniblock
    /\ load_last_l1_batch(s, f).timestamp <= s.current_timestamp
    /\ load_last_l2_block(s, f).timestamp <= s.current_timestamp

(* The same of the node, and of every snapshot it can be taken back to. *)
TipsAgree ==
    /\ TipsAgreeIn(snapshot, fork)
    /\ \A i \in DOMAIN snapshots : TipsAgreeIn(snapshots[i], fork)

(* What poisons the lock: a remote read that fails, a nonce that overflows, *)
(* or the checks of the commit loop.  And these fail only with the clock    *)
(* behind storage, or over a word of the system context that a client has   *)
(* written and whose number is not the counter's: a clock that ran ahead, a *)
(* rewind that mining has made good, a revert, a reset or a fork never make *)
(* them fail.                                                               *)
PanicCauses ==
    [][/\ poisoned' # poisoned =>
             \/ RemoteReadFails
             \/ SetNonceOverflows
             \/ \E t \in Txs : RunL2TxPanics(t)
       /\ \A t \in Txs : RunL2TxPanics(t) =>
             \/ current_timestamp < load_last_l1_batch(snapshot, fork).timestamp
             \/ current_timestamp < load_last_l2_block(snapshot, fork).timestamp
             \/ /\ raw_storage.l1 \in ContextWords
                /\ load_last_l1_batch(snapshot, fork).number # current_batch
             \/ /\ raw_storage.l2 \in ContextWords
                /\ load_last_l2_block(snapshot, fork).number # current_miniblock
      ]_vars

(* Mining brings a clock that was moved back up to date: each block that    *)
(* mine_empty_blocks inserts leaves "node state ready for next interaction".*)
MiningResyncs ==
    [][(MineNext \/ \E n \in NumBlocks, i \in Intervals : MineBlocks(n, i))
          => TipsAgreeIn(snapshot, fork)']_vars

FirstBlock == IF fork = NoFork THEN 0 ELSE fork.number
BlockAt(n) == blocks[block_hashes[n]]

(* Block n was produced by run_l2_tx. *)
HoldsTx(n) == BlockAt(n).transactions # << >> /\ (fork # NoFork => n > fork.number)

(* The two maps that eth_getBlockByNumber and eth_getBlockByHash read       *)
(* describe one chain: every height from the first block to the tip has a   *)
(* hash, every hash has its block, and no other block is kept.              *)
BlockMapsAgree ==
    /\ DOMAIN block_hashes = FirstBlock .. current_miniblock
    /\ DOMAIN blocks = {block_hashes[n] : n \in DOMAIN block_hashes}
    /\ \A n \in DOMAIN block_hashes :
          BlockAt(n).number = n /\ BlockAt(n).hash = block_hashes[n]

(* Each block names the hash of the block below it as its parent, whichever *)
(* of run_l2_tx and mine_empty_blocks produced the two.  The exception is a *)
(* block mined on a fork point: create_empty_block computes its parent and  *)
(* does not arrive at the remote block's hash.                              *)
ParentLinks ==
    \A n \in DOMAIN block_hashes :
        n - 1 \in DOMAIN block_hashes =>
            \/ BlockAt(n).parent_hash = block_hashes[n - 1]
            \/ fork # NoFork /\ n = fork.number + 1 /\ ~HoldsTx(n)

(* current_miniblock_hash, under which the next state is archived, names a  *)
(* block of the chain, also after a revert.  Only mined blocks lie above    *)
(* it: mine_empty_blocks leaves it alone, although the field is documented  *)
(* as "The latest miniblock hash."                                          *)
TipHashOnChain ==
    /\ current_miniblock_hash \in DOMAIN blocks
    /\ \A n \in DOMAIN block_hashes :
          n > blocks[current_miniblock_hash].number => ~HoldsTx(n)

(* Timestamps strictly increase along the chain, across transactions, mined *)
(* blocks, and changes of the clock that do not move it back.               *)
TimestampsIncrease ==
    \A n \in DOMAIN block_hashes :
        n - 1 \in DOMAIN block_hashes => BlockAt(n - 1).timestamp < BlockAt(n).timestamp

(* A transaction's block is followed by the empty block that closes its     *)
(* batch; any other block is followed by the first block of the next batch. *)
BatchStructure ==
    \A n \in DOMAIN block_hashes :
        n - 1 \in DOMAIN block_hashes =>
            IF HoldsTx(n - 1)
              THEN /\ BlockAt(n).l1_batch_number = BlockAt(n - 1).l1_batch_number
                   /\ ~HoldsTx(n)
              ELSE BlockAt(n).l1_batch_number = BlockAt(n - 1).l1_batch_number + 1

(* Receipts and blocks agree, also after a revert: a receipt names a block  *)
(* of the chain that holds the transaction, and a transaction in a block    *)
(* the node produced has a receipt that names that block.                   *)
ReceiptsOnChain ==
    /\ \A t \in DOMAIN tx_results :
          LET r == tx_results[t]
          IN  /\ r.block_number \in DOMAIN block_hashes
              /\ block_hashes[r.block_number] = r.block_hash
              /\ \E i \in DOMAIN BlockAt(r.block_number).transactions :
                    BlockAt(r.block_number).transactions[i].hash = t
    /\ \A n \in DOMAIN block_hashes : HoldsTx(n) =>
          \A i \in DOMAIN BlockAt(n).transactions :
              LET t == BlockAt(n).transactions[i].hash
              IN  t \in DOMAIN tx_results /\ tx_results[t].block_number = n

(* s is an earlier state of the history that led to u. *)
IsPrefix(s, u) ==
    /\ \A n \in DOMAIN s.block_hashes :
          n \in DOMAIN u.block_hashes /\ u.block_hashes[n] = s.block_hashes[n]
    /\ \A t \in DOMAIN s.tx_results :
          t \in DOMAIN u.tx_results /\ u.tx_results[t] = s.tx_results[t]
    /\ s.filters.id_counter <= u.filters.id_counter

(* The snapshots that can still be reverted to are successive prefixes of   *)
(* the node's own history: none survives a revert to an earlier one, or a   *)
(* reset, that discarded the history it belongs to.                         *)
SnapshotsArePrefixes ==
    \A i \in DOMAIN snapshots :
        IsPrefix(snapshots[i], IF i < Len(snapshots) THEN snapshots[i + 1] ELSE snapshot)

(* The ledger the node shows: its blocks from the first one to the tip.     *)
ChainOf(s, first) ==
    [i \in 1 .. s.current_miniblock + 1 - first |->
        LET block == s.blocks[s.block_hashes[first + i - 1]]
        IN  [hash |-> block.hash,
             transactions |-> [j \in DOMAIN block.transactions |->
                                  block.transactions[j].hash]]]

Abstract == INSTANCE Ledger WITH
    chain   <- ChainOf(snapshot, FirstBlock),
    results <- DOMAIN tx_results,
    saved   <- [i \in DOMAIN snapshots |->
                  [chain |-> ChainOf(snapshots[i], FirstBlock),
                   results |-> DOMAIN snapshots[i].tx_results]]

(* The node implements the ledger: blocks and results are only added, and   *)
(* taken back together, through transactions, mining, snapshots, reverts    *)
(* and resets.                                                              *)
IsLedger == Abstract!Spec

(* What the filters have queued is on the chain, in chain order and once:   *)
(* a revert takes the queues back together with the blocks.                 *)
QueuesOnChain ==
    \A id \in Installed(filters) :
        LET f == filters.filters[id]
        IN  CASE f.type = "block" ->
                   /\ \A i \in DOMAIN f.updates : f.updates[i] \in DOMAIN blocks
                   /\ \A i, j \in DOMAIN f.updates :
                        i < j => blocks[f.updates[i]].number < blocks[f.updates[j]].number
              [] f.type = "log" ->
                   \A i \in DOMAIN f.updates :
                       LET l == f.updates[i]
                       IN  /\ l.transaction_hash \in DOMAIN tx_results
                           /\ tx_results[l.transaction_hash].block_hash = l.block_hash
                           /\ Matches(f.criteria, l, l.block_number)
              [] OTHER -> TRUE

(* A transaction's blocks are announced: every block filter gets the two    *)
(* blocks in chain order and every pending-transaction filter the hash,     *)
(* each once and behind what it already holds.  (Mined blocks are not       *)
(* announced, although a block filter is there "to notify when a new block  *)
(* arrives".)                                                               *)
TxBlocksTold ==
    [][\A t \in Txs, w \in Writes : RunL2Tx(t, w) =>
          \A id \in Installed(filters) :
              LET before == filters.filters[id]
                  after  == filters'.filters[id].updates
              IN  /\ before.type = "block" =>
                        after = before.updates
                                  \o << block_hashes'[current_miniblock + 1],
                                        block_hashes'[current_miniblock + 2] >>
                  /\ before.type = "pending" => after = Append(before.updates, t)]_vars

(* The archive holds one state more than MAX_PREVIOUS_STATES at most: the   *)
(* field is documented as limited to that number, but archive_state evicts  *)
(* only once it is exceeded.                                                *)
ArchiveBounded == Len(previous_states) <= MAX_PREVIOUS_STATES + 1

(* Eviction is oldest first: where the state of a transaction's block is    *)
(* still archived, so is that of every later transaction's block.           *)
ArchiveKeepsNewest ==
    \A n, m \in DOMAIN block_hashes :
        /\ n < m
        /\ HoldsTx(n) /\ HoldsTx(m)
        /\ block_hashes[n] \in ArchivedHashes(previous_states)
        => block_hashes[m] \in ArchivedHashes(previous_states)

(* A state once archived under a hash is never replaced by another while it *)
(* is kept: not by later blocks, and not by a revert.                       *)
ArchiveStable ==
    [][\A i \in DOMAIN previous_states, j \in DOMAIN previous_states' :
          previous_states[i].hash = previous_states'[j].hash
            => previous_states[i].slots = previous_states'[j].slots]_vars

=============================================================================
