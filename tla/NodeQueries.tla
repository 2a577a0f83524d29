---------------------------- MODULE NodeQueries ----------------------------
(***************************************************************************)
(* What the node answers: the read-only methods of the eth, zks and debug  *)
(* namespaces (node/eth.rs, node/zks.rs and node/debug.rs under src/src),  *)
(* as operators on the state of InMemoryNode.  Several methods answer the  *)
(* same question from different maps, and most fall back to the remote     *)
(* chain where the node has nothing: the properties say that the answers   *)
(* agree with each other and stay what they were.                          *)
(*                                                                         *)
(* An Option is a set of at most one element; an error is the empty set.   *)
(* Of a block, a transaction or a receipt only the parts that tell one     *)
(* from another are kept: number, hash and transactions; place in the      *)
(* chain; place and logs.                                                  *)
(***************************************************************************)
EXTENDS InMemoryNode, FiniteSetsExt

CONSTANTS
    RemoteTransactions,   \* the remote chain: transactions per block, from 0
    LogQueries,           \* criteria clients give to eth_getLogs
    Unanswerable          \* transactions without the data, or the chain id,
                          \* that eth_getTransactionByHash answers with

(* The remote chain is a list of blocks without gaps, and holds a            *)
(* transaction once: a hash names one transaction.                          *)
ASSUME RemoteChainAssumption ==
    /\ IsFiniteSet(DOMAIN RemoteTransactions)
    /\ DOMAIN RemoteTransactions = 0 .. Cardinality(DOMAIN RemoteTransactions) - 1
    /\ \A n \in DOMAIN RemoteTransactions : RemoteTransactions[n] \in Seq(RemoteTxs)
    /\ \A n, m \in DOMAIN RemoteTransactions :
          \A i \in DOMAIN RemoteTransactions[n], j \in DOMAIN RemoteTransactions[m] :
              RemoteTransactions[n][i] = RemoteTransactions[m][j] => n = m
    /\ \A f \in Forks : f.number \in DOMAIN RemoteTransactions
                        /\ f.transactions = RemoteTransactions[f.number]

(* Criteria name their blocks by a tag or a number; topics are a list.      *)
ASSUME QueryAssumption ==
    /\ Unanswerable \subseteq Txs
    /\ \A c \in LogCriteria \cup LogQueries : \A b \in {c.from_block, c.to_block} :
          b \in {Latest, Earliest} \/ (b.n \in Nat /\ b = Number(b.n))
    /\ \A t \in Txs : \A i \in DOMAIN TxLogs[t] :
          LET topics == TxLogs[t][i].topics
          IN  topics \in Seq({topics[j] : j \in DOMAIN topics})

-----------------------------------------------------------------------------
(* The remote chain.  It has blocks below the fork point and may have       *)
(* blocks above it: nothing ties a request to the fork point.               *)

BlockNumbers == DOMAIN RemoteTransactions \cup 0 .. MaxMiniblock
RemoteHead == Max(DOMAIN RemoteTransactions)
Some(S) == CHOOSE x \in S : TRUE
OrElse(option, other) == IF option # {} THEN option ELSE other
OrElseRemote(option, remote) == IF fork = NoFork THEN option ELSE OrElse(option, remote)

RemotePlace(t, n) == [hash |-> t, block_hash |-> compute_hash(n, RemoteTx), block_number |-> n]
RemoteByNumber(n) ==
    {[number |-> n, hash |-> compute_hash(n, RemoteTx),
      transactions |-> RemoteTransactions[n]] : m \in {n} \cap DOMAIN RemoteTransactions}
RemoteByHash(hash) == UNION {{b \in RemoteByNumber(n) : b.hash = hash} : n \in BlockNumbers}
RemoteTransaction(t) ==
    {RemotePlace(t, n) : n \in {m \in DOMAIN RemoteTransactions :
                                   \E i \in DOMAIN RemoteTransactions[m] :
                                       RemoteTransactions[m][i] = t}}

(* The remote resolves a tag itself: its "latest" is its own head. *)
RemoteNumber(block_number) == to_real_block_number(block_number, RemoteHead)

-----------------------------------------------------------------------------
(* Blocks. *)

RealNumber(block_number) == to_real_block_number(block_number, current_miniblock)

LocalByHash(hash) == {blocks[h] : h \in {hash} \cap DOMAIN blocks}
LocalByNumber(n) == UNION {LocalByHash(block_hashes[m]) : m \in {n} \cap DOMAIN block_hashes}

TxHashes(block) == [i \in DOMAIN block.transactions |-> block.transactions[i].hash]
Shown(found) ==
    {[number |-> b.number, hash |-> b.hash, transactions |-> TxHashes(b)] : b \in found}

(* Faulty variant: the tag is left to the remote chain. *)
RemoteBlockFirst(block_number) ==
    OrElse(IF fork = NoFork THEN {} ELSE RemoteByNumber(RemoteNumber(block_number)),
           Shown(LocalByNumber(RealNumber(block_number))))

get_block_by_number(block_number) ==
    OrElseRemote(Shown(LocalByNumber(RealNumber(block_number))),
                 RemoteByNumber(RemoteNumber(block_number)))

get_block_by_hash(hash) == OrElseRemote(Shown(LocalByHash(hash)), RemoteByHash(hash))

Counts(found) == {Len(b.transactions) : b \in found}

get_block_transaction_count_by_number(block_number) ==
    OrElseRemote(Counts(LocalByNumber(RealNumber(block_number))),
                 Counts(RemoteByNumber(RemoteNumber(block_number))))

get_block_transaction_count_by_hash(hash) ==
    OrElseRemote(Counts(LocalByHash(hash)), Counts(RemoteByHash(hash)))

get_block_details(n) ==
    OrElseRemote({[number |-> b.number, l2_tx_count |-> Len(b.transactions),
                   root_hash |-> b.hash] : b \in LocalByNumber(n)},
                 {[number |-> n, l2_tx_count |-> Len(b.transactions),
                   root_hash |-> b.hash] : b \in RemoteByNumber(n)})

-----------------------------------------------------------------------------
(* Transactions. *)

TxAt(transactions, index) == {transactions[i] : i \in {index + 1} \cap DOMAIN transactions}

(* An index past the end of a local block is asked of the remote chain too, *)
(* whose block of that number may be another one.                           *)
get_transaction_by_block_number_and_index(block_number, index) ==
    OrElseRemote(
        UNION {TxAt(TxHashes(b), index) : b \in LocalByNumber(RealNumber(block_number))},
        UNION {TxAt(b.transactions, index) : b \in RemoteByNumber(RemoteNumber(block_number))})

get_transaction_by_block_hash_and_index(hash, index) ==
    OrElseRemote(UNION {TxAt(TxHashes(b), index) : b \in LocalByHash(hash)},
                 UNION {TxAt(b.transactions, index) : b \in RemoteByHash(hash)})

(* The transaction is rebuilt from its result, with its own hash as the     *)
(* hash of its block; one that cannot be rebuilt is asked of the remote.    *)
OwnTransaction(t) ==
    {[hash |-> r, block_hash |-> r, block_number |-> tx_results[r].block_number] :
        r \in {t} \cap (DOMAIN tx_results \ Unanswerable)}

get_transaction_by_hash(t) == OrElseRemote(OwnTransaction(t), RemoteTransaction(t))

(* The remote chain is not asked for a receipt. *)
get_transaction_receipt(t) == {tx_results[r] : r \in {t} \cap DOMAIN tx_results}

get_transaction_details(t) ==
    OrElseRemote({t} \cap DOMAIN tx_results, {p.hash : p \in RemoteTransaction(t)})

(* The transactions of a list that have a result, in order. *)
WithResult(list) ==
    LET upTo[n \in 0 .. Len(list)] ==
            IF n = 0 THEN << >>
            ELSE IF list[n] \in DOMAIN tx_results THEN Append(upTo[n - 1], list[n])
            ELSE upTo[n - 1]
    IN  upTo[Len(list)]

(* zks_getRawBlockTransactions: of a local block those with a result.       *)
get_raw_block_transactions(n) ==
    LET local == LocalByNumber(n)
    IN  IF local # {}
          THEN WithResult(TxHashes(Some(local)))
        ELSE IF fork # NoFork /\ n \in DOMAIN RemoteTransactions THEN RemoteTransactions[n]
        ELSE << >>

(* debug_traceBlockByNumber and ByHash: an error where there is no local    *)
(* block, or one of its transactions has no result.                         *)
Traces(found) ==
    {TxHashes(b) : b \in {c \in found : \A i \in DOMAIN c.transactions :
                                            c.transactions[i].hash \in DOMAIN tx_results}}
trace_block_by_number(block_number) == Traces(LocalByNumber(RealNumber(block_number)))
trace_block_by_hash(hash) == Traces(LocalByHash(hash))
trace_transaction(t) == {t} \cap DOMAIN tx_results

-----------------------------------------------------------------------------
(* Logs. *)

ResultLogs == UNION {{tx_results[t].logs[i] : i \in DOMAIN tx_results[t].logs} :
                        t \in DOMAIN tx_results}

get_logs(criteria) == {l \in ResultLogs : Matches(criteria, l, current_miniblock)}

get_filter_logs(id) ==
    IF id \in Installed(filters) /\ filters.filters[id].type = "log"
      THEN {get_logs(filters.filters[id].criteria)} ELSE {}

-----------------------------------------------------------------------------
(* eth_feeHistory: the blocks it speaks of; newest_block is ignored, and at *)
(* most 1024 are asked for.                                                 *)
MAX_FEE_HISTORY == 1024

fee_history(block_count) ==
    LET count == MaxOf(1, Min({block_count, MAX_FEE_HISTORY, current_miniblock + 1}))
    IN  [oldest_block |-> current_miniblock + 1 - count, length |-> count]

-----------------------------------------------------------------------------
(* Storage.  A block the node has is looked up in the archive; what is not  *)
(* there, or is zero there, is read from the present state.                 *)

StorageAtNumber(key, n) ==
    LET old == {i \in DOMAIN previous_states : previous_states[i].hash = block_hashes[n]}
    IN  IF n = current_miniblock \/ \A i \in old : previous_states[i].slots[key] = 0
          THEN read_value(raw_storage.slots, fork, key)
          ELSE previous_states[Some(old)].slots[key]

(* Below the fork point, and above the tip, the remote chain answers; its   *)
(* slots are modelled at the fork point only.                               *)
get_storage(key, block_number) ==
    {StorageAtNumber(key, n) : n \in {RealNumber(block_number)} \cap DOMAIN block_hashes}

get_storage_by_hash(key, hash) ==
    UNION {get_storage(key, Number(b.number)) : b \in LocalByHash(hash)}

-----------------------------------------------------------------------------
(* Properties. *)

ForkNumber == IF fork = NoFork THEN -1 ELSE fork.number

(* Every method that answers for a block answers for the same block: found  *)
(* by number it is found by its hash, with the same transactions, counted,  *)
(* detailed and fetched one by one as they are listed.  Of the blocks the   *)
(* node produced, raw transactions and traces are complete as well.  The    *)
(* fee history speaks of the newest blocks, and each of them is there.      *)
BlockAnswersAgree ==
    /\ \A n \in BlockNumbers :
           /\ \A b \in get_block_by_number(Number(n)) :
                 /\ b.number = n
                 /\ get_block_by_hash(b.hash) = {b}
                 /\ get_block_transaction_count_by_number(Number(n)) = {Len(b.transactions)}
                 /\ get_block_transaction_count_by_hash(b.hash) = {Len(b.transactions)}
                 /\ get_block_details(n) = {[number |-> n, root_hash |-> b.hash,
                                             l2_tx_count |-> Len(b.transactions)]}
                 /\ \A i \in DOMAIN b.transactions :
                       /\ get_transaction_by_block_number_and_index(Number(n), i - 1)
                              = {b.transactions[i]}
                       /\ get_transaction_by_block_hash_and_index(b.hash, i - 1)
                              = {b.transactions[i]}
                 /\ n > ForkNumber /\ n <= current_miniblock =>
                       /\ get_raw_block_transactions(n) = b.transactions
                       /\ trace_block_by_number(Number(n)) = {b.transactions}
                       /\ trace_block_by_hash(b.hash) = {b.transactions}
           /\ n <= current_miniblock => get_block_by_number(Number(n)) # {}
    /\ \A count \in 0 .. MaxMiniblock + 2 :
           LET history == fee_history(count)
           IN  /\ history.oldest_block + history.length - 1 = current_miniblock
               /\ \A n \in history.oldest_block .. current_miniblock :
                     get_block_by_number(Number(n)) # {}

(* A transaction on the chain the node shows, its own or the forked one up  *)
(* to the fork point, is found by each method that takes its hash, unless   *)
(* it is one that cannot be rebuilt, and it is in the block they name by    *)
(* number.  The block hash agrees for the forked chain's transactions, and  *)
(* in receipts: an own transaction is answered with its own hash there.     *)
(* The remote chain's later transactions are found as well, though they are *)
(* not on this chain.                                                       *)
OnChain(t) ==
    \/ t \in DOMAIN tx_results
    \/ \E p \in RemoteTransaction(t) : p.block_number <= ForkNumber

TransactionAnswersAgree ==
    /\ \A t \in Txs \cup RemoteTxs : OnChain(t) =>
          /\ get_transaction_details(t) = {t}
          /\ t \notin Unanswerable => get_transaction_by_hash(t) # {}
          /\ \A p \in get_transaction_by_hash(t) :
                \E b \in get_block_by_number(Number(p.block_number)) :
                    /\ \E i \in DOMAIN b.transactions : b.transactions[i] = t
                    /\ t \in RemoteTxs => p.block_hash = b.hash
    /\ \A t \in Txs :
          /\ trace_transaction(t) = {} <=> get_transaction_receipt(t) = {}
          /\ \A r \in get_transaction_receipt(t) :
                \E b \in get_block_by_hash(r.block_hash) :
                    /\ b.number = r.block_number
                    /\ get_transaction_by_block_hash_and_index(b.hash, 0) = {t}

(* "Integer block number, or the string "latest", "earliest"", "B in second *)
(* position (and anything after)": what the criteria of a log query mean.   *)
Documented(c, l) ==
    /\ \/ c.from_block = Latest /\ l.block_number = current_miniblock
       \/ c.from_block = Earliest
       \/ c.from_block.tag = "number" /\ l.block_number >= c.from_block.n
    /\ \/ c.to_block = Latest
       \/ c.to_block = Earliest /\ l.block_number = 0
       \/ c.to_block.tag = "number" /\ l.block_number <= c.to_block.n
    /\ c.addresses # {} => l.address \in c.addresses
    /\ \A i \in 1 .. 4 : c.topics[i] # {} =>
          i \in DOMAIN l.topics /\ l.topics[i] \in c.topics[i]

(* The log has a topic in every position the criteria constrain.            *)
FullLog(c, l) == \A i \in 1 .. 4 : c.topics[i] # {} => i \in DOMAIN l.topics

(* A log query finds what its criteria document among the logs of the       *)
(* chain's transactions, neither more nor less, apart from logs too short   *)
(* for the criteria; and what waits in the queue of a log filter is also    *)
(* found by eth_getFilterLogs, if the criteria do not move with the tip.    *)
LogAnswersExact ==
    /\ \A c \in LogCriteria \cup LogQueries : \A t \in DOMAIN tx_results :
          \A i \in DOMAIN tx_results[t].logs :
              LET l == tx_results[t].logs[i]
              IN  FullLog(c, l) => (l \in get_logs(c) <=> Documented(c, l))
    /\ \A id \in Installed(filters) : \A found \in get_filter_logs(id) :
          LET f == filters.filters[id]
          IN  f.criteria.from_block # Latest =>
                  \A i \in DOMAIN f.updates : f.updates[i] \in found

(* What was once answered for a block up to the tip, or for a transaction   *)
(* in it, is answered again whatever is sent, mined, stored or installed:   *)
(* only a revert and a reset take it back.                                  *)
Rewinds ==
    \/ \E id \in 0 .. MAX_SNAPSHOTS : revert_snapshot(id)
    \/ \E f \in Forks \cup {NoFork} : reset(f)
AnswersStable ==
    [][Rewinds \/
         \A n \in 0 .. current_miniblock :
             /\ get_block_by_number(Number(n))' = get_block_by_number(Number(n))
             /\ \A b \in get_block_by_number(Number(n)) :
                   \A i \in DOMAIN b.transactions :
                       LET t == b.transactions[i]
                       IN  /\ get_transaction_by_hash(t)' = get_transaction_by_hash(t)
                           /\ get_transaction_receipt(t)' = get_transaction_receipt(t)]_vars

-----------------------------------------------------------------------------
(* Statements of the repository that the code does not keep. *)

(* hardhat_setStorageAt "Sets the storage value at a given key": a read of  *)
(* the slot that follows returns it.                                        *)
WritesReadBack ==
    [][\A k \in Keys, v \in Values :
          set_storage_at(k, v) => get_storage(k, Latest)' = {v}]_vars

(* eth_getStorageAt answers for "The block storage to target": once another *)
(* block is on top, what it answers for an archived block, by number and by *)
(* hash, is what it answered when that block was the newest.                *)
HistoricalReads ==
    [][\A k \in Keys, n \in DOMAIN block_hashes \cap DOMAIN block_hashes' :
          /\ block_hashes[n] = block_hashes'[n]
          /\ n < current_miniblock'
          /\ block_hashes[n] \in ArchivedHashes(previous_states')
          => /\ get_storage(k, Number(n))' = get_storage(k, Number(n))
             /\ get_storage_by_hash(k, block_hashes[n])' = get_storage(k, Number(n))]_vars
=============================================================================
