----------------------------- MODULE ForkStorage -----------------------------
(***************************************************************************)
(* The node's storage: what is written locally (src/src/deps/mod.rs), what *)
(* is read through from the forked chain and cached (ForkStorage in        *)
(* src/src/fork.rs), the view a VM run works on                            *)
(* (src/src/deps/storage_view.rs), and the control methods that write      *)
(* slots directly (src/src/node/in_memory_ext.rs and in_memory.rs).        *)
(*                                                                         *)
(* A VM run is a sequence of steps on its view: reads, writes, then commit *)
(* or discard.  The lock on the node is held from the first to the last of *)
(* them (run_l2_tx gives it up before it commits; NodeLocks looks at       *)
(* that), so no control method is served while a view is open.             *)
(***************************************************************************)
EXTENDS Integers, Sequences, FiniteSets

CONSTANTS
    SlotKeys,         \* ordinary slots, an account's token balances
    CodeKey,          \* the slot with the hash of an account's code
    NonceKey,         \* the slot with an account's two nonces
    SlotValues,       \* words of the ordinary slots
    RichBalance,      \* 10^30, what set_rich_account writes
    CodeHashes,       \* hashes of bytecodes, positive numbers
    EditedHashes,     \* words a client writes into the code slot itself
    EditedNonces,     \* words a client writes into the nonce slot itself
    NONCE_RADIX,      \* 2^128: full nonce = account + 2^128 * deployment
    GenesisState,     \* the words a new node holds: a function on some keys
    GenesisDeps,      \* the hashes of the bytecodes a new node holds
    NoFork,
    Forks,            \* fork points
    RemoteState,      \* fork point -> its words
    RemoteDeps,       \* fork point -> hashes of the bytecodes it serves
    MAX_SNAPSHOTS,
    MaxNonce,         \* bound of the model: the highest nonce used
    MaxViewKeys       \* bound of the model: the keys a run touches

Keys == SlotKeys \cup {CodeKey, NonceKey}

full_nonce(account, deployment) == account + NONCE_RADIX * deployment
account_nonce(word) == word % NONCE_RADIX
deployment_nonce(word) == word \div NONCE_RADIX

Nonces == {full_nonce(a, d) : a \in 0 .. MaxNonce, d \in 0 .. MaxNonce}
Values == SlotValues \cup CodeHashes \cup EditedHashes \cup Nonces \cup {0}
Code(hash) == << hash >>            \* the bytecode with that hash
NoCode == << >>

ASSUME StorageAssumption ==
    /\ SlotValues \subseteq Nat /\ RichBalance \in SlotValues \ {0}
    /\ CodeHashes \subseteq Nat \ {0} /\ EditedHashes \subseteq Nat
    /\ EditedNonces \subseteq Nonces
    /\ MaxViewKeys \in Nat /\ MaxNonce \in Nat
    /\ NONCE_RADIX \in Nat /\ NONCE_RADIX > MaxNonce
    /\ DOMAIN GenesisState \subseteq Keys
    /\ \A k \in DOMAIN GenesisState : GenesisState[k] \in Values
    /\ \A f \in Forks : RemoteState[f] \in [Keys -> Values]
    /\ NoFork \notin Forks

(* The slots of different system contracts are different. *)
ASSUME KeyAssumption ==
    /\ CodeKey # NonceKey
    /\ CodeKey \notin SlotKeys /\ NonceKey \notin SlotKeys

(* The bytecode of the account's code is served along with its hash. *)
ASSUME CodeAssumption ==
    /\ CodeKey \in DOMAIN GenesisState =>
          GenesisState[CodeKey] \in GenesisDeps
    /\ \A f \in Forks : RemoteState[f][CodeKey] \in RemoteDeps[f] \cup {0}

VARIABLES
    state,               \* raw_storage.state: key -> word, where written
    factory_deps,        \* raw_storage.factory_deps: hash -> bytecode
    value_read_cache,    \* key -> word read from the fork point
    factory_dep_cache,   \* hash -> bytecode, or NoCode, from the fork point
    fork,
    snapshots,
    view                 \* the StorageView of the VM run, or NoView

storage == << state, factory_deps >>
caches == << value_read_cache, factory_dep_cache >>
vars == << storage, caches, fork, snapshots, view >>

NoView == [modified |-> << >>, read |-> << >>, deps |-> {},
           open |-> FALSE, commits |-> FALSE]

Insert(m, k, v) == [x \in DOMAIN m \cup {k} |-> IF x = k THEN v ELSE m[x]]
Merge(m, n) == [x \in DOMAIN m \cup DOMAIN n |-> IF x \in DOMAIN n THEN n[x] ELSE m[x]]

-----------------------------------------------------------------------------
(* Reading.  An absent word reads as zero, and with a fork point a zero is  *)
(* looked up there, first in the cache.                                     *)

LocalValue(key) == IF key \in DOMAIN state THEN state[key] ELSE 0

read_value(key) ==
    IF fork = NoFork \/ LocalValue(key) # 0 THEN LocalValue(key)
    ELSE IF key \in DOMAIN value_read_cache THEN value_read_cache[key]
    ELSE RemoteState[fork][key]

(* What reading the keys leaves in the cache. *)
ReadThroughAll(keys) ==
    LET asked == {k \in keys : fork # NoFork /\ LocalValue(k) = 0}
    IN  value_read_cache' =
            [k \in DOMAIN value_read_cache \cup asked |->
                IF k \in DOMAIN value_read_cache THEN value_read_cache[k]
                ELSE RemoteState[fork][k]]

ReadThrough(key) == ReadThroughAll({key})

RemoteCode(hash) == IF hash \in RemoteDeps[fork] THEN Code(hash) ELSE NoCode

(* Faulty variant: the cache, which also remembers absence, comes first. *)
LoadDepCachedFirst(hash) ==
    IF hash \in DOMAIN factory_dep_cache THEN factory_dep_cache[hash]
    ELSE IF hash \in DOMAIN factory_deps THEN factory_deps[hash]
    ELSE IF fork = NoFork THEN NoCode ELSE RemoteCode(hash)

load_factory_dep(hash) ==
    IF hash \in DOMAIN factory_deps THEN factory_deps[hash]
    ELSE IF fork = NoFork THEN NoCode
    ELSE IF hash \in DOMAIN factory_dep_cache THEN factory_dep_cache[hash]
    ELSE RemoteCode(hash)

LoadThrough(hash) ==
    factory_dep_cache' =
        IF fork = NoFork \/ hash \in DOMAIN factory_deps \cup DOMAIN factory_dep_cache
          THEN factory_dep_cache
          ELSE Insert(factory_dep_cache, hash, RemoteCode(hash))

(* First write to the key?  A word other than zero says no; for a zero only *)
(* the local storage knows.                                                 *)
is_write_initial(key) == read_value(key) = 0 /\ key \notin DOMAIN state

-----------------------------------------------------------------------------
Fresh(f) ==
    /\ state' = GenesisState
    /\ factory_deps' = [h \in GenesisDeps |-> Code(h)]
    /\ value_read_cache' = << >>
    /\ factory_dep_cache' = << >>
    /\ fork' = f
    /\ snapshots' = << >>

Init ==
    /\ state = GenesisState
    /\ factory_deps = [h \in GenesisDeps |-> Code(h)]
    /\ value_read_cache = << >>
    /\ factory_dep_cache = << >>
    /\ fork \in Forks \cup {NoFork}
    /\ snapshots = << >>
    /\ view = NoView

Served == ~view.open

-----------------------------------------------------------------------------
(* The queries: what they answer, and what they leave in the caches.        *)

get_balance(key) == read_value(key)
get_all_account_balances ==
    [k \in {key \in SlotKeys : read_value(key) # 0} |-> read_value(k)]
get_transaction_count == account_nonce(read_value(NonceKey))
get_code == load_factory_dep(read_value(CodeKey))

(* Asks the fork point once more when nothing is found. *)
get_bytecode_by_hash(hash) ==
    IF load_factory_dep(hash) # NoCode \/ fork = NoFork
      THEN load_factory_dep(hash) ELSE RemoteCode(hash)

QueryWords(keys) ==
    /\ Served
    /\ ReadThroughAll(keys)
    /\ UNCHANGED << storage, factory_dep_cache, fork, snapshots, view >>

QueryCode ==
    /\ Served
    /\ ReadThrough(CodeKey)
    /\ LoadThrough(read_value(CodeKey))
    /\ UNCHANGED << storage, fork, snapshots, view >>

QueryBytecode(hash) ==
    /\ Served
    /\ LoadThrough(hash)
    /\ UNCHANGED << storage, value_read_cache, fork, snapshots, view >>

Queries ==
    \/ \E k \in Keys : QueryWords({k})
    \/ QueryWords(SlotKeys)
    \/ QueryCode
    \/ \E h \in CodeHashes : QueryBytecode(h)

-----------------------------------------------------------------------------
(* A VM run on its view. *)

OpenView(commits) ==
    /\ Served
    /\ view' = [NoView EXCEPT !.open = TRUE, !.commits = commits]
    /\ UNCHANGED << storage, caches, fork, snapshots >>

(* eth_call and debug_traceCall, whose view is never committed, and a       *)
(* transaction.                                                             *)
call == OpenView(FALSE)
trace_call == OpenView(FALSE)
run_l2_tx == OpenView(TRUE)

(* get_value_no_log: what the run wrote, what it read before, the storage.  *)
ViewValue(key) ==
    IF key \in DOMAIN view.modified THEN view.modified[key]
    ELSE IF key \in DOMAIN view.read THEN view.read[key] ELSE read_value(key)

AfterRead(key) ==
    IF key \in DOMAIN view.modified \cup DOMAIN view.read THEN view.read
    ELSE Insert(view.read, key, read_value(key))

ViewThrough(key) ==
    IF key \in DOMAIN view.modified \cup DOMAIN view.read
      THEN UNCHANGED value_read_cache ELSE ReadThrough(key)

Touches(key) ==
    /\ view.open
    /\ Cardinality(DOMAIN view.read \cup {key}) <= MaxViewKeys

ViewRead(key) ==
    /\ Touches(key)
    /\ view' = [view EXCEPT !.read = AfterRead(key)]
    /\ ViewThrough(key)
    /\ UNCHANGED << storage, factory_dep_cache, fork, snapshots >>

(* StorageView::set_value reads the original first. *)
ViewWrite(key, value) ==
    /\ Touches(key)
    /\ view' = [view EXCEPT !.read = AfterRead(key),
                            !.modified = Insert(@, key, value)]
    /\ ViewThrough(key)
    /\ UNCHANGED << storage, factory_dep_cache, fork, snapshots >>

(* is_write_initial asks the storage.  That the view remembers the answer   *)
(* shows nowhere: the storage below a view does not change.                 *)
ViewInitial(key) ==
    /\ Touches(key)
    /\ ReadThrough(key)
    /\ UNCHANGED << storage, factory_dep_cache, fork, snapshots, view >>

(* The contract deployer of the VM: publish the bytecode if it is not yet   *)
(* known, write its hash into the account's code slot.                      *)
ViewDeploy(hash) ==
    /\ Touches(CodeKey)
    /\ view' = [view EXCEPT
                  !.read = AfterRead(CodeKey),
                  !.modified = Insert(@, CodeKey, hash),
                  !.deps = IF load_factory_dep(hash) = NoCode THEN @ \cup {hash} ELSE @]
    /\ ViewThrough(CodeKey)
    /\ LoadThrough(hash)
    /\ UNCHANGED << storage, fork, snapshots >>

(* The nonce holder of the VM counts up one of the two nonces. *)
ViewNonce ==
    /\ account_nonce(ViewValue(NonceKey)) < MaxNonce
    /\ deployment_nonce(ViewValue(NonceKey)) < MaxNonce
    /\ \E step \in {full_nonce(1, 0), full_nonce(0, 1)} :
          ViewWrite(NonceKey, ViewValue(NonceKey) + step)

(* run_l2_tx: set_value for every modified key, then the factory deps.      *)
Commit ==
    /\ view.open /\ view.commits
    /\ state' = Merge(state, view.modified)
    /\ factory_deps' = Merge(factory_deps, [h \in view.deps |-> Code(h)])
    /\ view' = NoView
    /\ UNCHANGED << caches, fork, snapshots >>

(* A call, or a transaction that halts.                                     *)
Discard ==
    /\ view.open
    /\ view' = NoView
    /\ UNCHANGED << storage, caches, fork, snapshots >>

-----------------------------------------------------------------------------
(* The control methods. *)

set_value(key, value) ==
    /\ state' = Insert(state, key, value)
    /\ UNCHANGED << caches, fork, snapshots, view >>

(* Any slot of any account, without a look at what it is for.               *)
set_storage_at(key, value) ==
    /\ Served
    /\ set_value(key, value)
    /\ UNCHANGED factory_deps

set_balance(key, value) == set_storage_at(key, value)

(* Writes through a view, which reads the word first. *)
set_rich_account(key) ==
    /\ Served
    /\ ReadThrough(key)
    /\ state' = Insert(state, key, RichBalance)
    /\ UNCHANGED << factory_deps, factory_dep_cache, fork, snapshots, view >>

(* Faulty variant: the present nonces are not compared. *)
SetNonceUnchecked(nonce) ==
    /\ Served
    /\ ReadThrough(NonceKey)
    /\ state' = IF nonce >= NONCE_RADIX THEN state
                ELSE Insert(state, NonceKey, full_nonce(nonce, nonce))
    /\ UNCHANGED << factory_deps, factory_dep_cache, fork, snapshots, view >>

(* A nonce that is not above the present ones is an error.  One that does   *)
(* not fit beside the other panics in nonces_to_full_nonce, before the      *)
(* write; that the lock is then poisoned is InMemoryNode's.                 *)
set_nonce(nonce) ==
    LET word == read_value(NonceKey)
        rejected == account_nonce(word) >= nonce \/ deployment_nonce(word) >= nonce
    IN  /\ Served
        /\ ReadThrough(NonceKey)
        /\ state' = IF rejected \/ nonce >= NONCE_RADIX THEN state
                    ELSE Insert(state, NonceKey, full_nonce(nonce, nonce))
        /\ UNCHANGED << factory_deps, factory_dep_cache, fork, snapshots, view >>

store_factory_dep(hash) == factory_deps' = Insert(factory_deps, hash, Code(hash))

set_code(hash) == Served /\ store_factory_dep(hash) /\ set_value(CodeKey, hash)

(* At start-up, for the files of --override-bytecodes-dir. *)
override_bytecode(hash) == set_code(hash)

TakeSnapshot ==
    /\ Served
    /\ Len(snapshots) < MAX_SNAPSHOTS
    /\ snapshots' = Append(snapshots,
          [state |-> state, factory_deps |-> factory_deps,
           value_read_cache |-> value_read_cache,
           factory_dep_cache |-> factory_dep_cache])
    /\ UNCHANGED << storage, caches, fork, view >>

(* Faulty variant: the bytecodes are restored, the words are not. *)
RestoreWithoutState(i) ==
    /\ Served
    /\ state' = state
    /\ factory_deps' = snapshots[i].factory_deps
    /\ value_read_cache' = snapshots[i].value_read_cache
    /\ factory_dep_cache' = snapshots[i].factory_dep_cache
    /\ snapshots' = SubSeq(snapshots, 1, i - 1)
    /\ UNCHANGED << fork, view >>

revert_snapshot(i) ==
    /\ Served
    /\ state' = snapshots[i].state
    /\ factory_deps' = snapshots[i].factory_deps
    /\ value_read_cache' = snapshots[i].value_read_cache
    /\ factory_dep_cache' = snapshots[i].factory_dep_cache
    /\ snapshots' = SubSeq(snapshots, 1, i - 1)
    /\ UNCHANGED << fork, view >>

(* Faulty variant: a reset leaves the snapshots.                            *)
ResetKeepingSnapshots(f) ==
    /\ Served
    /\ state' = GenesisState
    /\ factory_deps' = [h \in GenesisDeps |-> Code(h)]
    /\ value_read_cache' = << >>
    /\ factory_dep_cache' = << >>
    /\ fork' = f
    /\ UNCHANGED << snapshots, view >>

reset(f) == Served /\ Fresh(f) /\ UNCHANGED view

BalanceAndNonceMethods ==
    \/ \E k \in SlotKeys, v \in SlotValues : set_balance(k, v)
    \/ \E k \in SlotKeys : set_rich_account(k)
    \/ \E n \in (0 .. MaxNonce) \cup {NONCE_RADIX} : set_nonce(n)

CodeAndSlotMethods ==
    \/ \E k \in SlotKeys, v \in SlotValues : set_storage_at(k, v)
    \/ \E v \in EditedHashes : set_storage_at(CodeKey, v)
    \/ \E v \in EditedNonces : set_storage_at(NonceKey, v)
    \/ \E h \in CodeHashes : set_code(h) \/ override_bytecode(h)

SnapshotMethods ==
    \/ TakeSnapshot
    \/ \E i \in DOMAIN snapshots : revert_snapshot(i)
    \/ \E f \in Forks \cup {NoFork} : reset(f)

VmRun ==
    \/ call \/ trace_call \/ run_l2_tx
    \/ \E k \in Keys : ViewRead(k) \/ ViewInitial(k)
    \/ \E k \in SlotKeys, v \in SlotValues : ViewWrite(k, v)
    \/ \E h \in CodeHashes : ViewDeploy(h)
    \/ ViewNonce
    \/ Commit
    \/ Discard

Next ==
    \/ Queries
    \/ VmRun
    \/ BalanceAndNonceMethods
    \/ CodeAndSlotMethods
    \/ SnapshotMethods

Spec == Init /\ [][Next]_vars

-----------------------------------------------------------------------------
(* Everything cached was read from the present fork point, also after a     *)
(* revert or a reset to another chain.                                      *)
CachesMatchFork ==
    /\ fork = NoFork => value_read_cache = << >> /\ factory_dep_cache = << >>
    /\ \A k \in DOMAIN value_read_cache : value_read_cache[k] = RemoteState[fork][k]
    /\ \A h \in DOMAIN factory_dep_cache : factory_dep_cache[h] = RemoteCode(h)

(* The code hash a reader finds in an account's code slot has its bytecode, *)
(* unless a client wrote that word there with hardhat_setStorageAt: set and *)
(* deployed code, code of the forked chain, before and after a revert, and  *)
(* also when the bytecode was asked for before it existed.  And eth_getCode *)
(* and zks_getBytecodeByHash always tell the same.                          *)
CodeAvailable ==
    /\ read_value(CodeKey) \notin EditedHashes \cup {0} => get_code # NoCode
    /\ get_bytecode_by_hash(read_value(CodeKey)) = get_code

NoncesForward ==
    /\ get_transaction_count' >= get_transaction_count
    /\ deployment_nonce(read_value(NonceKey)') >= deployment_nonce(read_value(NonceKey))

(* Neither nonce of an account ever goes down, unless a client edits their  *)
(* slot with hardhat_setStorageAt, and a slot that was written is never     *)
(* charged as a first write again, except when the history they belong to   *)
(* is given up by a revert or a reset.                                      *)
OnlyForward ==
    [][\/ /\ NoncesForward \/ \E v \in EditedNonces : set_storage_at(NonceKey, v)
          /\ \A k \in Keys : is_write_initial(k)' => is_write_initial(k)
       \/ \E i \in DOMAIN snapshots : revert_snapshot(i)
       \/ \E f \in Forks \cup {NoFork} : reset(f)
      ]_vars

-----------------------------------------------------------------------------
(* The refinement: readers cannot tell the storage from a key-value store   *)
(* over the words of the fork point.                                        *)

Underlying(f) == IF f = NoFork THEN [k \in Keys |-> 0] ELSE RemoteState[f]

Visible(st, f) ==
    [k \in Keys |-> IF k \in DOMAIN st /\ st[k] # 0 THEN st[k] ELSE Underlying(f)[k]]

(* What a reader is told. *)
Readings == [k \in Keys |-> IF k \in SlotKeys THEN get_balance(k) ELSE read_value(k)]

Abstract == INSTANCE KeyValueStore WITH
    NewStores <- {[base |-> Underlying(f), store |-> Visible(GenesisState, f)] :
                     f \in Forks \cup {NoFork}},
    base  <- Underlying(fork),
    store <- Readings,
    saved <- [i \in DOMAIN snapshots |-> Visible(snapshots[i].state, fork)]

(* Every write, commit, snapshot, revert and reset is one operation of the  *)
(* store.  Reads, queries, runs that are discarded and the filling of       *)
(* caches are invisible, and a commit shows what the run wrote and no more. *)
IsKeyValueStore ==
    /\ Abstract!Spec
    /\ [][/\ UNCHANGED << state, fork >> => UNCHANGED Readings
          /\ Commit => \A k \in Keys :
                Readings'[k] = IF k \notin DOMAIN view.modified THEN Readings[k]
                               ELSE IF view.modified[k] = 0 THEN Underlying(fork)[k]
                               ELSE view.modified[k]
         ]_vars
=============================================================================
