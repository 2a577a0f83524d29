------------------------------ MODULE NodeLocks ------------------------------
(***************************************************************************)
(* The locks of the node: inner and snapshots of InMemoryNode              *)
(* (src/src/node/in_memory.rs) and inner of ForkStorage (src/src/fork.rs), *)
(* three std::sync::RwLock.  A request is a program of lock operations and *)
(* of the steps under them that matter to other requests: what it does to  *)
(* the chain, the clock and the snapshots.                                 *)
(*                                                                         *)
(* The server runs requests on one thread (build_json_http in main.rs).    *)
(* The node is also a library, documented as "thread safe" and cloned into *)
(* every namespace, so it is looked at with several threads too.           *)
(***************************************************************************)
EXTENDS Naturals, Sequences, FiniteSets

CONSTANTS
    Threads,
    ShowGasDetails,    \* config.show_gas_details is All
    MAX_SNAPSHOTS,
    MaxBlocks,         \* bound of the model: identities of blocks
    MaxClock,          \* bound of the model: changes of the clock
    None

ASSUME LockAssumption == ShowGasDetails \in BOOLEAN /\ None \notin Threads

Locks == {"inner", "snapshots", "storage"}

(* The blocks a node may start from: fork points of the same number. *)
Bases == {0, 1}

VARIABLES
    parallel,      \* FALSE: the server, one request at a time
    request,       \* thread -> the request it runs, or None
    pc,            \* thread -> the next operation of its program
    readers,       \* lock -> thread -> its read guards
    writer,        \* lock -> the thread with the write guard, or None
    queued,        \* the threads that wait in write()
    poisoned,      \* the locks a panic poisoned
    chain, clock,  \* the blocks, by identity, and changes of the clock
    saved,         \* the snapshots, each with a chain and a clock
    made,          \* the identity of the last block made
    executed       \* thread -> the tip its transaction was executed on, and
                   \* whether the chain was exchanged since; or None

locks == << readers, writer, queued, poisoned >>
data == << chain, clock, saved, made, executed >>
vars == << parallel, request, pc, locks, data >>

-----------------------------------------------------------------------------
(* Programs.  A lock operation is << operation, lock >>, a step << name >>. *)

Read(l) == << << "read", l >> >>
Write(l) == << << "write", l >> >>
Drop(l) == << << "drop", l >> >>
Step(s) == << << s >> >>
Reading(l, body) == Read(l) \o body \o Drop(l)
Writing(l, body) == Write(l) \o body \o Drop(l)

(* Also a read of storage takes the write lock: it fills the cache. *)
Storage == Writing("storage", << >>)

query == Reading("inner", Reading("storage", << >>))
(* And whatever else reads or writes storage under the write lock. *)
run_l2_call == Writing("inner", Storage)
increase_time == Writing("inner", Step("shift"))

(* Faulty variant: storage is locked before the node. *)
MineStorageFirst == Writing("storage", Writing("inner", Step("mine")))

mine_blocks == Writing("inner", Storage \o Step("mine"))

(* Faulty variant: the limit is checked under a guard that lasts too long. *)
SnapshotUnderRead ==
    Writing("inner", Reading("snapshots", Step("limit")
                                          \o Reading("storage", << >>)
                                          \o Writing("snapshots", Step("save"))))

(* Check the limit, copy the node, and store the copy, under the node's     *)
(* lock all along.                                                          *)
snapshot ==
    Writing("inner", Reading("snapshots", Step("limit"))
                     \o Reading("storage", << >>)
                     \o Writing("snapshots", Step("save")))

revert_snapshot ==
    Writing("inner", Writing("snapshots", Step("choose")
                                          \o Writing("storage", Step("restore"))))

(* Where the fork comes from, three settings read one by one, the exchange, *)
(* and the rich accounts, here one.  The guard on the snapshots lasts to    *)
(* the end.                                                                 *)
reset_network ==
    Reading("inner", Reading("storage", << >>))
    \o Reading("inner", << >>) \o Reading("inner", << >>) \o Reading("inner", << >>)
    \o Writing("snapshots", Step("clear")
                            \o Writing("inner", Step("exchange"))
                            \o Writing("inner", Storage))

(* Reads inner once more, under the guard of run_l2_tx_raw. *)
display_detailed_gas_info == IF ShowGasDetails THEN Reading("inner", << >>) ELSE << >>

run_l2_tx_raw ==
    Reading("inner", Storage \o display_detailed_gas_info \o Step("execute"))

(* Validate, tell the filters, execute, and only then lock and commit. *)
run_l2_tx ==
    Reading("inner", << >>)
    \o Writing("inner", << >>)
    \o run_l2_tx_raw
    \o Step("halt")
    \o Writing("inner", Storage \o Step("commit") \o Reading("storage", << >>))

(* The chain id first, which decoding the transaction needs. *)
send_raw_transaction == Reading("inner", << >>) \o run_l2_tx

Programs ==
    [query |-> query, run_l2_call |-> run_l2_call,
     increase_time |-> increase_time, mine_blocks |-> mine_blocks,
     snapshot |-> snapshot, revert_snapshot |-> revert_snapshot,
     reset_network |-> reset_network, send_raw_transaction |-> send_raw_transaction]

ASSUME NoneAssumption ==
    None \notin DOMAIN Programs
            \cup [tip : [chain : Seq(Nat), clock : Nat], rewound : BOOLEAN]

Idle(t) == request[t] = None
Operation(t) == Programs[request[t]][pc[t]]
At(t, operation) == ~Idle(t) /\ Operation(t)[1] = operation
Wants(t, operation, l) == ~Idle(t) /\ Operation(t) = << operation, l >>

-----------------------------------------------------------------------------
(* std::sync::RwLock: a reader does not overtake a writer that waits.       *)
Readable(l) == writer[l] = None /\ \A u \in queued : ~Wants(u, "write", l)
Writable(l) == writer[l] = None /\ \A u \in Threads : readers[l][u] = 0

Init ==
    /\ parallel \in BOOLEAN
    /\ request = [t \in Threads |-> None]
    /\ pc = [t \in Threads |-> 1]
    /\ readers = [l \in Locks |-> [t \in Threads |-> 0]]
    /\ writer = [l \in Locks |-> None]
    /\ queued = {}
    /\ poisoned = {}
    /\ chain = << 0 >> /\ clock = 0 /\ saved = << >> /\ made = 1
    /\ executed = [t \in Threads |-> None]

Advance(t) ==
    IF pc[t] = Len(Programs[request[t]])
    THEN request' = [request EXCEPT ![t] = None] /\ pc' = [pc EXCEPT ![t] = 1]
    ELSE pc' = [pc EXCEPT ![t] = pc[t] + 1] /\ UNCHANGED request

(* Return with an error, or unwind: all guards are dropped.                 *)
Leave(t) ==
    /\ request' = [request EXCEPT ![t] = None]
    /\ pc' = [pc EXCEPT ![t] = 1]
    /\ readers' = [l \in Locks |-> [readers[l] EXCEPT ![t] = 0]]
    /\ writer' = [l \in Locks |-> IF writer[l] = t THEN None ELSE writer[l]]
    /\ queued' = queued \ {t}

Accept(t, r) ==
    /\ Idle(t)
    /\ parallel \/ \A u \in Threads : Idle(u)
    /\ r \in {"send_raw_transaction", "mine_blocks"} => made < MaxBlocks
    /\ r = "increase_time" => clock < MaxClock
    /\ request' = [request EXCEPT ![t] = r]
    /\ UNCHANGED << parallel, pc, locks, data >>

(* A poisoned lock is given out as an error. *)
TakeRead(t, l) ==
    /\ Wants(t, "read", l) /\ Readable(l)
    /\ IF l \in poisoned THEN Leave(t)
       ELSE /\ readers' = [readers EXCEPT ![l][t] = @ + 1]
            /\ Advance(t)
            /\ UNCHANGED << writer, queued >>
    /\ UNCHANGED << parallel, poisoned, data >>

TakeWrite(t, l) ==
    /\ Wants(t, "write", l) /\ Writable(l)
    /\ IF l \in poisoned THEN Leave(t)
       ELSE /\ writer' = [writer EXCEPT ![l] = t]
            /\ queued' = queued \ {t}
            /\ Advance(t)
            /\ UNCHANGED readers
    /\ UNCHANGED << parallel, poisoned, data >>

Wait(t, l) ==
    /\ Wants(t, "write", l) /\ ~Writable(l) /\ t \notin queued
    /\ queued' = queued \cup {t}
    /\ UNCHANGED << parallel, request, pc, readers, writer, poisoned, data >>

DropGuard(t, l) ==
    /\ Wants(t, "drop", l)
    /\ IF writer[l] = t THEN writer' = [writer EXCEPT ![l] = None] /\ UNCHANGED readers
       ELSE readers' = [readers EXCEPT ![l][t] = @ - 1] /\ UNCHANGED writer
    /\ Advance(t)
    /\ UNCHANGED << parallel, queued, poisoned, data >>

-----------------------------------------------------------------------------
(* Panics.  The locks that are unwound through for writing are poisoned; a  *)
(* read of storage has given up its own by then.  What the handler changed  *)
(* before, nobody reads any more.                                           *)
Panics(t) ==
    /\ poisoned' = poisoned \cup {l \in Locks \ {"storage"} : writer[l] = t}
    /\ Leave(t)
    /\ executed' = [executed EXCEPT ![t] = None]
    /\ UNCHANGED << parallel, chain, clock, saved, made >>

(* What is not stored locally is read from the forked chain, and a request  *)
(* to it may fail: ForkStorage::read_value unwraps the error.               *)
ReadFails(t) ==
    /\ Wants(t, "drop", "storage") /\ writer["storage"] = t
    /\ request[t] # "revert_snapshot"
    /\ Panics(t)

-----------------------------------------------------------------------------
(* The steps under the locks.                                               *)

Tip == [chain |-> chain, clock |-> clock]
Exchanged == [t \in Threads |-> IF executed[t] = None THEN None
                                ELSE [executed[t] EXCEPT !.rewound = TRUE]]

Execute(t) ==
    /\ At(t, "execute")
    /\ executed' = [executed EXCEPT ![t] = [tip |-> Tip, rewound |-> FALSE]]
    /\ Advance(t)
    /\ UNCHANGED << parallel, locks, chain, clock, saved, made >>

(* A transaction that halts is not committed. *)
Halt(t) ==
    /\ At(t, "halt")
    /\ \/ Leave(t) /\ executed' = [executed EXCEPT ![t] = None]
       \/ Advance(t) /\ UNCHANGED << readers, writer, queued, executed >>
    /\ UNCHANGED << parallel, poisoned, chain, clock, saved, made >>

(* Faulty variant: the number of the block is not compared. *)
SameClock(t) == clock = executed[t].tip.clock

(* The commit loop compares batch, number and timestamp of the block that   *)
(* was made, which follow from the tip it was made on and from the words of *)
(* storage, with what the node expects.                                     *)
TipAsExpected(t) ==
    /\ Len(chain) = Len(executed[t].tip.chain)
    /\ clock = executed[t].tip.clock

Commit(t) ==
    /\ At(t, "commit")
    /\ TipAsExpected(t)
    /\ chain' = Append(chain, made + 1)
    /\ made' = made + 1
    /\ executed' = [executed EXCEPT ![t] = None]
    /\ Advance(t)
    /\ UNCHANGED << parallel, locks, clock, saved >>

(* It panics if the tip is another one, and if the words of storage differ  *)
(* from the node's numbers, which they may for any tip (InMemoryNode says   *)
(* when).                                                                   *)
CommitPanics(t) == At(t, "commit") /\ Panics(t)

Mine(t) ==
    /\ At(t, "mine")
    /\ chain' = Append(chain, made + 1)
    /\ made' = made + 1
    /\ Advance(t)
    /\ UNCHANGED << parallel, locks, clock, saved, executed >>

Shift(t) ==
    /\ At(t, "shift")
    /\ clock' = clock + 1
    /\ Advance(t)
    /\ UNCHANGED << parallel, locks, chain, saved, made, executed >>

CheckLimit(t) ==
    /\ At(t, "limit")
    /\ IF Len(saved) < MAX_SNAPSHOTS
       THEN Advance(t) /\ UNCHANGED << readers, writer, queued >>
       ELSE Leave(t)
    /\ UNCHANGED << parallel, poisoned, data >>

Save(t) ==
    /\ At(t, "save")
    /\ saved' = Append(saved, Tip)
    /\ Advance(t)
    /\ UNCHANGED << parallel, locks, chain, clock, made, executed >>

Choose(t) ==
    /\ At(t, "choose")
    /\ IF saved # << >>
       THEN Advance(t) /\ UNCHANGED << readers, writer, queued >>
       ELSE Leave(t)
    /\ UNCHANGED << parallel, poisoned, data >>

Restore(t) ==
    /\ At(t, "restore")
    /\ \E id \in DOMAIN saved :
          /\ chain' = saved[id].chain /\ clock' = saved[id].clock
          /\ saved' = SubSeq(saved, 1, id - 1)
    /\ executed' = Exchanged
    /\ Advance(t)
    /\ UNCHANGED << parallel, locks, made >>

Clear(t) ==
    /\ At(t, "clear")
    /\ saved' = << >>
    /\ Advance(t)
    /\ UNCHANGED << parallel, locks, chain, clock, made, executed >>

Exchange(t) ==
    /\ At(t, "exchange")
    /\ \E base \in Bases : chain' = << base >>
    /\ clock' = 0
    /\ executed' = Exchanged
    /\ Advance(t)
    /\ UNCHANGED << parallel, locks, saved, made >>

Run(t) ==
    \/ \E l \in Locks : TakeRead(t, l) \/ TakeWrite(t, l) \/ Wait(t, l) \/ DropGuard(t, l)
    \/ Execute(t) \/ Halt(t) \/ Commit(t) \/ Mine(t) \/ Shift(t)
    \/ CommitPanics(t) \/ ReadFails(t)
    \/ CheckLimit(t) \/ Save(t) \/ Choose(t) \/ Restore(t) \/ Clear(t) \/ Exchange(t)

Next == \E t \in Threads : Run(t) \/ \E r \in DOMAIN Programs : Accept(t, r)

(* A thread that can go on does: the operating system schedules it. *)
Spec == Init /\ [][Next]_vars /\ \A t \in Threads : WF_vars(Run(t))

-----------------------------------------------------------------------------
(* On the server, with its one thread, every request ends: no request locks *)
(* what it holds already in a way that blocks, whatever it finds.           *)
EveryRequestEnds == \A t \in Threads : ~parallel /\ ~Idle(t) ~> Idle(t)

Blocked(t) ==
    \E l \in Locks : \/ Wants(t, "read", l) /\ ~Readable(l)
                     \/ Wants(t, "write", l) /\ ~Writable(l)
AllStuck == /\ \E t \in Threads : ~Idle(t)
            /\ \A t \in Threads : ~Idle(t) => Blocked(t)

(* reset_network locks the snapshots and then the node, snapshot and        *)
(* revert_snapshot the other way round.                                     *)
ResetAgainstSnapshots ==
    \E t, u \in Threads :
        /\ request[t] = "reset_network" /\ writer["snapshots"] = t
        /\ Wants(t, "write", "inner")
        /\ request[u] \in {"snapshot", "revert_snapshot"} /\ writer["inner"] = u
        /\ Wants(u, "read", "snapshots") \/ Wants(u, "write", "snapshots")

(* A second read of inner under the first, with a writer in between. *)
ReadTwice ==
    \E t, u \in Threads :
        /\ request[t] = "send_raw_transaction" /\ readers["inner"][t] = 1
        /\ Wants(t, "read", "inner")
        /\ u \in queued /\ Wants(u, "write", "inner")

(* With several threads there are two ways to wait for each other for ever, *)
(* and no third; the second needs the gas details to be shown.              *)
StuckCauses ==
    AllStuck => /\ parallel
                /\ ResetAgainstSnapshots \/ (ShowGasDetails /\ ReadTwice)

(* A transaction is executed under a guard that is given up before it is    *)
(* committed.  The comparison in the commit loop makes up for it: what goes *)
(* through is committed on the chain it was executed on, unless a revert or *)
(* a reset came between the two.  And after a panic that poisoned the       *)
(* node's lock, no request that is on its way moves the chain or the clock. *)
CommitsWhereExecuted ==
    [][/\ \A t \in Threads :
             At(t, "commit") /\ chain' # chain =>
                 executed[t].tip.chain = chain \/ executed[t].rewound
       /\ "inner" \in poisoned => UNCHANGED << chain, clock >>]_vars
=============================================================================
