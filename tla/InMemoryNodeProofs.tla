------------------------- MODULE InMemoryNodeProofs -------------------------
(***************************************************************************)
(* Proofs about InMemoryNode, for every set of transactions, slots, fork   *)
(* points and request arguments, and for every limit: types, the agreement *)
(* of the tips, the chain the maps describe, panics and timestamps.        *)
(***************************************************************************)
EXTENDS InMemoryNode, SequenceTheorems, TLAPS

USE DEF NON_FORK_FIRST_BLOCK_TIMESTAMP

-----------------------------------------------------------------------------
(* Maps, sequences and hashes. *)

(* Insert binds one more key and leaves the others alone. *)
LEMMA InsertFacts ==
    ASSUME NEW m, NEW k, NEW v
    PROVE  /\ DOMAIN Insert(m, k, v) = DOMAIN m \cup {k}
           /\ Insert(m, k, v)[k] = v
           /\ \A x \in DOMAIN m : x # k => Insert(m, k, v)[x] = m[x]
    BY DEF Insert

(* Insert keeps a map's keys and values within their types. *)
LEMMA InsertType ==
    ASSUME NEW K, NEW V, NEW m, NEW k \in K, NEW v \in V,
           DOMAIN m \subseteq K, \A x \in DOMAIN m : m[x] \in V
    PROVE  /\ DOMAIN Insert(m, k, v) \subseteq K
           /\ \A x \in DOMAIN Insert(m, k, v) : Insert(m, k, v)[x] \in V
    BY DEF Insert

(* The empty map, and what inserting into it yields. *)
LEMMA SingletonFacts ==
    ASSUME NEW k, NEW v
    PROVE  /\ DOMAIN << >> = {}
           /\ DOMAIN Insert(<< >>, k, v) = {k}
           /\ Insert(<< >>, k, v)[k] = v
    BY DEF Insert

(* compute_hash yields a hash. *)
LEMMA HashType ==
    ASSUME NEW n \in Nat, NEW t \in Txs \cup {NoTx, RemoteTx}
    PROVE  compute_hash(n, t) \in Hash
    BY DEF compute_hash, Hash

(* A list of snapshots is a sequence of the snapshots in it. *)
IsList(s) == s \in Seq({s[i] : i \in DOMAIN s})

(* A sequence of states is a list of the states it holds. *)
LEMMA SeqIsList ==
    ASSUME NEW S, NEW s \in Seq(S)
    PROVE  IsList(s)
<1> DEFINE R == {s[i] : i \in DOMAIN s}
<1>1. Len(s) \in Nat /\ DOMAIN s = 1 .. Len(s) /\ s \in [1 .. Len(s) -> S]
  BY LenProperties
<1>2. \A i \in 1 .. Len(s) : s[i] \in R
  BY <1>1
<1>3. SubSeq(s, 1, Len(s)) \in Seq(R)
  BY <1>1, <1>2, SubSeqProperties
<1>4. SubSeq(s, 1, Len(s)) = s
  BY SubSeqFull
<1> QED BY <1>3, <1>4 DEF IsList

(* Appending e to a list, and cutting one off. *)
LEMMA ListAppend ==
    ASSUME NEW s, IsList(s), NEW e
    PROVE  /\ IsList(Append(s, e))
           /\ \A i \in DOMAIN Append(s, e) :
                 Append(s, e)[i] = e \/ (i \in DOMAIN s /\ Append(s, e)[i] = s[i])
<1> DEFINE R == {s[i] : i \in DOMAIN s}
<1>1. s \in Seq(R \cup {e})
  <2>1. s \in Seq(R)
    BY DEF IsList
  <2> QED BY <2>1, SeqMonotonic
<1>2. Append(s, e) \in Seq(R \cup {e})
  BY <1>1
<1> HIDE DEF R
<1>3. DOMAIN s = 1 .. Len(s) /\ Len(s) \in Nat
  BY <1>1, LenProperties
<1>4. DOMAIN Append(s, e) = 1 .. Len(s) + 1
  BY <1>1
<1>5. \A i \in 1 .. Len(s) + 1 : Append(s, e)[i] = IF i <= Len(s) THEN s[i] ELSE e
  BY <1>1
<1>6. \A i \in DOMAIN Append(s, e) :
         Append(s, e)[i] = e \/ (i \in DOMAIN s /\ Append(s, e)[i] = s[i])
  BY <1>3, <1>4, <1>5
<1>7. IsList(Append(s, e))
  BY <1>2, SeqIsList
<1> QED BY <1>6, <1>7

(* Cutting a list of snapshots before an index, as revert_snapshot does. *)
LEMMA ListCut ==
    ASSUME NEW s, IsList(s), NEW n \in Nat, n <= Len(s)
    PROVE  /\ IsList(SubSeq(s, 1, n))
           /\ \A i \in DOMAIN SubSeq(s, 1, n) :
                 i \in DOMAIN s /\ SubSeq(s, 1, n)[i] = s[i]
<1> DEFINE R == {s[i] : i \in DOMAIN s}
<1>1. s \in Seq(R)
  BY DEF IsList
<1>2. DOMAIN s = 1 .. Len(s) /\ Len(s) \in Nat
  BY <1>1, LenProperties
<1>3. \A i \in 1 .. n : s[i] \in R
  BY <1>2
<1> HIDE DEF R
<1>4. /\ SubSeq(s, 1, n) \in Seq(R)
      /\ Len(SubSeq(s, 1, n)) = IF 1 <= n THEN n - 1 + 1 ELSE 0
      /\ \A i \in 1 .. n - 1 + 1 : SubSeq(s, 1, n)[i] = s[1 + i - 1]
  BY <1>3, SubSeqProperties
<1>5. DOMAIN SubSeq(s, 1, n) = 1 .. n
  BY <1>4, LenProperties
<1>6. \A i \in 1 .. n : SubSeq(s, 1, n)[i] = s[i]
  BY <1>4
<1>7. IsList(SubSeq(s, 1, n))
  BY <1>4, SeqIsList
<1> QED BY <1>2, <1>5, <1>6, <1>7

-----------------------------------------------------------------------------
(* archive_state keeps the archive well typed and, whatever it is given, no *)
(* longer than one more than the limit.                                     *)
LEMMA ArchiveFacts ==
    ASSUME NEW ps \in Archive, NEW h \in Hash, NEW slots \in [Keys -> Values]
    PROVE  /\ archive_state(ps, h, slots) \in Archive
           /\ Len(ps) <= MAX_PREVIOUS_STATES + 1
                => Len(archive_state(ps, h, slots)) <= MAX_PREVIOUS_STATES + 1
<1> DEFINE E  == [hash : Hash, slots : [Keys -> Values]]
           e  == [hash |-> h, slots |-> slots]
           qs == IF Len(ps) > MAX_PREVIOUS_STATES THEN Tail(ps) ELSE ps
<1>1. e \in E
  OBVIOUS
<1>2. MAX_PREVIOUS_STATES \in Nat
  BY LimitAssumption
<1>3. ps \in Seq(E) /\ Len(ps) \in Nat
  BY DEF Archive
<1>4. qs \in Seq(E) /\ (Len(ps) <= MAX_PREVIOUS_STATES + 1 => Len(qs) <= MAX_PREVIOUS_STATES)
  <2>1. CASE Len(ps) > MAX_PREVIOUS_STATES
    <3>1. ps # << >>
      BY <1>2, <1>3, <2>1
    <3>2. Tail(ps) \in Seq(E) /\ Len(Tail(ps)) = Len(ps) - 1
      BY <1>3, <3>1, HeadTailProperties
    <3> QED BY <1>2, <1>3, <2>1, <3>2
  <2>2. CASE ~ (Len(ps) > MAX_PREVIOUS_STATES)
    BY <1>2, <1>3, <2>2
  <2> QED BY <2>1, <2>2
<1> HIDE DEF E, e, qs
<1>5. Len(qs) \in Nat /\ DOMAIN qs = 1 .. Len(qs) /\ \A i \in DOMAIN qs : qs[i] \in E
  BY <1>4, LenProperties, ElementOfSeq
<1>6. ArchiveInsert(qs, h, slots) \in Seq(E)
      /\ Len(ArchiveInsert(qs, h, slots)) <= Len(qs) + 1
  <2>1. CASE h \in ArchivedHashes(qs)
    <3> DEFINE rs == [i \in 1 .. Len(qs) |-> IF qs[i].hash = h THEN e ELSE qs[i]]
    <3>1. ArchiveInsert(qs, h, slots) = rs
      BY <1>5, <2>1 DEF ArchiveInsert, e
    <3>2. rs \in [1 .. Len(qs) -> E]
      BY <1>1, <1>5
    <3> HIDE DEF rs
    <3>3. rs \in Seq(E) /\ Len(rs) = Len(qs)
      BY <1>5, <3>2
    <3> QED BY <1>5, <3>1, <3>3
  <2>2. CASE h \notin ArchivedHashes(qs)
    <3>1. ArchiveInsert(qs, h, slots) = Append(qs, e)
      BY <2>2 DEF ArchiveInsert, e
    <3>2. Append(qs, e) \in Seq(E) /\ Len(Append(qs, e)) = Len(qs) + 1
      BY <1>1, <1>4
    <3> QED BY <1>5, <3>1, <3>2
  <2> QED BY <2>1, <2>2
<1>7. archive_state(ps, h, slots) = ArchiveInsert(qs, h, slots)
  BY DEF archive_state, qs
<1>8. Len(ArchiveInsert(qs, h, slots)) \in Nat
  BY <1>6, LenProperties
<1> QED BY <1>2, <1>3, <1>4, <1>5, <1>6, <1>7, <1>8 DEF Archive, E

-----------------------------------------------------------------------------
(* The state of a new node, local or forked, has the right type, its archive *)
(* is empty and its counters agree with what it reads from storage.          *)
LEMMA NewOK ==
    ASSUME NEW f \in Forks \cup {NoFork}
    PROVE  /\ StateTypeOK(new(f))
           /\ Len(new(f).previous_states) = 0
           /\ TipsAgreeIn(new(f), f)
<1>1. GenesisSlots \in [Keys -> Values]
  BY SlotAssumption
<1> DEFINE rs == [l1 |-> NoInfo, l2 |-> NoInfo, slots |-> GenesisSlots]
<1>2. rs \in RawStorage
  BY <1>1 DEF RawStorage, Info, NoInfo
<1>3. << >> \in Archive /\ Len(<< >>) = 0
  BY DEF Archive
<1> SUFFICES ASSUME NEW s, s = new(f)
             PROVE  /\ StateTypeOK(s)
                    /\ Len(s.previous_states) = 0
                    /\ TipsAgreeIn(s, f)
  OBVIOUS
<1>4. \E n \in Nat, h \in Hash :
        /\ s.current_miniblock = n
        /\ s.current_miniblock_hash = h
        /\ s.tx_results = << >>
        /\ s.block_hashes = Insert(<< >>, n, h)
        /\ \E b : s.blocks = Insert(<< >>, h, b)
        /\ s.raw_storage = rs
        /\ s.previous_states = << >>
  <2>1. CASE f = NoFork
    <3> DEFINE h == compute_hash(0, NoTx)
               b == create_empty_block([batch |-> 0, miniblock |-> 0, timestamp |-> 1000])
    <3>1. h \in Hash
      BY HashType
    <3>2. /\ s.current_miniblock = 0
          /\ s.current_miniblock_hash = h
          /\ s.tx_results = << >>
          /\ s.block_hashes = Insert(<< >>, 0, h)
          /\ s.blocks = Insert(<< >>, h, b)
          /\ s.raw_storage = rs
          /\ s.previous_states = << >>
      BY <2>1 DEF new, NewLocal, create_empty_block, EmptyBlock
    <3> HIDE DEF h, b, rs
    <3> QED BY <3>1, <3>2
  <2>2. CASE f # NoFork
    <3> DEFINE h == compute_hash(f.number, RemoteTx)
               b == RemoteBlock(f)
    <3>1. f.number \in Nat
      BY <2>2, ForkAssumption DEF ForkPoint
    <3>2. h \in Hash
      BY <3>1, HashType
    <3>3. /\ s.current_miniblock = f.number
          /\ s.current_miniblock_hash = h
          /\ s.tx_results = << >>
          /\ s.block_hashes = Insert(<< >>, f.number, h)
          /\ s.blocks = Insert(<< >>, h, b)
          /\ s.raw_storage = rs
          /\ s.previous_states = << >>
      BY <2>2 DEF new, NewForked, RemoteBlock
    <3> HIDE DEF h, b, rs
    <3> QED BY <3>1, <3>2, <3>3
  <2> QED BY <2>1, <2>2
<1>5. s.current_timestamp \in Nat /\ s.current_batch \in Nat
  <2>1. CASE f = NoFork
    BY <2>1 DEF new, NewLocal, create_empty_block, EmptyBlock
  <2>2. CASE f # NoFork
    BY <2>2, ForkAssumption DEF new, NewForked, ForkPoint
  <2> QED BY <2>1, <2>2
<1>6. StateTypeOK(s) /\ Len(s.previous_states) = 0
  <2> HIDE DEF rs
  <2>1. PICK n \in Nat, h \in Hash :
        /\ s.current_miniblock = n
        /\ s.current_miniblock_hash = h
        /\ s.tx_results = << >>
        /\ s.block_hashes = Insert(<< >>, n, h)
        /\ \E b : s.blocks = Insert(<< >>, h, b)
        /\ s.raw_storage = rs
        /\ s.previous_states = << >>
    BY <1>4
  <2>2. DOMAIN s.tx_results = {}
    BY <2>1, SingletonFacts
  <2>3. DOMAIN s.block_hashes = {n} /\ s.block_hashes[n] = h
    <3>1. DOMAIN Insert(<< >>, n, h) = {n} /\ Insert(<< >>, n, h)[n] = h
      BY SingletonFacts
    <3>2. s.block_hashes = Insert(<< >>, n, h)
      BY <2>1
    <3> QED BY <3>1, <3>2, Zenon
  <2>4. DOMAIN s.blocks = {h}
    <3>1. PICK b : s.blocks = Insert(<< >>, h, b)
      BY <2>1
    <3>2. DOMAIN Insert(<< >>, h, b) = {h}
      BY SingletonFacts
    <3> QED BY <3>1, <3>2, Zenon
  <2>5. s.raw_storage \in RawStorage /\ s.previous_states \in Archive
    BY <1>2, <1>3, <2>1
  <2>6. Len(s.previous_states) = 0
    BY <1>3, <2>1
  <2>7. s.current_miniblock \in Nat /\ s.current_miniblock_hash \in Hash
    BY <2>1
  <2>8. DOMAIN s.block_hashes \subseteq Nat
        /\ \A x \in DOMAIN s.block_hashes : s.block_hashes[x] \in Hash
    BY <2>3
  <2>9. StateTypeOK(s)
    BY <1>5, <2>2, <2>4, <2>5, <2>7, <2>8 DEF StateTypeOK
  <2> QED BY <2>6, <2>9
<1>7. TipsAgreeIn(s, f)
  <2>1. CASE f = NoFork
    BY <2>1 DEF new, NewLocal, TipsAgreeIn, load_last_l1_batch, load_last_l2_block,
                ReadL1, ReadL2, NoInfo, create_empty_block, EmptyBlock
  <2>2. CASE f # NoFork
    <3>1. /\ f.l1_timestamp <= f.timestamp /\ f.number \in Nat /\ f.batch \in Nat
          /\ f.timestamp \in Nat /\ f.l1_timestamp \in Nat
      BY <2>2, ForkAssumption DEF ForkPoint
    <3> QED BY <2>2, <3>1
       DEF new, NewForked, TipsAgreeIn, load_last_l1_batch, load_last_l2_block,
           ReadL1, ReadL2, NoInfo, RemoteBlock
  <2> QED BY <2>1, <2>2
<1> QED BY <1>6, <1>7

-----------------------------------------------------------------------------
(* The next batch. *)

BlockCtx == [batch : Nat, miniblock : Nat, timestamp : Nat]

(* What load_last_l1_batch and load_last_l2_block return. *)
LEMMA LoadType ==
    ASSUME NEW s, StateTypeOK(s), NEW f \in Forks \cup {NoFork}
    PROVE  load_last_l1_batch(s, f) \in Info /\ load_last_l2_block(s, f) \in Info
<1>1. s.raw_storage.l1 \in Info /\ s.raw_storage.l2 \in Info
  BY DEF StateTypeOK, RawStorage
<1>2. ReadL1(s.raw_storage, f) \in Info /\ ReadL2(s.raw_storage, f) \in Info
  <2>1. CASE f = NoFork
    BY <1>1, <2>1 DEF ReadL1, ReadL2
  <2>2. CASE f # NoFork
    <3>1. f \in ForkPoint
      BY <2>2, ForkAssumption
    <3> QED BY <1>1, <3>1 DEF ReadL1, ReadL2, ForkPoint, Info
  <2> QED BY <2>1, <2>2
<1> QED BY <1>2 DEF load_last_l1_batch, load_last_l2_block, StateTypeOK, Info

(* create_l1_batch_env names a batch, a block and a time, the time later    *)
(* than the clock.                                                          *)
LEMMA EnvType ==
    ASSUME TypeOK
    PROVE  /\ create_l1_batch_env \in BlockCtx
           /\ create_l1_batch_env.timestamp > current_timestamp
           /\ create_l1_batch_env.batch > 0
           /\ create_l1_batch_env.miniblock > 0
<1> DEFINE l1 == load_last_l1_batch(snapshot, fork)
           l2 == load_last_l2_block(snapshot, fork)
<1>1. l1 \in Info /\ l2 \in Info
  BY LoadType DEF TypeOK
<1>2. current_timestamp \in Nat
  BY DEF TypeOK, StateTypeOK, snapshot
<1>3. create_l1_batch_env =
        [batch |-> l1.number + 1, miniblock |-> l2.number + 1,
         timestamp |-> MaxOf(MaxOf(l1.timestamp, l2.timestamp), current_timestamp) + 1]
  BY DEF create_l1_batch_env
<1> HIDE DEF l1, l2
<1> QED BY <1>1, <1>2, <1>3 DEF Info, BlockCtx, MaxOf

(* While the tips agree it is the batch, the block and the time right after *)
(* the counters: what the commit loop of run_l2_tx expects.                 *)
LEMMA EnvFollowsTips ==
    ASSUME TypeOK, TipsAgreeIn(snapshot, fork)
    PROVE  create_l1_batch_env =
             [batch |-> current_batch + 1, miniblock |-> current_miniblock + 1,
              timestamp |-> current_timestamp + 1]
<1> DEFINE l1 == load_last_l1_batch(snapshot, fork)
           l2 == load_last_l2_block(snapshot, fork)
<1>1. l1 \in Info /\ l2 \in Info
  BY LoadType DEF TypeOK
<1>2. current_timestamp \in Nat
  BY DEF TypeOK, StateTypeOK, snapshot
<1>3. create_l1_batch_env =
        [batch |-> l1.number + 1, miniblock |-> l2.number + 1,
         timestamp |-> MaxOf(MaxOf(l1.timestamp, l2.timestamp), current_timestamp) + 1]
  BY DEF create_l1_batch_env
<1>4. /\ l1.number = current_batch /\ l2.number = current_miniblock
      /\ l1.timestamp <= current_timestamp /\ l2.timestamp <= current_timestamp
  BY DEF TipsAgreeIn, snapshot
<1> HIDE DEF l1, l2
<1> QED BY <1>1, <1>2, <1>3, <1>4 DEF Info, MaxOf

-----------------------------------------------------------------------------
(* Type correctness. *)

(* The types of the node's own variables: StateTypeOK of its snapshot. *)
NodeTypeOK ==
    /\ current_timestamp \in Nat
    /\ current_batch \in Nat
    /\ current_miniblock \in Nat
    /\ current_miniblock_hash \in Hash
    /\ raw_storage \in RawStorage
    /\ previous_states \in Archive
    /\ DOMAIN tx_results \subseteq Txs
    /\ DOMAIN block_hashes \subseteq Nat
    /\ \A n \in DOMAIN block_hashes : block_hashes[n] \in Hash
    /\ DOMAIN blocks \subseteq Hash

RestTypeOK ==
    /\ IsList(snapshots)
    /\ \A i \in DOMAIN snapshots : StateTypeOK(snapshots[i])
    /\ fork \in Forks \cup {NoFork}
    /\ mining \in [left : Nat, interval : Nat]
    /\ poisoned \in BOOLEAN

(* The type invariant splits into the node's own state and the rest. *)
LEMMA TypeSplit == TypeOK <=> NodeTypeOK /\ RestTypeOK
  BY DEF TypeOK, NodeTypeOK, RestTypeOK, StateTypeOK, snapshot, IsList

(* The same after a step. *)
LEMMA TypeSplitPrimed == TypeOK' <=> NodeTypeOK' /\ RestTypeOK'
  BY DEF TypeOK, NodeTypeOK, RestTypeOK, StateTypeOK, snapshot, IsList

(* A well-typed state may take the node's place. *)
LEMMA BecomeType ==
    ASSUME NEW s, StateTypeOK(s), Become(s)
    PROVE  NodeTypeOK'
  BY DEF StateTypeOK, Become, NodeTypeOK

(* The slots after a transaction's writes. *)
LEMMA ApplyType ==
    ASSUME NEW slots \in [Keys -> Values], NEW w \in Writes
    PROVE  Apply(slots, w) \in [Keys -> Values]
  BY SlotAssumption DEF Apply

(* Executing a batch leaves well-typed words in the system context. *)
LEMMA SystemContextType ==
    ASSUME NEW ctx \in BlockCtx, NEW last \in BlockCtx, NEW slots \in [Keys -> Values]
    PROVE  [l1 |-> SystemContext(ctx, last).l1, l2 |-> SystemContext(ctx, last).l2,
            slots |-> slots] \in RawStorage
  BY DEF SystemContext, BlockCtx, RawStorage, Info

(* new_block moves to the next block of the same batch, one second later. *)
LEMMA NewBlockFacts ==
    ASSUME NEW ctx \in BlockCtx
    PROVE  /\ new_block(ctx) \in BlockCtx
           /\ new_block(ctx).batch = ctx.batch
           /\ new_block(ctx).miniblock = ctx.miniblock + 1
           /\ new_block(ctx).timestamp = ctx.timestamp + 1
  BY DEF new_block, BlockCtx

(* The commit of run_l2_tx keeps the node's state well typed. *)
LEMMA CommitTxType ==
    ASSUME TypeOK, NEW t \in Txs, NEW w \in Writes,
           CommitTx(t, w)
    PROVE  NodeTypeOK' /\ UNCHANGED << fork, snapshots, mining, poisoned >>
<1> DEFINE ctx   == create_l1_batch_env
           block == TxBlock(t, ctx)
           last  == EmptyBlock(new_block(ctx), block.hash)
           slots == Apply(raw_storage.slots, w)
<1>1. NodeTypeOK
  BY TypeSplit
<1>2. ctx \in BlockCtx /\ new_block(ctx) \in BlockCtx
  <2>1. ctx \in BlockCtx
    BY EnvType
  <2> HIDE DEF ctx
  <2> QED BY <2>1, NewBlockFacts
<1>3. block.hash \in Hash /\ block.number \in Nat
  BY <1>2, HashType DEF TxBlock, BlockCtx
<1>4. last.hash \in Hash /\ last.number \in Nat
  BY <1>2, HashType DEF EmptyBlock, BlockCtx
<1>5. slots \in [Keys -> Values]
  BY <1>1, ApplyType DEF NodeTypeOK, RawStorage
<1>6. /\ raw_storage' = [l1 |-> SystemContext(ctx, new_block(ctx)).l1,
                         l2 |-> SystemContext(ctx, new_block(ctx)).l2,
                         slots |-> slots]
      /\ \E r : tx_results' = Insert(tx_results, t, r)
      /\ previous_states' =
            archive_state(archive_state(previous_states, current_miniblock_hash, slots),
                          block.hash, slots)
      /\ current_batch' = current_batch + 1
      /\ current_miniblock' = current_miniblock + 2
      /\ current_timestamp' = current_timestamp + 2
      /\ current_miniblock_hash' = last.hash
      /\ block_hashes' = Insert(Insert(block_hashes, block.number, block.hash),
                                last.number, last.hash)
      /\ blocks' = Insert(Insert(blocks, block.hash, block), last.hash, last)
      /\ UNCHANGED << fork, snapshots, mining, poisoned >>
  BY Zenon DEF CommitTx
<1> HIDE DEF ctx, block, last, slots
<1>7. raw_storage' \in RawStorage
  BY <1>2, <1>5, <1>6, SystemContextType
<1>8. previous_states' \in Archive
  <2>1. archive_state(previous_states, current_miniblock_hash, slots) \in Archive
    BY <1>1, <1>5, ArchiveFacts DEF NodeTypeOK
  <2> QED BY <1>3, <1>5, <1>6, <2>1, ArchiveFacts
<1>9. DOMAIN tx_results' \subseteq Txs
  <2>1. PICK r : tx_results' = Insert(tx_results, t, r)
    BY <1>6
  <2>2. DOMAIN Insert(tx_results, t, r) = DOMAIN tx_results \cup {t}
    BY InsertFacts
  <2> QED BY <1>1, <2>1, <2>2 DEF NodeTypeOK
<1>10. /\ DOMAIN block_hashes' \subseteq Nat
       /\ \A n \in DOMAIN block_hashes' : block_hashes'[n] \in Hash
  <2> DEFINE bh == Insert(block_hashes, block.number, block.hash)
  <2>1. DOMAIN bh \subseteq Nat /\ \A n \in DOMAIN bh : bh[n] \in Hash
    BY <1>1, <1>3, InsertType DEF NodeTypeOK
  <2> HIDE DEF bh
  <2>2. /\ DOMAIN Insert(bh, last.number, last.hash) \subseteq Nat
        /\ \A n \in DOMAIN Insert(bh, last.number, last.hash) :
              Insert(bh, last.number, last.hash)[n] \in Hash
    BY <1>4, <2>1, InsertType
  <2>3. block_hashes' = Insert(bh, last.number, last.hash)
    BY <1>6 DEF bh
  <2> QED BY <2>2, <2>3
<1>11. DOMAIN blocks' \subseteq Hash
  <2>1. DOMAIN Insert(blocks, block.hash, block) = DOMAIN blocks \cup {block.hash}
    BY DEF Insert
  <2>2. DOMAIN Insert(Insert(blocks, block.hash, block), last.hash, last)
          = DOMAIN Insert(blocks, block.hash, block) \cup {last.hash}
    BY DEF Insert
  <2> QED BY <1>1, <1>3, <1>4, <1>6, <2>1, <2>2 DEF NodeTypeOK
<1>12. /\ current_batch' \in Nat /\ current_miniblock' \in Nat /\ current_timestamp' \in Nat
       /\ current_miniblock_hash' \in Hash
  BY <1>1, <1>4, <1>6 DEF NodeTypeOK
<1> QED BY <1>6, <1>7, <1>8, <1>9, <1>10, <1>11, <1>12 DEF NodeTypeOK

(* An iteration of mine_empty_blocks keeps the node's state well typed. *)
LEMMA MineOneType ==
    ASSUME TypeOK, NEW timestamp \in Nat, MineOne(create_l1_batch_env, timestamp)
    PROVE  NodeTypeOK' /\ UNCHANGED << fork, snapshots, poisoned >>
<1> DEFINE ctx   == create_l1_batch_env
           block == create_empty_block([ctx EXCEPT !.timestamp = timestamp])
<1>1. NodeTypeOK
  BY TypeSplit
<1>2. ctx \in BlockCtx
  BY EnvType
<1>3. block.hash \in Hash /\ block.number \in Nat
  BY <1>2, HashType DEF create_empty_block, EmptyBlock, BlockCtx
<1>4. /\ raw_storage' = [l1 |-> SystemContext(ctx, ctx).l1,
                         l2 |-> SystemContext(ctx, ctx).l2,
                         slots |-> raw_storage.slots]
      /\ block_hashes' = Insert(block_hashes, block.number, block.hash)
      /\ blocks' = Insert(blocks, block.hash, block)
      /\ current_batch' = ctx.batch
      /\ current_miniblock' = ctx.miniblock
      /\ current_timestamp' = timestamp
      /\ UNCHANGED << current_miniblock_hash, tx_results, previous_states,
                      fork, snapshots, poisoned >>
  BY DEF MineOne
<1> HIDE DEF ctx, block
<1>5. raw_storage' \in RawStorage
  <2>1. raw_storage.slots \in [Keys -> Values]
    BY <1>1 DEF NodeTypeOK, RawStorage
  <2> QED BY <1>2, <1>4, <2>1, SystemContextType
<1>6. /\ DOMAIN block_hashes' \subseteq Nat
      /\ \A n \in DOMAIN block_hashes' : block_hashes'[n] \in Hash
  <2>1. /\ DOMAIN Insert(block_hashes, block.number, block.hash) \subseteq Nat
        /\ \A n \in DOMAIN Insert(block_hashes, block.number, block.hash) :
              Insert(block_hashes, block.number, block.hash)[n] \in Hash
    BY <1>1, <1>3, InsertType DEF NodeTypeOK
  <2> QED BY <1>4, <2>1
<1>7. DOMAIN blocks' \subseteq Hash
  <2>1. DOMAIN Insert(blocks, block.hash, block) = DOMAIN blocks \cup {block.hash}
    BY DEF Insert
  <2> QED BY <1>1, <1>3, <1>4, <2>1 DEF NodeTypeOK
<1>8. ctx.batch \in Nat /\ ctx.miniblock \in Nat
  BY <1>2 DEF BlockCtx
<1> QED BY <1>1, <1>4, <1>5, <1>6, <1>7, <1>8 DEF NodeTypeOK

(* Every step preserves the types. *)
LEMMA TypeStep ==
    ASSUME TypeOK, [Next]_vars
    PROVE  TypeOK'
<1> USE DEF counters, chain
<1>1. NodeTypeOK /\ RestTypeOK
  BY TypeSplit
<1> SUFFICES NodeTypeOK' /\ RestTypeOK'
  BY TypeSplitPrimed
<1>2. ASSUME UNCHANGED vars
      PROVE  NodeTypeOK' /\ RestTypeOK'
  BY <1>1, <1>2 DEF vars, NodeTypeOK, RestTypeOK
<1>3. ASSUME UNCHANGED << counters, chain, previous_states, raw_storage, fork,
                          snapshots, mining, poisoned >>
      PROVE  NodeTypeOK' /\ RestTypeOK'
  BY <1>1, <1>3 DEF NodeTypeOK, RestTypeOK
<1>4. CASE TxRejected \/ MineNone \/ ServePoisoned
  BY <1>2, <1>4 DEF TxRejected, MineNone, ServePoisoned
<1>5. ASSUME NEW t \in Txs, TxHalted(t)
      PROVE  NodeTypeOK' /\ RestTypeOK'
  BY <1>3, <1>5 DEF TxHalted
<1>6. ASSUME NEW t \in Txs, NEW w \in Writes, RunL2Tx(t, w)
      PROVE  NodeTypeOK' /\ RestTypeOK'
  BY <1>1, <1>6, CommitTxType DEF RunL2Tx, RestTypeOK
<1>7. ASSUME NEW t \in Txs, RunL2TxPanics(t)
      PROVE  NodeTypeOK' /\ RestTypeOK'
  BY <1>1, <1>7 DEF RunL2TxPanics, NodeTypeOK, RestTypeOK
<1>8. ASSUME NEW n \in NumBlocks, NEW i \in Intervals, MineBlocks(n, i)
      PROVE  NodeTypeOK' /\ RestTypeOK'
  <2>1. n \in Nat /\ i \in Nat /\ n > 0
    BY <1>8, ArgumentAssumption DEF MineBlocks
  <2>2. create_l1_batch_env.timestamp \in Nat
    BY EnvType DEF BlockCtx
  <2>3. NodeTypeOK' /\ UNCHANGED << fork, snapshots, poisoned >>
    BY <1>8, <2>2, MineOneType DEF MineBlocks
  <2>4. mining' \in [left : Nat, interval : Nat]
    BY <1>8, <2>1 DEF MineBlocks
  <2> QED BY <1>1, <2>3, <2>4 DEF RestTypeOK
<1>9. CASE MineNext
  <2>1. current_timestamp \in Nat /\ mining \in [left : Nat, interval : Nat]
    BY <1>1 DEF NodeTypeOK, RestTypeOK
  <2>2. NodeTypeOK' /\ UNCHANGED << fork, snapshots, poisoned >>
    BY <1>9, <2>1, MineOneType DEF MineNext
  <2>3. mining' \in [left : Nat, interval : Nat]
    BY <1>9, <2>1 DEF MineNext
  <2> QED BY <1>1, <2>2, <2>3 DEF RestTypeOK
<1>10. ASSUME NEW time \in Nat, ClockTo(time)
       PROVE  NodeTypeOK' /\ RestTypeOK'
  BY <1>1, <1>10 DEF ClockTo, NodeTypeOK, RestTypeOK
<1>11. CASE Clock
  <2>1. ASSUME NEW d \in TimeDeltas, increase_time(d)
        PROVE  NodeTypeOK' /\ RestTypeOK'
    <3>1. current_timestamp + d * 1000 \in Nat
      BY <1>1, ArgumentAssumption DEF NodeTypeOK
    <3> QED BY <1>10, <2>1, <3>1 DEF increase_time
  <2>2. ASSUME NEW t \in Times, set_next_block_timestamp(t)
        PROVE  NodeTypeOK' /\ RestTypeOK'
    <3>1. CASE t <= current_timestamp
      BY <1>2, <2>2, <3>1 DEF set_next_block_timestamp
    <3>2. CASE ~ (t <= current_timestamp)
      <4>1. t - 1 \in Nat
        BY <1>1, <3>2, ArgumentAssumption DEF NodeTypeOK
      <4> QED BY <1>10, <2>2, <3>2, <4>1 DEF set_next_block_timestamp
    <3> QED BY <3>1, <3>2
  <2>3. ASSUME NEW t \in Times, set_time(t)
        PROVE  NodeTypeOK' /\ RestTypeOK'
    BY <1>10, <2>3, ArgumentAssumption DEF set_time
  <2> QED BY <1>11, <2>1, <2>2, <2>3 DEF Clock
<1>12. ASSUME NEW k \in Keys, NEW v \in Values, set_storage_at(k, v)
       PROVE  NodeTypeOK' /\ RestTypeOK'
  <2>1. raw_storage' \in RawStorage
    BY <1>1, <1>12 DEF set_storage_at, NodeTypeOK, RawStorage
  <2> QED BY <1>1, <1>12, <2>1 DEF set_storage_at, NodeTypeOK, RestTypeOK
<1>13. CASE TakeSnapshot
  <2>1. CASE Len(snapshots) >= MAX_SNAPSHOTS
    BY <1>1, <1>13, <2>1 DEF TakeSnapshot, NodeTypeOK, RestTypeOK
  <2>2. CASE ~ (Len(snapshots) >= MAX_SNAPSHOTS)
    <3>1. StateTypeOK(snapshot)
      BY DEF TypeOK
    <3>2. /\ IsList(Append(snapshots, snapshot))
          /\ \A i \in DOMAIN Append(snapshots, snapshot) :
                \/ Append(snapshots, snapshot)[i] = snapshot
                \/ i \in DOMAIN snapshots /\ Append(snapshots, snapshot)[i] = snapshots[i]
      BY <1>1, ListAppend DEF RestTypeOK
    <3>3. snapshots' = Append(snapshots, snapshot)
      BY <1>13, <2>2 DEF TakeSnapshot
    <3>4. \A i \in DOMAIN snapshots' : StateTypeOK(snapshots'[i])
      BY <1>1, <3>1, <3>2, <3>3, Zenon DEF RestTypeOK
    <3>5. UNCHANGED << counters, chain, previous_states, raw_storage, fork, mining, poisoned >>
      BY <1>13 DEF TakeSnapshot
    <3>6. NodeTypeOK'
      BY <1>1, <3>5 DEF NodeTypeOK
    <3> QED BY <1>1, <3>2, <3>3, <3>4, <3>5, <3>6 DEF RestTypeOK
  <2> QED BY <2>1, <2>2
<1>14. ASSUME NEW id \in 0 .. MAX_SNAPSHOTS, revert_snapshot(id)
       PROVE  NodeTypeOK' /\ RestTypeOK'
  <2> DEFINE j == SnapshotIndex(id)
  <2>1. j \in Nat /\ j >= 1
    BY LimitAssumption DEF SnapshotIndex
  <2>2. Len(snapshots) \in Nat /\ DOMAIN snapshots = 1 .. Len(snapshots)
    BY <1>1, LenProperties DEF RestTypeOK, IsList
  <2>3. CASE j > Len(snapshots)
    BY <1>2, <1>14, <2>3 DEF revert_snapshot, restore_snapshot
  <2>4. CASE ~ (j > Len(snapshots))
    <3>1. /\ snapshots' = SubSeq(snapshots, 1, j - 1)
          /\ Become(snapshots[j])
          /\ UNCHANGED << fork, mining, poisoned >>
      BY <1>14, <2>4 DEF revert_snapshot, restore_snapshot
    <3> HIDE DEF j
    <3>2. StateTypeOK(snapshots[j])
      BY <1>1, <2>1, <2>2, <2>4 DEF RestTypeOK
    <3>3. NodeTypeOK'
      BY <3>1, <3>2, BecomeType
    <3>4. j - 1 \in Nat /\ j - 1 <= Len(snapshots)
      BY <2>1, <2>2, <2>4
    <3>5. /\ IsList(SubSeq(snapshots, 1, j - 1))
          /\ \A i \in DOMAIN SubSeq(snapshots, 1, j - 1) :
                i \in DOMAIN snapshots /\ SubSeq(snapshots, 1, j - 1)[i] = snapshots[i]
      BY <1>1, <3>4, ListCut DEF RestTypeOK
    <3>6. \A i \in DOMAIN snapshots' : StateTypeOK(snapshots'[i])
      BY <1>1, <3>1, <3>5, Zenon DEF RestTypeOK
    <3> QED BY <1>1, <3>1, <3>3, <3>5, <3>6 DEF RestTypeOK
  <2> QED BY <2>3, <2>4
<1>15. ASSUME NEW f \in Forks \cup {NoFork}, reset_network(f)
       PROVE  NodeTypeOK' /\ RestTypeOK'
  <2>1. CASE reset(f)
    <3>1. NodeTypeOK'
      BY <2>1, NewOK, BecomeType DEF reset
    <3>2. snapshots' = << >> /\ fork' = f /\ UNCHANGED << mining, poisoned >>
      BY <2>1 DEF reset
    <3>3. IsList(<< >>) /\ DOMAIN << >> = {}
      BY DEF IsList
    <3> QED BY <1>1, <3>1, <3>2, <3>3 DEF RestTypeOK
  <2>2. CASE UNCHANGED vars
    BY <1>2, <2>2
  <2> QED BY <1>15, <2>1, <2>2 DEF reset_network
<1>16. CASE FilterMethods
  <2>1. UNCHANGED << counters, chain, previous_states, raw_storage, fork,
                     snapshots, mining, poisoned >>
    BY <1>16 DEF FilterMethods, new_block_filter, new_pending_transaction_filter,
                 new_filter, uninstall_filter, get_filter_changes, WithFilters
  <2> QED BY <1>3, <2>1
<1>17. CASE RemoteReadFails
  BY <1>1, <1>17 DEF RemoteReadFails, NodeTypeOK, RestTypeOK
<1>18. ASSUME NEW info \in ContextWords, set_context_word(info)
       PROVE  NodeTypeOK' /\ RestTypeOK'
  <2>1. info \in Info
    BY ContextAssumption DEF Info
  <2>2. raw_storage' \in RawStorage
    BY <1>1, <1>18, <2>1 DEF set_context_word, NodeTypeOK, RawStorage
  <2> QED BY <1>1, <1>18, <2>2 DEF set_context_word, NodeTypeOK, RestTypeOK
<1>19. CASE SetNonceOverflows
  BY <1>1, <1>19 DEF SetNonceOverflows, NodeTypeOK, RestTypeOK
<1> QED
  BY <1>2, <1>4, <1>5, <1>6, <1>7, <1>8, <1>9, <1>11, <1>12, <1>13, <1>14, <1>15, <1>16, <1>17,
     <1>18, <1>19
     DEF Next, SendTransaction, Mine, Snapshots

(* The node starts well typed. *)
LEMMA TypeInit ==
    ASSUME Init
    PROVE  TypeOK
<1>1. PICK f \in InitialForks :
        /\ current_timestamp = new(f).current_timestamp
        /\ current_batch = new(f).current_batch
        /\ current_miniblock = new(f).current_miniblock
        /\ current_miniblock_hash = new(f).current_miniblock_hash
        /\ tx_results = new(f).tx_results
        /\ blocks = new(f).blocks
        /\ block_hashes = new(f).block_hashes
        /\ previous_states = new(f).previous_states
        /\ raw_storage = new(f).raw_storage
        /\ fork = f
        /\ snapshots = << >>
        /\ mining = [left |-> 0, interval |-> 0]
        /\ poisoned = FALSE
  BY DEF Init
<1>2. f \in Forks \cup {NoFork}
  BY ForkAssumption
<1>3. NodeTypeOK
  BY <1>1, <1>2, NewOK DEF NodeTypeOK, StateTypeOK
<1>4. IsList(<< >>) /\ DOMAIN << >> = {}
  BY DEF IsList
<1>5. RestTypeOK
  BY <1>1, <1>2, <1>4 DEF RestTypeOK
<1> QED BY <1>3, <1>5, TypeSplit

(* The node's variables, and every snapshot that revert_snapshot may put in *)
(* their place, keep their types: the clock stays a natural number, storage *)
(* and archive well formed, whatever requests are served.                   *)
THEOREM TypeCorrect == Spec => []TypeOK
<1>1. Init => TypeOK
  BY TypeInit
<1>2. TypeOK /\ [Next]_vars => TypeOK'
  BY TypeStep
<1> QED BY <1>1, <1>2, PTL DEF Spec

-----------------------------------------------------------------------------
(* The archive. *)

(* The bound has to hold of the snapshots too: revert_snapshot restores the *)
(* archive with the rest.                                                   *)
ArchiveInv ==
    /\ ArchiveBounded
    /\ \A i \in DOMAIN snapshots :
          Len(snapshots[i].previous_states) <= MAX_PREVIOUS_STATES + 1

(* Every step keeps the archive, and those of the snapshots, within bounds. *)
LEMMA ArchiveStep ==
    ASSUME TypeOK, ArchiveInv, [Next]_vars
    PROVE  ArchiveInv'
<1> USE DEF counters, chain
<1>1. NodeTypeOK /\ RestTypeOK
  BY TypeSplit
<1>2. MAX_PREVIOUS_STATES \in Nat
  BY LimitAssumption
<1>3. ASSUME UNCHANGED << previous_states, snapshots >>
      PROVE  ArchiveInv'
  BY <1>3 DEF ArchiveInv, ArchiveBounded
<1>4. CASE UNCHANGED vars \/ TxRejected \/ MineNone \/ ServePoisoned
  BY <1>3, <1>4 DEF TxRejected, MineNone, ServePoisoned, vars
<1>5. ASSUME NEW t \in Txs, TxHalted(t)
      PROVE  ArchiveInv'
  BY <1>3, <1>5 DEF TxHalted
<1>6. ASSUME NEW t \in Txs, NEW w \in Writes, RunL2Tx(t, w)
      PROVE  ArchiveInv'
  <2> DEFINE block == TxBlock(t, create_l1_batch_env)
             slots == Apply(raw_storage.slots, w)
             once  == archive_state(previous_states, current_miniblock_hash, slots)
  <2>1. previous_states' = archive_state(once, block.hash, slots) /\ snapshots' = snapshots
    BY <1>6, Zenon DEF RunL2Tx, CommitTx
  <2>2. block.hash \in Hash
    BY EnvType, HashType DEF TxBlock, BlockCtx
  <2>3. slots \in [Keys -> Values]
    BY <1>1, ApplyType DEF NodeTypeOK, RawStorage
  <2> HIDE DEF block, slots
  <2>4. once \in Archive /\ Len(once) <= MAX_PREVIOUS_STATES + 1
    BY <1>1, <2>3, ArchiveFacts DEF NodeTypeOK, ArchiveInv, ArchiveBounded
  <2> HIDE DEF once
  <2>5. Len(archive_state(once, block.hash, slots)) <= MAX_PREVIOUS_STATES + 1
    BY <2>2, <2>3, <2>4, ArchiveFacts
  <2> QED BY <2>1, <2>5 DEF ArchiveInv, ArchiveBounded
<1>7. ASSUME NEW t \in Txs, RunL2TxPanics(t)
      PROVE  ArchiveInv'
  BY <1>3, <1>7 DEF RunL2TxPanics
<1>8. CASE MineNext \/ \E n \in NumBlocks, i \in Intervals : MineBlocks(n, i)
  BY <1>3, <1>8 DEF MineNext, MineBlocks, MineOne
<1>9. CASE Clock
  BY <1>3, <1>9 DEF Clock, increase_time, set_next_block_timestamp, set_time, ClockTo, vars
<1>10. ASSUME NEW k \in Keys, NEW v \in Values, set_storage_at(k, v)
       PROVE  ArchiveInv'
  BY <1>3, <1>10 DEF set_storage_at
<1>11. CASE TakeSnapshot
  <2>1. UNCHANGED previous_states
    BY <1>11 DEF TakeSnapshot
  <2>2. CASE UNCHANGED snapshots
    BY <1>3, <2>1, <2>2
  <2>3. CASE snapshots' = Append(snapshots, snapshot)
    <3>1. \A i \in DOMAIN Append(snapshots, snapshot) :
                \/ Append(snapshots, snapshot)[i] = snapshot
                \/ i \in DOMAIN snapshots /\ Append(snapshots, snapshot)[i] = snapshots[i]
      BY <1>1, ListAppend DEF RestTypeOK
    <3>2. snapshot.previous_states = previous_states
      BY DEF snapshot
    <3>3. \A i \in DOMAIN snapshots' :
             Len(snapshots'[i].previous_states) <= MAX_PREVIOUS_STATES + 1
      BY <2>3, <3>1, <3>2, Zenon DEF ArchiveInv, ArchiveBounded
    <3> QED BY <2>1, <3>3 DEF ArchiveInv, ArchiveBounded
  <2> QED BY <1>11, <2>2, <2>3 DEF TakeSnapshot
<1>12. ASSUME NEW id \in 0 .. MAX_SNAPSHOTS, revert_snapshot(id)
       PROVE  ArchiveInv'
  <2> DEFINE j == SnapshotIndex(id)
  <2>1. j \in Nat /\ j >= 1
    BY LimitAssumption DEF SnapshotIndex
  <2>2. Len(snapshots) \in Nat /\ DOMAIN snapshots = 1 .. Len(snapshots)
    BY <1>1, LenProperties DEF RestTypeOK, IsList
  <2>3. CASE j > Len(snapshots)
    BY <1>3, <1>12, <2>3 DEF revert_snapshot, restore_snapshot, vars
  <2>4. CASE ~ (j > Len(snapshots))
    <3>1. /\ snapshots' = SubSeq(snapshots, 1, j - 1)
          /\ previous_states' = snapshots[j].previous_states
      BY <1>12, <2>4 DEF revert_snapshot, restore_snapshot, Become
    <3> HIDE DEF j
    <3>2. j - 1 \in Nat /\ j - 1 <= Len(snapshots) /\ j \in DOMAIN snapshots
      BY <2>1, <2>2, <2>4
    <3>3. \A i \in DOMAIN SubSeq(snapshots, 1, j - 1) :
             i \in DOMAIN snapshots /\ SubSeq(snapshots, 1, j - 1)[i] = snapshots[i]
      BY <1>1, <3>2, ListCut DEF RestTypeOK
    <3>4. \A i \in DOMAIN snapshots' :
             Len(snapshots'[i].previous_states) <= MAX_PREVIOUS_STATES + 1
      BY <3>1, <3>3, Zenon DEF ArchiveInv
    <3> QED BY <3>1, <3>2, <3>4 DEF ArchiveInv, ArchiveBounded
  <2> QED BY <2>3, <2>4
<1>13. ASSUME NEW f \in Forks \cup {NoFork}, reset_network(f)
       PROVE  ArchiveInv'
  <2>1. CASE reset(f)
    <3>1. Len(previous_states') = 0
      BY <2>1, NewOK DEF reset, Become
    <3>2. snapshots' = << >> /\ DOMAIN << >> = {}
      BY <2>1 DEF reset
    <3> QED BY <1>2, <3>1, <3>2 DEF ArchiveInv, ArchiveBounded
  <2>2. CASE UNCHANGED vars
    BY <1>4, <2>2
  <2> QED BY <1>13, <2>1, <2>2 DEF reset_network
<1>14. CASE FilterMethods
  BY <1>3, <1>14 DEF FilterMethods, new_block_filter, new_pending_transaction_filter,
                     new_filter, uninstall_filter, get_filter_changes, WithFilters
<1>15. CASE RemoteReadFails \/ SetNonceOverflows
  BY <1>3, <1>15 DEF RemoteReadFails, SetNonceOverflows
<1>16. ASSUME NEW info \in ContextWords, set_context_word(info)
       PROVE  ArchiveInv'
  BY <1>3, <1>16 DEF set_context_word
<1> QED
  BY <1>4, <1>5, <1>6, <1>7, <1>8, <1>9, <1>10, <1>11, <1>12, <1>13, <1>14, <1>15, <1>16
     DEF Next, SendTransaction, Mine, Snapshots

(* The archive of historical states never holds more than one state over    *)
(* MAX_PREVIOUS_STATES, across transactions (which archive twice), reverts  *)
(* and resets: archive_state evicts before it inserts.                      *)
THEOREM ArchiveIsBounded == Spec => []ArchiveBounded
<1>1. Init => ArchiveInv
  <2> SUFFICES ASSUME Init PROVE ArchiveInv
    OBVIOUS
  <2>1. PICK f \in InitialForks :
          previous_states = new(f).previous_states /\ snapshots = << >>
    BY DEF Init
  <2>2. f \in Forks \cup {NoFork} /\ MAX_PREVIOUS_STATES \in Nat
    BY ForkAssumption, LimitAssumption
  <2>3. Len(previous_states) = 0
    BY <2>1, <2>2, NewOK
  <2>4. DOMAIN << >> = {}
    OBVIOUS
  <2> QED BY <2>1, <2>2, <2>3, <2>4 DEF ArchiveInv, ArchiveBounded
<1>2. TypeOK /\ ArchiveInv /\ [Next]_vars => ArchiveInv'
  BY ArchiveStep
<1>3. ArchiveInv => ArchiveBounded
  BY DEF ArchiveInv
<1> QED BY <1>1, <1>2, <1>3, TypeCorrect, PTL DEF Spec

-----------------------------------------------------------------------------
(* No handler panics while nobody moves the clock back, no mining interval  *)
(* is 0, the remote chain, if there is one, answers, and no client writes   *)
(* over the system context's words or sets a nonce of 2^128 or more.        *)

(* No client writes over the system context's words. *)
ContextKept == ContextWords = {}

WellBehaved ==
    /\ ~AllowRewind /\ 0 \notin Intervals
    /\ ~RemoteFails
    /\ ContextKept /\ ~HugeNonces

(* A mining loop in progress was given one of the intervals. *)
MiningInv == mining.left > 0 => mining.interval \in Intervals

SafeInv == NoPanic /\ TipsAgree /\ MiningInv

(* Right after a batch the system context speaks for itself. *)
LEMMA TipsAfterBatch ==
    ASSUME NEW s, NEW f,
           s.current_batch \in Nat \ {0}, s.current_miniblock \in Nat \ {0},
           s.raw_storage.l1.number = s.current_batch,
           s.raw_storage.l2.number = s.current_miniblock,
           s.raw_storage.l1.timestamp <= s.current_timestamp,
           s.raw_storage.l2.timestamp <= s.current_timestamp
    PROVE  TipsAgreeIn(s, f)
<1>1. s.raw_storage.l1 # NoInfo /\ s.raw_storage.l2 # NoInfo
  BY DEF NoInfo
<1>2. ReadL1(s.raw_storage, f) = s.raw_storage.l1 /\ ReadL2(s.raw_storage, f) = s.raw_storage.l2
  BY <1>1 DEF ReadL1, ReadL2
<1>3. /\ load_last_l1_batch(s, f) = s.raw_storage.l1
      /\ load_last_l2_block(s, f) = s.raw_storage.l2
  BY <1>2 DEF load_last_l1_batch, load_last_l2_block
<1> QED BY <1>3 DEF TipsAgreeIn

(* A clock that does not go back keeps the tips in agreement, as long as    *)
(* the counters and the system context's words stay.                        *)
LEMMA TipsFrame ==
    ASSUME TypeOK, TipsAgreeIn(snapshot, fork),
           current_batch' = current_batch, current_miniblock' = current_miniblock,
           raw_storage'.l1 = raw_storage.l1, raw_storage'.l2 = raw_storage.l2,
           fork' = fork, current_timestamp' \in Nat, current_timestamp' >= current_timestamp
    PROVE  TipsAgreeIn(snapshot, fork)'
<1> DEFINE r1 == ReadL1(raw_storage, fork)
           r2 == ReadL2(raw_storage, fork)
           l1 == load_last_l1_batch(snapshot, fork)
           l2 == load_last_l2_block(snapshot, fork)
           m1 == load_last_l1_batch(snapshot', fork')
           m2 == load_last_l2_block(snapshot', fork')
<1>1. ReadL1(raw_storage', fork') = r1 /\ ReadL2(raw_storage', fork') = r2
  BY DEF ReadL1, ReadL2
<1>2. /\ l1 = IF r1.number # 0 THEN r1
              ELSE [number |-> current_batch, timestamp |-> current_timestamp]
      /\ l2 = IF r2.number # 0 THEN r2
              ELSE [number |-> current_miniblock, timestamp |-> current_timestamp]
  BY DEF load_last_l1_batch, load_last_l2_block, snapshot
<1>3. snapshot'.raw_storage = raw_storage' /\ snapshot'.current_batch = current_batch
      /\ snapshot'.current_miniblock = current_miniblock
      /\ snapshot'.current_timestamp = current_timestamp'
  BY DEF snapshot
<1>4. /\ m1 = IF r1.number # 0 THEN r1
              ELSE [number |-> current_batch, timestamp |-> current_timestamp']
      /\ m2 = IF r2.number # 0 THEN r2
              ELSE [number |-> current_miniblock, timestamp |-> current_timestamp']
  BY <1>1, <1>3 DEF load_last_l1_batch, load_last_l2_block
<1>5. l1.number = current_batch /\ l2.number = current_miniblock
      /\ l1.timestamp <= current_timestamp /\ l2.timestamp <= current_timestamp
  BY DEF TipsAgreeIn, snapshot
<1>6. l1 \in Info /\ l2 \in Info /\ current_timestamp \in Nat
  BY LoadType DEF TypeOK, StateTypeOK, snapshot
<1> HIDE DEF r1, r2, l1, l2
<1>7. m1.number = current_batch /\ m1.timestamp <= current_timestamp'
  BY <1>2, <1>4, <1>5, <1>6 DEF Info
<1>8. m2.number = current_miniblock /\ m2.timestamp <= current_timestamp'
  BY <1>2, <1>4, <1>5, <1>6 DEF Info
<1> QED BY <1>3, <1>7, <1>8 DEF TipsAgreeIn

(* The state that takes the node's place brings its agreement along. *)
LEMMA TipsBecome ==
    ASSUME NEW s, NEW f, Become(s), TipsAgreeIn(s, f), fork' = f
    PROVE  TipsAgreeIn(snapshot, fork)'
  BY DEF Become, TipsAgreeIn, load_last_l1_batch, load_last_l2_block, snapshot

(* run_l2_tx finds the blocks it expects. *)
LEMMA TipsConsistent ==
    ASSUME TypeOK, TipsAgreeIn(snapshot, fork), NEW t \in Txs
    PROVE  Consistent(t)
<1> DEFINE ctx == create_l1_batch_env
<1>1. /\ ctx.batch = current_batch + 1 /\ ctx.miniblock = current_miniblock + 1
      /\ ctx.timestamp = current_timestamp + 1
  BY EnvFollowsTips
<1>2. current_miniblock \in Nat /\ current_timestamp \in Nat
  BY TypeSplit DEF NodeTypeOK
<1> HIDE DEF ctx
<1>3. Expected(TxBlock(t, ctx), 1)
  BY <1>1 DEF Expected, TxBlock
<1>4. Expected(EmptyBlock(new_block(ctx), TxBlock(t, ctx).hash), 2)
  BY <1>1, <1>2 DEF Expected, EmptyBlock, new_block
<1> QED BY <1>3, <1>4 DEF Consistent, ctx

(* After the commit of run_l2_tx counters and storage name the same tip. *)
LEMMA TipsCommit ==
    ASSUME TypeOK, TipsAgreeIn(snapshot, fork), NEW t, NEW w,
           CommitTx(t, w)
    PROVE  TipsAgreeIn(snapshot, fork)'
<1> DEFINE ctx == create_l1_batch_env
<1>1. /\ ctx.batch = current_batch + 1 /\ ctx.miniblock = current_miniblock + 1
      /\ ctx.timestamp = current_timestamp + 1
  BY EnvFollowsTips
<1>2. current_batch \in Nat /\ current_miniblock \in Nat /\ current_timestamp \in Nat
  BY TypeSplit DEF NodeTypeOK
<1>3. /\ raw_storage' = [l1 |-> SystemContext(ctx, new_block(ctx)).l1,
                         l2 |-> SystemContext(ctx, new_block(ctx)).l2,
                         slots |-> Apply(raw_storage.slots, w)]
      /\ current_batch' = current_batch + 1
      /\ current_miniblock' = current_miniblock + 2
      /\ current_timestamp' = current_timestamp + 2
  BY Zenon DEF CommitTx
<1> HIDE DEF ctx
<1>4. /\ raw_storage'.l1 = [number |-> ctx.batch, timestamp |-> ctx.timestamp]
      /\ raw_storage'.l2 = [number |-> ctx.miniblock + 1, timestamp |-> ctx.timestamp + 1]
  BY <1>3 DEF SystemContext, new_block
<1>5. /\ snapshot'.raw_storage = raw_storage' /\ snapshot'.current_batch = current_batch'
      /\ snapshot'.current_miniblock = current_miniblock'
      /\ snapshot'.current_timestamp = current_timestamp'
  BY DEF snapshot
<1>6. TipsAgreeIn(snapshot', fork')
  BY <1>1, <1>2, <1>3, <1>4, <1>5, TipsAfterBatch
<1> QED BY <1>6

(* So they do after an iteration of mine_empty_blocks. *)
LEMMA TipsMine ==
    ASSUME TypeOK, TipsAgreeIn(snapshot, fork), NEW timestamp \in Nat,
           timestamp > current_timestamp, MineOne(create_l1_batch_env, timestamp)
    PROVE  TipsAgreeIn(snapshot, fork)'
<1> DEFINE ctx == create_l1_batch_env
<1>1. /\ ctx.batch = current_batch + 1 /\ ctx.miniblock = current_miniblock + 1
      /\ ctx.timestamp = current_timestamp + 1
  BY EnvFollowsTips
<1>2. current_batch \in Nat /\ current_miniblock \in Nat /\ current_timestamp \in Nat
  BY TypeSplit DEF NodeTypeOK
<1>3. /\ raw_storage' = [l1 |-> SystemContext(ctx, ctx).l1, l2 |-> SystemContext(ctx, ctx).l2,
                         slots |-> raw_storage.slots]
      /\ current_batch' = ctx.batch
      /\ current_miniblock' = ctx.miniblock
      /\ current_timestamp' = timestamp
  BY DEF MineOne
<1> HIDE DEF ctx
<1>4. /\ raw_storage'.l1 = [number |-> ctx.batch, timestamp |-> ctx.timestamp]
      /\ raw_storage'.l2 = [number |-> ctx.miniblock, timestamp |-> ctx.timestamp]
  BY <1>3 DEF SystemContext
<1>5. /\ snapshot'.raw_storage = raw_storage' /\ snapshot'.current_batch = current_batch'
      /\ snapshot'.current_miniblock = current_miniblock'
      /\ snapshot'.current_timestamp = current_timestamp'
  BY DEF snapshot
<1>6. TipsAgreeIn(snapshot', fork')
  BY <1>1, <1>2, <1>3, <1>4, <1>5, TipsAfterBatch
<1> QED BY <1>6

(* Every step of a well-behaved node preserves SafeInv. *)
LEMMA SafeStep ==
    ASSUME WellBehaved, TypeOK, SafeInv, [Next]_vars
    PROVE  SafeInv'
<1> USE DEF counters, chain
<1> DEFINE Tips == TipsAgreeIn(snapshot, fork)
           Snaps == \A i \in DOMAIN snapshots : TipsAgreeIn(snapshots[i], fork)
<1>1. NodeTypeOK /\ RestTypeOK
  BY TypeSplit
<1>2. Tips /\ Snaps /\ ~poisoned /\ MiningInv
  BY DEF SafeInv, TipsAgree, NoPanic
<1>3. current_timestamp \in Nat
  BY <1>1 DEF NodeTypeOK
<1>4. ASSUME UNCHANGED << fork, snapshots, poisoned >>, Tips', MiningInv'
      PROVE  SafeInv'
  BY <1>2, <1>4 DEF SafeInv, TipsAgree, NoPanic
<1>5. ASSUME UNCHANGED << current_batch, current_miniblock, raw_storage, fork,
                          snapshots, mining, poisoned >>,
             current_timestamp' \in Nat, current_timestamp' >= current_timestamp
      PROVE  SafeInv'
  <2>1. Tips'
    BY <1>2, <1>5, TipsFrame
  <2>2. MiningInv'
    BY <1>2, <1>5 DEF MiningInv
  <2> QED BY <1>4, <1>5, <2>1, <2>2
<1>6. CASE UNCHANGED vars \/ TxRejected \/ MineNone \/ ServePoisoned
  BY <1>3, <1>5, <1>6 DEF TxRejected, MineNone, ServePoisoned, vars
<1>7. ASSUME NEW t \in Txs, TxHalted(t)
      PROVE  SafeInv'
  BY <1>3, <1>5, <1>7 DEF TxHalted
<1>8. ASSUME NEW t \in Txs, NEW w \in Writes, RunL2Tx(t, w)
      PROVE  SafeInv'
  <2>1. Tips'
    BY <1>2, <1>8, TipsCommit DEF RunL2Tx
  <2>2. UNCHANGED << fork, snapshots, mining, poisoned >>
    BY <1>8, CommitTxType DEF RunL2Tx
  <2>3. MiningInv'
    BY <1>2, <2>2 DEF MiningInv
  <2> QED BY <1>4, <2>1, <2>2, <2>3
<1>9. ASSUME NEW t \in Txs, RunL2TxPanics(t)
      PROVE  SafeInv'
  BY <1>2, <1>9, TipsConsistent DEF RunL2TxPanics
<1>10. ASSUME NEW n \in NumBlocks, NEW i \in Intervals, MineBlocks(n, i)
       PROVE  SafeInv'
  <2>1. create_l1_batch_env.timestamp \in Nat
        /\ create_l1_batch_env.timestamp > current_timestamp
    BY EnvType DEF BlockCtx
  <2>2. MineOne(create_l1_batch_env, create_l1_batch_env.timestamp)
    BY <1>10 DEF MineBlocks
  <2>3. Tips' /\ UNCHANGED << fork, snapshots, poisoned >>
    BY <1>2, <2>1, <2>2, TipsMine, MineOneType
  <2>4. MiningInv'
    <3>1. mining' = [left |-> n - 1, interval |-> IF n = 1 THEN 0 ELSE i] /\ n \in Nat
      BY <1>10, ArgumentAssumption DEF MineBlocks
    <3> QED BY <3>1 DEF MiningInv
  <2> QED BY <1>4, <2>3, <2>4
<1>11. CASE MineNext
  <2>1. mining.left \in Nat /\ mining.left > 0 /\ mining.interval \in Intervals
    BY <1>1, <1>2, <1>11 DEF MineNext, MiningInv, RestTypeOK
  <2>2. current_timestamp + mining.interval \in Nat
        /\ current_timestamp + mining.interval > current_timestamp
    <3>1. mining.interval \in Nat /\ mining.interval # 0
      <4>1. Intervals \subseteq Nat
        BY ArgumentAssumption
      <4>2. 0 \notin Intervals
        BY DEF WellBehaved
      <4> QED BY <2>1, <4>1, <4>2
    <3> QED BY <1>3, <3>1
  <2>3. MineOne(create_l1_batch_env, current_timestamp + mining.interval)
    BY <1>11 DEF MineNext
  <2>4. Tips' /\ UNCHANGED << fork, snapshots, poisoned >>
    BY <1>2, <2>2, <2>3, TipsMine, MineOneType
  <2>5. MiningInv'
    <3>1. mining' = [left |-> mining.left - 1,
                     interval |-> IF mining.left = 1 THEN 0 ELSE mining.interval]
      BY <1>11 DEF MineNext
    <3> QED BY <2>1, <3>1 DEF MiningInv
  <2> QED BY <1>4, <2>4, <2>5
<1>12. ASSUME NEW time \in Nat, time >= current_timestamp, ClockTo(time)
       PROVE  SafeInv'
  BY <1>5, <1>12 DEF ClockTo
<1>13. CASE Clock
  <2>1. ASSUME NEW d \in TimeDeltas, increase_time(d)
        PROVE  SafeInv'
    <3>1. current_timestamp + d * 1000 \in Nat /\ current_timestamp + d * 1000 >= current_timestamp
      BY <1>3, ArgumentAssumption
    <3> QED BY <1>12, <2>1, <3>1 DEF increase_time
  <2>2. ASSUME NEW t \in Times, set_next_block_timestamp(t)
        PROVE  SafeInv'
    <3>1. CASE t <= current_timestamp
      BY <1>6, <2>2, <3>1 DEF set_next_block_timestamp
    <3>2. CASE ~ (t <= current_timestamp)
      <4>1. t - 1 \in Nat /\ t - 1 >= current_timestamp
        BY <1>3, <3>2, ArgumentAssumption
      <4> QED BY <1>12, <2>2, <3>2, <4>1 DEF set_next_block_timestamp
    <3> QED BY <3>1, <3>2
  <2>3. ASSUME NEW t \in Times, set_time(t)
        PROVE  SafeInv'
    BY <1>12, <2>3, ArgumentAssumption DEF set_time, WellBehaved
  <2> QED BY <1>13, <2>1, <2>2, <2>3 DEF Clock
<1>14. ASSUME NEW k \in Keys, NEW v \in Values, set_storage_at(k, v)
       PROVE  SafeInv'
  <2>1. raw_storage'.l1 = raw_storage.l1 /\ raw_storage'.l2 = raw_storage.l2
    BY <1>1, <1>14 DEF set_storage_at, NodeTypeOK, RawStorage
  <2>2. UNCHANGED << counters, fork, snapshots, mining, poisoned >>
    BY <1>14 DEF set_storage_at
  <2>3. Tips'
    BY <1>2, <1>3, <2>1, <2>2, TipsFrame
  <2>4. MiningInv'
    BY <1>2, <2>2 DEF MiningInv
  <2> QED BY <1>4, <2>2, <2>3, <2>4
<1>15. CASE TakeSnapshot
  <2>1. UNCHANGED << counters, raw_storage, fork, mining, poisoned >>
    BY <1>15 DEF TakeSnapshot
  <2>2. CASE UNCHANGED snapshots
    BY <1>3, <1>5, <2>1, <2>2
  <2>3. CASE snapshots' = Append(snapshots, snapshot)
    <3>1. \A i \in DOMAIN Append(snapshots, snapshot) :
                \/ Append(snapshots, snapshot)[i] = snapshot
                \/ i \in DOMAIN snapshots /\ Append(snapshots, snapshot)[i] = snapshots[i]
      BY <1>1, ListAppend DEF RestTypeOK
    <3>2. \A i \in DOMAIN Append(snapshots, snapshot) :
             TipsAgreeIn(Append(snapshots, snapshot)[i], fork)
      BY <1>2, <3>1, Zenon
    <3>3. Tips'
      BY <1>2, <1>3, <2>1, TipsFrame
    <3> HIDE DEF Tips
    <3>4. Snaps'
      BY <2>1, <2>3, <3>2, Zenon
    <3>5. Tips' /\ MiningInv' /\ ~poisoned'
      BY <1>2, <2>1, <3>3 DEF MiningInv
    <3> QED BY <3>4, <3>5 DEF SafeInv, TipsAgree, NoPanic, Tips
  <2> QED BY <1>15, <2>2, <2>3 DEF TakeSnapshot
<1>16. ASSUME NEW id \in 0 .. MAX_SNAPSHOTS, revert_snapshot(id)
       PROVE  SafeInv'
  <2> DEFINE j == SnapshotIndex(id)
  <2>1. j \in Nat /\ j >= 1
    BY LimitAssumption DEF SnapshotIndex
  <2>2. Len(snapshots) \in Nat /\ DOMAIN snapshots = 1 .. Len(snapshots)
    BY <1>1, LenProperties DEF RestTypeOK, IsList
  <2>3. CASE j > Len(snapshots)
    BY <1>6, <1>16, <2>3 DEF revert_snapshot, restore_snapshot
  <2>4. CASE ~ (j > Len(snapshots))
    <3>1. /\ snapshots' = SubSeq(snapshots, 1, j - 1)
          /\ Become(snapshots[j])
          /\ UNCHANGED << fork, mining, poisoned >>
      BY <1>16, <2>4 DEF revert_snapshot, restore_snapshot
    <3> HIDE DEF j
    <3>2. j - 1 \in Nat /\ j - 1 <= Len(snapshots) /\ j \in DOMAIN snapshots
      BY <2>1, <2>2, <2>4
    <3>3. Tips'
      BY <1>2, <3>1, <3>2, TipsBecome
    <3>4. \A i \in DOMAIN SubSeq(snapshots, 1, j - 1) :
             i \in DOMAIN snapshots /\ SubSeq(snapshots, 1, j - 1)[i] = snapshots[i]
      BY <1>1, <3>2, ListCut DEF RestTypeOK
    <3>5. \A i \in DOMAIN SubSeq(snapshots, 1, j - 1) :
             TipsAgreeIn(SubSeq(snapshots, 1, j - 1)[i], fork)
      BY <1>2, <3>4, Zenon
    <3> HIDE DEF Tips
    <3>6. Snaps'
      BY <3>1, <3>5, Zenon
    <3>7. Tips' /\ MiningInv' /\ ~poisoned'
      BY <1>2, <3>1, <3>3 DEF MiningInv
    <3> QED BY <3>6, <3>7 DEF SafeInv, TipsAgree, NoPanic, Tips
  <2> QED BY <2>3, <2>4
<1>17. ASSUME NEW f \in Forks \cup {NoFork}, reset_network(f)
       PROVE  SafeInv'
  <2>1. CASE reset(f)
    <3>1. Tips'
      BY <2>1, NewOK, TipsBecome DEF reset
    <3>2. snapshots' = << >> /\ DOMAIN << >> = {} /\ UNCHANGED << mining, poisoned >>
      BY <2>1 DEF reset
    <3> HIDE DEF Tips
    <3>3. Snaps'
      BY <3>2
    <3>4. Tips' /\ MiningInv' /\ ~poisoned'
      BY <1>2, <3>1, <3>2 DEF MiningInv
    <3> QED BY <3>3, <3>4 DEF SafeInv, TipsAgree, NoPanic, Tips
  <2>2. CASE UNCHANGED vars
    BY <1>6, <2>2
  <2> QED BY <1>17, <2>1, <2>2 DEF reset_network
<1>18. CASE FilterMethods
  BY <1>3, <1>5, <1>18
     DEF FilterMethods, new_block_filter, new_pending_transaction_filter,
         new_filter, uninstall_filter, get_filter_changes, WithFilters
<1>19. CASE RemoteReadFails \/ SetNonceOverflows
  BY <1>19 DEF RemoteReadFails, SetNonceOverflows, WellBehaved
<1>20. ~ \E info \in ContextWords : set_context_word(info)
  BY DEF WellBehaved, ContextKept
<1> QED
  BY <1>6, <1>7, <1>8, <1>9, <1>10, <1>11, <1>13, <1>14, <1>15, <1>16, <1>17, <1>18, <1>19, <1>20
     DEF Next, SendTransaction, Mine, Snapshots

(* The node starts in a state where SafeInv holds. *)
LEMMA SafeInit ==
    ASSUME Init
    PROVE  SafeInv
<1>1. PICK f \in InitialForks :
        /\ current_timestamp = new(f).current_timestamp
        /\ current_batch = new(f).current_batch
        /\ current_miniblock = new(f).current_miniblock
        /\ raw_storage = new(f).raw_storage
        /\ fork = f
        /\ snapshots = << >>
        /\ mining = [left |-> 0, interval |-> 0]
        /\ poisoned = FALSE
  BY DEF Init
<1>2. TipsAgreeIn(new(f), f)
  BY NewOK, ForkAssumption
<1>3. TipsAgreeIn(snapshot, fork)
  BY <1>1, <1>2 DEF TipsAgreeIn, load_last_l1_batch, load_last_l2_block, snapshot
<1>4. DOMAIN << >> = {}
  OBVIOUS
<1>5. MiningInv /\ NoPanic
  BY <1>1 DEF MiningInv, NoPanic
<1> QED BY <1>1, <1>3, <1>4, <1>5 DEF SafeInv, TipsAgree

(* The batch and the block that the system contracts keep in storage are    *)
(* the counters', and their time is not ahead of the clock, in the node and *)
(* in any snapshot it can revert to, through transactions, mining, clock    *)
(* changes, forks, reverts and resets.  (This is of a WellBehaved node:     *)
(* nobody moves the clock back or writes over the words themselves.)        *)
THEOREM TipsAlwaysAgree ==
    ASSUME WellBehaved
    PROVE  Spec => []TipsAgree
<1>1. Init => SafeInv
  BY SafeInit
<1>2. TypeOK /\ SafeInv /\ [Next]_vars => SafeInv'
  BY SafeStep
<1>3. SafeInv => TipsAgree
  BY DEF SafeInv
<1> QED BY <1>1, <1>2, <1>3, TypeCorrect, PTL DEF Spec

(* Hence the commit loop of run_l2_tx always meets the block it expects,    *)
(* and the lock on the node is never poisoned, for every sequence of the    *)
(* requests of a WellBehaved node: the clock runs forward, the remote chain *)
(* answers, and neither hardhat_setStorageAt is used on the system          *)
(* context's words nor hardhat_setNonce with 2^128 or more.                 *)
THEOREM NodeNeverPanics ==
    ASSUME WellBehaved
    PROVE  Spec => []NoPanic
<1>1. Init => SafeInv
  BY SafeInit
<1>2. TypeOK /\ SafeInv /\ [Next]_vars => SafeInv'
  BY SafeStep
<1>3. SafeInv => NoPanic
  BY DEF SafeInv
<1> QED BY <1>1, <1>2, <1>3, TypeCorrect, PTL DEF Spec

-----------------------------------------------------------------------------
(* The chain: that the maps describe one chain, how a block is linked to    *)
(* the one below it, and that receipts name blocks of it.  Each is stated   *)
(* of a state of the node, s, on a fork point, f, and is carried by every   *)
(* snapshot as well as by the node: a revert puts the former in the place   *)
(* of the latter.                                                           *)

HIDE DEF NON_FORK_FIRST_BLOCK_TIMESTAMP

First(f) == IF f = NoFork THEN 0 ELSE f.number
At(s, n) == s.blocks[s.block_hashes[n]]
Holds(s, f, n) == At(s, n).transactions # << >> /\ (f # NoFork => n > f.number)

(* BlockMapsAgree, with what tells the hashes apart: the number they are    *)
(* computed from.                                                           *)
MapsOK(s, f) ==
    /\ First(f) \in Nat /\ s.current_miniblock \in Nat /\ First(f) <= s.current_miniblock
    /\ DOMAIN s.block_hashes = First(f) .. s.current_miniblock
    /\ DOMAIN s.blocks = {s.block_hashes[n] : n \in First(f) .. s.current_miniblock}
    /\ \A n \in First(f) .. s.current_miniblock :
          /\ s.block_hashes[n][1] = n
          /\ At(s, n).number = n
          /\ At(s, n).hash = s.block_hashes[n]

(* The number of the last batch and block in storage, whatever the clock.   *)
NumbersAgree(s, f) ==
    /\ load_last_l1_batch(s, f).number = s.current_batch
    /\ load_last_l2_block(s, f).number = s.current_miniblock

(* The tip is the fork point itself or an empty block, which has the hash   *)
(* that create_empty_block takes the block below to have.                   *)
TipOK(s, f) ==
    /\ At(s, s.current_miniblock).l1_batch_number = s.current_batch
    /\ \/ f # NoFork /\ s.current_miniblock = f.number
       \/ /\ s.block_hashes[s.current_miniblock] = compute_hash(s.current_miniblock, NoTx)
          /\ At(s, s.current_miniblock).transactions = << >>

ParentsOK(s, f) ==
    \A n \in First(f) + 1 .. s.current_miniblock :
        \/ At(s, n).parent_hash = s.block_hashes[n - 1]
        \/ f # NoFork /\ n = f.number + 1 /\ ~Holds(s, f, n)

BatchesOK(s, f) ==
    \A n \in First(f) + 1 .. s.current_miniblock :
        IF Holds(s, f, n - 1)
          THEN /\ At(s, n).l1_batch_number = At(s, n - 1).l1_batch_number
               /\ ~Holds(s, f, n)
          ELSE At(s, n).l1_batch_number = At(s, n - 1).l1_batch_number + 1

TipHashOK(s, f) ==
    /\ s.current_miniblock_hash \in DOMAIN s.blocks
    /\ \A n \in First(f) .. s.current_miniblock :
          n > s.blocks[s.current_miniblock_hash].number => ~Holds(s, f, n)

ReceiptsOK(s, f) ==
    /\ \A t \in DOMAIN s.tx_results :
          LET r == s.tx_results[t]
          IN  /\ r.block_number \in First(f) .. s.current_miniblock
              /\ s.block_hashes[r.block_number] = r.block_hash
              /\ \E i \in DOMAIN At(s, r.block_number).transactions :
                    At(s, r.block_number).transactions[i].hash = t
    /\ \A n \in First(f) .. s.current_miniblock : Holds(s, f, n) =>
          \A i \in DOMAIN At(s, n).transactions :
              LET t == At(s, n).transactions[i].hash
              IN  t \in DOMAIN s.tx_results /\ s.tx_results[t].block_number = n

ChainOK(s, f) ==
    /\ MapsOK(s, f) /\ NumbersAgree(s, f) /\ TipOK(s, f) /\ ParentsOK(s, f)
    /\ BatchesOK(s, f) /\ TipHashOK(s, f) /\ ReceiptsOK(s, f)

(* The inductive invariant: the chain of the node and of every snapshot.    *)
(* All of it rests on ContextKept: a number written over the system         *)
(* context's word is the next block's, and a gap opens below it.            *)
ChainInv ==
    /\ ContextKept
    /\ ChainOK(snapshot, fork)
    /\ \A i \in DOMAIN snapshots : ChainOK(snapshots[i], fork)

-----------------------------------------------------------------------------
(* Putting a block on top. *)

(* u is s with the block b above its tip. *)
Puts(s, u, b) ==
    /\ b.number = s.current_miniblock + 1
    /\ b.hash[1] = b.number
    /\ u.current_miniblock = b.number
    /\ u.block_hashes = Insert(s.block_hashes, b.number, b.hash)
    /\ u.blocks = Insert(s.blocks, b.hash, b)

(* A block on top keeps the maps in agreement, and the blocks below it.     *)
LEMMA PutBlock ==
    ASSUME NEW s, NEW u, NEW f, NEW b, MapsOK(s, f), Puts(s, u, b)
    PROVE  /\ MapsOK(u, f)
           /\ u.block_hashes[b.number] = b.hash
           /\ At(u, b.number) = b
           /\ \A n \in First(f) .. s.current_miniblock :
                 u.block_hashes[n] = s.block_hashes[n] /\ At(u, n) = At(s, n)
           /\ \A h \in DOMAIN s.blocks : h \in DOMAIN u.blocks /\ u.blocks[h] = s.blocks[h]
<1> DEFINE tip == s.current_miniblock
<1>1. /\ First(f) \in Nat /\ tip \in Nat /\ First(f) <= tip
      /\ DOMAIN s.block_hashes = First(f) .. tip
      /\ DOMAIN s.blocks = {s.block_hashes[n] : n \in First(f) .. tip}
      /\ \A n \in First(f) .. tip :
            /\ s.block_hashes[n][1] = n
            /\ At(s, n).number = n
            /\ At(s, n).hash = s.block_hashes[n]
  BY DEF MapsOK
<1>2. /\ b.number = tip + 1 /\ b.hash[1] = tip + 1 /\ u.current_miniblock = tip + 1
      /\ u.block_hashes = Insert(s.block_hashes, tip + 1, b.hash)
      /\ u.blocks = Insert(s.blocks, b.hash, b)
  BY DEF Puts
<1> HIDE DEF tip
<1>3. /\ DOMAIN u.block_hashes = First(f) .. tip + 1
      /\ u.block_hashes[tip + 1] = b.hash
      /\ \A n \in First(f) .. tip : u.block_hashes[n] = s.block_hashes[n]
  <2>1. /\ DOMAIN u.block_hashes = DOMAIN s.block_hashes \cup {tip + 1}
        /\ u.block_hashes[tip + 1] = b.hash
        /\ \A n \in DOMAIN s.block_hashes :
              n # tip + 1 => u.block_hashes[n] = s.block_hashes[n]
    BY <1>2 DEF Insert
  <2> QED BY <1>1, <2>1
<1>4. b.hash \notin DOMAIN s.blocks
  BY <1>1, <1>2
<1>5. /\ DOMAIN u.blocks = DOMAIN s.blocks \cup {b.hash}
      /\ u.blocks[b.hash] = b
      /\ \A h \in DOMAIN s.blocks : u.blocks[h] = s.blocks[h]
  <2>1. /\ DOMAIN u.blocks = DOMAIN s.blocks \cup {b.hash}
        /\ u.blocks[b.hash] = b
        /\ \A h \in DOMAIN s.blocks : h # b.hash => u.blocks[h] = s.blocks[h]
    BY <1>2 DEF Insert
  <2> QED BY <1>4, <2>1
<1>6. \A n \in First(f) .. tip : At(u, n) = At(s, n)
  BY <1>1, <1>3, <1>5 DEF At
<1>7. At(u, tip + 1) = b
  BY <1>3, <1>5 DEF At
<1>8. DOMAIN u.blocks = {u.block_hashes[n] : n \in First(f) .. tip + 1}
  BY <1>1, <1>3, <1>5
<1>9. \A n \in First(f) .. tip + 1 :
          /\ u.block_hashes[n][1] = n
          /\ At(u, n).number = n
          /\ At(u, n).hash = u.block_hashes[n]
  BY <1>1, <1>2, <1>3, <1>6, <1>7
<1>10. MapsOK(u, f)
  BY <1>1, <1>2, <1>3, <1>8, <1>9 DEF MapsOK
<1> QED BY <1>2, <1>3, <1>5, <1>6, <1>7, <1>10 DEF tip

(* The links below the tip stay; what has to be shown is the new one.       *)
LEMMA PutLinks ==
    ASSUME NEW s, NEW u, NEW f, NEW b, MapsOK(s, f), Puts(s, u, b),
           ParentsOK(s, f), BatchesOK(s, f),
           \/ b.parent_hash = s.block_hashes[s.current_miniblock]
           \/ f # NoFork /\ b.number = f.number + 1 /\ b.transactions = << >>,
           IF Holds(s, f, s.current_miniblock)
             THEN /\ b.l1_batch_number = At(s, s.current_miniblock).l1_batch_number
                  /\ b.transactions = << >>
             ELSE b.l1_batch_number = At(s, s.current_miniblock).l1_batch_number + 1
    PROVE  ParentsOK(u, f) /\ BatchesOK(u, f)
<1> DEFINE tip == s.current_miniblock
<1>1. /\ First(f) \in Nat /\ tip \in Nat /\ First(f) <= tip
      /\ b.number = tip + 1 /\ u.current_miniblock = tip + 1
  BY DEF MapsOK, Puts
<1>2. /\ At(u, tip + 1) = b
      /\ \A n \in First(f) .. tip :
            u.block_hashes[n] = s.block_hashes[n] /\ At(u, n) = At(s, n)
  BY <1>1, PutBlock
<1>3. \A n \in First(f) .. tip : Holds(u, f, n) <=> Holds(s, f, n)
  BY <1>2 DEF Holds
<1>4. Holds(u, f, tip + 1) => b.transactions # << >>
  BY <1>2 DEF Holds
<1> HIDE DEF tip
<1>5. ASSUME NEW n \in First(f) + 1 .. tip
      PROVE  n \in First(f) .. tip /\ n - 1 \in First(f) .. tip
  BY <1>1
<1>6. ParentsOK(u, f)
  <2> SUFFICES ASSUME NEW n \in First(f) + 1 .. tip + 1
               PROVE  \/ At(u, n).parent_hash = u.block_hashes[n - 1]
                      \/ f # NoFork /\ n = f.number + 1 /\ ~Holds(u, f, n)
    BY <1>1 DEF ParentsOK
  <2>1. CASE n = tip + 1
    BY <1>1, <1>2, <1>4, <2>1 DEF tip
  <2>2. CASE n \in First(f) + 1 .. tip
    BY <1>2, <1>3, <1>5, <2>2 DEF ParentsOK, tip
  <2> QED BY <1>1, <2>1, <2>2
<1>7. BatchesOK(u, f)
  <2> SUFFICES ASSUME NEW n \in First(f) + 1 .. tip + 1
               PROVE  IF Holds(u, f, n - 1)
                        THEN /\ At(u, n).l1_batch_number = At(u, n - 1).l1_batch_number
                             /\ ~Holds(u, f, n)
                        ELSE At(u, n).l1_batch_number = At(u, n - 1).l1_batch_number + 1
    BY <1>1 DEF BatchesOK
  <2>1. CASE n = tip + 1
    <3>1. n - 1 = tip /\ tip \in First(f) .. tip
      BY <1>1, <2>1
    <3> QED BY <1>2, <1>3, <1>4, <2>1, <3>1 DEF tip
  <2>2. CASE n \in First(f) + 1 .. tip
    BY <1>2, <1>3, <1>5, <2>2 DEF BatchesOK, tip
  <2> QED BY <1>1, <2>1, <2>2
<1> QED BY <1>6, <1>7

(* An empty block leaves the receipts on the chain. *)
LEMMA PutEmpty ==
    ASSUME NEW s, NEW u, NEW f, NEW b, MapsOK(s, f), Puts(s, u, b),
           ReceiptsOK(s, f), b.transactions = << >>, u.tx_results = s.tx_results
    PROVE  ReceiptsOK(u, f)
<1> DEFINE tip == s.current_miniblock
<1>1. /\ First(f) \in Nat /\ tip \in Nat /\ First(f) <= tip
      /\ b.number = tip + 1 /\ u.current_miniblock = tip + 1
  BY DEF MapsOK, Puts
<1>2. /\ At(u, tip + 1) = b
      /\ \A n \in First(f) .. tip :
            u.block_hashes[n] = s.block_hashes[n] /\ At(u, n) = At(s, n)
  BY <1>1, PutBlock
<1>3. \A n \in First(f) .. tip : Holds(u, f, n) <=> Holds(s, f, n)
  BY <1>2 DEF Holds
<1>4. ~Holds(u, f, tip + 1)
  BY <1>2 DEF Holds
<1> HIDE DEF tip
<1>5. ASSUME NEW t \in DOMAIN u.tx_results
      PROVE  LET r == u.tx_results[t]
             IN  /\ r.block_number \in First(f) .. u.current_miniblock
                 /\ u.block_hashes[r.block_number] = r.block_hash
                 /\ \E i \in DOMAIN At(u, r.block_number).transactions :
                       At(u, r.block_number).transactions[i].hash = t
  <2> DEFINE r == s.tx_results[t]
  <2>1. /\ r.block_number \in First(f) .. tip
        /\ s.block_hashes[r.block_number] = r.block_hash
        /\ \E i \in DOMAIN At(s, r.block_number).transactions :
              At(s, r.block_number).transactions[i].hash = t
    BY <1>5 DEF ReceiptsOK, tip
  <2>2. u.tx_results[t] = r
    OBVIOUS
  <2> HIDE DEF r
  <2>3. r.block_number \in First(f) .. tip + 1
    BY <1>1, <2>1
  <2> QED BY <1>1, <1>2, <2>1, <2>2, <2>3
<1>6. ASSUME NEW n \in First(f) .. u.current_miniblock, Holds(u, f, n)
      PROVE  \A i \in DOMAIN At(u, n).transactions :
                 LET t == At(u, n).transactions[i].hash
                 IN  t \in DOMAIN u.tx_results /\ u.tx_results[t].block_number = n
  <2>1. n \in First(f) .. tip
    BY <1>1, <1>4, <1>6
  <2> QED BY <1>2, <1>3, <1>6, <2>1 DEF ReceiptsOK, tip
<1> QED BY <1>5, <1>6 DEF ReceiptsOK

(* The block of a new transaction, and its receipt. *)
LEMMA PutReceipt ==
    ASSUME NEW s, NEW u, NEW f, NEW b, MapsOK(s, f), Puts(s, u, b), ReceiptsOK(s, f),
           NEW t, t \notin DOMAIN s.tx_results,
           DOMAIN b.transactions = {1}, b.transactions[1].hash = t,
           NEW r, r.block_number = b.number, r.block_hash = b.hash,
           u.tx_results = Insert(s.tx_results, t, r)
    PROVE  ReceiptsOK(u, f)
<1> DEFINE tip == s.current_miniblock
<1>1. /\ First(f) \in Nat /\ tip \in Nat /\ First(f) <= tip
      /\ b.number = tip + 1 /\ u.current_miniblock = tip + 1
  BY DEF MapsOK, Puts
<1>2. /\ At(u, tip + 1) = b
      /\ u.block_hashes[tip + 1] = b.hash
      /\ \A n \in First(f) .. tip :
            u.block_hashes[n] = s.block_hashes[n] /\ At(u, n) = At(s, n)
  BY <1>1, PutBlock
<1>3. \A n \in First(f) .. tip : Holds(u, f, n) <=> Holds(s, f, n)
  BY <1>2 DEF Holds
<1>4. /\ DOMAIN u.tx_results = DOMAIN s.tx_results \cup {t}
      /\ u.tx_results[t] = r
      /\ \A x \in DOMAIN s.tx_results : u.tx_results[x] = s.tx_results[x]
  BY DEF Insert
<1> HIDE DEF tip
<1>5. ASSUME NEW x \in DOMAIN u.tx_results
      PROVE  LET q == u.tx_results[x]
             IN  /\ q.block_number \in First(f) .. u.current_miniblock
                 /\ u.block_hashes[q.block_number] = q.block_hash
                 /\ \E i \in DOMAIN At(u, q.block_number).transactions :
                       At(u, q.block_number).transactions[i].hash = x
  <2>1. CASE x = t
    BY <1>1, <1>2, <1>4, <2>1
  <2>2. CASE x # t
    <3> DEFINE q == s.tx_results[x]
    <3>1. x \in DOMAIN s.tx_results
      BY <1>4, <2>2
    <3>2. /\ q.block_number \in First(f) .. tip
          /\ s.block_hashes[q.block_number] = q.block_hash
          /\ \E i \in DOMAIN At(s, q.block_number).transactions :
                At(s, q.block_number).transactions[i].hash = x
      BY <3>1 DEF ReceiptsOK, tip
    <3>3. u.tx_results[x] = q
      BY <1>4, <3>1
    <3> HIDE DEF q
    <3>4. q.block_number \in First(f) .. tip + 1
      BY <1>1, <3>2
    <3> QED BY <1>1, <1>2, <3>2, <3>3, <3>4
  <2> QED BY <2>1, <2>2
<1>6. ASSUME NEW n \in First(f) .. u.current_miniblock, Holds(u, f, n),
             NEW i \in DOMAIN At(u, n).transactions
      PROVE  LET x == At(u, n).transactions[i].hash
             IN  x \in DOMAIN u.tx_results /\ u.tx_results[x].block_number = n
  <2>1. CASE n = tip + 1
    BY <1>1, <1>2, <1>4, <1>6, <2>1
  <2>2. CASE n # tip + 1
    <3>1. n \in First(f) .. tip
      BY <1>1, <2>2
    <3> DEFINE x == At(s, n).transactions[i].hash
    <3>2. x \in DOMAIN s.tx_results /\ s.tx_results[x].block_number = n
      BY <1>2, <1>3, <1>6, <3>1 DEF ReceiptsOK, tip
    <3>3. At(u, n) = At(s, n)
      BY <1>2, <3>1
    <3> QED BY <1>4, <3>2, <3>3
  <2> QED BY <2>1, <2>2
<1> QED BY <1>5, <1>6 DEF ReceiptsOK

-----------------------------------------------------------------------------
(* The numbers of the next batch do not depend on the clock. *)

(* What is loaded depends on the counters' numbers and the stored words.    *)
LEMMA NumbersFrame ==
    ASSUME NEW s, NEW u, NEW f, NumbersAgree(s, f),
           u.current_batch = s.current_batch, u.current_miniblock = s.current_miniblock,
           u.raw_storage.l1 = s.raw_storage.l1, u.raw_storage.l2 = s.raw_storage.l2
    PROVE  NumbersAgree(u, f)
<1>1. /\ ReadL1(u.raw_storage, f) = ReadL1(s.raw_storage, f)
      /\ ReadL2(u.raw_storage, f) = ReadL2(s.raw_storage, f)
  BY DEF ReadL1, ReadL2
<1> QED BY <1>1 DEF NumbersAgree, load_last_l1_batch, load_last_l2_block

(* Right after a batch the system context names the counters' numbers.      *)
LEMMA NumbersAfterBatch ==
    ASSUME NEW s, NEW f,
           s.current_batch \in Nat \ {0}, s.current_miniblock \in Nat \ {0},
           s.raw_storage.l1.number = s.current_batch,
           s.raw_storage.l2.number = s.current_miniblock
    PROVE  NumbersAgree(s, f)
<1>1. s.raw_storage.l1 # NoInfo /\ s.raw_storage.l2 # NoInfo
  BY DEF NoInfo
<1>2. /\ ReadL1(s.raw_storage, f) = s.raw_storage.l1
      /\ ReadL2(s.raw_storage, f) = s.raw_storage.l2
  BY <1>1 DEF ReadL1, ReadL2
<1> QED BY <1>2 DEF NumbersAgree, load_last_l1_batch, load_last_l2_block

(* create_l1_batch_env names the batch and the block after the counters.    *)
LEMMA EnvNumbers ==
    ASSUME NumbersAgree(snapshot, fork)
    PROVE  /\ create_l1_batch_env.batch = current_batch + 1
           /\ create_l1_batch_env.miniblock = current_miniblock + 1
  BY DEF NumbersAgree, create_l1_batch_env, snapshot

-----------------------------------------------------------------------------
(* What a step can do to the chain. *)

(* Nothing; only the clock, slots, filters, and the lock may change.        *)
Idle ==
    /\ UNCHANGED << current_batch, current_miniblock, current_miniblock_hash, chain,
                    previous_states, fork, snapshots >>
    /\ raw_storage'.l1 = raw_storage.l1 /\ raw_storage'.l2 = raw_storage.l2
    /\ current_timestamp' \in Nat
    /\ ~AllowRewind => current_timestamp' >= current_timestamp

(* Commit a transaction that has passed the checks of the commit loop.      *)
Commits == \E t \in Txs, w \in Writes : RunL2Tx(t, w)

(* Insert an empty block, in any iteration of mine_empty_blocks.            *)
Mines ==
    \E timestamp \in Nat :
        /\ MineOne(create_l1_batch_env, timestamp)
        /\ 0 \notin Intervals /\ MiningInv => timestamp > current_timestamp

(* Copy the node's state, put a copy in its place, or a new node.           *)
Saves ==
    /\ snapshots' = Append(snapshots, snapshot)
    /\ UNCHANGED << counters, chain, filters, previous_states, raw_storage, fork >>

RevertsTo(j) ==
    /\ j \in DOMAIN snapshots
    /\ snapshots' = SubSeq(snapshots, 1, j - 1)
    /\ Become(snapshots[j])
    /\ UNCHANGED fork
    /\ \E id \in 0 .. MAX_SNAPSHOTS : revert_snapshot(id)

(* Write over one of the system context's words. *)
Overwrites == \E info \in ContextWords : set_context_word(info)

(* A revert does nothing, or goes back to one of the snapshots. *)
LEMMA RevertKinds ==
    ASSUME TypeOK, NEW id \in 0 .. MAX_SNAPSHOTS, revert_snapshot(id)
    PROVE  UNCHANGED vars \/ \E j \in DOMAIN snapshots : RevertsTo(j)
<1> DEFINE j == SnapshotIndex(id)
<1>1. j \in Nat /\ j >= 1
  BY LimitAssumption DEF SnapshotIndex
<1>2. Len(snapshots) \in Nat /\ DOMAIN snapshots = 1 .. Len(snapshots)
  BY TypeSplit, LenProperties DEF RestTypeOK, IsList
<1>3. CASE j > Len(snapshots)
  BY <1>3 DEF revert_snapshot
<1>4. CASE ~ (j > Len(snapshots))
  <2>1. RevertsTo(j)
    BY <1>1, <1>2, <1>4 DEF revert_snapshot, restore_snapshot, RevertsTo
  <2> QED BY <2>1 DEF RevertsTo
<1> QED BY <1>3, <1>4

(* Every step is one of these. *)
LEMMA AllStepKinds ==
    ASSUME TypeOK, [Next]_vars
    PROVE  \/ Idle \/ Commits \/ Mines \/ Saves \/ Overwrites
           \/ \E j \in DOMAIN snapshots : RevertsTo(j)
           \/ \E f \in Forks \cup {NoFork} : reset(f)
<1> USE DEF counters, chain
<1>1. NodeTypeOK /\ RestTypeOK
  BY TypeSplit
<1>2. current_timestamp \in Nat
  BY <1>1 DEF NodeTypeOK
<1>3. CASE UNCHANGED vars \/ TxRejected \/ MineNone \/ ServePoisoned
  BY <1>2, <1>3 DEF TxRejected, MineNone, ServePoisoned, vars, Idle
<1>4. ASSUME NEW t \in Txs, TxHalted(t) \/ RunL2TxPanics(t)
      PROVE  Idle
  BY <1>2, <1>4 DEF TxHalted, RunL2TxPanics, Idle
<1>5. ASSUME NEW n \in NumBlocks, NEW i \in Intervals, MineBlocks(n, i)
      PROVE  Mines
  <2>1. create_l1_batch_env.timestamp \in Nat
        /\ create_l1_batch_env.timestamp > current_timestamp
    BY EnvType DEF BlockCtx
  <2>2. MineOne(create_l1_batch_env, create_l1_batch_env.timestamp)
    BY <1>5 DEF MineBlocks
  <2> QED BY <2>1, <2>2 DEF Mines
<1>6. CASE MineNext
  <2>1. mining.left > 0 /\ mining.interval \in Nat
    BY <1>1, <1>6 DEF MineNext, RestTypeOK
  <2>2. current_timestamp + mining.interval \in Nat
    BY <1>2, <2>1
  <2>3. 0 \notin Intervals /\ MiningInv =>
          current_timestamp + mining.interval > current_timestamp
    BY <1>2, <2>1 DEF MiningInv
  <2>4. MineOne(create_l1_batch_env, current_timestamp + mining.interval)
    BY <1>6 DEF MineNext
  <2> QED BY <2>2, <2>3, <2>4 DEF Mines
<1>7. ASSUME NEW time \in Nat, ClockTo(time), ~AllowRewind => time >= current_timestamp
      PROVE  Idle
  BY <1>7 DEF ClockTo, Idle
<1>8. CASE Clock
  <2>1. ASSUME NEW d \in TimeDeltas, increase_time(d)
        PROVE  Idle
    <3>1. current_timestamp + d * 1000 \in Nat /\ current_timestamp + d * 1000 >= current_timestamp
      BY <1>2, ArgumentAssumption
    <3> QED BY <1>7, <2>1, <3>1 DEF increase_time
  <2>2. ASSUME NEW t \in Times, set_next_block_timestamp(t)
        PROVE  Idle
    <3>1. CASE t <= current_timestamp
      BY <1>2, <2>2, <3>1 DEF set_next_block_timestamp, vars, Idle
    <3>2. CASE ~ (t <= current_timestamp)
      <4>1. t - 1 \in Nat /\ t - 1 >= current_timestamp
        BY <1>2, <3>2, ArgumentAssumption
      <4> QED BY <1>7, <2>2, <3>2, <4>1 DEF set_next_block_timestamp
    <3> QED BY <3>1, <3>2
  <2>3. ASSUME NEW t \in Times, set_time(t)
        PROVE  Idle
    <3>1. t \in Nat /\ (~AllowRewind => t >= current_timestamp) /\ ClockTo(t)
      BY <2>3, ArgumentAssumption DEF set_time
    <3> QED BY <1>7, <3>1
  <2> QED BY <1>8, <2>1, <2>2, <2>3 DEF Clock
<1>9. ASSUME NEW k \in Keys, NEW v \in Values, set_storage_at(k, v)
      PROVE  Idle
  <2>1. raw_storage'.l1 = raw_storage.l1 /\ raw_storage'.l2 = raw_storage.l2
    BY <1>1, <1>9 DEF set_storage_at, NodeTypeOK, RawStorage
  <2> QED BY <1>2, <1>9, <2>1 DEF set_storage_at, Idle
<1>10. CASE TakeSnapshot
  <2>1. CASE UNCHANGED snapshots
    BY <1>2, <1>10, <2>1 DEF TakeSnapshot, Idle
  <2>2. CASE snapshots' = Append(snapshots, snapshot)
    BY <1>10, <2>2 DEF TakeSnapshot, Saves
  <2> QED BY <1>10, <2>1, <2>2 DEF TakeSnapshot
<1>11. ASSUME NEW id \in 0 .. MAX_SNAPSHOTS, revert_snapshot(id)
       PROVE  Idle \/ \E j \in DOMAIN snapshots : RevertsTo(j)
  BY <1>2, <1>11, RevertKinds DEF vars, Idle
<1>12. ASSUME NEW f \in Forks \cup {NoFork}, reset_network(f)
       PROVE  Idle \/ reset(f)
  BY <1>2, <1>12 DEF reset_network, vars, Idle
<1>13. CASE FilterMethods
  BY <1>2, <1>13
     DEF FilterMethods, new_block_filter, new_pending_transaction_filter,
         new_filter, uninstall_filter, get_filter_changes, WithFilters, Idle
<1>14. CASE RemoteReadFails \/ SetNonceOverflows
  BY <1>2, <1>14 DEF RemoteReadFails, SetNonceOverflows, Idle
<1> QED
  BY <1>3, <1>4, <1>5, <1>6, <1>8, <1>9, <1>10, <1>11, <1>12, <1>13, <1>14
     DEF Next, SendTransaction, Mine, Snapshots, Commits, Overwrites

(* As long as nobody writes over the system context's words, one of these.  *)
LEMMA StepKinds ==
    ASSUME TypeOK, ChainInv, [Next]_vars
    PROVE  \/ Idle \/ Commits \/ Mines \/ Saves
           \/ \E j \in DOMAIN snapshots : RevertsTo(j)
           \/ \E f \in Forks \cup {NoFork} : reset(f)
<1>1. ~Overwrites
  BY DEF ChainInv, ContextKept, Overwrites
<1> QED BY <1>1, AllStepKinds

-----------------------------------------------------------------------------
(* The chain invariant. *)

(* A new node's chain is its first block. *)
LEMMA NewChainOK ==
    ASSUME NEW f \in Forks \cup {NoFork}
    PROVE  ChainOK(new(f), f)
<1> SUFFICES ASSUME NEW s, s = new(f) PROVE ChainOK(s, f)
  OBVIOUS
<1>1. First(f) \in Nat
  BY ForkAssumption DEF First, ForkPoint
<1>2. \E b : /\ s.current_miniblock = First(f) /\ b.number = First(f)
             /\ b.hash[1] = First(f)
             /\ s.block_hashes = Insert(<< >>, First(f), b.hash)
             /\ s.blocks = Insert(<< >>, b.hash, b)
             /\ s.current_miniblock_hash = b.hash
             /\ s.tx_results = << >>
             /\ b.l1_batch_number = s.current_batch
             /\ f = NoFork => b.hash = compute_hash(0, NoTx) /\ b.transactions = << >>
  <2>1. CASE f = NoFork
    <3> DEFINE b == create_empty_block([batch |-> 0, miniblock |-> 0,
                                        timestamp |-> NON_FORK_FIRST_BLOCK_TIMESTAMP])
    <3>1. /\ b.number = 0 /\ b.hash = << 0, NoTx >> /\ b.transactions = << >>
          /\ b.l1_batch_number = 0
      BY DEF create_empty_block, EmptyBlock, compute_hash
    <3>2. s = [current_timestamp |-> b.timestamp, current_batch |-> 0,
               current_miniblock |-> 0, current_miniblock_hash |-> b.hash,
               tx_results |-> << >>, blocks |-> Insert(<< >>, b.hash, b),
               block_hashes |-> Insert(<< >>, 0, b.hash),
               filters |-> EmptyRegistry, previous_states |-> << >>,
               raw_storage |-> [l1 |-> NoInfo, l2 |-> NoInfo, slots |-> GenesisSlots]]
      BY <2>1, Zenon DEF new, NewLocal
    <3>3. First(f) = 0
      BY <2>1 DEF First
    <3> HIDE DEF b
    <3>4. /\ s.current_miniblock = 0 /\ s.current_batch = 0
          /\ s.current_miniblock_hash = b.hash
          /\ s.block_hashes = Insert(<< >>, 0, b.hash)
          /\ s.blocks = Insert(<< >>, b.hash, b)
          /\ s.tx_results = << >>
      BY <3>2
    <3> QED BY <3>1, <3>3, <3>4 DEF compute_hash
  <2>2. CASE f # NoFork
    <3> DEFINE b == RemoteBlock(f)
    <3>1. /\ b.number = f.number /\ b.hash = << f.number, RemoteTx >>
          /\ b.l1_batch_number = f.batch
      BY DEF RemoteBlock, compute_hash
    <3>2. /\ s.current_miniblock = f.number /\ s.current_batch = f.batch
          /\ s.current_miniblock_hash = b.hash
          /\ s.block_hashes = Insert(<< >>, f.number, b.hash)
          /\ s.blocks = Insert(<< >>, b.hash, b)
          /\ s.tx_results = << >>
      BY <2>2 DEF new, NewForked
    <3>3. First(f) = f.number
      BY <2>2 DEF First
    <3> HIDE DEF b
    <3> QED BY <2>2, <3>1, <3>2, <3>3
  <2> QED BY <2>1, <2>2
<1>3. PICK b : /\ s.current_miniblock = First(f) /\ b.number = First(f)
               /\ b.hash[1] = First(f)
               /\ s.block_hashes = Insert(<< >>, First(f), b.hash)
               /\ s.blocks = Insert(<< >>, b.hash, b)
               /\ s.current_miniblock_hash = b.hash
               /\ s.tx_results = << >>
               /\ b.l1_batch_number = s.current_batch
               /\ f = NoFork => b.hash = compute_hash(0, NoTx) /\ b.transactions = << >>
  BY <1>2
<1>4. /\ DOMAIN s.block_hashes = {First(f)} /\ s.block_hashes[First(f)] = b.hash
      /\ DOMAIN s.blocks = {b.hash} /\ s.blocks[b.hash] = b
  BY <1>3 DEF Insert
<1>5. DOMAIN s.tx_results = {}
  BY <1>3
<1>6. First(f) .. s.current_miniblock = {First(f)}
      /\ First(f) + 1 .. s.current_miniblock = {}
  BY <1>1, <1>3
<1>7. At(s, First(f)) = b
  BY <1>4 DEF At
<1>8. MapsOK(s, f)
  <2> DEFINE n0 == First(f)
  <2>1. /\ s.current_miniblock = n0 /\ n0 .. s.current_miniblock = {n0}
        /\ DOMAIN s.block_hashes = {n0} /\ s.block_hashes[n0] = b.hash
        /\ DOMAIN s.blocks = {b.hash} /\ At(s, n0) = b
        /\ b.number = n0 /\ b.hash[1] = n0 /\ n0 \in Nat
    BY <1>1, <1>3, <1>4, <1>6, <1>7
  <2> HIDE DEF n0
  <2>2. DOMAIN s.blocks = {s.block_hashes[n] : n \in n0 .. s.current_miniblock}
    BY <2>1
  <2> QED BY <2>1, <2>2 DEF MapsOK, n0
<1>9. NumbersAgree(s, f)
  BY NewOK DEF TipsAgreeIn, NumbersAgree
<1>10. TipOK(s, f)
  BY <1>3, <1>4, <1>7 DEF TipOK, First
<1>11. ParentsOK(s, f) /\ BatchesOK(s, f)
  BY <1>6 DEF ParentsOK, BatchesOK
<1>12. \A n \in First(f) .. s.current_miniblock : ~Holds(s, f, n)
  BY <1>1, <1>3, <1>6, <1>7 DEF Holds, First
<1>13. TipHashOK(s, f)
  BY <1>3, <1>4, <1>12 DEF TipHashOK
<1>14. ReceiptsOK(s, f)
  BY <1>5, <1>12 DEF ReceiptsOK
<1> QED BY <1>8, <1>9, <1>10, <1>11, <1>13, <1>14 DEF ChainOK

(* The commit of run_l2_tx, as two blocks put on top of the chain. *)
LEMMA CommitPuts ==
    ASSUME TypeOK, ChainOK(snapshot, fork), NEW t \in Txs, NEW w \in Writes, RunL2Tx(t, w)
    PROVE  \E m, b, e, r :
             /\ Puts(snapshot, m, b) /\ Puts(m, snapshot', e)
             /\ b.hash = compute_hash(b.number, t)
             /\ e.hash = compute_hash(e.number, NoTx)
             /\ b.parent_hash = block_hashes[current_miniblock]
             /\ e.parent_hash = b.hash
             /\ b.l1_batch_number = current_batch + 1
             /\ e.l1_batch_number = current_batch + 1
             /\ b.timestamp = current_timestamp + 1
             /\ e.timestamp = current_timestamp + 2
             /\ DOMAIN b.transactions = {1} /\ b.transactions[1].hash = t
             /\ b.transactions = << b.transactions[1] >>
             /\ e.transactions = << >>
             /\ m.tx_results = tx_results' /\ m.current_batch = current_batch + 1
             /\ tx_results' = Insert(tx_results, t, r)
             /\ r.block_number = b.number /\ r.block_hash = b.hash
             /\ r.logs = TxLogEntries(t, b)
             /\ current_miniblock_hash' = e.hash
             /\ current_batch' = current_batch + 1
             /\ current_timestamp' = current_timestamp + 2
             /\ raw_storage'.l1.number = current_batch + 1
             /\ raw_storage'.l2.number = current_miniblock + 2
             /\ t \notin DOMAIN tx_results
             /\ UNCHANGED << fork, snapshots >>
<1> DEFINE ctx  == create_l1_batch_env
           b    == TxBlock(t, ctx)
           e    == EmptyBlock(new_block(ctx), b.hash)
           r    == Receipt(t, b)
           m    == [current_miniblock |-> current_miniblock + 1,
                    current_batch |-> current_batch + 1,
                    block_hashes |-> Insert(block_hashes, b.number, b.hash),
                    blocks |-> Insert(blocks, b.hash, b), tx_results |-> tx_results']
<1>1. CommitTx(t, w) /\ Consistent(t) /\ t \notin DOMAIN tx_results
  BY DEF RunL2Tx, Executes
<1>2. /\ raw_storage' = [l1 |-> SystemContext(ctx, new_block(ctx)).l1,
                         l2 |-> SystemContext(ctx, new_block(ctx)).l2,
                         slots |-> Apply(raw_storage.slots, w)]
      /\ tx_results' = Insert(tx_results, t, r)
      /\ current_batch' = current_batch + 1
      /\ current_miniblock' = current_miniblock + 2
      /\ current_timestamp' = current_timestamp + 2
      /\ current_miniblock_hash' = e.hash
      /\ block_hashes' = Insert(Insert(block_hashes, b.number, b.hash), e.number, e.hash)
      /\ blocks' = Insert(Insert(blocks, b.hash, b), e.hash, e)
      /\ UNCHANGED << fork, snapshots, mining, poisoned >>
  BY <1>1, Zenon DEF CommitTx
<1>3. current_batch \in Nat /\ current_miniblock \in Nat /\ current_timestamp \in Nat
  BY TypeSplit DEF NodeTypeOK
<1>4. ctx.batch = current_batch + 1 /\ ctx.miniblock = current_miniblock + 1
  BY EnvNumbers DEF ChainOK
<1>5. b.timestamp = current_timestamp + 1 /\ e.timestamp = current_timestamp + 2
  BY <1>1 DEF Consistent, Expected
<1>6. current_miniblock \in DOMAIN block_hashes
  <2>1. snapshot.current_miniblock \in DOMAIN snapshot.block_hashes
    BY DEF ChainOK, MapsOK
  <2> QED BY <2>1 DEF snapshot
<1>7. /\ b.number = current_miniblock + 1
      /\ b.hash = << current_miniblock + 1, t >>
      /\ b.parent_hash = block_hashes[current_miniblock]
      /\ b.l1_batch_number = current_batch + 1
      /\ DOMAIN b.transactions = {1} /\ b.transactions[1].hash = t
      /\ b.transactions = << b.transactions[1] >>
  BY <1>3, <1>4, <1>6 DEF TxBlock, compute_hash
<1>8. /\ e.number = current_miniblock + 2
      /\ e.hash = << current_miniblock + 2, NoTx >>
      /\ e.parent_hash = b.hash
      /\ e.l1_batch_number = current_batch + 1
      /\ e.transactions = << >>
  BY <1>3, <1>4 DEF EmptyBlock, new_block, compute_hash
<1>9. r.block_number = b.number /\ r.block_hash = b.hash /\ r.logs = TxLogEntries(t, b)
  BY DEF Receipt
<1>10. /\ raw_storage'.l1.number = current_batch + 1
       /\ raw_storage'.l2.number = current_miniblock + 2
  BY <1>2, <1>3, <1>4 DEF SystemContext, new_block
<1> HIDE DEF ctx, b, e, r
<1>11. Puts(snapshot, m, b)
  BY <1>7 DEF Puts, snapshot
<1>12. Puts(m, snapshot', e)
  BY <1>2, <1>3, <1>8 DEF Puts, snapshot
<1>13. m.tx_results = tx_results' /\ m.current_batch = current_batch + 1
  OBVIOUS
<1> HIDE DEF m
<1> QED BY <1>1, <1>2, <1>5, <1>7, <1>8, <1>9, <1>10, <1>11, <1>12, <1>13 DEF compute_hash

(* A transaction's two blocks. *)
LEMMA ChainCommit ==
    ASSUME TypeOK, ChainOK(snapshot, fork), Commits
    PROVE  ChainOK(snapshot', fork') /\ UNCHANGED << fork, snapshots >>
<1>1. PICK t \in Txs, w \in Writes : RunL2Tx(t, w)
  BY DEF Commits
<1> DEFINE s == snapshot
           u == snapshot'
           tip == current_miniblock
<1>2. PICK m, b, e, r :
        /\ Puts(s, m, b) /\ Puts(m, u, e)
        /\ b.hash = compute_hash(b.number, t)
        /\ e.hash = compute_hash(e.number, NoTx)
        /\ b.parent_hash = block_hashes[tip]
        /\ e.parent_hash = b.hash
        /\ b.l1_batch_number = current_batch + 1
        /\ e.l1_batch_number = current_batch + 1
        /\ b.timestamp = current_timestamp + 1
        /\ e.timestamp = current_timestamp + 2
        /\ DOMAIN b.transactions = {1} /\ b.transactions[1].hash = t
        /\ e.transactions = << >>
        /\ m.tx_results = tx_results' /\ m.current_batch = current_batch + 1
        /\ tx_results' = Insert(tx_results, t, r)
        /\ r.block_number = b.number /\ r.block_hash = b.hash
        /\ current_miniblock_hash' = e.hash
        /\ current_batch' = current_batch + 1
        /\ current_timestamp' = current_timestamp + 2
        /\ raw_storage'.l1.number = current_batch + 1
        /\ raw_storage'.l2.number = tip + 2
        /\ t \notin DOMAIN tx_results
        /\ UNCHANGED << fork, snapshots >>
  BY <1>1, CommitPuts
<1>3. /\ s.current_miniblock = tip /\ s.current_batch = current_batch
      /\ s.block_hashes = block_hashes /\ s.tx_results = tx_results
      /\ u.current_miniblock_hash = current_miniblock_hash' /\ u.current_batch = current_batch'
      /\ u.tx_results = tx_results' /\ u.raw_storage = raw_storage'
  BY DEF snapshot
<1>4. current_batch \in Nat /\ tip \in Nat /\ First(fork) \in Nat /\ First(fork) <= tip
  <2>1. MapsOK(s, fork)
    BY DEF ChainOK
  <2> QED BY <1>3, <2>1, TypeSplit DEF NodeTypeOK, MapsOK
<1>5. /\ MapsOK(s, fork) /\ ParentsOK(s, fork) /\ BatchesOK(s, fork)
      /\ TipOK(s, fork) /\ ReceiptsOK(s, fork)
  BY DEF ChainOK
<1> HIDE DEF s, u, tip
<1>6. b.number = tip + 1 /\ e.number = tip + 2
      /\ m.current_miniblock = tip + 1 /\ u.current_miniblock = tip + 2
  BY <1>2, <1>3, <1>4 DEF Puts
<1>7. MapsOK(m, fork) /\ At(m, tip + 1) = b /\ m.block_hashes[tip + 1] = b.hash
  BY <1>2, <1>5, <1>6, PutBlock
<1>8. ~Holds(s, fork, tip)
  BY <1>3, <1>4, <1>5 DEF TipOK, Holds, First
<1>9. ParentsOK(m, fork) /\ BatchesOK(m, fork)
  <2>1. b.parent_hash = s.block_hashes[s.current_miniblock]
    BY <1>2, <1>3
  <2>2. b.l1_batch_number = At(s, s.current_miniblock).l1_batch_number + 1
    BY <1>2, <1>3, <1>5 DEF TipOK
  <2> QED BY <1>2, <1>3, <1>5, <1>8, <2>1, <2>2, PutLinks
<1>10. ReceiptsOK(m, fork)
  <2>1. m.tx_results = Insert(s.tx_results, t, r) /\ t \notin DOMAIN s.tx_results
    BY <1>2, <1>3
  <2> QED BY <1>2, <1>5, <2>1, PutReceipt
<1>11. MapsOK(u, fork) /\ At(u, tip + 2) = e /\ u.block_hashes[tip + 2] = e.hash
  BY <1>2, <1>6, <1>7, PutBlock
<1>12. ParentsOK(u, fork) /\ BatchesOK(u, fork)
  <2>1. e.parent_hash = m.block_hashes[m.current_miniblock]
    BY <1>2, <1>6, <1>7
  <2>2. At(m, m.current_miniblock).l1_batch_number = e.l1_batch_number
    BY <1>2, <1>6, <1>7
  <2>3. Holds(m, fork, m.current_miniblock)
    <3>1. b.transactions # << >>
      BY <1>2
    <3> QED BY <1>4, <1>6, <1>7, <3>1 DEF Holds, First
  <2> QED BY <1>2, <1>7, <1>9, <2>1, <2>2, <2>3, PutLinks
<1>13. ReceiptsOK(u, fork)
  BY <1>2, <1>3, <1>7, <1>10, PutEmpty
<1>14. TipOK(u, fork)
  BY <1>2, <1>3, <1>6, <1>11 DEF TipOK
<1>15. TipHashOK(u, fork)
  <2>1. e.hash \in DOMAIN u.blocks /\ u.blocks[e.hash].number = tip + 2
    BY <1>4, <1>6, <1>11 DEF MapsOK, At
  <2>2. \A n \in First(fork) .. tip + 2 : ~(n > tip + 2)
    BY <1>4
  <2> QED BY <1>2, <1>3, <1>6, <2>1, <2>2 DEF TipHashOK
<1>16. NumbersAgree(u, fork)
  <2>1. /\ u.current_batch \in Nat \ {0} /\ u.current_miniblock \in Nat \ {0}
        /\ u.raw_storage.l1.number = u.current_batch
        /\ u.raw_storage.l2.number = u.current_miniblock
    BY <1>2, <1>3, <1>4, <1>6
  <2> QED BY <2>1, NumbersAfterBatch
<1>17. ChainOK(u, fork)
  BY <1>11, <1>12, <1>13, <1>14, <1>15, <1>16 DEF ChainOK
<1> QED BY <1>2, <1>17 DEF u

(* An iteration of mine_empty_blocks, as one block put on top. *)
LEMMA MinePuts ==
    ASSUME TypeOK, ChainOK(snapshot, fork), NEW timestamp \in Nat,
           MineOne(create_l1_batch_env, timestamp)
    PROVE  \E b :
             /\ Puts(snapshot, snapshot', b)
             /\ b.hash = compute_hash(b.number, NoTx)
             /\ b.parent_hash = compute_hash(current_miniblock, NoTx)
             /\ b.l1_batch_number = current_batch + 1
             /\ b.timestamp = timestamp
             /\ b.transactions = << >>
             /\ current_batch' = current_batch + 1
             /\ current_timestamp' = timestamp
             /\ raw_storage'.l1.number = current_batch + 1
             /\ raw_storage'.l2.number = current_miniblock + 1
             /\ UNCHANGED << current_miniblock_hash, tx_results, filters,
                             previous_states, fork, snapshots >>
<1> DEFINE ctx == create_l1_batch_env
           b   == create_empty_block([ctx EXCEPT !.timestamp = timestamp])
<1>1. /\ raw_storage' = [l1 |-> SystemContext(ctx, ctx).l1, l2 |-> SystemContext(ctx, ctx).l2,
                         slots |-> raw_storage.slots]
      /\ block_hashes' = Insert(block_hashes, b.number, b.hash)
      /\ blocks' = Insert(blocks, b.hash, b)
      /\ current_batch' = ctx.batch
      /\ current_miniblock' = ctx.miniblock
      /\ current_timestamp' = timestamp
      /\ UNCHANGED << current_miniblock_hash, tx_results, filters,
                      previous_states, fork, snapshots >>
  BY DEF MineOne
<1>2. current_batch \in Nat /\ current_miniblock \in Nat
  BY TypeSplit DEF NodeTypeOK
<1>3. ctx.batch = current_batch + 1 /\ ctx.miniblock = current_miniblock + 1
  BY EnvNumbers DEF ChainOK
<1>4. ctx \in BlockCtx
  BY EnvType
<1> HIDE DEF ctx
<1>5. /\ b.number = current_miniblock + 1
      /\ b.hash = << current_miniblock + 1, NoTx >>
      /\ b.parent_hash = DefaultParent(current_miniblock + 1)
      /\ b.l1_batch_number = current_batch + 1
      /\ b.timestamp = timestamp
      /\ b.transactions = << >>
  BY <1>3, <1>4 DEF create_empty_block, EmptyBlock, compute_hash, BlockCtx
<1>6. DefaultParent(current_miniblock + 1) = << current_miniblock, NoTx >>
  BY <1>2 DEF DefaultParent, compute_hash
<1>7. /\ raw_storage'.l1.number = current_batch + 1
      /\ raw_storage'.l2.number = current_miniblock + 1
  BY <1>1, <1>3 DEF SystemContext
<1> HIDE DEF b
<1>8. Puts(snapshot, snapshot', b)
  BY <1>1, <1>3, <1>5 DEF Puts, snapshot
<1> QED BY <1>1, <1>3, <1>5, <1>6, <1>7, <1>8 DEF compute_hash

(* A mined block. *)
LEMMA ChainMine ==
    ASSUME TypeOK, ChainOK(snapshot, fork), Mines
    PROVE  ChainOK(snapshot', fork') /\ UNCHANGED << fork, snapshots >>
<1> DEFINE s == snapshot
           u == snapshot'
           tip == current_miniblock
<1>1. PICK timestamp \in Nat : MineOne(create_l1_batch_env, timestamp)
  BY DEF Mines
<1>2. PICK b :
        /\ Puts(s, u, b)
        /\ b.hash = compute_hash(b.number, NoTx)
        /\ b.parent_hash = compute_hash(tip, NoTx)
        /\ b.l1_batch_number = current_batch + 1
        /\ b.transactions = << >>
        /\ current_batch' = current_batch + 1
        /\ raw_storage'.l1.number = current_batch + 1
        /\ raw_storage'.l2.number = tip + 1
        /\ UNCHANGED << current_miniblock_hash, tx_results, fork, snapshots >>
  BY <1>1, MinePuts
<1>3. /\ s.current_miniblock = tip /\ s.current_batch = current_batch
      /\ s.tx_results = tx_results /\ s.current_miniblock_hash = current_miniblock_hash
      /\ u.current_miniblock_hash = current_miniblock_hash' /\ u.current_batch = current_batch'
      /\ u.tx_results = tx_results' /\ u.raw_storage = raw_storage'
  BY DEF snapshot
<1>4. current_batch \in Nat /\ tip \in Nat /\ First(fork) \in Nat /\ First(fork) <= tip
  <2>1. MapsOK(s, fork)
    BY DEF ChainOK
  <2> QED BY <1>3, <2>1, TypeSplit DEF NodeTypeOK, MapsOK
<1>5. /\ MapsOK(s, fork) /\ ParentsOK(s, fork) /\ BatchesOK(s, fork)
      /\ TipOK(s, fork) /\ ReceiptsOK(s, fork) /\ TipHashOK(s, fork)
  BY DEF ChainOK
<1> HIDE DEF s, u, tip
<1>6. b.number = tip + 1 /\ u.current_miniblock = tip + 1
  BY <1>2, <1>3 DEF Puts
<1>7. /\ MapsOK(u, fork) /\ At(u, tip + 1) = b /\ u.block_hashes[tip + 1] = b.hash
      /\ \A n \in First(fork) .. tip : At(u, n) = At(s, n)
      /\ \A h \in DOMAIN s.blocks : h \in DOMAIN u.blocks /\ u.blocks[h] = s.blocks[h]
  BY <1>2, <1>3, <1>5, <1>6, PutBlock
<1>8. ~Holds(s, fork, tip)
  BY <1>3, <1>4, <1>5 DEF TipOK, Holds, First
<1>9. ParentsOK(u, fork) /\ BatchesOK(u, fork)
  <2>1. \/ b.parent_hash = s.block_hashes[s.current_miniblock]
        \/ fork # NoFork /\ b.number = fork.number + 1 /\ b.transactions = << >>
    BY <1>2, <1>3, <1>5, <1>6 DEF TipOK
  <2>2. b.l1_batch_number = At(s, s.current_miniblock).l1_batch_number + 1
    BY <1>2, <1>3, <1>5 DEF TipOK
  <2> QED BY <1>2, <1>3, <1>5, <1>8, <2>1, <2>2, PutLinks
<1>10. ReceiptsOK(u, fork)
  BY <1>2, <1>3, <1>5, PutEmpty
<1>11. TipOK(u, fork)
  BY <1>2, <1>3, <1>6, <1>7 DEF TipOK
<1>12. TipHashOK(u, fork)
  <2> DEFINE h == current_miniblock_hash
  <2>1. /\ h \in DOMAIN s.blocks
        /\ \A n \in First(fork) .. tip : n > s.blocks[h].number => ~Holds(s, fork, n)
    BY <1>3, <1>5 DEF TipHashOK
  <2>2. h \in DOMAIN u.blocks /\ u.blocks[h] = s.blocks[h] /\ u.current_miniblock_hash = h
    BY <1>2, <1>3, <1>7, <2>1
  <2>3. \A n \in First(fork) .. tip : Holds(u, fork, n) <=> Holds(s, fork, n)
    BY <1>7 DEF Holds
  <2>4. ~Holds(u, fork, tip + 1)
    BY <1>2, <1>7 DEF Holds
  <2> HIDE DEF h
  <2>5. \A n \in First(fork) .. tip + 1 : n \in First(fork) .. tip \/ n = tip + 1
    BY <1>4
  <2> QED BY <1>6, <2>1, <2>2, <2>3, <2>4, <2>5 DEF TipHashOK
<1>13. NumbersAgree(u, fork)
  <2>1. /\ u.current_batch \in Nat \ {0} /\ u.current_miniblock \in Nat \ {0}
        /\ u.raw_storage.l1.number = u.current_batch
        /\ u.raw_storage.l2.number = u.current_miniblock
    BY <1>2, <1>3, <1>4, <1>6
  <2> QED BY <2>1, NumbersAfterBatch
<1>14. ChainOK(u, fork)
  BY <1>7, <1>9, <1>10, <1>11, <1>12, <1>13 DEF ChainOK
<1> QED BY <1>2, <1>14 DEF u

(* A state with the same chain, and the same words in storage. *)
LEMMA ChainFrame ==
    ASSUME NEW s, NEW u, NEW f, ChainOK(s, f),
           u.current_batch = s.current_batch, u.current_miniblock = s.current_miniblock,
           u.current_miniblock_hash = s.current_miniblock_hash,
           u.tx_results = s.tx_results, u.blocks = s.blocks,
           u.block_hashes = s.block_hashes,
           u.raw_storage.l1 = s.raw_storage.l1, u.raw_storage.l2 = s.raw_storage.l2
    PROVE  ChainOK(u, f)
<1>1. \A n : At(u, n) = At(s, n)
  BY DEF At
<1>2. \A n : Holds(u, f, n) <=> Holds(s, f, n)
  BY <1>1 DEF Holds
<1>3. MapsOK(u, f)
  BY <1>1 DEF ChainOK, MapsOK
<1>4. NumbersAgree(u, f)
  BY NumbersFrame DEF ChainOK
<1>5. TipOK(u, f)
  BY <1>1 DEF ChainOK, TipOK
<1>6. ParentsOK(u, f) /\ BatchesOK(u, f)
  BY <1>1, <1>2 DEF ChainOK, ParentsOK, BatchesOK
<1>7. TipHashOK(u, f)
  BY <1>2 DEF ChainOK, TipHashOK
<1>8. ReceiptsOK(u, f)
  BY <1>1, <1>2 DEF ChainOK, ReceiptsOK
<1> QED BY <1>3, <1>4, <1>5, <1>6, <1>7, <1>8 DEF ChainOK

-----------------------------------------------------------------------------
(* The list of snapshots. *)

(* A new snapshot is the node's state, behind the ones there are. *)
LEMMA AfterSave ==
    ASSUME TypeOK, Saves
    PROVE  /\ Len(snapshots) \in Nat
           /\ DOMAIN snapshots = 1 .. Len(snapshots)
           /\ Len(snapshots') = Len(snapshots) + 1
           /\ DOMAIN snapshots' = 1 .. Len(snapshots) + 1
           /\ \A i \in DOMAIN snapshots : snapshots'[i] = snapshots[i]
           /\ snapshots'[Len(snapshots) + 1] = snapshot
<1> DEFINE R == {snapshots[i] : i \in DOMAIN snapshots} \cup {snapshot}
<1>1. snapshots \in Seq(R)
  <2>1. snapshots \in Seq({snapshots[i] : i \in DOMAIN snapshots})
    BY DEF TypeOK
  <2> QED BY <2>1, SeqMonotonic
<1>2. snapshot \in R /\ snapshots' = Append(snapshots, snapshot)
  BY DEF Saves
<1> DEFINE e == snapshot
<1>3. e \in R /\ snapshots' = Append(snapshots, e)
  BY <1>2
<1> HIDE DEF R, e
<1>4. Len(snapshots) \in Nat /\ DOMAIN snapshots = 1 .. Len(snapshots)
  BY <1>1, LenProperties
<1>5. /\ Len(Append(snapshots, e)) = Len(snapshots) + 1
      /\ DOMAIN Append(snapshots, e) = 1 .. Len(snapshots) + 1
      /\ \A i \in 1 .. Len(snapshots) : Append(snapshots, e)[i] = snapshots[i]
      /\ Append(snapshots, e)[Len(snapshots) + 1] = e
  BY <1>1, <1>3, <1>4
<1> QED BY <1>3, <1>4, <1>5 DEF e

(* A revert to the j-th keeps the ones before it. *)
LEMMA AfterRevert ==
    ASSUME TypeOK, NEW j \in DOMAIN snapshots, RevertsTo(j)
    PROVE  /\ Len(snapshots) \in Nat
           /\ DOMAIN snapshots = 1 .. Len(snapshots)
           /\ j \in 1 .. Len(snapshots)
           /\ Len(snapshots') = j - 1
           /\ DOMAIN snapshots' = 1 .. j - 1
           /\ \A i \in 1 .. j - 1 : i \in DOMAIN snapshots /\ snapshots'[i] = snapshots[i]
<1> DEFINE R == {snapshots[i] : i \in DOMAIN snapshots}
<1>1. snapshots \in Seq(R)
  BY DEF TypeOK
<1>2. Len(snapshots) \in Nat /\ DOMAIN snapshots = 1 .. Len(snapshots)
  BY <1>1, LenProperties
<1>3. j \in 1 .. Len(snapshots) /\ \A i \in 1 .. j - 1 : snapshots[i] \in R
  BY <1>2
<1> HIDE DEF R
<1>4. /\ SubSeq(snapshots, 1, j - 1) \in Seq(R)
      /\ Len(SubSeq(snapshots, 1, j - 1)) = IF 1 <= j - 1 THEN j - 1 - 1 + 1 ELSE 0
      /\ \A i \in 1 .. j - 1 - 1 + 1 : SubSeq(snapshots, 1, j - 1)[i] = snapshots[1 + i - 1]
  BY <1>3, SubSeqProperties
<1>5. Len(SubSeq(snapshots, 1, j - 1)) = j - 1
  BY <1>3, <1>4
<1>6. DOMAIN SubSeq(snapshots, 1, j - 1) = 1 .. j - 1
  BY <1>4, <1>5, LenProperties
<1>7. \A i \in 1 .. j - 1 : SubSeq(snapshots, 1, j - 1)[i] = snapshots[i]
  BY <1>3, <1>4
<1> QED BY <1>2, <1>3, <1>5, <1>6, <1>7 DEF RevertsTo

(* What a state looks like once it has taken the node's place. *)
LEMMA AfterBecome ==
    ASSUME NEW s, Become(s)
    PROVE  /\ snapshot'.current_timestamp = s.current_timestamp
           /\ snapshot'.current_batch = s.current_batch
           /\ snapshot'.current_miniblock = s.current_miniblock
           /\ snapshot'.current_miniblock_hash = s.current_miniblock_hash
           /\ snapshot'.tx_results = s.tx_results
           /\ snapshot'.blocks = s.blocks
           /\ snapshot'.block_hashes = s.block_hashes
           /\ snapshot'.filters = s.filters
           /\ snapshot'.previous_states = s.previous_states
           /\ snapshot'.raw_storage = s.raw_storage
  BY DEF Become, snapshot

-----------------------------------------------------------------------------
(* Every step preserves the chain invariant. *)
LEMMA ChainStep ==
    ASSUME TypeOK, ChainInv, [Next]_vars
    PROVE  ChainInv'
<1>1. ChainOK(snapshot, fork) /\ \A i \in DOMAIN snapshots : ChainOK(snapshots[i], fork)
  BY DEF ChainInv
<1>2. SUFFICES ChainOK(snapshot', fork')
               /\ \A i \in DOMAIN snapshots' : ChainOK(snapshots'[i], fork')
  BY DEF ChainInv, ContextKept
<1>3. CASE Idle
  <2>1. /\ snapshot'.current_batch = snapshot.current_batch
        /\ snapshot'.current_miniblock = snapshot.current_miniblock
        /\ snapshot'.current_miniblock_hash = snapshot.current_miniblock_hash
        /\ snapshot'.tx_results = snapshot.tx_results
        /\ snapshot'.blocks = snapshot.blocks
        /\ snapshot'.block_hashes = snapshot.block_hashes
        /\ snapshot'.raw_storage.l1 = snapshot.raw_storage.l1
        /\ snapshot'.raw_storage.l2 = snapshot.raw_storage.l2
    BY <1>3 DEF Idle, chain, snapshot
  <2>2. ChainOK(snapshot', fork)
    BY <1>1, <2>1, ChainFrame
  <2>3. fork' = fork /\ snapshots' = snapshots
    BY <1>3 DEF Idle
  <2> QED BY <1>1, <2>2, <2>3
<1>4. CASE Commits
  <2>1. ChainOK(snapshot', fork') /\ UNCHANGED << fork, snapshots >>
    BY <1>1, <1>4, ChainCommit
  <2> QED BY <1>1, <2>1
<1>5. CASE Mines
  <2>1. ChainOK(snapshot', fork') /\ UNCHANGED << fork, snapshots >>
    BY <1>1, <1>5, ChainMine
  <2> QED BY <1>1, <2>1
<1>6. CASE Saves
  <2>1. snapshot' = snapshot /\ fork' = fork
    BY <1>6 DEF Saves, snapshot, counters, chain
  <2>2. /\ DOMAIN snapshots' = 1 .. Len(snapshots) + 1 /\ Len(snapshots) \in Nat
        /\ DOMAIN snapshots = 1 .. Len(snapshots)
        /\ \A i \in DOMAIN snapshots : snapshots'[i] = snapshots[i]
        /\ snapshots'[Len(snapshots) + 1] = snapshot
    BY <1>6, AfterSave
  <2>3. ASSUME NEW i \in DOMAIN snapshots'
        PROVE  \/ snapshots'[i] = snapshot
               \/ i \in DOMAIN snapshots /\ snapshots'[i] = snapshots[i]
    <3>1. i \in DOMAIN snapshots \/ i = Len(snapshots) + 1
      BY <2>2
    <3> QED BY <2>2, <3>1, Zenon
  <2>4. \A i \in DOMAIN snapshots' : ChainOK(snapshots'[i], fork)
    BY <1>1, <2>3, Zenon
  <2> QED BY <1>1, <2>1, <2>4, Zenon
<1>7. ASSUME NEW j \in DOMAIN snapshots, RevertsTo(j)
      PROVE  ChainOK(snapshot', fork')
             /\ \A i \in DOMAIN snapshots' : ChainOK(snapshots'[i], fork')
  <2>1. fork' = fork /\ Become(snapshots[j])
    BY <1>7 DEF RevertsTo
  <2>2. ChainOK(snapshot', fork)
    BY <1>1, <2>1, AfterBecome, ChainFrame
  <2>3. \A i \in DOMAIN snapshots' : i \in DOMAIN snapshots /\ snapshots'[i] = snapshots[i]
    BY <1>7, AfterRevert
  <2> QED BY <1>1, <2>1, <2>2, <2>3, Zenon
<1>8. ASSUME NEW f \in Forks \cup {NoFork}, reset(f)
      PROVE  ChainOK(snapshot', fork')
             /\ \A i \in DOMAIN snapshots' : ChainOK(snapshots'[i], fork')
  <2>1. fork' = f /\ Become(new(f)) /\ snapshots' = << >>
    BY <1>8 DEF reset
  <2>2. ChainOK(new(f), f)
    BY NewChainOK
  <2>3. ChainOK(snapshot', f)
    BY <2>1, <2>2, AfterBecome, ChainFrame
  <2> QED BY <2>1, <2>3
<1> QED BY <1>3, <1>4, <1>5, <1>6, <1>7, <1>8, StepKinds

(* The node starts with a new node's state and without snapshots. *)
LEMMA StartsNew ==
    ASSUME Init
    PROVE  \E f \in Forks \cup {NoFork} :
              snapshot = new(f) /\ fork = f /\ DOMAIN snapshots = {}
<1>1. PICK f \in InitialForks :
        /\ current_timestamp = new(f).current_timestamp
        /\ current_batch = new(f).current_batch
        /\ current_miniblock = new(f).current_miniblock
        /\ current_miniblock_hash = new(f).current_miniblock_hash
        /\ tx_results = new(f).tx_results
        /\ blocks = new(f).blocks
        /\ block_hashes = new(f).block_hashes
        /\ filters = new(f).filters
        /\ previous_states = new(f).previous_states
        /\ raw_storage = new(f).raw_storage
        /\ fork = f
        /\ snapshots = << >>
  BY DEF Init
<1>2. f \in Forks \cup {NoFork}
  BY ForkAssumption
<1>3. snapshot = new(f)
  <2>1. CASE f = NoFork
    BY <1>1, <2>1, Zenon DEF snapshot, new, NewLocal
  <2>2. CASE f # NoFork
    BY <1>1, <2>2, Zenon DEF snapshot, new, NewForked
  <2> QED BY <2>1, <2>2
<1>4. DOMAIN snapshots = {}
  BY <1>1
<1> QED BY <1>1, <1>2, <1>3, <1>4

(* The chain invariant holds throughout. *)
LEMMA ChainAlways ==
    ASSUME ContextKept
    PROVE  Spec => []ChainInv
<1>1. Init => ChainInv
  BY StartsNew, NewChainOK DEF ChainInv
<1>2. TypeOK /\ ChainInv /\ [Next]_vars => ChainInv'
  BY ChainStep
<1> QED BY <1>1, <1>2, TypeCorrect, PTL DEF Spec

(* The chain invariant, read as the properties of the node's own state. *)
LEMMA ChainReads ==
    ASSUME ChainInv
    PROVE  BlockMapsAgree /\ ParentLinks /\ BatchStructure /\ TipHashOnChain /\ ReceiptsOnChain
<1> DEFINE s == snapshot
<1>1. /\ s.current_miniblock = current_miniblock /\ s.blocks = blocks
      /\ s.block_hashes = block_hashes /\ s.tx_results = tx_results
      /\ s.current_miniblock_hash = current_miniblock_hash
  BY DEF snapshot
<1>2. /\ MapsOK(s, fork) /\ ParentsOK(s, fork) /\ BatchesOK(s, fork)
      /\ TipHashOK(s, fork) /\ ReceiptsOK(s, fork)
  BY DEF ChainInv, ChainOK
<1> HIDE DEF s
<1>3. FirstBlock = First(fork) /\ \A n : BlockAt(n) = At(s, n)
  BY <1>1 DEF FirstBlock, First, BlockAt, At
<1>4. \A n : HoldsTx(n) <=> Holds(s, fork, n)
  BY <1>3 DEF HoldsTx, Holds
<1>5. /\ First(fork) \in Nat /\ current_miniblock \in Nat
      /\ DOMAIN block_hashes = First(fork) .. current_miniblock
  BY <1>1, <1>2 DEF MapsOK
<1>6. \A n \in DOMAIN block_hashes :
         n - 1 \in DOMAIN block_hashes => n \in First(fork) + 1 .. current_miniblock
  BY <1>5
<1>7. BlockMapsAgree
  BY <1>1, <1>2, <1>3 DEF BlockMapsAgree, MapsOK
<1>8. ParentLinks
  BY <1>1, <1>2, <1>3, <1>4, <1>6 DEF ParentLinks, ParentsOK
<1>9. BatchStructure
  BY <1>1, <1>2, <1>3, <1>4, <1>6 DEF BatchStructure, BatchesOK
<1>10. TipHashOnChain
  BY <1>1, <1>2, <1>4, <1>5 DEF TipHashOnChain, TipHashOK
<1>11. ReceiptsOnChain
  BY <1>1, <1>2, <1>3, <1>4, <1>5 DEF ReceiptsOnChain, ReceiptsOK
<1> QED BY <1>7, <1>8, <1>9, <1>10, <1>11

(* The maps behind eth_getBlockByNumber and eth_getBlockByHash describe one *)
(* gapless chain from the first block to the counter current_miniblock: no  *)
(* clock change, mining interval, panic, revert, reset or fork point makes  *)
(* them part.                                                               *)
THEOREM MapsDescribeOneChain ==
    ASSUME ContextKept
    PROVE  Spec => []BlockMapsAgree
<1>1. ChainInv => BlockMapsAgree
  BY ChainReads
<1>2. Spec => []ChainInv
  BY ChainAlways
<1> QED BY <1>1, <1>2, PTL

(* Every block names the block below it as its parent, except one mined on  *)
(* a bare fork point, whoever of run_l2_tx and mine_empty_blocks made the   *)
(* two: the guess create_empty_block makes is right because the tip is      *)
(* always an empty block.                                                   *)
THEOREM ParentsAreLinked ==
    ASSUME ContextKept
    PROVE  Spec => []ParentLinks
<1>1. ChainInv => ParentLinks
  BY ChainReads
<1>2. Spec => []ChainInv
  BY ChainAlways
<1> QED BY <1>1, <1>2, PTL

(* Every transaction has a batch of two blocks to itself, and every mined   *)
(* block a batch of its own; the batches count up without gaps.             *)
THEOREM BatchesAreStructured ==
    ASSUME ContextKept
    PROVE  Spec => []BatchStructure
<1>1. ChainInv => BatchStructure
  BY ChainReads
<1>2. Spec => []ChainInv
  BY ChainAlways
<1> QED BY <1>1, <1>2, PTL

(* current_miniblock_hash, which mining leaves alone and a revert restores, *)
(* names a block of the chain that no transaction's block lies above.       *)
THEOREM TipHashNamesBlock ==
    ASSUME ContextKept
    PROVE  Spec => []TipHashOnChain
<1>1. ChainInv => TipHashOnChain
  BY ChainReads
<1>2. Spec => []ChainInv
  BY ChainAlways
<1> QED BY <1>1, <1>2, PTL

(* Every receipt names the block of the chain that holds its transaction,   *)
(* and every transaction in a block of the node's own has that receipt,     *)
(* after any number of reverts.                                             *)
THEOREM ReceiptsNameBlocks ==
    ASSUME ContextKept
    PROVE  Spec => []ReceiptsOnChain
<1>1. ChainInv => ReceiptsOnChain
  BY ChainReads
<1>2. Spec => []ChainInv
  BY ChainAlways
<1> QED BY <1>1, <1>2, PTL

-----------------------------------------------------------------------------
(* The clock and the mining loop. *)

(* Inside the loop of mine_empty_blocks nothing else is served. *)
LEMMA WhileMining ==
    ASSUME TypeOK, mining.left > 0, [Next]_vars
    PROVE  MineNext \/ RemoteReadFails \/ UNCHANGED vars
<1>1. ~Ready
  <2>1. mining.left \in Nat
    BY DEF TypeOK
  <2> QED BY <2>1 DEF Ready
<1> QED
  BY <1>1 DEF Next, SendTransaction, TxRejected, TxHalted, RunL2Tx, RunL2TxPanics, Mine, MineNone,
         MineBlocks, Clock, increase_time, set_next_block_timestamp, set_time, set_storage_at,
         set_context_word, SetNonceOverflows,
         Snapshots, TakeSnapshot, revert_snapshot, reset_network, FilterMethods,
         new_block_filter, new_pending_transaction_filter, new_filter, uninstall_filter,
         get_filter_changes, WithFilters, ServePoisoned

(* Outside of it, only hardhat_mine and evm_mine enter it. *)
LEMMA NotMining ==
    ASSUME TypeOK, mining.left = 0, [Next]_vars
    PROVE  mining'.left = 0 \/ \E n \in NumBlocks, i \in Intervals : MineBlocks(n, i)
  BY DEF Next, vars, SendTransaction, TxRejected, TxHalted, RunL2Tx, CommitTx, RunL2TxPanics,
         Mine, MineNone, MineNext, Clock, increase_time, set_next_block_timestamp, set_time,
         ClockTo, set_storage_at, set_context_word, SetNonceOverflows,
         Snapshots, TakeSnapshot, revert_snapshot, reset_network, reset, FilterMethods,
         new_block_filter, new_pending_transaction_filter, new_filter, uninstall_filter,
         get_filter_changes, WithFilters, RemoteReadFails, ServePoisoned

(* A mined block whose time is not before the batch's brings counters and   *)
(* storage into agreement, whatever they were before.                       *)
LEMMA TipsAfterMine ==
    ASSUME TypeOK, NEW timestamp \in Nat,
           create_l1_batch_env.timestamp <= timestamp,
           MineOne(create_l1_batch_env, timestamp)
    PROVE  TipsAgreeIn(snapshot', fork')
<1> DEFINE ctx == create_l1_batch_env
           u   == snapshot'
<1>1. /\ raw_storage' = [l1 |-> SystemContext(ctx, ctx).l1, l2 |-> SystemContext(ctx, ctx).l2,
                         slots |-> raw_storage.slots]
      /\ current_batch' = ctx.batch
      /\ current_miniblock' = ctx.miniblock
      /\ current_timestamp' = timestamp
  BY DEF MineOne
<1>2. ctx.batch \in Nat \ {0} /\ ctx.miniblock \in Nat \ {0}
  BY EnvType DEF BlockCtx
<1>4. /\ u.raw_storage = raw_storage' /\ u.current_batch = current_batch'
      /\ u.current_miniblock = current_miniblock' /\ u.current_timestamp = current_timestamp'
  BY DEF snapshot
<1> HIDE DEF ctx, u
<1>5. /\ raw_storage'.l1 = [number |-> ctx.batch, timestamp |-> ctx.timestamp]
      /\ raw_storage'.l2 = [number |-> ctx.miniblock, timestamp |-> ctx.timestamp]
  BY <1>1 DEF SystemContext
<1>6. /\ u.current_batch \in Nat \ {0} /\ u.current_miniblock \in Nat \ {0}
      /\ u.raw_storage.l1.number = u.current_batch
      /\ u.raw_storage.l2.number = u.current_miniblock
      /\ u.raw_storage.l1.timestamp <= u.current_timestamp
      /\ u.raw_storage.l2.timestamp <= u.current_timestamp
  BY <1>1, <1>2, <1>4, <1>5 DEF ctx
<1> QED BY <1>6, TipsAfterBatch DEF u

(* A loop in progress has one of the intervals, and its blocks so far have  *)
(* left counters and storage in agreement.                                  *)
LoopInv ==
    mining.left > 0 => mining.interval \in Intervals /\ TipsAgreeIn(snapshot, fork)

(* Both kinds of iteration leave the tips in agreement: the first because   *)
(* its block has the batch's own time, the later ones because the interval  *)
(* is not 0.                                                                *)
LEMMA IterationResyncs ==
    ASSUME 0 \notin Intervals, TypeOK, LoopInv,
           MineNext \/ \E n \in NumBlocks, i \in Intervals : MineBlocks(n, i)
    PROVE  TipsAgreeIn(snapshot', fork')
<1>2. create_l1_batch_env.timestamp \in Nat
  BY EnvType DEF BlockCtx
<1>3. ASSUME NEW n \in NumBlocks, NEW i \in Intervals, MineBlocks(n, i)
      PROVE  TipsAgreeIn(snapshot', fork')
  <2>1. MineOne(create_l1_batch_env, create_l1_batch_env.timestamp)
    BY <1>3 DEF MineBlocks
  <2> QED BY <1>2, <2>1, TipsAfterMine
<1>4. CASE MineNext
  <2>1. mining.left > 0 /\ MineOne(create_l1_batch_env, current_timestamp + mining.interval)
    BY <1>4 DEF MineNext
  <2>2. mining.interval \in Nat \ {0} /\ current_timestamp \in Nat
    <3>1. mining.interval \in Intervals /\ Intervals \subseteq Nat
      BY <2>1, ArgumentAssumption DEF LoopInv
    <3> QED BY <3>1, TypeSplit DEF NodeTypeOK
  <2>3. create_l1_batch_env.timestamp = current_timestamp + 1
    BY <2>1, EnvFollowsTips DEF LoopInv
  <2>4. /\ current_timestamp + mining.interval \in Nat
        /\ create_l1_batch_env.timestamp <= current_timestamp + mining.interval
    BY <2>2, <2>3
  <2> QED BY <2>1, <2>4, TipsAfterMine
<1> QED BY <1>3, <1>4

(* Every step preserves LoopInv. *)
LEMMA LoopStep ==
    ASSUME 0 \notin Intervals, TypeOK, LoopInv, [Next]_vars
    PROVE  LoopInv'
<1>1. mining \in [left : Nat, interval : Nat]
  BY DEF TypeOK
<1>2. ASSUME NEW n \in NumBlocks, NEW i \in Intervals, MineBlocks(n, i)
      PROVE  LoopInv'
  <2>1. TipsAgreeIn(snapshot', fork')
    BY <1>2, IterationResyncs
  <2>2. mining' = [left |-> n - 1, interval |-> IF n = 1 THEN 0 ELSE i] /\ n \in Nat
    BY <1>2, ArgumentAssumption DEF MineBlocks
  <2> QED BY <2>1, <2>2 DEF LoopInv
<1>3. CASE mining.left = 0
  BY <1>2, <1>3, NotMining DEF LoopInv
<1>4. CASE mining.left > 0
  <2>1. CASE MineNext
    <3>1. TipsAgreeIn(snapshot', fork')
      BY <2>1, IterationResyncs
    <3>2. mining' = [left |-> mining.left - 1,
                     interval |-> IF mining.left = 1 THEN 0 ELSE mining.interval]
      BY <2>1 DEF MineNext
    <3> QED BY <1>1, <1>4, <3>1, <3>2 DEF LoopInv
  <2>2. CASE RemoteReadFails
    BY <2>2 DEF RemoteReadFails, LoopInv
  <2>3. CASE UNCHANGED vars
    <3>1. snapshot' = snapshot /\ fork' = fork /\ mining' = mining
      BY <2>3 DEF vars, counters, chain, snapshot
    <3> QED BY <3>1 DEF LoopInv
  <2> QED BY <1>4, <2>1, <2>2, <2>3, WhileMining
<1> QED BY <1>1, <1>3, <1>4

(* Each block that mine_empty_blocks inserts leaves the counters and the    *)
(* storage in agreement, also when evm_setTime had moved the clock behind   *)
(* them, provided that the interval is not 0 (with 0 it does not, see the   *)
(* run v_zero_interval).                                                    *)
THEOREM MiningBringsUpToDate ==
    ASSUME 0 \notin Intervals
    PROVE  Spec => MiningResyncs
<1>1. Init => LoopInv
  BY DEF Init, LoopInv
<1>2. TypeOK /\ LoopInv /\ [Next]_vars => LoopInv'
  BY LoopStep
<1>3. TypeOK /\ LoopInv /\ [Next]_vars =>
        [(MineNext \/ \E n \in NumBlocks, i \in Intervals : MineBlocks(n, i))
           => TipsAgreeIn(snapshot, fork)']_vars
  BY IterationResyncs
<1> QED BY <1>1, <1>2, <1>3, TypeCorrect, PTL DEF Spec, MiningResyncs

-----------------------------------------------------------------------------
(* Panics. *)

(* The numbers in storage are the counters', or a client wrote over them.   *)
WordsOK(s, f) ==
    /\ \/ s.raw_storage.l1 \in ContextWords
       \/ load_last_l1_batch(s, f).number = s.current_batch
    /\ \/ s.raw_storage.l2 \in ContextWords
       \/ load_last_l2_block(s, f).number = s.current_miniblock

(* In the node, and in every snapshot it can be taken back to.              *)
WordsInv ==
    /\ WordsOK(snapshot, fork)
    /\ \A i \in DOMAIN snapshots : WordsOK(snapshots[i], fork)

(* The two conjuncts look at nothing but the counters and the two words.    *)
LEMMA WordsFrame ==
    ASSUME NEW s, NEW u, NEW f, WordsOK(s, f),
           u.current_batch = s.current_batch, u.current_miniblock = s.current_miniblock,
           u.raw_storage.l1 = s.raw_storage.l1, u.raw_storage.l2 = s.raw_storage.l2
    PROVE  WordsOK(u, f)
<1>1. /\ ReadL1(u.raw_storage, f) = ReadL1(s.raw_storage, f)
      /\ ReadL2(u.raw_storage, f) = ReadL2(s.raw_storage, f)
  BY DEF ReadL1, ReadL2
<1>2. /\ load_last_l1_batch(u, f).number = load_last_l1_batch(s, f).number
      /\ load_last_l2_block(u, f).number = load_last_l2_block(s, f).number
  BY <1>1 DEF load_last_l1_batch, load_last_l2_block
<1> QED BY <1>2 DEF WordsOK

(* A commit that has passed the checks leaves the counters' numbers in      *)
(* storage, whatever was there.                                             *)
LEMMA WordsAfterCommit ==
    ASSUME TypeOK, NEW t \in Txs, NEW w \in Writes, RunL2Tx(t, w)
    PROVE  WordsOK(snapshot', fork')
<1> DEFINE ctx == create_l1_batch_env
           u   == snapshot'
<1>1. ctx \in BlockCtx /\ ctx.batch > 0 /\ ctx.miniblock > 0
  BY EnvType
<1>2. /\ raw_storage' = [l1 |-> SystemContext(ctx, new_block(ctx)).l1,
                         l2 |-> SystemContext(ctx, new_block(ctx)).l2,
                         slots |-> Apply(raw_storage.slots, w)]
      /\ current_batch' = current_batch + 1
      /\ current_miniblock' = current_miniblock + 2
  BY Zenon DEF RunL2Tx, CommitTx
<1>3. Expected(TxBlock(t, ctx), 1)
  BY Zenon DEF RunL2Tx, Consistent
<1> HIDE DEF ctx
<1>4. ctx.batch = current_batch + 1 /\ ctx.miniblock = current_miniblock + 1
  BY <1>3 DEF Expected, TxBlock
<1>5. /\ raw_storage'.l1.number = ctx.batch
      /\ raw_storage'.l2.number = ctx.miniblock + 1
  BY <1>2 DEF SystemContext, new_block
<1>6. current_batch \in Nat /\ current_miniblock \in Nat
  BY TypeSplit DEF NodeTypeOK
<1>7. /\ u.raw_storage = raw_storage' /\ u.current_batch = current_batch'
      /\ u.current_miniblock = current_miniblock'
  BY DEF snapshot
<1> HIDE DEF u
<1>8. NumbersAgree(u, fork')
  BY <1>2, <1>4, <1>5, <1>6, <1>7, NumbersAfterBatch
<1> QED BY <1>8 DEF NumbersAgree, WordsOK, u

(* So does an iteration of mine_empty_blocks: it takes its counters from    *)
(* storage.                                                                 *)
LEMMA WordsAfterMine ==
    ASSUME TypeOK, Mines
    PROVE  WordsOK(snapshot', fork') /\ UNCHANGED << fork, snapshots >>
<1> DEFINE ctx == create_l1_batch_env
           u   == snapshot'
<1>1. ctx.batch \in Nat \ {0} /\ ctx.miniblock \in Nat \ {0}
  BY EnvType DEF BlockCtx
<1>2. /\ raw_storage' = [l1 |-> SystemContext(ctx, ctx).l1, l2 |-> SystemContext(ctx, ctx).l2,
                         slots |-> raw_storage.slots]
      /\ current_batch' = ctx.batch
      /\ current_miniblock' = ctx.miniblock
      /\ UNCHANGED << fork, snapshots >>
  BY DEF Mines, MineOne
<1>3. /\ u.raw_storage = raw_storage' /\ u.current_batch = current_batch'
      /\ u.current_miniblock = current_miniblock'
  BY DEF snapshot
<1> HIDE DEF ctx, u
<1>4. /\ raw_storage'.l1.number = ctx.batch
      /\ raw_storage'.l2.number = ctx.miniblock
  BY <1>2 DEF SystemContext
<1>5. NumbersAgree(u, fork')
  BY <1>1, <1>2, <1>3, <1>4, NumbersAfterBatch
<1> QED BY <1>2, <1>5 DEF NumbersAgree, WordsOK, u

(* A word written over is one of ContextWords, and the other stays.         *)
LEMMA WordsOverwritten ==
    ASSUME TypeOK, WordsOK(snapshot, fork), Overwrites
    PROVE  WordsOK(snapshot', fork') /\ UNCHANGED << fork, snapshots >>
<1>1. PICK info \in ContextWords : set_context_word(info)
  BY DEF Overwrites
<1>2. /\ UNCHANGED << current_batch, current_miniblock, current_timestamp, fork, snapshots >>
      /\ \/ raw_storage' = [raw_storage EXCEPT !.l1 = info]
         \/ raw_storage' = [raw_storage EXCEPT !.l2 = info]
  BY <1>1 DEF set_context_word, counters
<1>3. raw_storage \in RawStorage
  BY TypeSplit DEF NodeTypeOK
<1>4. /\ snapshot.raw_storage = raw_storage /\ snapshot'.raw_storage = raw_storage'
      /\ snapshot.current_batch = current_batch /\ snapshot'.current_batch = current_batch
      /\ snapshot.current_miniblock = current_miniblock
      /\ snapshot'.current_miniblock = current_miniblock
      /\ snapshot.current_timestamp = current_timestamp
      /\ snapshot'.current_timestamp = current_timestamp
  BY <1>2 DEF snapshot
<1>5. CASE raw_storage' = [raw_storage EXCEPT !.l1 = info]
  <2>1. raw_storage'.l1 = info /\ raw_storage'.l2 = raw_storage.l2
    BY <1>3, <1>5 DEF RawStorage
  <2>2. load_last_l2_block(snapshot', fork') = load_last_l2_block(snapshot, fork)
    BY <1>2, <1>4, <2>1 DEF load_last_l2_block, ReadL2
  <2> QED BY <1>2, <1>4, <2>1, <2>2 DEF WordsOK
<1>6. CASE raw_storage' = [raw_storage EXCEPT !.l2 = info]
  <2>1. raw_storage'.l2 = info /\ raw_storage'.l1 = raw_storage.l1
    BY <1>3, <1>6 DEF RawStorage
  <2>2. load_last_l1_batch(snapshot', fork') = load_last_l1_batch(snapshot, fork)
    BY <1>2, <1>4, <2>1 DEF load_last_l1_batch, ReadL1
  <2> QED BY <1>2, <1>4, <2>1, <2>2 DEF WordsOK
<1> QED BY <1>2, <1>5, <1>6

(* Every step preserves WordsInv. *)
LEMMA WordsStep ==
    ASSUME TypeOK, WordsInv, [Next]_vars
    PROVE  WordsInv'
<1>1. WordsOK(snapshot, fork) /\ \A i \in DOMAIN snapshots : WordsOK(snapshots[i], fork)
  BY DEF WordsInv
<1>2. SUFFICES WordsOK(snapshot', fork')
               /\ \A i \in DOMAIN snapshots' : WordsOK(snapshots'[i], fork')
  BY DEF WordsInv
<1>3. CASE Idle
  <2>1. /\ snapshot'.current_batch = snapshot.current_batch
        /\ snapshot'.current_miniblock = snapshot.current_miniblock
        /\ snapshot'.raw_storage.l1 = snapshot.raw_storage.l1
        /\ snapshot'.raw_storage.l2 = snapshot.raw_storage.l2
        /\ fork' = fork /\ snapshots' = snapshots
    BY <1>3 DEF Idle, snapshot
  <2>2. WordsOK(snapshot', fork)
    BY <1>1, <2>1, WordsFrame
  <2> QED BY <1>1, <2>1, <2>2
<1>4. CASE Commits
  <2>1. PICK t \in Txs, w \in Writes : RunL2Tx(t, w)
    BY <1>4 DEF Commits
  <2>2. UNCHANGED << fork, snapshots >>
    BY <2>1, CommitTxType DEF RunL2Tx
  <2> QED BY <1>1, <2>1, <2>2, WordsAfterCommit
<1>5. CASE Mines
  BY <1>1, <1>5, WordsAfterMine
<1>6. CASE Overwrites
  BY <1>1, <1>6, WordsOverwritten
<1>7. CASE Saves
  <2>1. snapshot' = snapshot /\ fork' = fork
    BY <1>7 DEF Saves, snapshot, counters, chain
  <2>2. /\ DOMAIN snapshots' = 1 .. Len(snapshots) + 1 /\ Len(snapshots) \in Nat
        /\ DOMAIN snapshots = 1 .. Len(snapshots)
        /\ \A i \in DOMAIN snapshots : snapshots'[i] = snapshots[i]
        /\ snapshots'[Len(snapshots) + 1] = snapshot
    BY <1>7, AfterSave
  <2>3. ASSUME NEW i \in DOMAIN snapshots'
        PROVE  \/ snapshots'[i] = snapshot
               \/ i \in DOMAIN snapshots /\ snapshots'[i] = snapshots[i]
    <3>1. i \in DOMAIN snapshots \/ i = Len(snapshots) + 1
      BY <2>2
    <3> QED BY <2>2, <3>1, Zenon
  <2>4. \A i \in DOMAIN snapshots' : WordsOK(snapshots'[i], fork)
    BY <1>1, <2>3, Zenon
  <2> QED BY <1>1, <2>1, <2>4, Zenon
<1>8. ASSUME NEW j \in DOMAIN snapshots, RevertsTo(j)
      PROVE  WordsOK(snapshot', fork')
             /\ \A i \in DOMAIN snapshots' : WordsOK(snapshots'[i], fork')
  <2>1. fork' = fork /\ Become(snapshots[j])
    BY <1>8 DEF RevertsTo
  <2>2. WordsOK(snapshot', fork)
    BY <1>1, <2>1, AfterBecome, WordsFrame
  <2>3. \A i \in DOMAIN snapshots' : i \in DOMAIN snapshots /\ snapshots'[i] = snapshots[i]
    BY <1>8, AfterRevert
  <2> QED BY <1>1, <2>1, <2>2, <2>3, Zenon
<1>9. ASSUME NEW f \in Forks \cup {NoFork}, reset(f)
      PROVE  WordsOK(snapshot', fork')
             /\ \A i \in DOMAIN snapshots' : WordsOK(snapshots'[i], fork')
  <2>1. fork' = f /\ Become(new(f)) /\ snapshots' = << >>
    BY <1>9 DEF reset
  <2>2. WordsOK(new(f), f)
    BY NewOK DEF TipsAgreeIn, WordsOK
  <2>3. WordsOK(snapshot', f)
    BY <2>1, <2>2, AfterBecome, WordsFrame
  <2> QED BY <2>1, <2>3
<1> QED BY <1>3, <1>4, <1>5, <1>6, <1>7, <1>8, <1>9, AllStepKinds

(* The checks of the commit loop fail on the time, or on a number.          *)
LEMMA ChecksFail ==
    ASSUME TypeOK, NEW t \in Txs, ~Consistent(t)
    PROVE  \/ current_timestamp < load_last_l1_batch(snapshot, fork).timestamp
           \/ current_timestamp < load_last_l2_block(snapshot, fork).timestamp
           \/ load_last_l1_batch(snapshot, fork).number # current_batch
           \/ load_last_l2_block(snapshot, fork).number # current_miniblock
<1> DEFINE l1 == load_last_l1_batch(snapshot, fork)
           l2 == load_last_l2_block(snapshot, fork)
<1> SUFFICES ASSUME l1.timestamp <= current_timestamp, l2.timestamp <= current_timestamp,
                    l1.number = current_batch, l2.number = current_miniblock
             PROVE  FALSE
  <2>1. l1 \in Info /\ l2 \in Info /\ current_timestamp \in Nat
    BY LoadType, TypeSplit DEF TypeOK, NodeTypeOK
  <2> HIDE DEF l1, l2
  <2>2. /\ ~(current_timestamp < l1.timestamp) => l1.timestamp <= current_timestamp
        /\ ~(current_timestamp < l2.timestamp) => l2.timestamp <= current_timestamp
    BY <2>1 DEF Info
  <2> QED BY <2>2 DEF l1, l2
<1>1. TipsAgreeIn(snapshot, fork)
  BY DEF TipsAgreeIn, snapshot
<1> QED BY <1>1, TipsConsistent

(* Only the panicking actions poison the lock. *)
LEMMA WhoPoisons ==
    ASSUME [Next]_vars, poisoned' # poisoned
    PROVE  (\E t \in Txs : RunL2TxPanics(t)) \/ RemoteReadFails \/ SetNonceOverflows
  BY ZenonT(60) DEF Next, vars, SendTransaction, TxRejected, TxHalted, RunL2Tx, CommitTx,
         Mine, MineNone, MineBlocks, MineNext, MineOne, Clock, increase_time,
         set_next_block_timestamp, set_time, ClockTo, set_storage_at, set_context_word,
         Snapshots, TakeSnapshot, revert_snapshot, reset_network, reset,
         FilterMethods, new_block_filter, new_pending_transaction_filter, new_filter,
         uninstall_filter, get_filter_changes, WithFilters, ServePoisoned

(* Whatever the requests, a handler panics for one of four reasons: a       *)
(* remote read fails, a nonce overflows, the clock is behind what the       *)
(* system contracts keep in storage, or a client has written over one of    *)
(* their words and its number is not the counter's.  Rewinds of the clock   *)
(* that mining has made good, reverts, resets and forks add no other.       *)
THEOREM PanicsHaveCauses == Spec => PanicCauses
<1>1. Init => WordsInv
  <2> SUFFICES ASSUME Init PROVE WordsInv
    OBVIOUS
  <2>1. PICK f \in Forks \cup {NoFork} :
          snapshot = new(f) /\ fork = f /\ DOMAIN snapshots = {}
    BY StartsNew
  <2>2. TipsAgreeIn(new(f), f)
    BY NewOK
  <2> QED BY <2>1, <2>2 DEF TipsAgreeIn, WordsOK, WordsInv
<1>2. TypeOK /\ WordsInv /\ [Next]_vars => WordsInv'
  BY WordsStep
<1> DEFINE Cause ==
      \/ current_timestamp < load_last_l1_batch(snapshot, fork).timestamp
      \/ current_timestamp < load_last_l2_block(snapshot, fork).timestamp
      \/ /\ raw_storage.l1 \in ContextWords
         /\ load_last_l1_batch(snapshot, fork).number # current_batch
      \/ /\ raw_storage.l2 \in ContextWords
         /\ load_last_l2_block(snapshot, fork).number # current_miniblock
<1> DEFINE Panic ==
      \/ RemoteReadFails
      \/ SetNonceOverflows
      \/ \E t \in Txs : RunL2TxPanics(t)
<1>3. TypeOK /\ WordsInv /\ [Next]_vars
        => [/\ poisoned' # poisoned => Panic
            /\ \A t \in Txs : RunL2TxPanics(t) => Cause]_vars
  <2> SUFFICES ASSUME TypeOK, WordsInv, [Next]_vars
               PROVE  /\ poisoned' # poisoned => Panic
                      /\ \A t \in Txs : RunL2TxPanics(t) => Cause
    OBVIOUS
  <2>1. /\ \/ raw_storage.l1 \in ContextWords
           \/ load_last_l1_batch(snapshot, fork).number = current_batch
        /\ \/ raw_storage.l2 \in ContextWords
           \/ load_last_l2_block(snapshot, fork).number = current_miniblock
    BY DEF WordsInv, WordsOK, snapshot
  <2>2. ASSUME NEW t \in Txs, RunL2TxPanics(t)
        PROVE  Cause
    <3>1. ~Consistent(t)
      BY <2>2 DEF RunL2TxPanics
    <3> QED BY <2>1, <3>1, ChecksFail
  <2>3. poisoned' # poisoned => Panic
    BY WhoPoisons
  <2> HIDE DEF Cause, Panic
  <2> QED BY <2>2, <2>3
<1> QED BY <1>1, <1>2, <1>3, TypeCorrect, PTL DEF Spec, PanicCauses

-----------------------------------------------------------------------------
(* Timestamps. *)

ClockForward == ~AllowRewind /\ 0 \notin Intervals /\ ContextKept

TimesOK(s, f) ==
    /\ s.current_timestamp \in Nat
    /\ \A n \in First(f) .. s.current_miniblock : At(s, n).timestamp \in Nat
    /\ At(s, s.current_miniblock).timestamp <= s.current_timestamp
    /\ \A n \in First(f) + 1 .. s.current_miniblock :
          At(s, n - 1).timestamp < At(s, n).timestamp

(* The clock is never behind the tip, in the node or in a snapshot.         *)
TimeInv ==
    /\ TimesOK(snapshot, fork)
    /\ \A i \in DOMAIN snapshots : TimesOK(snapshots[i], fork)

(* A later block on top. *)
LEMMA PutTime ==
    ASSUME NEW s, NEW u, NEW f, NEW b, MapsOK(s, f), Puts(s, u, b), TimesOK(s, f),
           b.timestamp \in Nat, b.timestamp > s.current_timestamp,
           u.current_timestamp \in Nat, b.timestamp <= u.current_timestamp
    PROVE  TimesOK(u, f)
<1> DEFINE tip == s.current_miniblock
<1>1. /\ First(f) \in Nat /\ tip \in Nat /\ First(f) <= tip
      /\ b.number = tip + 1 /\ u.current_miniblock = tip + 1
  BY DEF MapsOK, Puts
<1>2. At(u, tip + 1) = b /\ \A n \in First(f) .. tip : At(u, n) = At(s, n)
  BY <1>1, PutBlock
<1>3. /\ s.current_timestamp \in Nat
      /\ \A n \in First(f) .. tip : At(s, n).timestamp \in Nat
      /\ At(s, tip).timestamp <= s.current_timestamp
      /\ \A n \in First(f) + 1 .. tip : At(s, n - 1).timestamp < At(s, n).timestamp
  BY DEF TimesOK
<1> HIDE DEF tip
<1>4. \A n \in First(f) .. tip + 1 : At(u, n).timestamp \in Nat
  <2> SUFFICES ASSUME NEW n \in First(f) .. tip + 1 PROVE At(u, n).timestamp \in Nat
    OBVIOUS
  <2>1. n \in First(f) .. tip \/ n = tip + 1
    BY <1>1
  <2> QED BY <1>2, <1>3, <2>1
<1>5. ASSUME NEW n \in First(f) + 1 .. tip + 1
      PROVE  At(u, n - 1).timestamp < At(u, n).timestamp
  <2>1. CASE n = tip + 1
    <3>1. n - 1 = tip /\ tip \in First(f) .. tip
      BY <1>1, <2>1
    <3>2. At(u, n - 1) = At(s, tip) /\ At(u, n) = b
      BY <1>2, <2>1, <3>1
    <3> QED BY <1>3, <3>1, <3>2
  <2>2. CASE n \in First(f) + 1 .. tip
    <3>1. n \in First(f) .. tip /\ n - 1 \in First(f) .. tip
      BY <1>1, <2>2
    <3> QED BY <1>2, <1>3, <2>2, <3>1
  <2> QED BY <1>1, <2>1, <2>2
<1> QED BY <1>1, <1>2, <1>4, <1>5 DEF TimesOK

(* The same chain, and a clock that has not gone back. *)
LEMMA TimeFrame ==
    ASSUME NEW s, NEW u, NEW f, MapsOK(s, f), TimesOK(s, f),
           u.current_miniblock = s.current_miniblock,
           u.blocks = s.blocks, u.block_hashes = s.block_hashes,
           u.current_timestamp \in Nat, u.current_timestamp >= s.current_timestamp
    PROVE  TimesOK(u, f)
<1>1. \A n : At(u, n) = At(s, n)
  BY DEF At
<1>2. s.current_miniblock \in First(f) .. s.current_miniblock
  BY DEF MapsOK
<1>3. At(s, s.current_miniblock).timestamp \in Nat /\ s.current_timestamp \in Nat
      /\ At(s, s.current_miniblock).timestamp <= s.current_timestamp
  BY <1>2 DEF TimesOK
<1>4. At(u, s.current_miniblock).timestamp <= u.current_timestamp
  BY <1>1, <1>3
<1> QED BY <1>1, <1>4 DEF TimesOK

(* A new node's clock stands at its first block. *)
LEMMA NewTimes ==
    ASSUME NEW f \in Forks \cup {NoFork}
    PROVE  TimesOK(new(f), f)
<1> SUFFICES ASSUME NEW s, s = new(f) PROVE TimesOK(s, f)
  OBVIOUS
<1>1. First(f) \in Nat /\ s.current_miniblock = First(f)
  <2>1. CASE f = NoFork
    BY <2>1 DEF new, NewLocal, First
  <2>2. CASE f # NoFork
    BY <2>2, ForkAssumption DEF new, NewForked, First, ForkPoint
  <2> QED BY <2>1, <2>2
<1>2. s.current_timestamp \in Nat
  BY NewOK DEF StateTypeOK
<1>3. At(s, First(f)).timestamp = s.current_timestamp
  <2>1. CASE f = NoFork
    <3> DEFINE b == create_empty_block([batch |-> 0, miniblock |-> 0,
                                        timestamp |-> NON_FORK_FIRST_BLOCK_TIMESTAMP])
    <3>1. s = [current_timestamp |-> b.timestamp, current_batch |-> 0,
               current_miniblock |-> 0, current_miniblock_hash |-> b.hash,
               tx_results |-> << >>, blocks |-> Insert(<< >>, b.hash, b),
               block_hashes |-> Insert(<< >>, 0, b.hash),
               filters |-> EmptyRegistry, previous_states |-> << >>,
               raw_storage |-> [l1 |-> NoInfo, l2 |-> NoInfo, slots |-> GenesisSlots]]
      BY <2>1, Zenon DEF new, NewLocal
    <3> HIDE DEF b
    <3>2. /\ s.blocks = Insert(<< >>, b.hash, b) /\ s.block_hashes = Insert(<< >>, 0, b.hash)
          /\ s.current_timestamp = b.timestamp
      BY <3>1
    <3> QED BY <2>1, <3>2 DEF Insert, At, First
  <2>2. CASE f # NoFork
    <3> DEFINE b == RemoteBlock(f)
    <3>1. /\ s.blocks = Insert(<< >>, b.hash, b)
          /\ s.block_hashes = Insert(<< >>, f.number, b.hash)
          /\ s.current_timestamp = f.timestamp
      BY <2>2 DEF new, NewForked
    <3>2. b.timestamp = f.timestamp
      BY DEF RemoteBlock
    <3> HIDE DEF b
    <3> QED BY <2>2, <3>1, <3>2 DEF Insert, At, First
  <2> QED BY <2>1, <2>2
<1>4. First(f) .. s.current_miniblock = {First(f)} /\ First(f) + 1 .. s.current_miniblock = {}
  BY <1>1
<1> QED BY <1>1, <1>2, <1>3, <1>4 DEF TimesOK

(* Every step preserves TimeInv. *)
LEMMA TimeStep ==
    ASSUME ClockForward, TypeOK, ChainInv, LoopInv, TimeInv, [Next]_vars
    PROVE  TimeInv'
<1> DEFINE s == snapshot
           u == snapshot'
<1>1. /\ ChainOK(s, fork) /\ MapsOK(s, fork) /\ TimesOK(s, fork)
      /\ \A i \in DOMAIN snapshots : TimesOK(snapshots[i], fork)
      /\ \A i \in DOMAIN snapshots : MapsOK(snapshots[i], fork)
  BY DEF ChainInv, ChainOK, TimeInv
<1>2. SUFFICES TimesOK(u, fork') /\ \A i \in DOMAIN snapshots' : TimesOK(snapshots'[i], fork')
  BY DEF TimeInv
<1>3. /\ s.current_timestamp = current_timestamp /\ u.current_timestamp = current_timestamp'
      /\ s.current_miniblock = current_miniblock /\ u.current_miniblock = current_miniblock'
      /\ s.blocks = blocks /\ u.blocks = blocks'
      /\ s.block_hashes = block_hashes /\ u.block_hashes = block_hashes'
  BY DEF snapshot
<1>4. current_timestamp \in Nat
  BY TypeSplit DEF NodeTypeOK
<1> HIDE DEF s, u
<1>5. CASE Idle
  <2>1. /\ current_miniblock' = current_miniblock /\ blocks' = blocks
        /\ block_hashes' = block_hashes /\ fork' = fork /\ snapshots' = snapshots
        /\ current_timestamp' \in Nat /\ current_timestamp' >= current_timestamp
    BY <1>5 DEF Idle, chain, ClockForward
  <2>2. TimesOK(u, fork)
    BY <1>1, <1>3, <2>1, TimeFrame
  <2> QED BY <1>1, <2>1, <2>2
<1>6. CASE Commits
  <2>1. PICK t \in Txs, w \in Writes : RunL2Tx(t, w)
    BY <1>6 DEF Commits
  <2>2. PICK m, b, e, r :
          /\ Puts(s, m, b) /\ Puts(m, u, e)
          /\ b.timestamp = current_timestamp + 1
          /\ e.timestamp = current_timestamp + 2
          /\ current_timestamp' = current_timestamp + 2
          /\ UNCHANGED << fork, snapshots >>
    BY <1>1, <2>1, CommitPuts DEF s, u
  <2> DEFINE v == [current_miniblock |-> m.current_miniblock, blocks |-> m.blocks,
                   block_hashes |-> m.block_hashes,
                   current_timestamp |-> current_timestamp + 1]
  <2>3. Puts(s, v, b) /\ Puts(v, u, e) /\ v.current_timestamp = current_timestamp + 1
    BY <2>2 DEF Puts
  <2> HIDE DEF v
  <2>4. MapsOK(v, fork)
    BY <1>1, <2>3, PutBlock
  <2>5. TimesOK(v, fork)
    <3>1. /\ b.timestamp \in Nat /\ b.timestamp > s.current_timestamp
          /\ v.current_timestamp \in Nat /\ b.timestamp <= v.current_timestamp
      BY <1>3, <1>4, <2>2, <2>3
    <3> QED BY <1>1, <2>3, <3>1, PutTime
  <2>6. TimesOK(u, fork)
    <3>1. /\ e.timestamp \in Nat /\ e.timestamp > v.current_timestamp
          /\ u.current_timestamp \in Nat /\ e.timestamp <= u.current_timestamp
      BY <1>3, <1>4, <2>2, <2>3
    <3> QED BY <2>3, <2>4, <2>5, <3>1, PutTime
  <2> QED BY <1>1, <2>2, <2>6
<1>7. CASE Mines
  <2>1. PICK timestamp \in Nat :
          MineOne(create_l1_batch_env, timestamp) /\ timestamp > current_timestamp
    BY <1>7 DEF Mines, ClockForward, LoopInv, MiningInv
  <2>2. PICK b : /\ Puts(s, u, b) /\ b.timestamp = timestamp
                 /\ current_timestamp' = timestamp
                 /\ UNCHANGED << fork, snapshots >>
    BY <1>1, <2>1, MinePuts DEF s, u
  <2>3. TimesOK(u, fork)
    <3>1. /\ b.timestamp \in Nat /\ b.timestamp > s.current_timestamp
          /\ u.current_timestamp \in Nat /\ b.timestamp <= u.current_timestamp
      BY <1>3, <2>1, <2>2
    <3> QED BY <1>1, <2>2, <3>1, PutTime
  <2> QED BY <1>1, <2>2, <2>3
<1>8. CASE Saves
  <2>1. u = s /\ fork' = fork
    BY <1>8 DEF Saves, snapshot, counters, chain, s, u
  <2>2. /\ DOMAIN snapshots' = 1 .. Len(snapshots) + 1 /\ Len(snapshots) \in Nat
        /\ DOMAIN snapshots = 1 .. Len(snapshots)
        /\ \A i \in DOMAIN snapshots : snapshots'[i] = snapshots[i]
        /\ snapshots'[Len(snapshots) + 1] = s
    BY <1>8, AfterSave DEF s
  <2>3. ASSUME NEW i \in DOMAIN snapshots'
        PROVE  \/ snapshots'[i] = s
               \/ i \in DOMAIN snapshots /\ snapshots'[i] = snapshots[i]
    <3>1. i \in DOMAIN snapshots \/ i = Len(snapshots) + 1
      BY <2>2
    <3> QED BY <2>2, <3>1, Zenon
  <2> QED BY <1>1, <2>1, <2>3, Zenon
<1>9. ASSUME NEW j \in DOMAIN snapshots, RevertsTo(j)
      PROVE  TimesOK(u, fork') /\ \A i \in DOMAIN snapshots' : TimesOK(snapshots'[i], fork')
  <2>1. fork' = fork /\ Become(snapshots[j])
    BY <1>9 DEF RevertsTo
  <2>2. TimesOK(snapshots[j], fork) /\ MapsOK(snapshots[j], fork)
    BY <1>1
  <2>3. snapshots[j].current_timestamp \in Nat
    BY <2>2 DEF TimesOK
  <2>4. /\ u.current_timestamp = snapshots[j].current_timestamp
        /\ u.current_miniblock = snapshots[j].current_miniblock
        /\ u.blocks = snapshots[j].blocks /\ u.block_hashes = snapshots[j].block_hashes
    BY <2>1, AfterBecome DEF u
  <2>5. u.current_timestamp \in Nat /\ u.current_timestamp >= snapshots[j].current_timestamp
    BY <2>3, <2>4
  <2>6. TimesOK(u, fork)
    BY <2>2, <2>4, <2>5, TimeFrame
  <2>7. \A i \in DOMAIN snapshots' : i \in DOMAIN snapshots /\ snapshots'[i] = snapshots[i]
    BY <1>9, AfterRevert
  <2> QED BY <1>1, <2>1, <2>6, <2>7, Zenon
<1>10. ASSUME NEW f \in Forks \cup {NoFork}, reset(f)
       PROVE  TimesOK(u, fork') /\ \A i \in DOMAIN snapshots' : TimesOK(snapshots'[i], fork')
  <2>1. fork' = f /\ Become(new(f)) /\ snapshots' = << >>
    BY <1>10 DEF reset
  <2> DEFINE s0 == new(f)
  <2>2. TimesOK(s0, f) /\ MapsOK(s0, f)
    BY NewTimes, NewChainOK DEF ChainOK
  <2>3. /\ u.current_timestamp = s0.current_timestamp
        /\ u.current_miniblock = s0.current_miniblock
        /\ u.blocks = s0.blocks /\ u.block_hashes = s0.block_hashes
    BY <2>1, AfterBecome DEF u
  <2> HIDE DEF s0
  <2>4. s0.current_timestamp \in Nat
    BY <2>2 DEF TimesOK
  <2>5. u.current_timestamp \in Nat /\ u.current_timestamp >= s0.current_timestamp
    BY <2>3, <2>4
  <2>6. TimesOK(u, f)
    BY <2>2, <2>3, <2>5, TimeFrame
  <2> QED BY <2>1, <2>6
<1> QED BY <1>5, <1>6, <1>7, <1>8, <1>9, <1>10, StepKinds

(* As long as nobody moves the clock back and no mining interval is 0, each *)
(* block is later than the one below it, whether a transaction, a mining    *)
(* loop or a changed clock came between them, and after every revert.       *)
THEOREM TimestampsAlwaysIncrease ==
    ASSUME ClockForward
    PROVE  Spec => []TimestampsIncrease
<1>1. Init => TimeInv /\ LoopInv
  <2>1. Init => TimeInv
    BY StartsNew, NewTimes DEF TimeInv
  <2>2. Init => LoopInv
    BY DEF Init, LoopInv
  <2> QED BY <2>1, <2>2
<1>2. TypeOK /\ ChainInv /\ LoopInv /\ TimeInv /\ [Next]_vars => TimeInv' /\ LoopInv'
  BY TimeStep, LoopStep DEF ClockForward
<1>3. ChainInv /\ TimeInv => TimestampsIncrease
  <2> SUFFICES ASSUME ChainInv, TimeInv PROVE TimestampsIncrease
    OBVIOUS
  <2>1. MapsOK(snapshot, fork) /\ TimesOK(snapshot, fork)
    BY DEF ChainInv, ChainOK, TimeInv
  <2>2. /\ snapshot.current_miniblock = current_miniblock /\ snapshot.blocks = blocks
        /\ snapshot.block_hashes = block_hashes
    BY DEF snapshot
  <2>3. \A n : BlockAt(n) = At(snapshot, n)
    BY <2>2 DEF BlockAt, At
  <2>4. \A n \in DOMAIN block_hashes :
           n - 1 \in DOMAIN block_hashes => n \in First(fork) + 1 .. current_miniblock
    BY <2>1, <2>2 DEF MapsOK
  <2> QED BY <2>1, <2>2, <2>3, <2>4 DEF TimesOK, TimestampsIncrease
<1>4. Spec => []ChainInv
  BY ChainAlways DEF ClockForward
<1> QED BY <1>1, <1>2, <1>3, <1>4, TypeCorrect, PTL DEF Spec

=============================================================================
