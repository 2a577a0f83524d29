----------------------------- MODULE QueryProofs -----------------------------
(***************************************************************************)
(* Proofs about the answers of a node: that the methods which answer the   *)
(* same question agree, that a log query finds exactly what its criteria   *)
(* document, and that an answer once given is given again.                 *)
(***************************************************************************)
EXTENDS NodeQueries, HistoryProofs, FiniteSetTheorems

(* Block n is one the node produced itself. *)
Own(s, f, n) == n \in First(f) .. s.current_miniblock /\ (f # NoFork => n > f.number)

(* What a block the node produced holds: a transaction of a client, or none. *)
HoldsOneOrNone(transactions) ==
    \/ transactions = << >>
    \/ transactions = << transactions[1] >> /\ transactions[1].hash \in Txs

BlocksHold(s, f) ==
    /\ f # NoFork => At(s, f.number) = RemoteBlock(f)
    /\ \A n \in First(f) .. s.current_miniblock :
          Own(s, f, n) => HoldsOneOrNone(At(s, n).transactions)

(* The logs of a receipt are the transaction's, at the receipt's place.     *)
LogsHold(s) ==
    \A t \in DOMAIN s.tx_results :
        LET r == s.tx_results[t]
        IN  r.logs = TxLogEntries(t, [hash |-> r.block_hash, number |-> r.block_number])

ContentOK(s, f) == BlocksHold(s, f) /\ LogsHold(s)

(* The inductive invariant: what the blocks and the receipts hold, in the   *)
(* node and in every snapshot that can take its place.                      *)
ContentInv ==
    /\ ContentOK(snapshot, fork)
    /\ \A i \in DOMAIN snapshots : ContentOK(snapshots[i], fork)

-----------------------------------------------------------------------------
(* What blocks and receipts hold. *)

(* A block on top leaves the contents of those below it.                    *)
LEMMA PutHolds ==
    ASSUME NEW s, NEW u, NEW f, NEW b, MapsOK(s, f), Puts(s, u, b), BlocksHold(s, f),
           HoldsOneOrNone(b.transactions)
    PROVE  BlocksHold(u, f)
<1> DEFINE tip == s.current_miniblock
<1>1. /\ First(f) \in Nat /\ tip \in Nat /\ First(f) <= tip
      /\ b.number = tip + 1 /\ u.current_miniblock = tip + 1
  BY DEF MapsOK, Puts
<1>2. /\ At(u, tip + 1) = b
      /\ \A n \in First(f) .. tip : At(u, n) = At(s, n)
  BY <1>1, PutBlock
<1>3. f # NoFork => f.number \in First(f) .. tip
  BY <1>1 DEF First
<1>4. f # NoFork => At(u, f.number) = RemoteBlock(f)
  BY <1>2, <1>3 DEF BlocksHold
<1>5. ASSUME NEW n \in First(f) .. u.current_miniblock, Own(u, f, n)
      PROVE  HoldsOneOrNone(At(u, n).transactions)
  <2>1. CASE n = tip + 1
    BY <1>2, <2>1
  <2>2. CASE n # tip + 1
    <3>1. n \in First(f) .. tip
      BY <1>1, <2>2
    <3>2. Own(s, f, n)
      BY <1>5, <3>1 DEF Own
    <3> QED BY <1>2, <3>1, <3>2 DEF BlocksHold
  <2> QED BY <2>1, <2>2
<1> QED BY <1>4, <1>5 DEF BlocksHold

(* So does the commit of a transaction, which adds its receipt.             *)
LEMMA ContentCommit ==
    ASSUME TypeOK, ChainOK(snapshot, fork), ContentOK(snapshot, fork), Commits
    PROVE  ContentOK(snapshot', fork)
<1>1. PICK t \in Txs, w \in Writes : RunL2Tx(t, w)
  BY DEF Commits
<1>2. PICK m, b, e, r :
        /\ Puts(snapshot, m, b) /\ Puts(m, snapshot', e)
        /\ b.transactions[1].hash = t /\ b.transactions = << b.transactions[1] >>
        /\ e.transactions = << >>
        /\ tx_results' = Insert(tx_results, t, r)
        /\ r.block_number = b.number /\ r.block_hash = b.hash
        /\ r.logs = TxLogEntries(t, b)
        /\ t \notin DOMAIN tx_results
  BY <1>1, CommitPuts
<1>3. MapsOK(snapshot, fork) /\ BlocksHold(snapshot, fork) /\ LogsHold(snapshot)
  BY DEF ChainOK, ContentOK
<1>4. MapsOK(m, fork) /\ BlocksHold(m, fork)
  <2>1. HoldsOneOrNone(b.transactions)
    BY <1>2 DEF HoldsOneOrNone
  <2> QED BY <1>2, <1>3, <2>1, PutBlock, PutHolds
<1>5. BlocksHold(snapshot', fork)
  <2>1. HoldsOneOrNone(e.transactions)
    BY <1>2 DEF HoldsOneOrNone
  <2> QED BY <1>2, <1>4, <2>1, PutHolds
<1>6. LogsHold(snapshot')
  <2>1. snapshot.tx_results = tx_results /\ snapshot'.tx_results = tx_results'
    BY DEF snapshot
  <2>2. /\ DOMAIN tx_results' = DOMAIN tx_results \cup {t}
        /\ tx_results'[t] = r
        /\ \A x \in DOMAIN tx_results : tx_results'[x] = tx_results[x]
    BY <1>2 DEF Insert
  <2>3. r.logs = TxLogEntries(t, [hash |-> r.block_hash, number |-> r.block_number])
    BY <1>2 DEF TxLogEntries
  <2> QED BY <1>3, <2>1, <2>2, <2>3 DEF LogsHold
<1> QED BY <1>5, <1>6 DEF ContentOK

(* A mined block holds nothing. *)
LEMMA ContentMine ==
    ASSUME TypeOK, ChainOK(snapshot, fork), ContentOK(snapshot, fork), Mines
    PROVE  ContentOK(snapshot', fork)
<1>1. PICK timestamp \in Nat : MineOne(create_l1_batch_env, timestamp)
  BY DEF Mines
<1>2. PICK b : /\ Puts(snapshot, snapshot', b)
               /\ b.transactions = << >>
               /\ UNCHANGED tx_results
  BY <1>1, MinePuts
<1>3. BlocksHold(snapshot', fork)
  <2>1. HoldsOneOrNone(b.transactions)
    BY <1>2 DEF HoldsOneOrNone
  <2> QED BY <1>2, <2>1, PutHolds DEF ChainOK, ContentOK
<1>4. LogsHold(snapshot')
  <2>1. snapshot.tx_results = tx_results /\ snapshot'.tx_results = tx_results'
    BY DEF snapshot
  <2> QED BY <1>2, <2>1 DEF ContentOK, LogsHold
<1> QED BY <1>3, <1>4 DEF ContentOK

(* A state with the same chain holds the same. *)
LEMMA ContentFrame ==
    ASSUME NEW s, NEW u, NEW f, ContentOK(s, f),
           u.current_miniblock = s.current_miniblock, u.tx_results = s.tx_results,
           u.blocks = s.blocks, u.block_hashes = s.block_hashes
    PROVE  ContentOK(u, f)
<1>1. \A n : At(u, n) = At(s, n) /\ (Own(u, f, n) <=> Own(s, f, n))
  BY DEF At, Own
<1> QED BY <1>1 DEF ContentOK, BlocksHold, LogsHold

(* A new node has the block of the fork point, or an empty one. *)
LEMMA NewContentOK ==
    ASSUME NEW f \in Forks \cup {NoFork}
    PROVE  ContentOK(new(f), f)
<1>1. CASE f = NoFork
  <2>1. PICK g : g = create_empty_block([batch |-> 0, miniblock |-> 0,
                          timestamp |-> NON_FORK_FIRST_BLOCK_TIMESTAMP])
    OBVIOUS
  <2>2. /\ new(f).blocks = Insert(<< >>, g.hash, g)
        /\ new(f).block_hashes = Insert(<< >>, 0, g.hash)
        /\ new(f).current_miniblock = 0 /\ new(f).tx_results = << >>
    BY <1>1, <2>1 DEF new, NewLocal
  <2>3. g.transactions = << >>
    BY <2>1 DEF create_empty_block, EmptyBlock
  <2>4. At(new(f), 0) = g
    BY <2>2 DEF At, Insert
  <2>5. \A n \in First(f) .. new(f).current_miniblock : n = 0
    BY <1>1, <2>2 DEF First
  <2>6. BlocksHold(new(f), f)
    BY <1>1, <2>3, <2>4, <2>5 DEF BlocksHold, HoldsOneOrNone
  <2>7. DOMAIN << >> = {}
    OBVIOUS
  <2> QED BY <2>2, <2>6, <2>7 DEF ContentOK, LogsHold
<1>2. CASE f # NoFork
  <2>1. PICK g : g = RemoteBlock(f)
    OBVIOUS
  <2>2. /\ new(f).blocks = Insert(<< >>, g.hash, g)
        /\ new(f).block_hashes = Insert(<< >>, f.number, g.hash)
        /\ new(f).current_miniblock = f.number /\ new(f).tx_results = << >>
    BY <1>2, <2>1 DEF new, NewForked
  <2>3. At(new(f), f.number) = g
    BY <2>2 DEF At, Insert
  <2>4. f.number \in Nat
    BY <1>2, ForkAssumption DEF ForkPoint
  <2>5. \A n : ~Own(new(f), f, n)
    BY <1>2, <2>2, <2>4 DEF Own, First
  <2>6. BlocksHold(new(f), f)
    BY <2>1, <2>3, <2>5 DEF BlocksHold
  <2>7. DOMAIN << >> = {}
    OBVIOUS
  <2> QED BY <2>2, <2>6, <2>7 DEF ContentOK, LogsHold
<1> QED BY <1>1, <1>2

(* Every step preserves it. *)
LEMMA ContentStep ==
    ASSUME TypeOK, ChainInv, ContentInv, [Next]_vars
    PROVE  ContentInv'
<1>1. /\ ContentOK(snapshot, fork) /\ ChainOK(snapshot, fork)
      /\ \A i \in DOMAIN snapshots : ContentOK(snapshots[i], fork)
  BY DEF ContentInv, ChainInv
<1>2. SUFFICES /\ ContentOK(snapshot', fork')
               /\ \A i \in DOMAIN snapshots' : ContentOK(snapshots'[i], fork')
  BY DEF ContentInv
<1>3. CASE Idle
  <2>1. /\ snapshot'.current_miniblock = snapshot.current_miniblock
        /\ snapshot'.tx_results = snapshot.tx_results
        /\ snapshot'.blocks = snapshot.blocks
        /\ snapshot'.block_hashes = snapshot.block_hashes
    BY <1>3 DEF Idle, chain, snapshot
  <2>2. ContentOK(snapshot', fork)
    BY <1>1, <2>1, ContentFrame
  <2>3. fork' = fork /\ snapshots' = snapshots
    BY <1>3 DEF Idle
  <2> QED BY <1>1, <2>2, <2>3
<1>4. CASE Commits
  <2>1. ContentOK(snapshot', fork) /\ UNCHANGED << fork, snapshots >>
    BY <1>1, <1>4, ContentCommit, ChainCommit
  <2> QED BY <1>1, <2>1
<1>5. CASE Mines
  <2>1. ContentOK(snapshot', fork) /\ UNCHANGED << fork, snapshots >>
    BY <1>1, <1>5, ContentMine, ChainMine
  <2> QED BY <1>1, <2>1
<1>6. CASE Saves
  <2>1. snapshot' = snapshot /\ fork' = fork
    BY <1>6 DEF Saves, snapshot, counters, chain
  <2>2. /\ DOMAIN snapshots' = 1 .. Len(snapshots) + 1 /\ Len(snapshots) \in Nat
        /\ DOMAIN snapshots = 1 .. Len(snapshots)
        /\ \A i \in DOMAIN snapshots : snapshots'[i] = snapshots[i]
        /\ snapshots'[Len(snapshots) + 1] = snapshot
    BY <1>6, AfterSave
  <2>3. ASSUME NEW i \in DOMAIN snapshots'
        PROVE  \/ snapshots'[i] = snapshot
               \/ i \in DOMAIN snapshots /\ snapshots'[i] = snapshots[i]
    <3>1. i \in DOMAIN snapshots \/ i = Len(snapshots) + 1
      BY <2>2
    <3> QED BY <2>2, <3>1, Zenon
  <2>4. \A i \in DOMAIN snapshots' : ContentOK(snapshots'[i], fork)
    BY <1>1, <2>3, Zenon
  <2> QED BY <1>1, <2>1, <2>4, Zenon
<1>7. ASSUME NEW j \in DOMAIN snapshots, RevertsTo(j)
      PROVE  ContentOK(snapshot', fork')
             /\ \A i \in DOMAIN snapshots' : ContentOK(snapshots'[i], fork')
  <2>1. fork' = fork /\ Become(snapshots[j])
    BY <1>7 DEF RevertsTo
  <2>2. ContentOK(snapshot', fork)
    BY <1>1, <2>1, AfterBecome, ContentFrame
  <2>3. \A i \in DOMAIN snapshots' : i \in DOMAIN snapshots /\ snapshots'[i] = snapshots[i]
    BY <1>7, AfterRevert
  <2> QED BY <1>1, <2>1, <2>2, <2>3, Zenon
<1>8. ASSUME NEW f \in Forks \cup {NoFork}, reset(f)
      PROVE  ContentOK(snapshot', fork')
             /\ \A i \in DOMAIN snapshots' : ContentOK(snapshots'[i], fork')
  <2>1. fork' = f /\ Become(new(f)) /\ snapshots' = << >>
    BY <1>8 DEF reset
  <2>2. ContentOK(snapshot', f)
    BY <2>1, NewContentOK, AfterBecome, ContentFrame
  <2> QED BY <2>1, <2>2
<1> QED BY <1>3, <1>4, <1>5, <1>6, <1>7, <1>8, StepKinds

(* What blocks and receipts hold stays throughout. *)
LEMMA ContentAlways ==
    ASSUME ContextKept
    PROVE  Spec => []ContentInv
<1>1. Init => ContentInv
  BY StartsNew, NewContentOK DEF ContentInv
<1>2. TypeOK /\ ChainInv /\ ContentInv /\ [Next]_vars => ContentInv'
  BY ContentStep
<1>3. Spec => []ChainInv
  BY ChainAlways
<1> QED BY <1>1, <1>2, <1>3, TypeCorrect, PTL DEF Spec

-----------------------------------------------------------------------------
(* What the node has, and what the remote chain has. *)

(* Between the first block and the tip both maps lead to the block; outside *)
(* there is nothing, and no block has the hash a remote block would have.   *)
LEMMA LocalBlocks ==
    ASSUME ChainInv
    PROVE  /\ First(fork) \in Nat /\ current_miniblock \in Nat
           /\ First(fork) <= current_miniblock
           /\ \A n \in First(fork) .. current_miniblock :
                 /\ LocalByNumber(n) = {BlockAt(n)}
                 /\ LocalByHash(BlockAt(n).hash) = {BlockAt(n)}
                 /\ BlockAt(n).number = n
                 /\ BlockAt(n).hash = block_hashes[n]
           /\ \A n : n \notin First(fork) .. current_miniblock =>
                 /\ LocalByNumber(n) = {}
                 /\ LocalByHash(compute_hash(n, RemoteTx)) = {}
<1>1. /\ First(fork) \in Nat /\ current_miniblock \in Nat
      /\ First(fork) <= current_miniblock
      /\ DOMAIN block_hashes = First(fork) .. current_miniblock
      /\ DOMAIN blocks = {block_hashes[n] : n \in First(fork) .. current_miniblock}
      /\ \A n \in First(fork) .. current_miniblock :
            /\ block_hashes[n][1] = n
            /\ BlockAt(n).number = n
            /\ BlockAt(n).hash = block_hashes[n]
  <2>1. MapsOK(snapshot, fork)
    BY DEF ChainInv, ChainOK
  <2>2. /\ snapshot.current_miniblock = current_miniblock /\ snapshot.blocks = blocks
        /\ snapshot.block_hashes = block_hashes
    BY DEF snapshot
  <2>3. \A n : At(snapshot, n) = BlockAt(n)
    BY <2>2 DEF At, BlockAt
  <2> QED BY <2>1, <2>2, <2>3 DEF MapsOK
<1>2. ASSUME NEW n \in First(fork) .. current_miniblock
      PROVE  LocalByNumber(n) = {BlockAt(n)} /\ LocalByHash(BlockAt(n).hash) = {BlockAt(n)}
  <2>1. LocalByHash(block_hashes[n]) = {BlockAt(n)}
    <3>1. {block_hashes[n]} \cap DOMAIN blocks = {block_hashes[n]}
      BY <1>1
    <3> QED BY <3>1 DEF LocalByHash, BlockAt
  <2>2. {n} \cap DOMAIN block_hashes = {n}
    BY <1>1
  <2>3. LocalByNumber(n) = LocalByHash(block_hashes[n])
    BY <2>2 DEF LocalByNumber
  <2> QED BY <1>1, <2>1, <2>3
<1>3. ASSUME NEW n, n \notin First(fork) .. current_miniblock
      PROVE  LocalByNumber(n) = {} /\ LocalByHash(compute_hash(n, RemoteTx)) = {}
  <2>1. {n} \cap DOMAIN block_hashes = {}
    BY <1>1, <1>3
  <2>2. compute_hash(n, RemoteTx) \notin DOMAIN blocks
    <3>1. compute_hash(n, RemoteTx)[1] = n
      BY DEF compute_hash
    <3> QED BY <1>1, <1>3, <3>1
  <2> QED BY <2>1, <2>2 DEF LocalByNumber, LocalByHash
<1> QED BY <1>1, <1>2, <1>3

(* The blocks of the remote chain are numbered from 0, and its blocks are   *)
(* found by the hash they have.                                             *)
LEMMA RemoteBlocks ==
    /\ \A n \in DOMAIN RemoteTransactions :
          /\ n \in Nat /\ 0 .. n \subseteq DOMAIN RemoteTransactions
          /\ RemoteTransactions[n] \in Seq(RemoteTxs)
          /\ RemoteByNumber(n) = {[number |-> n, hash |-> compute_hash(n, RemoteTx),
                                   transactions |-> RemoteTransactions[n]]}
          /\ RemoteByHash(compute_hash(n, RemoteTx)) = RemoteByNumber(n)
    /\ \A n : n \notin DOMAIN RemoteTransactions => RemoteByNumber(n) = {}
<1>1. PICK size \in Nat : DOMAIN RemoteTransactions = 0 .. size - 1
  BY RemoteChainAssumption, FS_CardinalityType
<1>2. ASSUME NEW n \in DOMAIN RemoteTransactions
      PROVE  /\ n \in Nat /\ 0 .. n \subseteq DOMAIN RemoteTransactions
             /\ RemoteTransactions[n] \in Seq(RemoteTxs)
  BY <1>1, RemoteChainAssumption
<1> DEFINE B(n) == [number |-> n, hash |-> compute_hash(n, RemoteTx),
                    transactions |-> RemoteTransactions[n]]
<1>3. \A n \in DOMAIN RemoteTransactions : RemoteByNumber(n) = {B(n)}
  BY DEF RemoteByNumber
<1>4. \A n : n \notin DOMAIN RemoteTransactions => RemoteByNumber(n) = {}
  BY DEF RemoteByNumber
<1>5. \A n : B(n).hash = compute_hash(n, RemoteTx)
  OBVIOUS
<1> HIDE DEF B
<1>6. ASSUME NEW n \in DOMAIN RemoteTransactions
      PROVE  RemoteByHash(compute_hash(n, RemoteTx)) = {B(n)}
  <2>1. n \in BlockNumbers
    BY DEF BlockNumbers
  <2>2. \A m : \A b \in RemoteByNumber(m) : b.hash = compute_hash(m, RemoteTx)
    BY <1>3, <1>4, <1>5
  <2>3. \A m : compute_hash(m, RemoteTx) = compute_hash(n, RemoteTx) => m = n
    BY DEF compute_hash
  <2>4. PICK h : h = compute_hash(n, RemoteTx)
    OBVIOUS
  <2>5. \A b : b \in RemoteByHash(h) <=>
                \E m \in BlockNumbers : b \in RemoteByNumber(m) /\ b.hash = h
    BY DEF RemoteByHash
  <2>6. B(n) \in RemoteByHash(h)
    BY <1>3, <1>5, <2>1, <2>4, <2>5
  <2>7. ASSUME NEW b \in RemoteByHash(h) PROVE b = B(n)
    <3>1. PICK m \in BlockNumbers : b \in RemoteByNumber(m) /\ b.hash = h
      BY <2>5
    <3>2. m = n
      BY <2>2, <2>3, <2>4, <3>1
    <3> QED BY <1>3, <3>1, <3>2
  <2> QED BY <2>4, <2>6, <2>7
<1> QED BY <1>2, <1>3, <1>4, <1>6, Zenon DEF B

(* The hashes of a block's transactions are a list as long as they are.     *)
LEMMA HashesList ==
    ASSUME NEW b, IsList(b.transactions)
    PROVE  /\ IsList(TxHashes(b)) /\ Len(TxHashes(b)) = Len(b.transactions)
           /\ DOMAIN TxHashes(b) = DOMAIN b.transactions
           /\ \A i \in DOMAIN b.transactions : TxHashes(b)[i] = b.transactions[i].hash
<1>1. PICK n \in Nat : n = Len(b.transactions) /\ DOMAIN b.transactions = 1 .. n
  BY LenProperties DEF IsList
<1>2. PICK hs : hs = TxHashes(b)
  OBVIOUS
<1>3. hs = [i \in 1 .. n |-> b.transactions[i].hash]
  BY <1>1, <1>2 DEF TxHashes
<1> DEFINE S == {hs[i] : i \in 1 .. n}
<1>4. hs = [i \in 1 .. n |-> hs[i]] /\ \A i \in 1 .. n : hs[i] \in S
  BY <1>3
<1>5. DOMAIN hs = 1 .. n
  BY <1>3
<1> HIDE DEF S
<1>6. hs \in Seq(S) /\ Len(hs) = n
  BY <1>4, <1>5
<1> QED BY <1>1, <1>2, <1>3, <1>5, <1>6 DEF IsList, S

(* The node's own blocks hold transactions with a receipt that names the    *)
(* block; that of the fork point holds what the remote chain has there.     *)
LEMMA BlockContents ==
    ASSUME TypeOK, ChainInv, ContentInv, NEW n \in First(fork) .. current_miniblock
    PROVE  /\ IsList(BlockAt(n).transactions)
           /\ n > ForkNumber =>
                 \A i \in DOMAIN BlockAt(n).transactions :
                     /\ i = 1 /\ BlockAt(n).transactions[i].hash \in DOMAIN tx_results
                     /\ tx_results[BlockAt(n).transactions[i].hash].block_number = n
           /\ ~(n > ForkNumber) =>
                 /\ fork \in Forks /\ n = fork.number
                 /\ n \in DOMAIN RemoteTransactions
                 /\ TxHashes(BlockAt(n)) = RemoteTransactions[n]
                 /\ BlockAt(n).hash = compute_hash(n, RemoteTx)
<1>1. BlockAt(n) = At(snapshot, n) /\ snapshot.current_miniblock = current_miniblock
  BY DEF BlockAt, At, snapshot
<1>2. /\ First(fork) \in Nat /\ current_miniblock \in Nat
      /\ DOMAIN block_hashes = First(fork) .. current_miniblock
  BY LocalBlocks, ChainReads DEF BlockMapsAgree, FirstBlock, First
<1>3. CASE n > ForkNumber
  <2>1. Own(snapshot, fork, n)
    BY <1>1, <1>3 DEF Own, ForkNumber
  <2>2. HoldsOneOrNone(BlockAt(n).transactions)
    BY <1>1, <2>1 DEF ContentInv, ContentOK, BlocksHold
  <2>3. PICK ts : ts = BlockAt(n).transactions
    OBVIOUS
  <2>4. CASE ts = << >>
    BY <1>3, <2>3, <2>4 DEF IsList
  <2>5. CASE ts # << >> /\ ts = << ts[1] >>
    <3>1. DOMAIN ts = {1}
      BY <2>5
    <3>2. IsList(ts)
      <4>1. PICK x : ts = << x >> /\ ts[1] = x
        BY <2>5
      <4>2. << x >> \in Seq({x}) /\ {ts[i] : i \in DOMAIN ts} = {x}
        BY <3>1, <4>1
      <4> QED BY <4>1, <4>2 DEF IsList
    <3>3. HoldsTx(n)
      BY <1>3, <2>3, <2>5 DEF HoldsTx, ForkNumber
    <3>4. \A i \in DOMAIN ts : ts[i].hash \in DOMAIN tx_results
                               /\ tx_results[ts[i].hash].block_number = n
      BY <1>2, <2>3, <3>3, ChainReads DEF ReceiptsOnChain
    <3> QED BY <1>3, <2>3, <3>1, <3>2, <3>4
  <2> QED BY <2>2, <2>3, <2>4, <2>5 DEF HoldsOneOrNone
<1>4. CASE ~(n > ForkNumber)
  <2>1. fork \in Forks /\ fork # NoFork /\ n = fork.number
    BY <1>2, <1>4, ForkAssumption DEF ForkNumber, First, TypeOK, ForkPoint
  <2>2. BlockAt(n) = RemoteBlock(fork)
    BY <1>1, <2>1 DEF ContentInv, ContentOK, BlocksHold
  <2>3. PICK ts : ts = fork.transactions
    OBVIOUS
  <2>4. n \in DOMAIN RemoteTransactions /\ ts = RemoteTransactions[n] /\ ts \in Seq(RemoteTxs)
    BY <2>1, <2>3, RemoteChainAssumption
  <2>5. PICK ps : ps = BlockAt(n).transactions
    OBVIOUS
  <2>6. PICK k \in Nat : k = Len(ts) /\ DOMAIN ts = 1 .. k /\ ts = [i \in 1 .. k |-> ts[i]]
    BY <2>4, LenProperties
  <2>7. ps = [i \in 1 .. k |-> [hash |-> ts[i], block_hash |-> compute_hash(n, RemoteTx),
                                block_number |-> n]]
    BY <2>1, <2>2, <2>3, <2>5, <2>6 DEF RemoteBlock
  <2>8. DOMAIN ps = 1 .. k /\ \A i \in 1 .. k : ps[i].hash = ts[i]
    BY <2>7
  <2>9. IsList(ps)
    <3> DEFINE S == {ps[i] : i \in DOMAIN ps}
    <3>1. ps = [i \in 1 .. k |-> ps[i]] /\ \A i \in 1 .. k : ps[i] \in S
      BY <2>7, <2>8
    <3> HIDE DEF S
    <3>2. ps \in Seq(S)
      BY <3>1
    <3> QED BY <3>2 DEF IsList, S
  <2>10. TxHashes(BlockAt(n)) = ts
    <3>1. TxHashes(BlockAt(n)) = [i \in 1 .. k |-> ps[i].hash]
      BY <2>5, <2>8 DEF TxHashes
    <3> QED BY <2>6, <2>8, <3>1
  <2>11. BlockAt(n).hash = compute_hash(n, RemoteTx)
    BY <2>1, <2>2 DEF RemoteBlock
  <2> QED BY <1>4, <2>1, <2>4, <2>5, <2>9, <2>10, <2>11
<1> QED BY <1>3, <1>4

-----------------------------------------------------------------------------
(* The answers for a block. *)

(* A block as it is shown. *)
Show(b) == [number |-> b.number, hash |-> b.hash, transactions |-> TxHashes(b)]

(* What the methods that answer for a block, found by its number or by its  *)
(* hash, say when they agree on b.                                          *)
AnswersAre(n, h, b) ==
    /\ get_block_by_number(Number(n)) = {b}
    /\ get_block_by_hash(h) = {b}
    /\ get_block_transaction_count_by_number(Number(n)) = {Len(b.transactions)}
    /\ get_block_transaction_count_by_hash(h) = {Len(b.transactions)}
    /\ get_block_details(n) = {[number |-> n, root_hash |-> b.hash,
                                l2_tx_count |-> Len(b.transactions)]}
    /\ \A i \in DOMAIN b.transactions :
          /\ get_transaction_by_block_number_and_index(Number(n), i - 1) = {b.transactions[i]}
          /\ get_transaction_by_block_hash_and_index(h, i - 1) = {b.transactions[i]}

(* A number names the same block here and on the remote chain. *)
LEMMA NumbersNameBlocks ==
    ASSUME NEW n
    PROVE  RealNumber(Number(n)) = n /\ RemoteNumber(Number(n)) = n
<1>1. Number(n).tag = "number" /\ Number(n).n = n
  BY DEF Number
<1>2. \A k : to_real_block_number(Number(n), k) = n
  BY <1>1 DEF to_real_block_number
<1> QED BY <1>2 DEF RealNumber, RemoteNumber

(* The transaction at an index of a list. *)
LEMMA TxAtIndex ==
    ASSUME NEW ts, IsList(ts), NEW i \in DOMAIN ts
    PROVE  TxAt(ts, i - 1) = {ts[i]}
<1>1. i \in Nat
  BY LenProperties DEF IsList
<1>2. {i - 1 + 1} \cap DOMAIN ts = {i}
  BY <1>1
<1> QED BY <1>2 DEF TxAt

(* Of a block the node has, its own maps answer. *)
LEMMA LocalAnswers ==
    ASSUME NEW n, NEW h, NEW l, LocalByNumber(n) = {l}, LocalByHash(h) = {l},
           IsList(l.transactions), l.number = n
    PROVE  AnswersAre(n, h, Show(l))
<1> DEFINE b == Show(l)
<1>1. /\ IsList(TxHashes(l)) /\ Len(TxHashes(l)) = Len(l.transactions)
      /\ b.transactions = TxHashes(l) /\ b.number = n /\ b.hash = l.hash
  BY HashesList DEF Show
<1>2. RealNumber(Number(n)) = n
  BY NumbersNameBlocks
<1>3. Shown({l}) = {b} /\ Counts({l}) = {Len(l.transactions)}
  BY DEF Shown, Counts, Show
<1>4. \A found, remote : found # {} => OrElseRemote(found, remote) = found
  BY DEF OrElseRemote, OrElse
<1>5. /\ get_block_by_number(Number(n)) = {b} /\ get_block_by_hash(h) = {b}
      /\ get_block_transaction_count_by_number(Number(n)) = {Len(l.transactions)}
      /\ get_block_transaction_count_by_hash(h) = {Len(l.transactions)}
  <2>1. /\ Shown(LocalByNumber(n)) = {b} /\ Shown(LocalByHash(h)) = {b}
        /\ Counts(LocalByNumber(n)) = {Len(l.transactions)}
        /\ Counts(LocalByHash(h)) = {Len(l.transactions)}
    BY <1>3
  <2>2. /\ Shown(LocalByNumber(RealNumber(Number(n)))) = {b}
        /\ Counts(LocalByNumber(RealNumber(Number(n)))) = {Len(l.transactions)}
    BY <1>2, <2>1
  <2>3. \A x : {x} # {}
    OBVIOUS
  <2> HIDE DEF b
  <2> QED BY <1>4, <2>1, <2>2, <2>3
     DEF get_block_by_number, get_block_by_hash, get_block_transaction_count_by_number,
         get_block_transaction_count_by_hash
<1>6. get_block_details(n) = {[number |-> l.number, l2_tx_count |-> Len(l.transactions),
                               root_hash |-> l.hash]}
  <2>1. {[number |-> c.number, l2_tx_count |-> Len(c.transactions), root_hash |-> c.hash] :
            c \in LocalByNumber(n)} = {[number |-> l.number, root_hash |-> l.hash,
                                        l2_tx_count |-> Len(l.transactions)]}
    OBVIOUS
  <2> QED BY <1>4, <2>1 DEF get_block_details
<1>7. ASSUME NEW i \in DOMAIN TxHashes(l)
      PROVE  /\ get_transaction_by_block_number_and_index(Number(n), i - 1) = {TxHashes(l)[i]}
             /\ get_transaction_by_block_hash_and_index(h, i - 1) = {TxHashes(l)[i]}
  <2>1. PICK x : x = TxHashes(l)[i] /\ TxAt(TxHashes(l), i - 1) = {x}
    BY <1>1, TxAtIndex
  <2>2. UNION {TxAt(TxHashes(c), i - 1) : c \in LocalByHash(h)} = {x}
    BY <2>1
  <2>3. UNION {TxAt(TxHashes(c), i - 1) : c \in LocalByNumber(RealNumber(Number(n)))} = {x}
    BY <1>2, <2>1
  <2>4. {x} # {}
    OBVIOUS
  <2>5. get_transaction_by_block_hash_and_index(h, i - 1) = {x}
    BY <1>4, <2>2, <2>4, Zenon DEF get_transaction_by_block_hash_and_index
  <2>6. get_transaction_by_block_number_and_index(Number(n), i - 1) = {x}
    BY <1>4, <2>3, <2>4, Zenon DEF get_transaction_by_block_number_and_index
  <2> QED BY <2>1, <2>5, <2>6
<1> HIDE DEF b
<1> QED BY <1>1, <1>5, <1>6, <1>7 DEF AnswersAre, b

(* Of a block it does not have, the remote chain does. *)
LEMMA RemoteAnswers ==
    ASSUME fork # NoFork, NEW n, NEW h, NEW b, LocalByNumber(n) = {}, LocalByHash(h) = {},
           RemoteByNumber(n) = {b}, RemoteByHash(h) = {b}, IsList(b.transactions)
    PROVE  AnswersAre(n, h, b)
<1>1. RealNumber(Number(n)) = n /\ RemoteNumber(Number(n)) = n
  BY NumbersNameBlocks
<1>2. Shown({}) = {} /\ Counts({}) = {} /\ Counts({b}) = {Len(b.transactions)}
  BY DEF Shown, Counts
<1>3. \A remote : OrElseRemote({}, remote) = remote
  BY DEF OrElseRemote, OrElse
<1>4. /\ get_block_by_number(Number(n)) = {b} /\ get_block_by_hash(h) = {b}
      /\ get_block_transaction_count_by_number(Number(n)) = {Len(b.transactions)}
      /\ get_block_transaction_count_by_hash(h) = {Len(b.transactions)}
  BY <1>1, <1>2, <1>3
     DEF get_block_by_number, get_block_by_hash, get_block_transaction_count_by_number,
         get_block_transaction_count_by_hash
<1>5. get_block_details(n) = {[number |-> n, l2_tx_count |-> Len(b.transactions),
                               root_hash |-> b.hash]}
  <2>1. {[number |-> c.number, l2_tx_count |-> Len(c.transactions), root_hash |-> c.hash] :
            c \in LocalByNumber(n)} = {}
    OBVIOUS
  <2>2. {[number |-> n, l2_tx_count |-> Len(c.transactions), root_hash |-> c.hash] :
            c \in RemoteByNumber(n)} = {[number |-> n, l2_tx_count |-> Len(b.transactions),
                                         root_hash |-> b.hash]}
    OBVIOUS
  <2> QED BY <1>3, <2>1, <2>2 DEF get_block_details
<1>6. ASSUME NEW i \in DOMAIN b.transactions
      PROVE  /\ get_transaction_by_block_number_and_index(Number(n), i - 1)
                   = {b.transactions[i]}
             /\ get_transaction_by_block_hash_and_index(h, i - 1) = {b.transactions[i]}
  <2>1. UNION {TxAt(c.transactions, i - 1) : c \in {b}} = {b.transactions[i]}
    BY TxAtIndex
  <2>2. UNION {TxAt(TxHashes(c), i - 1) : c \in {}} = {}
    OBVIOUS
  <2> QED BY <1>1, <1>3, <2>1, <2>2 DEF get_transaction_by_block_number_and_index,
                                        get_transaction_by_block_hash_and_index
<1> QED BY <1>4, <1>5, <1>6 DEF AnswersAre

(* Every block number has a local block, a remote one or none, and the      *)
(* answers are those of the one block.                                      *)
LEMMA AnswersOf ==
    ASSUME TypeOK, ChainInv, ContentInv, NEW n \in Nat
    PROVE  \/ /\ n \in First(fork) .. current_miniblock
              /\ AnswersAre(n, BlockAt(n).hash, Show(BlockAt(n)))
              /\ IsList(TxHashes(BlockAt(n)))
           \/ /\ n \notin First(fork) .. current_miniblock /\ fork # NoFork
              /\ n \in DOMAIN RemoteTransactions
              /\ \E b : /\ b = [number |-> n, hash |-> compute_hash(n, RemoteTx),
                                transactions |-> RemoteTransactions[n]]
                        /\ AnswersAre(n, b.hash, b) /\ IsList(b.transactions)
           \/ /\ n \notin First(fork) .. current_miniblock
              /\ get_block_by_number(Number(n)) = {}
              /\ n > current_miniblock
<1>1. CASE n \in First(fork) .. current_miniblock
  <2>1. IsList(BlockAt(n).transactions)
    BY <1>1, BlockContents
  <2>2. AnswersAre(n, BlockAt(n).hash, Show(BlockAt(n)))
    BY <1>1, <2>1, LocalBlocks, LocalAnswers
  <2> QED BY <1>1, <2>1, <2>2, HashesList
<1>2. CASE n \notin First(fork) .. current_miniblock
  <2>1. /\ LocalByNumber(n) = {} /\ LocalByHash(compute_hash(n, RemoteTx)) = {}
        /\ First(fork) \in Nat /\ current_miniblock \in Nat
    BY <1>2, LocalBlocks
  <2>2. CASE fork # NoFork /\ n \in DOMAIN RemoteTransactions
    <3>1. PICK b : b = [number |-> n, hash |-> compute_hash(n, RemoteTx),
                        transactions |-> RemoteTransactions[n]]
      OBVIOUS
    <3>2. RemoteByNumber(n) = {b} /\ RemoteByHash(b.hash) = {b} /\ b.hash = compute_hash(n, RemoteTx)
      BY <2>2, <3>1, RemoteBlocks
    <3>3. IsList(b.transactions)
      BY <2>2, <3>1, RemoteBlocks, SeqIsList
    <3>4. AnswersAre(n, b.hash, b)
      BY <2>1, <2>2, <3>2, <3>3, RemoteAnswers
    <3> QED BY <1>2, <2>2, <3>1, <3>3, <3>4
  <2>3. CASE ~(fork # NoFork /\ n \in DOMAIN RemoteTransactions)
    <3>1. get_block_by_number(Number(n)) = {}
      <4>1. Shown({}) = {}
        BY DEF Shown
      <4>2. fork # NoFork => RemoteByNumber(n) = {}
        BY <2>3, RemoteBlocks
      <4> QED BY <2>1, <4>1, <4>2, NumbersNameBlocks
              DEF get_block_by_number, OrElseRemote, OrElse
    <3>2. n > current_miniblock
      <4>1. ASSUME fork # NoFork PROVE n \notin 0 .. First(fork)
        <5>1. fork \in Forks
          BY <4>1 DEF TypeOK
        <5> QED BY <2>3, <4>1, <5>1, RemoteChainAssumption, RemoteBlocks DEF First
      <4>2. fork = NoFork => First(fork) = 0
        BY DEF First
      <4> QED BY <1>2, <2>1, <4>1, <4>2
    <3> QED BY <1>2, <3>1, <3>2
  <2> QED BY <2>2, <2>3
<1> QED BY <1>1, <1>2

(* A list of one transaction or none loses nothing, if it has a result.     *)
LEMMA WithResultKeeps ==
    ASSUME NEW list, IsList(list), \A i \in DOMAIN list : i = 1 /\ list[i] \in DOMAIN tx_results
    PROVE  WithResult(list) = list
<1> DEFINE S == {list[i] : i \in DOMAIN list}
           M == DOMAIN tx_results
<1>1. list \in Seq(S)
  BY DEF IsList
<1>2. PICK m \in Nat : m = Len(list) /\ DOMAIN list = 1 .. m
  BY <1>1, LenProperties
<1>3. m = 0 \/ m = 1
  <2>1. m \in Nat \ {0} => m \in DOMAIN list
    BY <1>2
  <2> QED BY <2>1
<1> DEFINE Step(g) == [n \in 0 .. m |-> IF n = 0 THEN << >>
                                        ELSE IF list[n] \in M THEN Append(g[n - 1], list[n])
                                        ELSE g[n - 1]]
           x == CHOOSE g : g = Step(g)
<1>4. \A g : g = Step(g) <=> Grows(list, M, g, m)
  BY DEF Grows
<1>5. x = Step(x)
  BY <1>4, GrowsExists
<1>6. WithResult(list) = x[m]
  BY <1>2 DEF WithResult
<1> HIDE DEF x
<1>7. CASE m = 0
  <2>1. x[0] = << >>
    BY <1>5, <1>7
  <2>2. list = << >>
    BY <1>1, <1>2, <1>7, EmptySeq
  <2> QED BY <1>6, <1>7, <2>1, <2>2
<1>8. CASE m = 1
  <2>1. 1 \in DOMAIN list /\ list[1] \in M /\ list[1] \in S
    BY <1>2, <1>8
  <2>2. x[0] = << >> /\ x[1] = Append(x[0], list[1])
    BY <1>5, <1>8, <2>1
  <2> HIDE DEF S
  <2>3. << >> \in Seq(S) /\ Len(<< >>) = 0
    BY EmptySeq
  <2>4. /\ Append(<< >>, list[1]) \in Seq(S) /\ Len(Append(<< >>, list[1])) = 1
        /\ Append(<< >>, list[1])[1] = list[1]
    BY <2>1, <2>3, AppendProperties
  <2>5. Append(<< >>, list[1]) = list
    BY <1>1, <1>2, <1>8, <2>4, SeqEqual
  <2> QED BY <1>6, <1>8, <2>2, <2>5
<1> QED BY <1>3, <1>7, <1>8

(* Of a block the node produced, raw transactions and traces are complete.  *)
LEMMA OwnAnswers ==
    ASSUME TypeOK, ChainInv, ContentInv, NEW n \in First(fork) .. current_miniblock,
           n > ForkNumber
    PROVE  LET b == Show(BlockAt(n))
           IN  /\ get_raw_block_transactions(n) = b.transactions
               /\ trace_block_by_number(Number(n)) = {b.transactions}
               /\ trace_block_by_hash(b.hash) = {b.transactions}
<1>1. PICK l : l = BlockAt(n)
  OBVIOUS
<1>2. LocalByNumber(n) = {l} /\ LocalByHash(l.hash) = {l}
  BY <1>1, LocalBlocks
<1>3. /\ IsList(l.transactions)
      /\ \A i \in DOMAIN l.transactions :
            i = 1 /\ l.transactions[i].hash \in DOMAIN tx_results
  BY <1>1, BlockContents
<1>4. /\ IsList(TxHashes(l)) /\ DOMAIN TxHashes(l) = DOMAIN l.transactions
      /\ \A i \in DOMAIN l.transactions : TxHashes(l)[i] = l.transactions[i].hash
  BY <1>3, HashesList
<1>5. get_raw_block_transactions(n) = TxHashes(l)
  <2>1. Some({l}) = l
    BY DEF Some
  <2>2. WithResult(TxHashes(l)) = TxHashes(l)
    BY <1>3, <1>4, WithResultKeeps
  <2> QED BY <1>2, <2>1, <2>2 DEF get_raw_block_transactions
<1>6. Traces({l}) = {TxHashes(l)}
  <2>1. {c \in {l} : \A i \in DOMAIN c.transactions :
                         c.transactions[i].hash \in DOMAIN tx_results} = {l}
    BY <1>3
  <2> QED BY <2>1 DEF Traces
<1>7. Traces(LocalByNumber(RealNumber(Number(n)))) = {TxHashes(l)}
  BY <1>2, <1>6, NumbersNameBlocks
<1>8. Traces(LocalByHash(l.hash)) = {TxHashes(l)}
  BY <1>2, <1>6
<1>9. Show(l).transactions = TxHashes(l) /\ Show(l).hash = l.hash
  BY DEF Show
<1> QED BY <1>1, <1>5, <1>7, <1>8, <1>9, Zenon DEF trace_block_by_number, trace_block_by_hash

(* The fee history ends at the tip and starts at a block, whatever is asked *)
(* for.                                                                     *)
LEMMA FeeHistoryEnds ==
    ASSUME current_miniblock \in Nat, NEW count \in Nat
    PROVE  LET history == fee_history(count)
           IN  /\ history.oldest_block \in 0 .. current_miniblock
               /\ history.oldest_block + history.length - 1 = current_miniblock
<1> DEFINE S == {count, MAX_FEE_HISTORY, current_miniblock + 1}
           m == Min(S)
           c == MaxOf(1, m)
<1>1. m \in Nat /\ m <= current_miniblock + 1
  <2>1. S \subseteq Nat /\ S # {} /\ current_miniblock + 1 \in S
    BY DEF MAX_FEE_HISTORY
  <2> HIDE DEF S
  <2>2. PICK k \in S : \A y \in S : k <= y
    BY <2>1, LeastNatural
  <2>3. Min(S) \in S /\ \A y \in S : Min(S) <= y
    BY <2>2 DEF Min
  <2> QED BY <2>1, <2>3
<1> HIDE DEF m
<1>2. c \in 1 .. current_miniblock + 1
  BY <1>1 DEF MaxOf
<1>3. fee_history(count) = [oldest_block |-> current_miniblock + 1 - c, length |-> c]
  BY DEF fee_history, m
<1> HIDE DEF c
<1> QED BY <1>2, <1>3

(* Every method that answers for a block answers for the same block, found  *)
(* by number or by hash, whether it is one of the node's own, the block of  *)
(* the fork point or one of the remote chain: counts, details, single       *)
(* transactions, raw transactions, traces and the fee history agree.        *)
THEOREM BlockAnswersAlwaysAgree ==
    ASSUME ContextKept
    PROVE  Spec => []BlockAnswersAgree
<1>1. ASSUME TypeOK, ChainInv, ContentInv PROVE BlockAnswersAgree
  <2>1. current_miniblock \in Nat /\ First(fork) \in Nat /\ BlockNumbers \subseteq Nat
    <3>1. DOMAIN RemoteTransactions \subseteq Nat
      BY RemoteBlocks
    <3> QED BY <1>1, <3>1, LocalBlocks, LimitAssumption DEF BlockNumbers
  <2>2. ASSUME NEW n \in Nat, n <= current_miniblock
        PROVE  get_block_by_number(Number(n)) # {}
    <3>1. \/ \E h, b : AnswersAre(n, h, b)
          \/ n > current_miniblock
      BY <1>1, AnswersOf
    <3>2. \A h, b : AnswersAre(n, h, b) => get_block_by_number(Number(n)) = {b}
      BY DEF AnswersAre
    <3> QED BY <2>1, <2>2, <3>1, <3>2
  <2>3. ASSUME NEW n \in BlockNumbers, NEW b \in get_block_by_number(Number(n))
        PROVE  /\ b.number = n
               /\ get_block_by_hash(b.hash) = {b}
               /\ get_block_transaction_count_by_number(Number(n)) = {Len(b.transactions)}
               /\ get_block_transaction_count_by_hash(b.hash) = {Len(b.transactions)}
               /\ get_block_details(n) = {[number |-> n, root_hash |-> b.hash,
                                           l2_tx_count |-> Len(b.transactions)]}
               /\ \A i \in DOMAIN b.transactions :
                     /\ get_transaction_by_block_number_and_index(Number(n), i - 1)
                            = {b.transactions[i]}
                     /\ get_transaction_by_block_hash_and_index(b.hash, i - 1)
                            = {b.transactions[i]}
               /\ n > ForkNumber /\ n <= current_miniblock =>
                     /\ get_raw_block_transactions(n) = b.transactions
                     /\ trace_block_by_number(Number(n)) = {b.transactions}
                     /\ trace_block_by_hash(b.hash) = {b.transactions}
    <3>1. n \in Nat
      BY <2>1
    <3>2. CASE /\ n \in First(fork) .. current_miniblock
               /\ AnswersAre(n, BlockAt(n).hash, Show(BlockAt(n)))
      <4>1. PICK l : l = BlockAt(n)
        OBVIOUS
      <4>2. b = Show(l)
        BY <2>3, <3>2, <4>1 DEF AnswersAre
      <4>3. b.number = n /\ b.hash = l.hash
        BY <1>1, <3>2, <4>1, <4>2, LocalBlocks DEF Show
      <4>4. AnswersAre(n, b.hash, b)
        BY <3>2, <4>1, <4>2, <4>3
      <4>5. n > ForkNumber =>
               /\ get_raw_block_transactions(n) = b.transactions
               /\ trace_block_by_number(Number(n)) = {b.transactions}
               /\ trace_block_by_hash(b.hash) = {b.transactions}
        BY <1>1, <3>2, <4>1, <4>2, OwnAnswers
      <4> QED BY <4>3, <4>4, <4>5 DEF AnswersAre
    <3>3. CASE /\ n \notin First(fork) .. current_miniblock /\ fork # NoFork
               /\ \E c : /\ c = [number |-> n, hash |-> compute_hash(n, RemoteTx),
                                 transactions |-> RemoteTransactions[n]]
                         /\ AnswersAre(n, c.hash, c)
      <4>1. PICK c : /\ c.number = n /\ AnswersAre(n, c.hash, c)
        BY <3>3
      <4>2. b = c
        BY <2>3, <4>1 DEF AnswersAre
      <4>3. n > ForkNumber => n \in First(fork) .. current_miniblock \/ n > current_miniblock
        BY <2>1, <3>1, <3>3 DEF ForkNumber, First
      <4>4. ~(n > ForkNumber /\ n <= current_miniblock)
        BY <2>1, <3>1, <3>3, <4>3
      <4> QED BY <4>1, <4>2, <4>4 DEF AnswersAre
    <3> QED BY <1>1, <2>3, <3>1, <3>2, <3>3, AnswersOf
  <2>4. ASSUME NEW count \in 0 .. MaxMiniblock + 2
        PROVE  LET history == fee_history(count)
               IN  /\ history.oldest_block + history.length - 1 = current_miniblock
                   /\ \A n \in history.oldest_block .. current_miniblock :
                         get_block_by_number(Number(n)) # {}
    <3>1. PICK o : /\ o = fee_history(count).oldest_block
                   /\ o \in 0 .. current_miniblock
                   /\ o + fee_history(count).length - 1 = current_miniblock
      BY <2>1, FeeHistoryEnds, LimitAssumption
    <3>2. \A n \in o .. current_miniblock : n \in Nat /\ n <= current_miniblock
      BY <2>1, <3>1
    <3> QED BY <2>2, <3>1, <3>2
  <2>5. \A n \in BlockNumbers : n \in Nat
    BY <2>1
  <2> QED BY <2>2, <2>3, <2>4, <2>5 DEF BlockAnswersAgree
<1>2. Spec => []ChainInv /\ []ContentInv
  BY ChainAlways, ContentAlways
<1> QED BY <1>1, <1>2, TypeCorrect, PTL

-----------------------------------------------------------------------------
(* The answers for a transaction. *)

(* A transaction with a receipt is the one transaction of a block the node  *)
(* produced, the block its receipt names.                                   *)
LEMMA TxHasBlock ==
    ASSUME TypeOK, ChainInv, ContentInv, NEW t \in DOMAIN tx_results
    PROVE  LET r == tx_results[t]
           IN  \E b : /\ r.block_number \in Nat /\ r.block_number <= current_miniblock
                      /\ AnswersAre(r.block_number, r.block_hash, b)
                      /\ b.number = r.block_number /\ b.hash = r.block_hash
                      /\ 1 \in DOMAIN b.transactions /\ b.transactions[1] = t
<1>1. PICK k : k = tx_results[t].block_number
  OBVIOUS
<1>2. PICK l : l = BlockAt(k)
  OBVIOUS
<1>3. t \in Txs
  BY TypeSplit DEF NodeTypeOK
<1>4. /\ k \in First(fork) .. current_miniblock
      /\ block_hashes[k] = tx_results[t].block_hash
      /\ \E i \in DOMAIN l.transactions : l.transactions[i].hash = t
  <2>1. /\ k \in DOMAIN block_hashes /\ block_hashes[k] = tx_results[t].block_hash
        /\ \E i \in DOMAIN l.transactions : l.transactions[i].hash = t
    BY <1>1, <1>2, ChainReads DEF ReceiptsOnChain
  <2>2. DOMAIN block_hashes = First(fork) .. current_miniblock
    BY DEF ChainInv, ChainOK, MapsOK, snapshot
  <2> QED BY <2>1, <2>2
<1>5. PICK i \in DOMAIN l.transactions : l.transactions[i].hash = t
  BY <1>4
<1>6. /\ k \in Nat /\ k <= current_miniblock
      /\ l.number = k /\ l.hash = tx_results[t].block_hash
      /\ LocalByNumber(k) = {l} /\ LocalByHash(l.hash) = {l}
  BY <1>2, <1>4, LocalBlocks
<1>7. IsList(l.transactions)
  BY <1>2, <1>4, BlockContents
<1>8. AnswersAre(k, l.hash, Show(l))
  BY <1>6, <1>7, LocalAnswers
<1>9. DOMAIN TxHashes(l) = DOMAIN l.transactions /\ TxHashes(l)[i] = t
  BY <1>5, <1>7, HashesList
<1>10. i = 1
  <2>1. CASE k > ForkNumber
    BY <1>2, <1>4, <1>5, <2>1, BlockContents
  <2>2. CASE ~(k > ForkNumber)
    <3>1. k \in DOMAIN RemoteTransactions /\ TxHashes(l) = RemoteTransactions[k]
      BY <1>2, <1>4, <2>2, BlockContents
    <3>2. RemoteTransactions[k] \in Seq(RemoteTxs)
      BY <3>1, RemoteBlocks
    <3>3. RemoteTransactions[k][i] \in RemoteTxs
      BY <1>5, <1>9, <3>1, <3>2, ElementOfSeq, LenProperties
    <3> QED BY <1>3, <1>9, <3>1, <3>3, TxAssumption
  <2> QED BY <2>1, <2>2
<1>11. /\ Show(l).number = k /\ Show(l).hash = l.hash
       /\ Show(l).transactions = TxHashes(l)
  BY <1>6 DEF Show
<1> QED BY <1>1, <1>5, <1>6, <1>8, <1>9, <1>10, <1>11

(* A transaction of the remote chain has one place there. *)
LEMMA RemoteTxPlace ==
    ASSUME NEW m \in DOMAIN RemoteTransactions, NEW i \in DOMAIN RemoteTransactions[m]
    PROVE  RemoteTransaction(RemoteTransactions[m][i]) = {RemotePlace(RemoteTransactions[m][i], m)}
<1>1. PICK t : t = RemoteTransactions[m][i]
  OBVIOUS
<1>2. {n \in DOMAIN RemoteTransactions :
          \E j \in DOMAIN RemoteTransactions[n] : RemoteTransactions[n][j] = t} = {m}
  BY <1>1, RemoteChainAssumption
<1> QED BY <1>1, <1>2 DEF RemoteTransaction

(* A transaction of the forked chain up to the fork point is in the block   *)
(* the node shows for its place.                                            *)
LEMMA ForkedTxHasBlock ==
    ASSUME TypeOK, ChainInv, ContentInv, NEW m \in DOMAIN RemoteTransactions,
           NEW i \in DOMAIN RemoteTransactions[m], m <= ForkNumber
    PROVE  /\ fork # NoFork
           /\ \E b \in get_block_by_number(Number(m)) :
                 b.transactions = RemoteTransactions[m] /\ b.hash = compute_hash(m, RemoteTx)
<1>1. m \in Nat
  BY RemoteBlocks
<1>2. fork # NoFork /\ m <= First(fork)
  BY <1>1 DEF ForkNumber, First
<1>3. First(fork) \in Nat /\ current_miniblock \in Nat /\ First(fork) <= current_miniblock
  BY LocalBlocks
<1>4. CASE /\ m \in First(fork) .. current_miniblock
           /\ AnswersAre(m, BlockAt(m).hash, Show(BlockAt(m)))
  <2>1. ~(m > ForkNumber)
    BY <1>1, <1>2, <1>3 DEF ForkNumber, First
  <2>2. TxHashes(BlockAt(m)) = RemoteTransactions[m] /\ BlockAt(m).hash = compute_hash(m, RemoteTx)
    BY <1>4, <2>1, BlockContents
  <2>3. get_block_by_number(Number(m)) = {Show(BlockAt(m))}
    BY <1>4 DEF AnswersAre
  <2>4. /\ Show(BlockAt(m)).transactions = RemoteTransactions[m]
        /\ Show(BlockAt(m)).hash = compute_hash(m, RemoteTx)
    BY <2>2 DEF Show
  <2> QED BY <1>2, <2>3, <2>4
<1>5. CASE \E b : /\ b = [number |-> m, hash |-> compute_hash(m, RemoteTx),
                          transactions |-> RemoteTransactions[m]]
                  /\ AnswersAre(m, b.hash, b)
  <2>1. PICK b : /\ b.transactions = RemoteTransactions[m] /\ b.hash = compute_hash(m, RemoteTx)
                 /\ AnswersAre(m, b.hash, b)
    BY <1>5
  <2>2. get_block_by_number(Number(m)) = {b}
    BY <2>1 DEF AnswersAre
  <2> QED BY <1>2, <2>1, <2>2
<1>6. ~(m > current_miniblock)
  BY <1>1, <1>2, <1>3
<1> QED BY <1>1, <1>4, <1>5, <1>6, AnswersOf

(* What is answered for an own transaction: its place, unless it cannot be  *)
(* rebuilt; the remote chain knows none of them.                            *)
LEMMA OwnAnswer ==
    ASSUME NEW t \in Txs, t \in DOMAIN tx_results
    PROVE  /\ t \notin Unanswerable => get_transaction_by_hash(t) # {}
           /\ \A p \in get_transaction_by_hash(t) :
                 p.block_number = tx_results[t].block_number
<1>1. RemoteTransaction(t) = {}
  <2>1. ASSUME NEW m \in DOMAIN RemoteTransactions, NEW i \in DOMAIN RemoteTransactions[m]
        PROVE  RemoteTransactions[m][i] # t
    <3>1. RemoteTransactions[m] \in Seq(RemoteTxs)
      BY RemoteBlocks
    <3>2. RemoteTransactions[m][i] \in RemoteTxs
      BY <3>1, ElementOfSeq, LenProperties
    <3> QED BY <3>2, TxAssumption
  <2> QED BY <2>1 DEF RemoteTransaction
<1>2. CASE t \in Unanswerable
  <2>1. {t} \cap (DOMAIN tx_results \ Unanswerable) = {}
    BY <1>2
  <2>2. OwnTransaction(t) = {}
    BY <2>1 DEF OwnTransaction
  <2>3. get_transaction_by_hash(t) = {}
    BY <1>1, <2>2 DEF get_transaction_by_hash, OrElseRemote, OrElse
  <2> QED BY <1>2, <2>3
<1>3. CASE t \notin Unanswerable
  <2>1. {t} \cap (DOMAIN tx_results \ Unanswerable) = {t}
    BY <1>3
  <2>2. PICK p : p = [hash |-> t, block_hash |-> t, block_number |-> tx_results[t].block_number]
    OBVIOUS
  <2>3. OwnTransaction(t) = {p}
    BY <2>1, <2>2 DEF OwnTransaction
  <2>4. {p} # {}
    OBVIOUS
  <2>5. get_transaction_by_hash(t) = {p}
    BY <2>3, <2>4 DEF get_transaction_by_hash, OrElseRemote, OrElse
  <2> QED BY <2>2, <2>5
<1> QED BY <1>2, <1>3

(* A transaction on the chain the node shows, its own or the forked one up  *)
(* to the fork point, is found by each method that takes its hash (by       *)
(* eth_getTransactionByHash unless it cannot be rebuilt), is in the block   *)
(* they name by number, and at index 0 of the block its receipt names; the  *)
(* block hash answered for a forked transaction is that block's.            *)
THEOREM TransactionAnswersAlwaysAgree ==
    ASSUME ContextKept
    PROVE  Spec => []TransactionAnswersAgree
<1>1. ASSUME TypeOK, ChainInv, ContentInv PROVE TransactionAnswersAgree
  <2>1. \A found, remote : found # {} => OrElseRemote(found, remote) = found
    BY DEF OrElseRemote, OrElse
  <2>2. \A remote : fork # NoFork => OrElseRemote({}, remote) = remote
    BY DEF OrElseRemote, OrElse
  <2>3. ASSUME NEW t, OnChain(t)
        PROVE  /\ get_transaction_details(t) = {t}
               /\ (t \notin Unanswerable => get_transaction_by_hash(t) # {})
               /\ \A p \in get_transaction_by_hash(t) :
                     \E b \in get_block_by_number(Number(p.block_number)) :
                         /\ \E i \in DOMAIN b.transactions : b.transactions[i] = t
                         /\ (t \in RemoteTxs => p.block_hash = b.hash)
    <3>1. CASE t \in DOMAIN tx_results
      <4>1. {t} \cap DOMAIN tx_results = {t}
        BY <3>1
      <4>2. get_transaction_details(t) = {t}
        BY <2>1, <4>1 DEF get_transaction_details
      <4>3. t \in Txs /\ t \notin RemoteTxs
        BY <1>1, <3>1, TypeSplit, TxAssumption DEF NodeTypeOK
      <4>4. PICK b : /\ AnswersAre(tx_results[t].block_number, tx_results[t].block_hash, b)
                     /\ 1 \in DOMAIN b.transactions /\ b.transactions[1] = t
        BY <1>1, <3>1, TxHasBlock
      <4>5. b \in get_block_by_number(Number(tx_results[t].block_number))
        BY <4>4 DEF AnswersAre
      <4>6. /\ t \notin Unanswerable => get_transaction_by_hash(t) # {}
            /\ \A p \in get_transaction_by_hash(t) : p.block_number = tx_results[t].block_number
        BY <3>1, <4>3, OwnAnswer
      <4>7. ASSUME NEW p \in get_transaction_by_hash(t)
            PROVE  \E c \in get_block_by_number(Number(p.block_number)) :
                       /\ \E i \in DOMAIN c.transactions : c.transactions[i] = t
                       /\ t \in RemoteTxs => p.block_hash = c.hash
        <5>1. b \in get_block_by_number(Number(p.block_number))
          BY <4>5, <4>6
        <5> QED BY <4>3, <4>4, <5>1
      <4> QED BY <4>2, <4>6, <4>7
    <3>2. CASE t \notin DOMAIN tx_results
      <4>1. PICK p \in RemoteTransaction(t) : p.block_number <= ForkNumber
        BY <2>3, <3>2 DEF OnChain
      <4>2. PICK m \in DOMAIN RemoteTransactions :
               /\ p = RemotePlace(t, m)
               /\ \E i \in DOMAIN RemoteTransactions[m] : RemoteTransactions[m][i] = t
        BY <4>1 DEF RemoteTransaction
      <4>3. p.block_number = m /\ p.hash = t /\ p.block_hash = compute_hash(m, RemoteTx)
        BY <4>2 DEF RemotePlace
      <4>4. RemoteTransaction(t) = {p}
        BY <4>2, RemoteTxPlace
      <4>5. PICK b \in get_block_by_number(Number(m)) :
               b.transactions = RemoteTransactions[m] /\ b.hash = compute_hash(m, RemoteTx)
        BY <1>1, <4>1, <4>2, <4>3, ForkedTxHasBlock
      <4>6. fork # NoFork
        BY <1>1, <4>1, <4>2, <4>3, ForkedTxHasBlock
      <4>7. get_transaction_details(t) = {t}
        <5>1. {q.hash : q \in RemoteTransaction(t)} = {t}
          BY <4>3, <4>4
        <5>2. {t} \cap DOMAIN tx_results = {}
          BY <3>2
        <5> QED BY <2>2, <4>6, <5>1, <5>2 DEF get_transaction_details
      <4>8. get_transaction_by_hash(t) = {p}
        <5>1. OwnTransaction(t) = {}
          BY <3>2 DEF OwnTransaction
        <5> QED BY <2>2, <4>4, <4>6, <5>1 DEF get_transaction_by_hash
      <4> QED BY <4>2, <4>3, <4>5, <4>7, <4>8
    <3> QED BY <3>1, <3>2
  <2>4. ASSUME NEW t
        PROVE  trace_transaction(t) = {} <=> get_transaction_receipt(t) = {}
    BY DEF trace_transaction, get_transaction_receipt
  <2>5. ASSUME NEW t, NEW r \in get_transaction_receipt(t)
        PROVE  \E b \in get_block_by_hash(r.block_hash) :
                   /\ b.number = r.block_number
                   /\ get_transaction_by_block_hash_and_index(b.hash, 0) = {t}
    <3>1. t \in DOMAIN tx_results /\ r = tx_results[t]
      BY <2>5 DEF get_transaction_receipt
    <3>2. PICK b : /\ AnswersAre(r.block_number, r.block_hash, b)
                   /\ b.number = r.block_number /\ b.hash = r.block_hash
                   /\ 1 \in DOMAIN b.transactions /\ b.transactions[1] = t
      BY <1>1, <3>1, TxHasBlock
    <3>3. b \in get_block_by_hash(r.block_hash)
      BY <3>2 DEF AnswersAre
    <3>4. get_transaction_by_block_hash_and_index(b.hash, 0) = {t}
      <4>1. get_transaction_by_block_hash_and_index(b.hash, 1 - 1) = {t}
        BY <3>2 DEF AnswersAre
      <4>2. 1 - 1 = 0
        OBVIOUS
      <4> QED BY <4>1, <4>2
    <3> QED BY <3>2, <3>3, <3>4
  <2>6. \A t \in Txs \cup RemoteTxs : OnChain(t) =>
           /\ get_transaction_details(t) = {t}
           /\ t \notin Unanswerable => get_transaction_by_hash(t) # {}
           /\ \A p \in get_transaction_by_hash(t) :
                 \E b \in get_block_by_number(Number(p.block_number)) :
                     /\ \E i \in DOMAIN b.transactions : b.transactions[i] = t
                     /\ t \in RemoteTxs => p.block_hash = b.hash
    BY <2>3, Zenon
  <2> QED BY <2>4, <2>5, <2>6 DEF TransactionAnswersAgree
<1>2. Spec => []ChainInv /\ []ContentInv
  BY ChainAlways, ContentAlways
<1> QED BY <1>1, <1>2, TypeCorrect, PTL

-----------------------------------------------------------------------------
(* The answers to a log query. *)

(* A log of a receipt is one the transaction emits, in a block up to the    *)
(* tip; its topics are a list.                                              *)
LEMMA LogOfReceipt ==
    ASSUME TypeOK, ChainInv, ContentInv, NEW t \in DOMAIN tx_results,
           NEW l, \E i \in DOMAIN tx_results[t].logs : tx_results[t].logs[i] = l
    PROVE  /\ l \in ResultLogs
           /\ l.block_number \in Nat /\ l.block_number <= current_miniblock
           /\ \E k \in Nat : DOMAIN l.topics = 1 .. k
<1>1. PICK r : r = tx_results[t]
  OBVIOUS
<1>2. PICK b : b = [hash |-> r.block_hash, number |-> r.block_number]
  OBVIOUS
<1>3. r.logs = TxLogEntries(t, b)
  <2>1. snapshot.tx_results = tx_results
    BY DEF snapshot
  <2>2. LogsHold(snapshot)
    BY DEF ContentInv, ContentOK
  <2> QED BY <1>1, <1>2, <2>1, <2>2 DEF LogsHold
<1>4. PICK i \in DOMAIN r.logs : r.logs[i] = l
  BY <1>1
<1>5. i \in DOMAIN TxLogs[t] /\ l.topics = TxLogs[t][i].topics /\ l.block_number = r.block_number
  BY <1>2, <1>3, <1>4 DEF TxLogEntries
<1>6. r.block_number \in Nat /\ r.block_number <= current_miniblock
  BY <1>1, TxHasBlock
<1>7. \E k \in Nat : DOMAIN l.topics = 1 .. k
  <2>1. t \in Txs
    BY TypeSplit DEF NodeTypeOK
  <2>2. PICK topics : topics = TxLogs[t][i].topics
    OBVIOUS
  <2>3. topics \in Seq({topics[j] : j \in DOMAIN topics})
    BY <1>5, <2>1, <2>2, QueryAssumption
  <2> QED BY <1>5, <2>2, <2>3, LenProperties
<1>8. l \in ResultLogs
  <2>1. l \in {tx_results[t].logs[j] : j \in DOMAIN tx_results[t].logs}
    BY <1>1, <1>4
  <2> QED BY <2>1 DEF ResultLogs
<1> QED BY <1>5, <1>6, <1>7, <1>8

(* What a block number of a query is resolved to. *)
LEMMA RealNumbers ==
    ASSUME NEW b, b \in {Latest, Earliest} \/ (b.n \in Nat /\ b = Number(b.n)), NEW latest
    PROVE  \/ b = Latest /\ b # Earliest /\ b.tag # "number"
              /\ to_real_block_number(b, latest) = latest
           \/ b = Earliest /\ b # Latest /\ b.tag # "number"
              /\ to_real_block_number(b, latest) = 0
           \/ b # Latest /\ b # Earliest /\ b.tag = "number" /\ b.n \in Nat
              /\ to_real_block_number(b, latest) = b.n
<1>1. /\ Latest.tag = "latest" /\ Earliest.tag = "earliest"
      /\ \A k : Number(k).tag = "number" /\ Number(k).n = k
  BY DEF Latest, Earliest, Number
<1>2. CASE b = Latest
  <2>1. b.tag = "latest" /\ b # Earliest
    BY <1>1, <1>2
  <2> QED BY <1>2, <2>1 DEF to_real_block_number
<1>3. CASE b = Earliest
  <2>1. b.tag = "earliest" /\ b # Latest
    BY <1>1, <1>3
  <2> QED BY <1>3, <2>1 DEF to_real_block_number
<1>4. CASE b.n \in Nat /\ b = Number(b.n)
  <2>1. b.tag = "number" /\ b # Latest /\ b # Earliest
    BY <1>1, <1>4
  <2> QED BY <1>4, <2>1 DEF to_real_block_number
<1> QED BY <1>2, <1>3, <1>4

(* The criteria mean what they document, for a log of a block up to the tip.*)
LEMMA MatchesDocumented ==
    ASSUME current_miniblock \in Nat, NEW c \in LogCriteria \cup LogQueries, NEW l,
           l.block_number \in Nat, l.block_number <= current_miniblock,
           NEW k \in Nat, DOMAIN l.topics = 1 .. k, FullLog(c, l)
    PROVE  Matches(c, l, current_miniblock) <=> Documented(c, l)
<1> DEFINE from == to_real_block_number(c.from_block, current_miniblock)
           to   == to_real_block_number(c.to_block, current_miniblock)
<1>1. /\ c.from_block \in {Latest, Earliest}
         \/ (c.from_block.n \in Nat /\ c.from_block = Number(c.from_block.n))
      /\ c.to_block \in {Latest, Earliest}
         \/ (c.to_block.n \in Nat /\ c.to_block = Number(c.to_block.n))
  BY QueryAssumption
<1>2. from \in Nat /\ to \in Nat
  BY <1>1, RealNumbers
<1>3. l.block_number >= from <=> \/ c.from_block = Latest /\ l.block_number = current_miniblock
                                 \/ c.from_block = Earliest
                                 \/ c.from_block.tag = "number"
                                    /\ l.block_number >= c.from_block.n
  BY <1>1, RealNumbers
<1>4. l.block_number <= to <=> \/ c.to_block = Latest
                               \/ c.to_block = Earliest /\ l.block_number = 0
                               \/ c.to_block.tag = "number" /\ l.block_number <= c.to_block.n
  BY <1>1, RealNumbers
<1>5. l.block_number \in from .. to <=> l.block_number >= from /\ l.block_number <= to
  BY <1>2
<1>6. (\A i \in DOMAIN l.topics : i <= 4 => c.topics[i] = {} \/ l.topics[i] \in c.topics[i])
      <=> \A i \in 1 .. 4 : c.topics[i] # {} =>
             i \in DOMAIN l.topics /\ l.topics[i] \in c.topics[i]
  BY DEF FullLog
<1> HIDE DEF from, to
<1>7. Matches(c, l, current_miniblock)
      <=> /\ l.block_number \in from .. to
          /\ c.addresses = {} \/ l.address \in c.addresses
          /\ \A i \in DOMAIN l.topics :
                i <= 4 => c.topics[i] = {} \/ l.topics[i] \in c.topics[i]
  BY DEF Matches, from, to
<1> QED BY <1>3, <1>4, <1>5, <1>6, <1>7 DEF Documented

(* A log that matched criteria when its block was the newest still matches, *)
(* unless they start at the newest block.                                   *)
LEMMA MatchesLater ==
    ASSUME NEW latest \in Nat, NEW c \in LogCriteria \cup LogQueries, c.from_block # Latest,
           NEW l, l.block_number \in Nat, l.block_number <= latest,
           Matches(c, l, l.block_number)
    PROVE  Matches(c, l, latest)
<1>1. /\ c.from_block \in {Latest, Earliest}
         \/ (c.from_block.n \in Nat /\ c.from_block = Number(c.from_block.n))
      /\ c.to_block \in {Latest, Earliest}
         \/ (c.to_block.n \in Nat /\ c.to_block = Number(c.to_block.n))
  BY QueryAssumption
<1>2. PICK m : m = l.block_number
  OBVIOUS
<1>3. m \in to_real_block_number(c.from_block, m) .. to_real_block_number(c.to_block, m)
  BY <1>2 DEF Matches
<1>4. /\ to_real_block_number(c.from_block, latest) = to_real_block_number(c.from_block, m)
      /\ to_real_block_number(c.from_block, m) \in Nat
  BY <1>1, RealNumbers
<1>5. /\ to_real_block_number(c.to_block, latest) = to_real_block_number(c.to_block, m)
         \/ to_real_block_number(c.to_block, latest) = latest
      /\ to_real_block_number(c.to_block, m) \in Nat
      /\ to_real_block_number(c.to_block, latest) \in Nat
  BY <1>1, <1>2, RealNumbers
<1>6. m \in to_real_block_number(c.from_block, latest) .. to_real_block_number(c.to_block, latest)
  BY <1>2, <1>3, <1>4, <1>5
<1> QED BY <1>2, <1>6 DEF Matches

(* A log query finds what its criteria document among the logs of the       *)
(* chain's transactions, and what waits in the queue of a log filter is     *)
(* found by eth_getFilterLogs too, if the criteria do not move with the tip.*)
THEOREM LogQueriesAreExact ==
    ASSUME ContextKept
    PROVE  Spec => []LogAnswersExact
<1>1. ASSUME TypeOK, ChainInv, ContentInv, QueueInv PROVE LogAnswersExact
  <2>1. current_miniblock \in Nat
    BY <1>1, LocalBlocks
  <2>2. ASSUME NEW c \in LogCriteria \cup LogQueries, NEW t \in DOMAIN tx_results,
               NEW i \in DOMAIN tx_results[t].logs, FullLog(c, tx_results[t].logs[i])
        PROVE  tx_results[t].logs[i] \in get_logs(c) <=> Documented(c, tx_results[t].logs[i])
    <3>1. PICK l : l = tx_results[t].logs[i]
      OBVIOUS
    <3>2. /\ l \in ResultLogs
          /\ l.block_number \in Nat /\ l.block_number <= current_miniblock
          /\ \E k \in Nat : DOMAIN l.topics = 1 .. k
      BY <1>1, <3>1, LogOfReceipt
    <3>3. Matches(c, l, current_miniblock) <=> Documented(c, l)
      BY <2>1, <2>2, <3>1, <3>2, MatchesDocumented
    <3>4. l \in get_logs(c) <=> Matches(c, l, current_miniblock)
      BY <3>2 DEF get_logs
    <3> QED BY <3>1, <3>3, <3>4
  <2>3. ASSUME NEW id \in Installed(filters), NEW found \in get_filter_logs(id),
               filters.filters[id].criteria.from_block # Latest,
               NEW i \in DOMAIN filters.filters[id].updates
        PROVE  filters.filters[id].updates[i] \in found
    <3>1. PICK q : q = filters.filters[id]
      OBVIOUS
    <3>2. q.type = "log" /\ found = get_logs(q.criteria)
      BY <2>3, <3>1 DEF get_filter_logs
    <3>3. PICK l : l = q.updates[i]
      OBVIOUS
    <3>4. /\ q.criteria \in LogCriteria
          /\ l.transaction_hash \in DOMAIN tx_results
          /\ Matches(q.criteria, l, l.block_number)
          /\ \E j \in DOMAIN tx_results[l.transaction_hash].logs :
                tx_results[l.transaction_hash].logs[j] = l
      <4>1. snapshot.filters = filters /\ snapshot.tx_results = tx_results
        BY DEF snapshot
      <4>2. QueueOK(snapshot, q)
        BY <1>1, <3>1, <4>1 DEF QueueInv, QueuesOK
      <4>3. HasCriteria(q) /\ LogOK(snapshot, q.criteria, l)
        BY <2>3, <3>1, <3>2, <3>3, <4>2 DEF QueueOK
      <4> QED BY <4>1, <4>3 DEF HasCriteria, LogOK
    <3>5. /\ l \in ResultLogs
          /\ l.block_number \in Nat /\ l.block_number <= current_miniblock
      BY <1>1, <3>4, LogOfReceipt
    <3>6. Matches(q.criteria, l, current_miniblock)
      BY <2>1, <2>3, <3>1, <3>4, <3>5, MatchesLater
    <3> QED BY <3>1, <3>2, <3>3, <3>5, <3>6 DEF get_logs
  <2> QED BY <2>2, <2>3 DEF LogAnswersExact
<1>2. Spec => []ChainInv /\ []QueueInv /\ []ContentInv
  BY ChainAlways, QueueAlways, ContentAlways
<1> QED BY <1>1, <1>2, TypeCorrect, PTL

-----------------------------------------------------------------------------
(* Answers once given. *)

(* A step that neither reverts nor resets leaves the blocks up to the tip   *)
(* and the receipts as they are.                                            *)
LEMMA StepKeeps ==
    ASSUME TypeOK, ChainInv, [Next]_vars, ~Rewinds
    PROVE  /\ fork' = fork /\ current_miniblock <= current_miniblock'
           /\ \A n \in First(fork) .. current_miniblock : BlockAt(n)' = BlockAt(n)
           /\ \A t \in DOMAIN tx_results :
                 t \in DOMAIN tx_results' /\ tx_results'[t] = tx_results[t]
<1>1. /\ ChainOK(snapshot, fork) /\ MapsOK(snapshot, fork)
      /\ current_miniblock \in Nat
      /\ snapshot.current_miniblock = current_miniblock
      /\ snapshot'.current_miniblock = current_miniblock'
      /\ \A n : At(snapshot, n) = BlockAt(n) /\ At(snapshot', n) = BlockAt(n)'
  <2>1. ChainOK(snapshot, fork) /\ MapsOK(snapshot, fork)
    BY DEF ChainInv, ChainOK
  <2> QED BY <2>1, LocalBlocks DEF snapshot, At, BlockAt
<1>2. CASE Idle
  BY <1>1, <1>2 DEF Idle, chain, BlockAt
<1>3. CASE Commits
  <2>1. PICK t \in Txs, w \in Writes : RunL2Tx(t, w)
    BY <1>3 DEF Commits
  <2>2. PICK m, b, e, r :
          /\ Puts(snapshot, m, b) /\ Puts(m, snapshot', e)
          /\ tx_results' = Insert(tx_results, t, r)
          /\ t \notin DOMAIN tx_results
    BY <1>1, <2>1, CommitPuts
  <2>3. /\ MapsOK(m, fork) /\ m.current_miniblock = current_miniblock + 1
        /\ \A n \in First(fork) .. current_miniblock : At(m, n) = At(snapshot, n)
    <3>1. m.current_miniblock = current_miniblock + 1
      BY <1>1, <2>2 DEF Puts
    <3>2. /\ MapsOK(m, fork)
          /\ \A n \in First(fork) .. snapshot.current_miniblock : At(m, n) = At(snapshot, n)
      BY <1>1, <2>2, PutBlock
    <3> QED BY <1>1, <3>1, <3>2
  <2>4. /\ current_miniblock' = current_miniblock + 2
        /\ \A n \in First(fork) .. current_miniblock + 1 : At(snapshot', n) = At(m, n)
    <3>1. snapshot'.current_miniblock = m.current_miniblock + 1
      BY <2>2 DEF Puts
    <3>2. \A n \in First(fork) .. m.current_miniblock : At(snapshot', n) = At(m, n)
      BY <2>2, <2>3, PutBlock
    <3> QED BY <1>1, <2>3, <3>1, <3>2
  <2>5. First(fork) \in Nat
    BY <1>1 DEF MapsOK
  <2>6. \A n \in First(fork) .. current_miniblock : n \in First(fork) .. current_miniblock + 1
    BY <1>1, <2>5
  <2>7. \A n \in First(fork) .. current_miniblock : BlockAt(n)' = BlockAt(n)
    BY <1>1, <2>3, <2>4, <2>6
  <2>8. \A x \in DOMAIN tx_results : x \in DOMAIN tx_results' /\ tx_results'[x] = tx_results[x]
    BY <2>2 DEF Insert
  <2>9. fork' = fork
    BY <1>1, <1>3, ChainCommit
  <2> QED BY <1>1, <2>4, <2>7, <2>8, <2>9
<1>4. CASE Mines
  <2>1. PICK timestamp \in Nat : MineOne(create_l1_batch_env, timestamp)
    BY <1>4 DEF Mines
  <2>2. PICK b : Puts(snapshot, snapshot', b) /\ UNCHANGED tx_results
    BY <1>1, <2>1, MinePuts
  <2>3. /\ current_miniblock' = current_miniblock + 1
        /\ \A n \in First(fork) .. current_miniblock : At(snapshot', n) = At(snapshot, n)
    <3>1. snapshot'.current_miniblock = snapshot.current_miniblock + 1
      BY <2>2 DEF Puts
    <3>2. \A n \in First(fork) .. snapshot.current_miniblock :
             At(snapshot', n) = At(snapshot, n)
      BY <1>1, <2>2, PutBlock
    <3> QED BY <1>1, <3>1, <3>2
  <2>4. fork' = fork
    BY <1>1, <1>4, ChainMine
  <2> QED BY <1>1, <2>2, <2>3, <2>4
<1>5. CASE Saves
  BY <1>1, <1>5 DEF Saves, counters, chain, BlockAt
<1>6. ASSUME NEW j \in DOMAIN snapshots, RevertsTo(j) PROVE FALSE
  BY <1>6 DEF RevertsTo, Rewinds
<1>7. ASSUME NEW f \in Forks \cup {NoFork}, reset(f) PROVE FALSE
  BY <1>7 DEF Rewinds
<1> QED BY <1>2, <1>3, <1>4, <1>5, <1>6, <1>7, StepKinds

(* The block shown for a number up to the tip.                              *)
Shows(n) ==
    IF n >= First(fork) THEN Show(BlockAt(n))
    ELSE [number |-> n, hash |-> compute_hash(n, RemoteTx),
          transactions |-> RemoteTransactions[n]]

(* It is shown, and its transactions have a receipt or are remote ones.     *)
AnswersKnown ==
    /\ current_miniblock \in Nat /\ First(fork) \in Nat
    /\ \A n \in 0 .. current_miniblock :
          /\ get_block_by_number(Number(n)) = {Shows(n)}
          /\ \A i \in DOMAIN Shows(n).transactions :
                Shows(n).transactions[i] \in DOMAIN tx_results \cup RemoteTxs

LEMMA AnswersAreKnown ==
    ASSUME TypeOK, ChainInv, ContentInv
    PROVE  AnswersKnown
<1>1. current_miniblock \in Nat /\ First(fork) \in Nat
  BY LocalBlocks
<1>2. \A m \in DOMAIN RemoteTransactions : \A i \in DOMAIN RemoteTransactions[m] :
         RemoteTransactions[m][i] \in RemoteTxs
  BY RemoteBlocks, ElementOfSeq, LenProperties
<1>3. ASSUME NEW n \in 0 .. current_miniblock
      PROVE  /\ get_block_by_number(Number(n)) = {Shows(n)}
             /\ \A i \in DOMAIN Shows(n).transactions :
                   Shows(n).transactions[i] \in DOMAIN tx_results \cup RemoteTxs
  <2>1. CASE /\ n \in First(fork) .. current_miniblock
             /\ AnswersAre(n, BlockAt(n).hash, Show(BlockAt(n)))
    <3>1. PICK l : l = BlockAt(n)
      OBVIOUS
    <3>2. Shows(n) = Show(l) /\ Show(l).transactions = TxHashes(l)
      BY <1>1, <2>1, <3>1 DEF Shows, Show
    <3>3. get_block_by_number(Number(n)) = {Show(l)}
      BY <2>1, <3>1 DEF AnswersAre
    <3>4. IsList(l.transactions)
      BY <2>1, <3>1, BlockContents
    <3>5. /\ DOMAIN TxHashes(l) = DOMAIN l.transactions
          /\ \A i \in DOMAIN l.transactions : TxHashes(l)[i] = l.transactions[i].hash
      BY <3>4, HashesList
    <3>6. \A i \in DOMAIN TxHashes(l) : TxHashes(l)[i] \in DOMAIN tx_results \cup RemoteTxs
      <4>1. CASE n > ForkNumber
        BY <2>1, <3>1, <3>5, <4>1, BlockContents
      <4>2. CASE ~(n > ForkNumber)
        <5>1. n \in DOMAIN RemoteTransactions /\ TxHashes(l) = RemoteTransactions[n]
          BY <2>1, <3>1, <4>2, BlockContents
        <5> QED BY <1>2, <5>1
      <4> QED BY <4>1, <4>2
    <3> QED BY <3>2, <3>3, <3>6
  <2>2. CASE /\ n \notin First(fork) .. current_miniblock
             /\ n \in DOMAIN RemoteTransactions
             /\ \E b : /\ b = [number |-> n, hash |-> compute_hash(n, RemoteTx),
                               transactions |-> RemoteTransactions[n]]
                       /\ AnswersAre(n, b.hash, b)
    <3>1. PICK b : /\ b = [number |-> n, hash |-> compute_hash(n, RemoteTx),
                           transactions |-> RemoteTransactions[n]]
                   /\ AnswersAre(n, b.hash, b)
      BY <2>2
    <3>2. ~(n >= First(fork))
      BY <1>1, <2>2
    <3>3. Shows(n) = b /\ b.transactions = RemoteTransactions[n]
      BY <3>1, <3>2 DEF Shows
    <3>4. get_block_by_number(Number(n)) = {b}
      BY <3>1 DEF AnswersAre
    <3> QED BY <1>2, <2>2, <3>3, <3>4
  <2>3. n \in Nat /\ ~(n > current_miniblock)
    BY <1>1
  <2> QED BY <2>1, <2>2, <2>3, AnswersOf
<1> QED BY <1>1, <1>3 DEF AnswersKnown

(* What was once answered for a block up to the tip, or for a transaction   *)
(* in it, is answered again, whatever is sent, mined, stored or installed:  *)
(* only a revert and a reset take it back.                                  *)
THEOREM AnswersStayTheSame ==
    ASSUME ContextKept
    PROVE  Spec => AnswersStable
<1>1. TypeOK /\ ChainInv /\ ContentInv => AnswersKnown
  BY AnswersAreKnown
<1>2. TypeOK /\ TypeOK' /\ ChainInv /\ AnswersKnown /\ AnswersKnown' /\ [Next]_vars =>
      [Rewinds \/
         \A n \in 0 .. current_miniblock :
             /\ get_block_by_number(Number(n))' = get_block_by_number(Number(n))
             /\ \A b \in get_block_by_number(Number(n)) :
                   \A i \in DOMAIN b.transactions :
                       LET t == b.transactions[i]
                       IN  /\ get_transaction_by_hash(t)' = get_transaction_by_hash(t)
                           /\ get_transaction_receipt(t)' = get_transaction_receipt(t)]_vars
  <2> SUFFICES ASSUME TypeOK, TypeOK', ChainInv, AnswersKnown, AnswersKnown', [Next]_vars,
                      ~Rewinds, NEW n \in 0 .. current_miniblock
               PROVE  /\ get_block_by_number(Number(n))' = get_block_by_number(Number(n))
                      /\ \A b \in get_block_by_number(Number(n)) :
                            \A i \in DOMAIN b.transactions :
                                /\ get_transaction_by_hash(b.transactions[i])'
                                      = get_transaction_by_hash(b.transactions[i])
                                /\ get_transaction_receipt(b.transactions[i])'
                                      = get_transaction_receipt(b.transactions[i])
    OBVIOUS
  <2>1. /\ current_miniblock \in Nat /\ current_miniblock' \in Nat /\ First(fork) \in Nat
        /\ fork' = fork /\ current_miniblock <= current_miniblock'
        /\ \A m \in First(fork) .. current_miniblock : BlockAt(m)' = BlockAt(m)
        /\ \A t \in DOMAIN tx_results :
              t \in DOMAIN tx_results' /\ tx_results'[t] = tx_results[t]
    BY StepKeeps DEF AnswersKnown
  <2>2. get_block_by_number(Number(n)) = {Shows(n)}
    BY DEF AnswersKnown
  <2>3. n \in 0 .. current_miniblock'
    BY <2>1
  <2>4. get_block_by_number(Number(n))' = {Shows(n)'}
    BY <2>3 DEF AnswersKnown
  <2>5. Shows(n)' = Shows(n)
    <3>1. CASE n >= First(fork)
      <4>1. n \in First(fork) .. current_miniblock
        BY <2>1, <3>1
      <4>2. BlockAt(n)' = BlockAt(n)
        BY <2>1, <4>1
      <4> QED BY <2>1, <3>1, <4>2 DEF Shows
    <3>2. CASE ~(n >= First(fork))
      BY <2>1, <3>2 DEF Shows
    <3> QED BY <3>1, <3>2
  <2>6. ASSUME NEW t \in DOMAIN tx_results \cup RemoteTxs
        PROVE  /\ get_transaction_by_hash(t)' = get_transaction_by_hash(t)
               /\ get_transaction_receipt(t)' = get_transaction_receipt(t)
    <3>1. CASE t \in DOMAIN tx_results
      <4>1. /\ {t} \cap DOMAIN tx_results = {t} /\ {t} \cap DOMAIN tx_results' = {t}
            /\ tx_results'[t] = tx_results[t]
        BY <2>1, <3>1
      <4>2. get_transaction_receipt(t)' = get_transaction_receipt(t)
        BY <4>1 DEF get_transaction_receipt
      <4>3. t \in Txs
        BY <3>1, TypeSplit DEF NodeTypeOK
      <4>5. OwnTransaction(t)' = OwnTransaction(t) /\ RemoteTransaction(t)' = RemoteTransaction(t)
        BY <4>1 DEF OwnTransaction, RemoteTransaction
      <4>6. get_transaction_by_hash(t)' = get_transaction_by_hash(t)
        BY <2>1, <4>5 DEF get_transaction_by_hash, OrElseRemote, OrElse
      <4> QED BY <4>2, <4>6
    <3>2. CASE t \in RemoteTxs
      <4>1. {t} \cap DOMAIN tx_results = {} /\ {t} \cap DOMAIN tx_results' = {}
        <5>1. DOMAIN tx_results \subseteq Txs /\ DOMAIN tx_results' \subseteq Txs
          BY TypeSplit, TypeSplitPrimed DEF NodeTypeOK
        <5> QED BY <3>2, <5>1, TxAssumption
      <4>2. get_transaction_receipt(t)' = get_transaction_receipt(t)
        BY <4>1 DEF get_transaction_receipt
      <4>3. OwnTransaction(t) = {} /\ OwnTransaction(t)' = {}
        BY <4>1 DEF OwnTransaction
      <4>4. RemoteTransaction(t)' = RemoteTransaction(t)
        BY DEF RemoteTransaction
      <4>5. get_transaction_by_hash(t)' = get_transaction_by_hash(t)
        BY <2>1, <4>3, <4>4 DEF get_transaction_by_hash, OrElseRemote, OrElse
      <4> QED BY <4>2, <4>5
    <3> QED BY <3>1, <3>2
  <2>7. ASSUME NEW b \in get_block_by_number(Number(n)), NEW i \in DOMAIN b.transactions
        PROVE  b.transactions[i] \in DOMAIN tx_results \cup RemoteTxs
    <3>1. b = Shows(n)
      BY <2>2
    <3> QED BY <3>1 DEF AnswersKnown
  <2>8. get_block_by_number(Number(n))' = get_block_by_number(Number(n))
    BY <2>2, <2>4, <2>5
  <2> QED BY <2>6, <2>7, <2>8
<1>3. Spec => []ChainInv /\ []ContentInv
  BY ChainAlways, ContentAlways
<1> QED BY <1>1, <1>2, <1>3, TypeCorrect, PTL DEF Spec, AnswersStable

=============================================================================
