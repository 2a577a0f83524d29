--------------------------- MODULE NodeLocksProofs ---------------------------
(***************************************************************************)
(* Proofs about NodeLocks, for any number of threads, with and without gas *)
(* details: which requests can wait for each other for ever, and on which  *)
(* chain a transaction is committed.                                       *)
(***************************************************************************)
EXTENDS NodeLocks, SequenceTheorems, TLAPS

-----------------------------------------------------------------------------
(* The guards a request holds, by the position of its next operation. *)

Kind(r, k) == Programs[r][k][1]
Lock(r, k) == Programs[r][k][2]

Requests == {"query", "run_l2_call", "increase_time", "mine_blocks", "snapshot",
             "revert_snapshot", "reset_network", "send_raw_transaction"}

(* The gas details take two more operations. *)
More == IF ShowGasDetails THEN 2 ELSE 0

ReadHeld(r, k, l) ==
    \/ r = "query" /\ l = "inner" /\ k \in 2 .. 4
    \/ r = "query" /\ l = "storage" /\ k = 3
    \/ r = "snapshot" /\ l = "snapshots" /\ k \in 3 .. 4
    \/ r = "snapshot" /\ l = "storage" /\ k = 6
    \/ r = "reset_network" /\ l = "inner" /\ k \in {2, 3, 4, 6, 8, 10}
    \/ r = "reset_network" /\ l = "storage" /\ k = 3
    \/ r = "send_raw_transaction" /\ l = "inner" /\ k \in {2, 4} \cup 8 .. 11 + More
    \/ r = "send_raw_transaction" /\ l = "storage" /\ k = 18 + More

Writes(r, k, l) ==
    \/ r = "run_l2_call" /\ l = "inner" /\ k \in 2 .. 4
    \/ r = "run_l2_call" /\ l = "storage" /\ k = 3
    \/ r = "increase_time" /\ l = "inner" /\ k \in 2 .. 3
    \/ r = "mine_blocks" /\ l = "inner" /\ k \in 2 .. 5
    \/ r = "mine_blocks" /\ l = "storage" /\ k = 3
    \/ r = "snapshot" /\ l = "inner" /\ k \in 2 .. 10
    \/ r = "snapshot" /\ l = "snapshots" /\ k \in 8 .. 9
    \/ r = "revert_snapshot" /\ l = "inner" /\ k \in 2 .. 8
    \/ r = "revert_snapshot" /\ l = "snapshots" /\ k \in 3 .. 7
    \/ r = "revert_snapshot" /\ l = "storage" /\ k \in 5 .. 6
    \/ r = "reset_network" /\ l = "inner" /\ k \in {14, 15, 17, 18, 19}
    \/ r = "reset_network" /\ l = "snapshots" /\ k \in 12 .. 20
    \/ r = "reset_network" /\ l = "storage" /\ k = 18
    \/ r = "send_raw_transaction" /\ l = "inner" /\ k \in {6} \cup 14 + More .. 19 + More
    \/ r = "send_raw_transaction" /\ l = "storage" /\ k \in {9, 15 + More}

(* How often a lock is read: with the gas details, once twice.              *)
Reads(r, k, l) ==
    IF ~ReadHeld(r, k, l) THEN 0
    ELSE IF /\ ShowGasDetails /\ r = "send_raw_transaction"
            /\ l = "inner" /\ k = 11
         THEN 2 ELSE 1
Holds(r, k, l) == Reads(r, k, l) > 0 \/ Writes(r, k, l)

(* A request starts and ends without a guard, and each operation changes    *)
(* what is held as it should.                                               *)
StepsFit(r, n) ==
    /\ \A l \in Locks : ~Holds(r, 1, l) /\ ~Holds(r, n + 1, l)
    /\ \A k \in 1 .. n, l \in Locks :
          /\ Reads(r, k, l) \in Nat /\ Reads(r, k + 1, l) \in Nat
          /\ Reads(r, k, l) > 0 => ~Writes(r, k, l)
          /\ Lock(r, k) = l /\ Kind(r, k) = "read" =>
                ~Writes(r, k, l) /\ Reads(r, k + 1, l) = Reads(r, k, l) + 1
          /\ Lock(r, k) = l /\ Kind(r, k) = "write" =>
                ~Holds(r, k, l) /\ Writes(r, k + 1, l)
          /\ Lock(r, k) = l /\ Kind(r, k) = "drop" =>
                /\ Holds(r, k, l) /\ ~Writes(r, k + 1, l)
                /\ Reads(r, k + 1, l) = IF Writes(r, k, l) THEN Reads(r, k, l)
                                        ELSE Reads(r, k, l) - 1
          /\ Lock(r, k) # l \/ Kind(r, k) \notin {"read", "drop"} =>
                Reads(r, k + 1, l) = Reads(r, k, l)
          /\ Lock(r, k) # l \/ Kind(r, k) \notin {"write", "drop"} =>
                (Writes(r, k + 1, l) <=> Writes(r, k, l))

(* What a request that holds a lock can wait for. *)
WaitsFit(r, n) ==
    \A k \in 1 .. n :
       /\ Holds(r, k, "storage") => Kind(r, k) \notin {"read", "write"}
       /\ Holds(r, k, "snapshots") /\ Kind(r, k) \in {"read", "write"} =>
             \/ Lock(r, k) = "storage"
             \/ /\ Lock(r, k) = "inner" /\ Kind(r, k) = "write"
                /\ r = "reset_network" /\ Writes(r, k, "snapshots")
       /\ Holds(r, k, "inner") /\ Kind(r, k) \in {"read", "write"} =>
             \/ Lock(r, k) = "storage"
             \/ /\ Lock(r, k) = "inner" /\ Kind(r, k) = "read"
                /\ r = "send_raw_transaction" /\ ShowGasDetails /\ Reads(r, k, "inner") = 1
             \/ /\ Lock(r, k) = "snapshots"
                /\ r \in {"snapshot", "revert_snapshot"} /\ Writes(r, k, "inner")

(* Under which lock a request does what, and where a transaction is         *)
(* executed and committed.                                                  *)
ChangesFit(r, n) ==
    \A k \in 1 .. n :
       /\ Kind(r, k) \in {"commit", "mine", "shift", "restore", "exchange"} =>
             Writes(r, k, "inner")
       /\ Kind(r, k) \in {"mine", "shift", "restore", "exchange"} => r # "send_raw_transaction"
       /\ Kind(r, k) = "execute" <=> r = "send_raw_transaction" /\ k = 10 + More
       /\ Kind(r, k) = "commit" <=> r = "send_raw_transaction" /\ k = 16 + More

Fits(r) ==
    LET n == Len(Programs[r])
    IN  n \in Nat \ {0} /\ StepsFit(r, n) /\ WaitsFit(r, n) /\ ChangesFit(r, n)

-----------------------------------------------------------------------------
(* The programs, one by one. *)

LEMMA QueryFits ==
    Fits("query")
<1>1. LET p == query
      IN  /\ Len(p) = 4
          /\ p[1] = << "read", "inner" >> /\ p[2] = << "read", "storage" >>
          /\ p[3] = << "drop", "storage" >> /\ p[4] = << "drop", "inner" >>
  BY DEF query, Storage, Reading, Writing, Read, Write, Drop, Step
<1>2. Programs["query"] = query
  BY DEF Programs
<1>3. \A k \in 1 .. 4 :
         /\ Kind("query", k) =
               IF k \in {1, 2} THEN "read" ELSE "drop"
         /\ Lock("query", k) =
               IF k \in {2, 3} THEN "storage" ELSE "inner"
  BY <1>1, <1>2 DEF Kind, Lock
<1>4. \A k \in Int, l \in Locks :
         /\ Reads("query", k, l) =
               IF \/ l = "inner" /\ k \in 2 .. 4
                  \/ l = "storage" /\ k = 3
               THEN 1 ELSE 0
         /\ ~Writes("query", k, l)
  BY DEF Reads, Writes, ReadHeld
<1>5. \A k \in 1 .. 4 : k + 1 \in Int /\ k \in Int
  OBVIOUS
<1>6. StepsFit("query", 4)
  BY <1>3, <1>4, <1>5 DEF StepsFit, Holds, Locks
<1>7. WaitsFit("query", 4)
  BY <1>3, <1>4, <1>5 DEF WaitsFit, Holds, Locks
<1>8. ChangesFit("query", 4)
  BY <1>3, <1>4, <1>5 DEF ChangesFit, Holds, Locks
<1>9. Len(Programs["query"]) = 4
  BY <1>1, <1>2
<1> QED BY <1>6, <1>7, <1>8, <1>9 DEF Fits

LEMMA RunL2CallFits ==
    Fits("run_l2_call")
<1>1. LET p == run_l2_call
      IN  /\ Len(p) = 4
          /\ p[1] = << "write", "inner" >> /\ p[2] = << "write", "storage" >>
          /\ p[3] = << "drop", "storage" >> /\ p[4] = << "drop", "inner" >>
  BY DEF run_l2_call, Storage, Reading, Writing, Read, Write, Drop, Step
<1>2. Programs["run_l2_call"] = run_l2_call
  BY DEF Programs
<1>3. \A k \in 1 .. 4 :
         /\ Kind("run_l2_call", k) =
               IF k \in {1, 2} THEN "write" ELSE "drop"
         /\ Lock("run_l2_call", k) =
               IF k \in {2, 3} THEN "storage" ELSE "inner"
  BY <1>1, <1>2 DEF Kind, Lock
<1>4. \A k \in Int, l \in Locks :
         /\ Reads("run_l2_call", k, l) = 0
         /\ Writes("run_l2_call", k, l) <=>
               \/ l = "inner" /\ k \in 2 .. 4
               \/ l = "storage" /\ k = 3
  BY DEF Reads, Writes, ReadHeld
<1>5. \A k \in 1 .. 4 : k + 1 \in Int /\ k \in Int
  OBVIOUS
<1>6. StepsFit("run_l2_call", 4)
  BY <1>3, <1>4, <1>5 DEF StepsFit, Holds, Locks
<1>7. WaitsFit("run_l2_call", 4)
  BY <1>3, <1>4, <1>5 DEF WaitsFit, Holds, Locks
<1>8. ChangesFit("run_l2_call", 4)
  BY <1>3, <1>4, <1>5 DEF ChangesFit, Holds, Locks
<1>9. Len(Programs["run_l2_call"]) = 4
  BY <1>1, <1>2
<1> QED BY <1>6, <1>7, <1>8, <1>9 DEF Fits

LEMMA IncreaseTimeFits ==
    Fits("increase_time")
<1>1. LET p == increase_time
      IN  /\ Len(p) = 3
          /\ p[1] = << "write", "inner" >> /\ p[2] = << "shift" >>
          /\ p[3] = << "drop", "inner" >>
  BY DEF increase_time, Storage, Reading, Writing, Read, Write, Drop, Step
<1>2. Programs["increase_time"] = increase_time
  BY DEF Programs
<1>3. \A k \in 1 .. 3 :
         /\ Kind("increase_time", k) =
               IF k = 1 THEN "write"
               ELSE IF k = 2 THEN "shift" ELSE "drop"
         /\ k # 2 =>
               Lock("increase_time", k) =
                  "inner"
  BY <1>1, <1>2 DEF Kind, Lock
<1>4. \A k \in Int, l \in Locks :
         /\ Reads("increase_time", k, l) = 0
         /\ Writes("increase_time", k, l) <=> l = "inner" /\ k \in 2 .. 3
  BY DEF Reads, Writes, ReadHeld
<1>5. \A k \in 1 .. 3 : k + 1 \in Int /\ k \in Int
  OBVIOUS
<1>6. StepsFit("increase_time", 3)
  BY <1>3, <1>4, <1>5 DEF StepsFit, Holds, Locks
<1>7. WaitsFit("increase_time", 3)
  BY <1>3, <1>4, <1>5 DEF WaitsFit, Holds, Locks
<1>8. ChangesFit("increase_time", 3)
  BY <1>3, <1>4, <1>5 DEF ChangesFit, Holds, Locks
<1>9. Len(Programs["increase_time"]) = 3
  BY <1>1, <1>2
<1> QED BY <1>6, <1>7, <1>8, <1>9 DEF Fits

LEMMA MineBlocksFits ==
    Fits("mine_blocks")
<1>1. LET p == mine_blocks
      IN  /\ Len(p) = 5
          /\ p[1] = << "write", "inner" >> /\ p[2] = << "write", "storage" >>
          /\ p[3] = << "drop", "storage" >> /\ p[4] = << "mine" >>
          /\ p[5] = << "drop", "inner" >>
  BY DEF mine_blocks, Storage, Reading, Writing, Read, Write, Drop, Step
<1>2. Programs["mine_blocks"] = mine_blocks
  BY DEF Programs
<1>3. \A k \in 1 .. 5 :
         /\ Kind("mine_blocks", k) =
               IF k \in {1, 2} THEN "write"
               ELSE IF k = 4 THEN "mine" ELSE "drop"
         /\ k # 4 =>
               Lock("mine_blocks", k) =
                  IF k \in {2, 3} THEN "storage" ELSE "inner"
  BY <1>1, <1>2 DEF Kind, Lock
<1>4. \A k \in Int, l \in Locks :
         /\ Reads("mine_blocks", k, l) = 0
         /\ Writes("mine_blocks", k, l) <=>
               \/ l = "inner" /\ k \in 2 .. 5
               \/ l = "storage" /\ k = 3
  BY DEF Reads, Writes, ReadHeld
<1>5. \A k \in 1 .. 5 : k + 1 \in Int /\ k \in Int
  OBVIOUS
<1>6. StepsFit("mine_blocks", 5)
  BY <1>3, <1>4, <1>5 DEF StepsFit, Holds, Locks
<1>7. WaitsFit("mine_blocks", 5)
  BY <1>3, <1>4, <1>5 DEF WaitsFit, Holds, Locks
<1>8. ChangesFit("mine_blocks", 5)
  BY <1>3, <1>4, <1>5 DEF ChangesFit, Holds, Locks
<1>9. Len(Programs["mine_blocks"]) = 5
  BY <1>1, <1>2
<1> QED BY <1>6, <1>7, <1>8, <1>9 DEF Fits

LEMMA SnapshotFits ==
    Fits("snapshot")
<1>1. LET p == snapshot
      IN  /\ Len(p) = 10
          /\ p[1] = << "write", "inner" >> /\ p[2] = << "read", "snapshots" >>
          /\ p[3] = << "limit" >> /\ p[4] = << "drop", "snapshots" >>
          /\ p[5] = << "read", "storage" >> /\ p[6] = << "drop", "storage" >>
          /\ p[7] = << "write", "snapshots" >> /\ p[8] = << "save" >>
          /\ p[9] = << "drop", "snapshots" >> /\ p[10] = << "drop", "inner" >>
  BY DEF snapshot, Storage, Reading, Writing, Read, Write, Drop, Step
<1>2. Programs["snapshot"] = snapshot
  BY DEF Programs
<1>3. \A k \in 1 .. 10 :
         /\ Kind("snapshot", k) =
               IF k \in {1, 7} THEN "write"
               ELSE IF k \in {2, 5} THEN "read"
               ELSE IF k = 3 THEN "limit"
               ELSE IF k = 8 THEN "save" ELSE "drop"
         /\ k \notin {3, 8} =>
               Lock("snapshot", k) =
                  IF k \in {2, 4, 7, 9} THEN "snapshots"
                  ELSE IF k \in {5, 6} THEN "storage" ELSE "inner"
  BY <1>1, <1>2 DEF Kind, Lock
<1>4. \A k \in Int, l \in Locks :
         /\ Reads("snapshot", k, l) =
               IF \/ l = "snapshots" /\ k \in 3 .. 4
                  \/ l = "storage" /\ k = 6
               THEN 1 ELSE 0
         /\ Writes("snapshot", k, l) <=>
               \/ l = "inner" /\ k \in 2 .. 10
               \/ l = "snapshots" /\ k \in 8 .. 9
  BY DEF Reads, Writes, ReadHeld
<1>5. \A k \in 1 .. 10 : k + 1 \in Int /\ k \in Int
  OBVIOUS
<1>6. StepsFit("snapshot", 10)
  BY <1>3, <1>4, <1>5 DEF StepsFit, Holds, Locks
<1>7. WaitsFit("snapshot", 10)
  BY <1>3, <1>4, <1>5 DEF WaitsFit, Holds, Locks
<1>8. ChangesFit("snapshot", 10)
  BY <1>3, <1>4, <1>5 DEF ChangesFit, Holds, Locks
<1>9. Len(Programs["snapshot"]) = 10
  BY <1>1, <1>2
<1> QED BY <1>6, <1>7, <1>8, <1>9 DEF Fits

LEMMA RevertSnapshotFits ==
    Fits("revert_snapshot")
<1>1. LET p == revert_snapshot
      IN  /\ Len(p) = 8
          /\ p[1] = << "write", "inner" >> /\ p[2] = << "write", "snapshots" >>
          /\ p[3] = << "choose" >> /\ p[4] = << "write", "storage" >>
          /\ p[5] = << "restore" >> /\ p[6] = << "drop", "storage" >>
          /\ p[7] = << "drop", "snapshots" >> /\ p[8] = << "drop", "inner" >>
  BY DEF revert_snapshot, Storage, Reading, Writing, Read, Write, Drop, Step
<1>2. Programs["revert_snapshot"] = revert_snapshot
  BY DEF Programs
<1>3. \A k \in 1 .. 8 :
         /\ Kind("revert_snapshot", k) =
               IF k \in {1, 2, 4} THEN "write"
               ELSE IF k = 3 THEN "choose"
               ELSE IF k = 5 THEN "restore" ELSE "drop"
         /\ k \notin {3, 5} =>
               Lock("revert_snapshot", k) =
                  IF k \in {2, 7} THEN "snapshots"
                  ELSE IF k \in {4, 6} THEN "storage" ELSE "inner"
  BY <1>1, <1>2 DEF Kind, Lock
<1>4. \A k \in Int, l \in Locks :
         /\ Reads("revert_snapshot", k, l) = 0
         /\ Writes("revert_snapshot", k, l) <=>
               \/ l = "inner" /\ k \in 2 .. 8
               \/ l = "snapshots" /\ k \in 3 .. 7
               \/ l = "storage" /\ k \in 5 .. 6
  BY DEF Reads, Writes, ReadHeld
<1>5. \A k \in 1 .. 8 : k + 1 \in Int /\ k \in Int
  OBVIOUS
<1>6. StepsFit("revert_snapshot", 8)
  BY <1>3, <1>4, <1>5 DEF StepsFit, Holds, Locks
<1>7. WaitsFit("revert_snapshot", 8)
  BY <1>3, <1>4, <1>5 DEF WaitsFit, Holds, Locks
<1>8. ChangesFit("revert_snapshot", 8)
  BY <1>3, <1>4, <1>5 DEF ChangesFit, Holds, Locks
<1>9. Len(Programs["revert_snapshot"]) = 8
  BY <1>1, <1>2
<1> QED BY <1>6, <1>7, <1>8, <1>9 DEF Fits

LEMMA ResetNetworkFits ==
    Fits("reset_network")
<1>1. LET p == reset_network
      IN  /\ Len(p) = 20
          /\ p[1] = << "read", "inner" >> /\ p[2] = << "read", "storage" >>
          /\ p[3] = << "drop", "storage" >> /\ p[4] = << "drop", "inner" >>
          /\ p[5] = << "read", "inner" >> /\ p[6] = << "drop", "inner" >>
          /\ p[7] = << "read", "inner" >> /\ p[8] = << "drop", "inner" >>
          /\ p[9] = << "read", "inner" >> /\ p[10] = << "drop", "inner" >>
          /\ p[11] = << "write", "snapshots" >> /\ p[12] = << "clear" >>
          /\ p[13] = << "write", "inner" >> /\ p[14] = << "exchange" >>
          /\ p[15] = << "drop", "inner" >> /\ p[16] = << "write", "inner" >>
          /\ p[17] = << "write", "storage" >> /\ p[18] = << "drop", "storage" >>
          /\ p[19] = << "drop", "inner" >> /\ p[20] = << "drop", "snapshots" >>
  BY DEF reset_network, Storage, Reading, Writing, Read, Write, Drop, Step
<1>2. Programs["reset_network"] = reset_network
  BY DEF Programs
<1>3. \A k \in 1 .. 20 :
         /\ Kind("reset_network", k) =
               IF k \in {1, 2, 5, 7, 9} THEN "read"
               ELSE IF k \in {11, 13, 16, 17} THEN "write"
               ELSE IF k = 12 THEN "clear"
               ELSE IF k = 14 THEN "exchange" ELSE "drop"
         /\ k \notin {12, 14} =>
               Lock("reset_network", k) =
                  IF k \in {2, 3, 17, 18} THEN "storage"
                  ELSE IF k \in {11, 20} THEN "snapshots" ELSE "inner"
  BY <1>1, <1>2 DEF Kind, Lock
<1>4. \A k \in Int, l \in Locks :
         /\ Reads("reset_network", k, l) =
               IF \/ l = "inner" /\ k \in {2, 3, 4, 6, 8, 10}
                  \/ l = "storage" /\ k = 3
               THEN 1 ELSE 0
         /\ Writes("reset_network", k, l) <=>
               \/ l = "inner" /\ k \in {14, 15, 17, 18, 19}
               \/ l = "snapshots" /\ k \in 12 .. 20
               \/ l = "storage" /\ k = 18
  BY DEF Reads, Writes, ReadHeld
<1>5. \A k \in 1 .. 20 : k + 1 \in Int /\ k \in Int
  OBVIOUS
<1>6. StepsFit("reset_network", 20)
  BY <1>3, <1>4, <1>5 DEF StepsFit, Holds, Locks
<1>7. WaitsFit("reset_network", 20)
  BY <1>3, <1>4, <1>5 DEF WaitsFit, Holds, Locks
<1>8. ChangesFit("reset_network", 20)
  BY <1>3, <1>4, <1>5 DEF ChangesFit, Holds, Locks
<1>9. Len(Programs["reset_network"]) = 20
  BY <1>1, <1>2
<1> QED BY <1>6, <1>7, <1>8, <1>9 DEF Fits

(* With the gas details, inner is read under a guard that reads it. *)
LEMMA SendWithDetailsFits ==
    ASSUME ShowGasDetails
    PROVE  Fits("send_raw_transaction")
<1>1. LET p == send_raw_transaction
      IN  /\ Len(p) = 21
          /\ p[1] = << "read", "inner" >> /\ p[2] = << "drop", "inner" >>
          /\ p[3] = << "read", "inner" >> /\ p[4] = << "drop", "inner" >>
          /\ p[5] = << "write", "inner" >> /\ p[6] = << "drop", "inner" >>
          /\ p[7] = << "read", "inner" >> /\ p[8] = << "write", "storage" >>
          /\ p[9] = << "drop", "storage" >> /\ p[10] = << "read", "inner" >>
          /\ p[11] = << "drop", "inner" >> /\ p[12] = << "execute" >>
          /\ p[13] = << "drop", "inner" >> /\ p[14] = << "halt" >>
          /\ p[15] = << "write", "inner" >> /\ p[16] = << "write", "storage" >>
          /\ p[17] = << "drop", "storage" >> /\ p[18] = << "commit" >>
          /\ p[19] = << "read", "storage" >> /\ p[20] = << "drop", "storage" >>
          /\ p[21] = << "drop", "inner" >>
  BY DEF send_raw_transaction, run_l2_tx, run_l2_tx_raw, display_detailed_gas_info,
         Storage, Reading, Writing, Read, Write, Drop, Step
<1>2. Programs["send_raw_transaction"] = send_raw_transaction
  BY DEF Programs
<1>3. \A k \in 1 .. 21 :
         /\ Kind("send_raw_transaction", k) =
               IF k \in {1, 3, 7, 10, 19} THEN "read"
               ELSE IF k \in {5, 8, 15, 16} THEN "write"
               ELSE IF k = 12 THEN "execute"
               ELSE IF k = 14 THEN "halt"
               ELSE IF k = 18 THEN "commit" ELSE "drop"
         /\ k \notin {12, 14, 18} =>
               Lock("send_raw_transaction", k) =
                  IF k \in {8, 9, 16, 17, 19, 20} THEN "storage" ELSE "inner"
  BY <1>1, <1>2 DEF Kind, Lock
<1>4. \A k \in Int, l \in Locks :
         /\ Reads("send_raw_transaction", k, l) =
               IF \/ l = "inner" /\ k \in {2, 4, 8, 9, 10, 11, 12, 13}
                  \/ l = "storage" /\ k = 20
               THEN IF l = "inner" /\ k = 11 THEN 2 ELSE 1 ELSE 0
         /\ Writes("send_raw_transaction", k, l) <=>
               \/ l = "inner" /\ k \in {6, 16, 17, 18, 19, 20, 21}
               \/ l = "storage" /\ k \in {9, 17}
  BY DEF Reads, Writes, ReadHeld, More
<1>5. \A k \in 1 .. 21 : k + 1 \in Int /\ k \in Int
  OBVIOUS
<1>6. StepsFit("send_raw_transaction", 21)
  BY SMTT(60), <1>3, <1>4, <1>5 DEF StepsFit, Holds, Locks
<1>7. WaitsFit("send_raw_transaction", 21)
  BY <1>3, <1>4, <1>5 DEF WaitsFit, Holds, Locks
<1>8. ChangesFit("send_raw_transaction", 21)
  BY <1>3, <1>4, <1>5 DEF ChangesFit, Holds, Locks, More
<1>9. Len(Programs["send_raw_transaction"]) = 21
  BY <1>1, <1>2
<1> QED BY <1>6, <1>7, <1>8, <1>9 DEF Fits

LEMMA SendFits ==
    ASSUME ~ShowGasDetails
    PROVE  Fits("send_raw_transaction")
<1>1. LET p == send_raw_transaction
      IN  /\ Len(p) = 19
          /\ p[1] = << "read", "inner" >> /\ p[2] = << "drop", "inner" >>
          /\ p[3] = << "read", "inner" >> /\ p[4] = << "drop", "inner" >>
          /\ p[5] = << "write", "inner" >> /\ p[6] = << "drop", "inner" >>
          /\ p[7] = << "read", "inner" >> /\ p[8] = << "write", "storage" >>
          /\ p[9] = << "drop", "storage" >> /\ p[10] = << "execute" >>
          /\ p[11] = << "drop", "inner" >> /\ p[12] = << "halt" >>
          /\ p[13] = << "write", "inner" >> /\ p[14] = << "write", "storage" >>
          /\ p[15] = << "drop", "storage" >> /\ p[16] = << "commit" >>
          /\ p[17] = << "read", "storage" >> /\ p[18] = << "drop", "storage" >>
          /\ p[19] = << "drop", "inner" >>
  BY DEF send_raw_transaction, run_l2_tx, run_l2_tx_raw, display_detailed_gas_info,
         Storage, Reading, Writing, Read, Write, Drop, Step
<1>2. Programs["send_raw_transaction"] = send_raw_transaction
  BY DEF Programs
<1>3. \A k \in 1 .. 19 :
         /\ Kind("send_raw_transaction", k) =
               IF k \in {1, 3, 7, 17} THEN "read"
               ELSE IF k \in {5, 8, 13, 14} THEN "write"
               ELSE IF k = 10 THEN "execute"
               ELSE IF k = 12 THEN "halt"
               ELSE IF k = 16 THEN "commit" ELSE "drop"
         /\ k \notin {10, 12, 16} =>
               Lock("send_raw_transaction", k) =
                  IF k \in {8, 9, 14, 15, 17, 18} THEN "storage" ELSE "inner"
  BY <1>1, <1>2 DEF Kind, Lock
<1>4. \A k \in Int, l \in Locks :
         /\ Reads("send_raw_transaction", k, l) =
               IF \/ l = "inner" /\ k \in {2, 4, 8, 9, 10, 11}
                  \/ l = "storage" /\ k = 18
               THEN 1 ELSE 0
         /\ Writes("send_raw_transaction", k, l) <=>
               \/ l = "inner" /\ k \in {6, 14, 15, 16, 17, 18, 19}
               \/ l = "storage" /\ k \in {9, 15}
  BY DEF Reads, Writes, ReadHeld, More
<1>5. \A k \in 1 .. 19 : k + 1 \in Int /\ k \in Int
  OBVIOUS
<1>6. StepsFit("send_raw_transaction", 19)
  BY <1>3, <1>4, <1>5 DEF StepsFit, Holds, Locks
<1>7. WaitsFit("send_raw_transaction", 19)
  BY <1>3, <1>4, <1>5 DEF WaitsFit, Holds, Locks
<1>8. ChangesFit("send_raw_transaction", 19)
  BY <1>3, <1>4, <1>5 DEF ChangesFit, Holds, Locks, More
<1>9. Len(Programs["send_raw_transaction"]) = 19
  BY <1>1, <1>2
<1> QED BY <1>6, <1>7, <1>8, <1>9 DEF Fits

LEMMA AllFit ==
    /\ DOMAIN Programs = Requests
    /\ \A r \in Requests : Fits(r)
<1>1. DOMAIN Programs = Requests
  BY DEF Programs, Requests
<1>2. Fits("send_raw_transaction")
  BY SendWithDetailsFits, SendFits
<1> QED BY <1>1, <1>2, QueryFits, RunL2CallFits, IncreaseTimeFits, MineBlocksFits,
           SnapshotFits, RevertSnapshotFits, ResetNetworkFits DEF Requests

-----------------------------------------------------------------------------
(* The inductive invariant. *)

Executions == [tip : [chain : Seq(Nat), clock : Nat], rewound : BOOLEAN]

TypeInv ==
    /\ parallel \in BOOLEAN
    /\ request \in [Threads -> Requests \cup {None}]
    /\ pc \in [Threads -> Nat]
    /\ readers \in [Locks -> [Threads -> Nat]]
    /\ writer \in [Locks -> Threads \cup {None}]
    /\ queued \subseteq Threads
    /\ chain \in Seq(Nat) /\ clock \in Nat /\ made \in Nat
    /\ saved \in Seq([chain : Seq(Nat), clock : Nat])
    /\ executed \in [Threads -> Executions \cup {None}]

(* A thread holds what its place in its program says. *)
GuardsOf(t) ==
    IF Idle(t)
    THEN pc[t] = 1 /\ \A l \in Locks : readers[l][t] = 0 /\ writer[l] # t
    ELSE /\ pc[t] \in 1 .. Len(Programs[request[t]])
         /\ \A l \in Locks : /\ readers[l][t] = Reads(request[t], pc[t], l)
                             /\ writer[l] = t <=> Writes(request[t], pc[t], l)

(* Who writes is alone, who is queued wants to write, and the server runs   *)
(* one request at a time.                                                   *)
GuardsInv ==
    /\ \A t \in Threads : GuardsOf(t)
    /\ \A l \in Locks, t \in Threads : readers[l][t] > 0 => writer[l] = None
    /\ \A t \in queued : \E l \in Locks : Wants(t, "write", l)
    /\ ~parallel => \A t, u \in Threads : Idle(t) \/ Idle(u) \/ t = u

(* Between the execution of a transaction and its commit. *)
Committing(t) ==
    request[t] = "send_raw_transaction" /\ pc[t] \in 11 + More .. 16 + More

(* The chain only grows after an execution, unless it is exchanged.         *)
CommitInv ==
    /\ \A t \in Threads : Committing(t) => executed[t] # None
    /\ \A t \in Threads : executed[t] # None /\ ~executed[t].rewound =>
          /\ Len(executed[t].tip.chain) <= Len(chain)
          /\ executed[t].tip.chain = SubSeq(chain, 1, Len(executed[t].tip.chain))

(* Nobody writes under a poisoned lock. *)
PoisonInv == \A l \in poisoned : l \in Locks /\ writer[l] = None

LocksInv == TypeInv /\ GuardsInv /\ CommitInv /\ PoisonInv

(* What a thread that runs a request holds, and what its next operation     *)
(* makes of it.                                                             *)
LEMMA Running ==
    ASSUME TypeInv, GuardsInv, NEW t \in Threads, ~Idle(t)
    PROVE  LET r == request[t] k == pc[t] n == Len(Programs[request[t]])
           IN  /\ r \in Requests /\ n \in Nat \ {0} /\ k \in 1 .. n
               /\ StepsFit(r, n) /\ WaitsFit(r, n) /\ ChangesFit(r, n)
               /\ \A l \in Locks : /\ readers[l][t] = Reads(r, k, l)
                                   /\ writer[l] = t <=> Writes(r, k, l)
               /\ Operation(t)[1] = Kind(r, k) /\ Operation(t)[2] = Lock(r, k)
<1>1. request[t] \in Requests
  BY DEF TypeInv, Idle
<1>2. Fits(request[t])
  BY <1>1, AllFit
<1>3. GuardsOf(t)
  BY DEF GuardsInv
<1> QED BY <1>1, <1>2, <1>3 DEF Fits, GuardsOf, Operation, Kind, Lock

LEMMA WantsMeans ==
    ASSUME NEW t, NEW operation, NEW l, Wants(t, operation, l)
    PROVE  ~Idle(t) /\ Operation(t)[1] = operation /\ Operation(t)[2] = l
  BY DEF Wants

LEMMA AdvanceMoves ==
    ASSUME TypeInv, NEW t \in Threads, Advance(t)
    PROVE  /\ request' \in [Threads -> Requests \cup {None}]
           /\ pc' \in [Threads -> Nat]
           /\ \A u \in Threads \ {t} : request'[u] = request[u] /\ pc'[u] = pc[u]
           /\ IF pc[t] = Len(Programs[request[t]])
              THEN request'[t] = None /\ pc'[t] = 1
              ELSE request'[t] = request[t] /\ pc'[t] = pc[t] + 1
<1>1. /\ request \in [Threads -> Requests \cup {None}] /\ pc \in [Threads -> Nat]
      /\ pc[t] \in Nat /\ pc[t] + 1 \in Nat
  BY DEF TypeInv
<1>2. CASE pc[t] = Len(Programs[request[t]])
  <2>1. request' = [request EXCEPT ![t] = None] /\ pc' = [pc EXCEPT ![t] = 1]
    BY <1>2 DEF Advance
  <2> QED BY <1>1, <1>2, <2>1
<1>3. CASE pc[t] # Len(Programs[request[t]])
  <2>1. request' = request /\ pc' = [pc EXCEPT ![t] = pc[t] + 1]
    BY <1>3 DEF Advance
  <2> QED BY <1>1, <1>3, <2>1
<1> QED BY <1>2, <1>3

(* A thread goes on, with its guards as its program says. *)
LEMMA AdvanceKeeps ==
    ASSUME TypeInv, GuardsInv, NEW t \in Threads, ~Idle(t), Advance(t),
           parallel' = parallel, queued' = queued \ {t},
           readers' \in [Locks -> [Threads -> Nat]],
           writer' \in [Locks -> Threads \cup {None}],
           \A l \in Locks : /\ readers'[l][t] = Reads(request[t], pc[t] + 1, l)
                            /\ writer'[l] = t <=> Writes(request[t], pc[t] + 1, l),
           \A l \in Locks, u \in Threads \ {t} :
              /\ readers'[l][u] = readers[l][u]
              /\ writer'[l] = u <=> writer[l] = u,
           \A l \in Locks, u \in Threads : readers'[l][u] > 0 => writer'[l] = None
    PROVE  /\ GuardsInv'
           /\ request' \in [Threads -> Requests \cup {None}]
           /\ pc' \in [Threads -> Nat]
<1> DEFINE n == Len(Programs[request[t]])
<1>1. /\ request[t] \in Requests /\ n \in Nat \ {0} /\ pc[t] \in 1 .. n
      /\ StepsFit(request[t], n)
  BY Running
<1>2. None \notin Threads /\ None \notin Requests
  BY LockAssumption, NoneAssumption, AllFit
<1>3. IF pc[t] = n THEN request'[t] = None /\ pc'[t] = 1
      ELSE request'[t] = request[t] /\ pc'[t] = pc[t] + 1
  BY AdvanceMoves
<1>4. /\ request' \in [Threads -> Requests \cup {None}]
      /\ pc' \in [Threads -> Nat]
      /\ \A u \in Threads \ {t} : request'[u] = request[u] /\ pc'[u] = pc[u]
  BY AdvanceMoves
<1>5. GuardsOf(t)'
  <2>1. CASE pc[t] = n
    <3>1. request'[t] = None /\ pc'[t] = 1
      BY <1>3, <2>1
    <3>2. \A l \in Locks : ~Holds(request[t], pc[t] + 1, l)
      BY <1>1, <2>1 DEF StepsFit
    <3>3. \A l \in Locks : readers'[l][t] = 0 /\ writer'[l] # t
      BY <3>2 DEF Holds
    <3> QED BY <3>1, <3>3 DEF GuardsOf, Idle
  <2>2. CASE pc[t] # n
    <3>1. request'[t] = request[t] /\ pc'[t] = pc[t] + 1 /\ pc[t] + 1 \in 1 .. n
      BY <1>1, <1>3, <2>2
    <3> QED BY <3>1 DEF GuardsOf, Idle
  <2> QED BY <2>1, <2>2
<1>6. \A u \in Threads \ {t} : GuardsOf(u)'
  <2> SUFFICES ASSUME NEW u \in Threads \ {t} PROVE GuardsOf(u)'
    OBVIOUS
  <2>1. /\ request'[u] = request[u] /\ pc'[u] = pc[u]
        /\ \A l \in Locks : readers'[l][u] = readers[l][u] /\ (writer'[l] = u <=> writer[l] = u)
    BY <1>4
  <2>2. GuardsOf(u)
    BY DEF GuardsInv
  <2> QED BY <2>1, <2>2 DEF GuardsOf, Idle
<1>7. \A u \in queued' : \E l \in Locks : Wants(u, "write", l)'
  <2> SUFFICES ASSUME NEW u \in queued' PROVE \E l \in Locks : Wants(u, "write", l)'
    OBVIOUS
  <2>1. u \in queued /\ u \in Threads \ {t}
    BY DEF TypeInv
  <2>2. PICK l \in Locks : Wants(u, "write", l)
    BY <2>1 DEF GuardsInv
  <2> QED BY <1>4, <2>1, <2>2 DEF Wants, Idle, Operation
<1>8. ~parallel' => \A u, v \in Threads : Idle(u)' \/ Idle(v)' \/ u = v
  <2>1. \A u \in Threads : Idle(u) => Idle(u)'
    BY <1>4 DEF Idle
  <2> QED BY <2>1 DEF GuardsInv
<1> QED BY <1>4, <1>5, <1>6, <1>7, <1>8 DEF GuardsInv

(* A thread leaves, without any guard. *)
LEMMA LeaveKeeps ==
    ASSUME TypeInv, GuardsInv, NEW t \in Threads, ~Idle(t), Leave(t), parallel' = parallel
    PROVE  /\ GuardsInv'
           /\ request' \in [Threads -> Requests \cup {None}]
           /\ pc' \in [Threads -> Nat]
           /\ readers' \in [Locks -> [Threads -> Nat]]
           /\ writer' \in [Locks -> Threads \cup {None}]
           /\ queued' \subseteq Threads
<1>1. /\ request' = [request EXCEPT ![t] = None] /\ pc' = [pc EXCEPT ![t] = 1]
      /\ readers' = [l \in Locks |-> [readers[l] EXCEPT ![t] = 0]]
      /\ writer' = [l \in Locks |-> IF writer[l] = t THEN None ELSE writer[l]]
      /\ queued' = queued \ {t}
  BY DEF Leave
<1>2. None \notin Threads
  BY LockAssumption
<1>3. /\ request' \in [Threads -> Requests \cup {None}]
      /\ pc' \in [Threads -> Nat]
      /\ readers' \in [Locks -> [Threads -> Nat]]
      /\ writer' \in [Locks -> Threads \cup {None}]
      /\ queued' \subseteq Threads
  BY <1>1 DEF TypeInv
<1>4. /\ request'[t] = None /\ pc'[t] = 1
      /\ \A l \in Locks : readers'[l][t] = 0 /\ writer'[l] # t
      /\ \A u \in Threads \ {t} : request'[u] = request[u] /\ pc'[u] = pc[u]
      /\ \A u \in Threads \ {t}, l \in Locks :
            readers'[l][u] = readers[l][u] /\ (writer'[l] = u <=> writer[l] = u)
  BY <1>1, <1>2 DEF TypeInv
<1>5. \A u \in Threads : GuardsOf(u)'
  <2>1. GuardsOf(t)'
    BY <1>4 DEF GuardsOf, Idle
  <2>2. \A u \in Threads \ {t} : GuardsOf(u)'
    BY <1>4 DEF GuardsOf, Idle, GuardsInv
  <2> QED BY <2>1, <2>2
<1>6. \A l \in Locks, u \in Threads : readers'[l][u] > 0 => writer'[l] = None
  BY <1>1, <1>4 DEF GuardsInv, TypeInv
<1>7. \A u \in queued' : \E l \in Locks : Wants(u, "write", l)'
  <2> SUFFICES ASSUME NEW u \in queued' PROVE \E l \in Locks : Wants(u, "write", l)'
    OBVIOUS
  <2>1. u \in queued /\ u \in Threads \ {t}
    BY <1>1 DEF TypeInv
  <2>2. PICK l \in Locks : Wants(u, "write", l)
    BY <2>1 DEF GuardsInv
  <2> QED BY <1>4, <2>1, <2>2 DEF Wants, Idle, Operation
<1>8. ~parallel' => \A u, v \in Threads : Idle(u)' \/ Idle(v)' \/ u = v
  <2>1. \A u \in Threads : Idle(u) => Idle(u)'
    BY <1>1 DEF Idle, TypeInv
  <2> QED BY <2>1 DEF GuardsInv
<1> QED BY <1>3, <1>5, <1>6, <1>7, <1>8 DEF GuardsInv

LockTypes ==
    /\ request \in [Threads -> Requests \cup {None}]
    /\ pc \in [Threads -> Nat]
    /\ readers \in [Locks -> [Threads -> Nat]]
    /\ writer \in [Locks -> Threads \cup {None}]
    /\ queued \subseteq Threads

LEMMA AcceptGuards ==
    ASSUME TypeInv, GuardsInv, NEW t \in Threads, NEW r \in Requests, Accept(t, r)
    PROVE  LockTypes' /\ GuardsInv'
<1>1. /\ Idle(t)
      /\ parallel \/ \A u \in Threads : Idle(u)
      /\ request' = [request EXCEPT ![t] = r]
      /\ UNCHANGED << parallel, pc, readers, writer, queued >>
  BY DEF Accept, locks
<1>2. r # None
  BY NoneAssumption, AllFit
<1>3. LockTypes'
  BY <1>1 DEF LockTypes, TypeInv
<1>4. /\ request'[t] = r
      /\ \A u \in Threads \ {t} : request'[u] = request[u]
  BY <1>1 DEF TypeInv
<1>5. GuardsOf(t)'
  <2>1. pc[t] = 1 /\ \A l \in Locks : readers[l][t] = 0 /\ writer[l] # t
    BY <1>1 DEF GuardsInv, GuardsOf
  <2>2. /\ Len(Programs[r]) \in Nat \ {0}
        /\ \A l \in Locks : Reads(r, 1, l) = 0 /\ ~Writes(r, 1, l)
    <3>1. Len(Programs[r]) \in Nat \ {0} /\ StepsFit(r, Len(Programs[r]))
      BY AllFit DEF Fits
    <3>2. 1 \in 1 .. Len(Programs[r])
      BY <3>1
    <3> QED BY <3>1, <3>2 DEF StepsFit, Holds
  <2> QED BY <1>1, <1>2, <1>4, <2>1, <2>2 DEF GuardsOf, Idle
<1>6. \A u \in Threads \ {t} : GuardsOf(u)'
  <2> SUFFICES ASSUME NEW u \in Threads \ {t} PROVE GuardsOf(u)'
    OBVIOUS
  <2>1. GuardsOf(u)
    BY DEF GuardsInv
  <2> QED BY <1>1, <1>4, <2>1 DEF GuardsOf, Idle
<1>7. \A u \in queued' : \E l \in Locks : Wants(u, "write", l)'
  <2> SUFFICES ASSUME NEW u \in queued' PROVE \E l \in Locks : Wants(u, "write", l)'
    OBVIOUS
  <2>1. PICK l \in Locks : Wants(u, "write", l)
    BY <1>1 DEF GuardsInv
  <2>2. u \in Threads \ {t}
    BY <1>1, <2>1 DEF TypeInv, Wants
  <2> QED BY <1>1, <1>4, <2>1, <2>2 DEF Wants, Idle, Operation
<1>8. ~parallel' => \A u, v \in Threads : Idle(u)' \/ Idle(v)' \/ u = v
  BY <1>1, <1>4 DEF Idle
<1>9. \A l \in Locks, u \in Threads : readers'[l][u] > 0 => writer'[l] = None
  BY <1>1 DEF GuardsInv
<1> QED BY <1>3, <1>5, <1>6, <1>7, <1>8, <1>9 DEF GuardsInv

LEMMA LeaveGuards ==
    ASSUME TypeInv, GuardsInv, NEW t \in Threads, ~Idle(t), Leave(t), parallel' = parallel
    PROVE  LockTypes' /\ GuardsInv'
  BY LeaveKeeps DEF LockTypes

(* A step under the locks that is none of theirs. *)
LEMMA StepGuards ==
    ASSUME TypeInv, GuardsInv, NEW t \in Threads, ~Idle(t), Advance(t),
           Operation(t)[1] \notin {"read", "write", "drop"},
           UNCHANGED << parallel, readers, writer, queued >>
    PROVE  LockTypes' /\ GuardsInv'
<1> DEFINE r == request[t]  k == pc[t]
<1>1. /\ k \in 1 .. Len(Programs[r]) /\ StepsFit(r, Len(Programs[r]))
      /\ \A l \in Locks : readers[l][t] = Reads(r, k, l) /\ (writer[l] = t <=> Writes(r, k, l))
      /\ Operation(t)[1] = Kind(r, k)
  BY Running
<1>2. \A l \in Locks : /\ Reads(r, k + 1, l) = Reads(r, k, l)
                       /\ Writes(r, k + 1, l) <=> Writes(r, k, l)
  BY <1>1 DEF StepsFit
<1> HIDE DEF r, k
<1>3. \A l \in Locks : /\ readers'[l][t] = Reads(r, k + 1, l)
                       /\ writer'[l] = t <=> Writes(r, k + 1, l)
  BY <1>1, <1>2
<1>4. t \notin queued
  BY WantsMeans DEF GuardsInv
<1>5. queued' = queued \ {t}
  BY <1>4
<1>6. /\ readers' \in [Locks -> [Threads -> Nat]]
      /\ writer' \in [Locks -> Threads \cup {None}]
      /\ queued' \subseteq Threads
  BY DEF TypeInv
<1>7. \A l \in Locks, u \in Threads : readers'[l][u] > 0 => writer'[l] = None
  BY DEF GuardsInv
<1> QED BY <1>3, <1>5, <1>6, <1>7, AdvanceKeeps DEF LockTypes, r, k

LEMMA TakeReadGuards ==
    ASSUME TypeInv, GuardsInv, NEW t \in Threads, NEW l \in Locks, TakeRead(t, l)
    PROVE  LockTypes' /\ GuardsInv'
<1>1. ~Idle(t) /\ Operation(t)[1] = "read" /\ Operation(t)[2] = l
  BY WantsMeans DEF TakeRead
<1>2. writer[l] = None /\ parallel' = parallel
  BY DEF TakeRead, Readable
<1>3. CASE Leave(t)
  BY <1>1, <1>2, <1>3, LeaveGuards
<1>4. CASE /\ readers' = [readers EXCEPT ![l][t] = @ + 1]
           /\ Advance(t)
           /\ UNCHANGED << writer, queued >>
  <2> DEFINE r == request[t]  k == pc[t]
  <2>1. /\ k \in 1 .. Len(Programs[r]) /\ StepsFit(r, Len(Programs[r]))
        /\ \A m \in Locks : readers[m][t] = Reads(r, k, m) /\ (writer[m] = t <=> Writes(r, k, m))
        /\ Kind(r, k) = "read" /\ Lock(r, k) = l
    BY <1>1, Running
  <2>2. /\ Reads(r, k + 1, l) = Reads(r, k, l) + 1
        /\ \A m \in Locks \ {l} : Reads(r, k + 1, m) = Reads(r, k, m)
        /\ \A m \in Locks : Writes(r, k + 1, m) <=> Writes(r, k, m)
    BY <2>1 DEF StepsFit
  <2> HIDE DEF r, k
  <2>3. /\ readers' \in [Locks -> [Threads -> Nat]]
        /\ readers'[l][t] = readers[l][t] + 1
        /\ \A m \in Locks \ {l} : readers'[m] = readers[m]
        /\ \A m \in Locks, u \in Threads \ {t} : readers'[m][u] = readers[m][u]
    BY <1>4 DEF TypeInv
  <2>4. \A m \in Locks : /\ readers'[m][t] = Reads(r, k + 1, m)
                         /\ writer'[m] = t <=> Writes(r, k + 1, m)
    BY <1>4, <2>1, <2>2, <2>3
  <2>5. t \notin queued
    BY <1>1, WantsMeans DEF GuardsInv
  <2>6. queued' = queued \ {t} /\ queued' \subseteq Threads
    BY <1>4, <2>5 DEF TypeInv
  <2>7. writer' \in [Locks -> Threads \cup {None}]
    BY <1>4 DEF TypeInv
  <2>8. \A m \in Locks, u \in Threads : readers'[m][u] > 0 => writer'[m] = None
    BY <1>2, <1>4, <2>3 DEF GuardsInv
  <2>9. \A m \in Locks, u \in Threads \ {t} :
           readers'[m][u] = readers[m][u] /\ (writer'[m] = u <=> writer[m] = u)
    BY <1>4, <2>3
  <2> QED BY <1>1, <1>2, <1>4, <2>3, <2>4, <2>6, <2>7, <2>8, <2>9, AdvanceKeeps
          DEF LockTypes, r, k
<1> QED BY <1>3, <1>4 DEF TakeRead

LEMMA TakeWriteGuards ==
    ASSUME TypeInv, GuardsInv, NEW t \in Threads, NEW l \in Locks, TakeWrite(t, l)
    PROVE  LockTypes' /\ GuardsInv'
<1>1. ~Idle(t) /\ Operation(t)[1] = "write" /\ Operation(t)[2] = l
  BY WantsMeans DEF TakeWrite
<1>2. /\ writer[l] = None /\ \A u \in Threads : readers[l][u] = 0
      /\ parallel' = parallel
  BY DEF TakeWrite, Writable
<1>3. CASE Leave(t)
  BY <1>1, <1>2, <1>3, LeaveGuards
<1>4. CASE /\ writer' = [writer EXCEPT ![l] = t]
           /\ queued' = queued \ {t}
           /\ Advance(t)
           /\ UNCHANGED readers
  <2> DEFINE r == request[t]  k == pc[t]
  <2>1. /\ k \in 1 .. Len(Programs[r]) /\ StepsFit(r, Len(Programs[r]))
        /\ \A m \in Locks : readers[m][t] = Reads(r, k, m) /\ (writer[m] = t <=> Writes(r, k, m))
        /\ Kind(r, k) = "write" /\ Lock(r, k) = l
    BY <1>1, Running
  <2>2. /\ Writes(r, k + 1, l)
        /\ \A m \in Locks \ {l} : Writes(r, k + 1, m) <=> Writes(r, k, m)
        /\ \A m \in Locks : Reads(r, k + 1, m) = Reads(r, k, m)
    BY <2>1 DEF StepsFit
  <2> HIDE DEF r, k
  <2>3. /\ writer' \in [Locks -> Threads \cup {None}]
        /\ writer'[l] = t
        /\ \A m \in Locks \ {l} : writer'[m] = writer[m]
    BY <1>4 DEF TypeInv
  <2>4. \A m \in Locks : /\ readers'[m][t] = Reads(r, k + 1, m)
                         /\ writer'[m] = t <=> Writes(r, k + 1, m)
    BY <1>4, <2>1, <2>2, <2>3
  <2>5. None \notin Threads
    BY LockAssumption
  <2>6. \A m \in Locks, u \in Threads \ {t} :
           readers'[m][u] = readers[m][u] /\ (writer'[m] = u <=> writer[m] = u)
    BY <1>2, <1>4, <2>3, <2>5
  <2>7. readers' \in [Locks -> [Threads -> Nat]] /\ queued' \subseteq Threads
    BY <1>4 DEF TypeInv
  <2>8. \A m \in Locks, u \in Threads : readers'[m][u] > 0 => writer'[m] = None
    BY <1>2, <1>4, <2>3 DEF GuardsInv
  <2> QED BY <1>1, <1>2, <1>4, <2>3, <2>4, <2>6, <2>7, <2>8, AdvanceKeeps
          DEF LockTypes, r, k
<1> QED BY <1>3, <1>4 DEF TakeWrite

LEMMA WaitGuards ==
    ASSUME TypeInv, GuardsInv, NEW t \in Threads, NEW l \in Locks, Wait(t, l)
    PROVE  LockTypes' /\ GuardsInv'
<1>1. /\ Wants(t, "write", l) /\ queued' = queued \cup {t}
      /\ UNCHANGED << parallel, request, pc, readers, writer >>
  BY DEF Wait
<1>2. \A u \in queued' : \E m \in Locks : Wants(u, "write", m)'
  BY <1>1 DEF GuardsInv, Wants, Idle, Operation
<1>3. \A u \in Threads : GuardsOf(u)'
  BY <1>1 DEF GuardsInv, GuardsOf, Idle
<1> QED BY <1>1, <1>2, <1>3 DEF LockTypes, TypeInv, GuardsInv, Idle

LEMMA DropGuards ==
    ASSUME TypeInv, GuardsInv, NEW t \in Threads, NEW l \in Locks, DropGuard(t, l)
    PROVE  LockTypes' /\ GuardsInv'
<1>1. ~Idle(t) /\ Operation(t)[1] = "drop" /\ Operation(t)[2] = l
  BY WantsMeans DEF DropGuard
<1>2. /\ Advance(t) /\ UNCHANGED << parallel, queued >>
      /\ IF writer[l] = t THEN writer' = [writer EXCEPT ![l] = None] /\ UNCHANGED readers
         ELSE readers' = [readers EXCEPT ![l][t] = @ - 1] /\ UNCHANGED writer
  BY DEF DropGuard
<1> DEFINE r == request[t]  k == pc[t]
<1>3. /\ k \in 1 .. Len(Programs[r]) /\ StepsFit(r, Len(Programs[r]))
      /\ \A m \in Locks : readers[m][t] = Reads(r, k, m) /\ (writer[m] = t <=> Writes(r, k, m))
      /\ Kind(r, k) = "drop" /\ Lock(r, k) = l
  BY <1>1, Running
<1>4. /\ Holds(r, k, l) /\ ~Writes(r, k + 1, l)
      /\ Reads(r, k + 1, l) = IF Writes(r, k, l) THEN Reads(r, k, l) ELSE Reads(r, k, l) - 1
      /\ Reads(r, k, l) \in Nat /\ Reads(r, k + 1, l) \in Nat
      /\ \A m \in Locks \ {l} : /\ Reads(r, k + 1, m) = Reads(r, k, m)
                                /\ Writes(r, k + 1, m) <=> Writes(r, k, m)
  BY <1>3 DEF StepsFit
<1> HIDE DEF r, k
<1>5. None \notin Threads
  BY LockAssumption
<1>6. /\ readers' \in [Locks -> [Threads -> Nat]]
      /\ writer' \in [Locks -> Threads \cup {None}]
      /\ \A m \in Locks \ {l} : readers'[m] = readers[m] /\ writer'[m] = writer[m]
      /\ \A m \in Locks, u \in Threads \ {t} : readers'[m][u] = readers[m][u]
      /\ writer'[l] \in {writer[l], None}
      /\ IF writer[l] = t THEN writer'[l] = None /\ readers'[l][t] = readers[l][t]
         ELSE writer'[l] = writer[l] /\ readers'[l][t] = readers[l][t] - 1
  <2>1. CASE writer[l] = t
    BY <1>2, <2>1 DEF TypeInv
  <2>2. CASE writer[l] # t
    <3>1. readers[l][t] - 1 \in Nat
      BY <1>3, <1>4, <2>2
    <3>2. /\ readers \in [Locks -> [Threads -> Nat]] /\ writer \in [Locks -> Threads \cup {None}]
          /\ readers' = [readers EXCEPT ![l] = [readers[l] EXCEPT ![t] = readers[l][t] - 1]]
          /\ writer' = writer
      BY <1>2, <2>2 DEF TypeInv
    <3>3. [readers[l] EXCEPT ![t] = readers[l][t] - 1] \in [Threads -> Nat]
      BY <3>1, <3>2
    <3> QED BY <2>2, <3>2, <3>3
  <2> QED BY <2>1, <2>2
<1>7. \A m \in Locks : /\ readers'[m][t] = Reads(r, k + 1, m)
                       /\ writer'[m] = t <=> Writes(r, k + 1, m)
  BY <1>3, <1>4, <1>5, <1>6
<1>8. \A m \in Locks, u \in Threads \ {t} :
         readers'[m][u] = readers[m][u] /\ (writer'[m] = u <=> writer[m] = u)
  BY <1>5, <1>6
<1>9. \A m \in Locks, u \in Threads : readers'[m][u] > 0 => writer'[m] = None
  <2> SUFFICES ASSUME NEW m \in Locks, NEW u \in Threads, readers'[m][u] > 0
               PROVE  writer'[m] = None
    OBVIOUS
  <2>1. CASE m = l /\ u = t
    <3>1. writer[l] # t => readers[l][t] > 0
      BY <1>3, <1>4 DEF Holds
    <3> QED BY <1>6, <2>1, <3>1 DEF GuardsInv
  <2>2. CASE ~(m = l /\ u = t)
    <3>1. readers[m][u] > 0
      BY <1>6, <2>2
    <3>2. writer[m] = None
      BY <3>1 DEF GuardsInv
    <3> QED BY <1>6, <3>2
  <2> QED BY <2>1, <2>2
<1>10. t \notin queued
  BY <1>1, WantsMeans DEF GuardsInv
<1>11. queued' = queued \ {t} /\ queued' \subseteq Threads
  BY <1>2, <1>10 DEF TypeInv
<1> QED BY <1>1, <1>2, <1>6, <1>7, <1>8, <1>9, <1>11, AdvanceKeeps DEF LockTypes, r, k

-----------------------------------------------------------------------------
(* Executions and commits. *)

(* A transaction comes to its commit through its execution only.            *)
LEMMA CommittingMoves ==
    ASSUME TypeInv, GuardsInv, NEW t \in Threads, ~Idle(t), Advance(t) \/ Leave(t)
    PROVE  /\ \A u \in Threads \ {t} : Committing(u)' <=> Committing(u)
           /\ Committing(t)' => /\ request[t] = "send_raw_transaction"
                                /\ Operation(t)[1] # "commit"
                                /\ Operation(t)[1] = "execute" \/ Committing(t)
<1>1. /\ pc[t] \in 1 .. Len(Programs[request[t]])
      /\ ChangesFit(request[t], Len(Programs[request[t]]))
      /\ Operation(t)[1] = Kind(request[t], pc[t])
  BY Running
<1>2. More \in Nat
  BY DEF More
<1>3. None # "send_raw_transaction"
  BY NoneAssumption, AllFit DEF Requests
<1>4. /\ \A u \in Threads \ {t} : request'[u] = request[u] /\ pc'[u] = pc[u]
      /\ \/ request'[t] = None
         \/ request'[t] = request[t] /\ pc'[t] = pc[t] + 1
  <2>1. CASE Advance(t)
    BY <2>1, AdvanceMoves
  <2>2. CASE Leave(t)
    BY <2>2 DEF Leave, TypeInv
  <2> QED BY <2>1, <2>2
<1>5. \A u \in Threads \ {t} : Committing(u)' <=> Committing(u)
  BY <1>4 DEF Committing
<1>6. ASSUME Committing(t)'
      PROVE  /\ request[t] = "send_raw_transaction"
             /\ Operation(t)[1] # "commit"
             /\ Operation(t)[1] = "execute" \/ Committing(t)
  <2>1. request[t] = "send_raw_transaction" /\ pc[t] + 1 \in 11 + More .. 16 + More
    BY <1>3, <1>4, <1>6 DEF Committing
  <2>2. pc[t] = 10 + More \/ pc[t] \in 11 + More .. 16 + More
    BY <1>1, <1>2, <2>1
  <2>3. pc[t] # 16 + More
    BY <1>1, <1>2, <2>1
  <2> QED BY <1>1, <2>1, <2>2, <2>3 DEF ChangesFit, Committing
<1> QED BY <1>5, <1>6

(* What leaves the chain alone leaves executions current. *)
LEMMA CommitsStay ==
    ASSUME CommitInv, UNCHANGED << chain, executed >>,
           \A t \in Threads : Committing(t)' => Committing(t)
    PROVE  CommitInv'
  BY DEF CommitInv

(* A longer chain still begins with what a transaction was executed on.     *)
LEMMA CommitsOverGrowth ==
    ASSUME TypeInv, CommitInv,
           NEW x \in Nat, chain' = Append(chain, x),
           \A t \in Threads : executed'[t] \in {executed[t], None},
           \A t \in Threads : Committing(t)' => executed'[t] = executed[t] /\ Committing(t)
    PROVE  CommitInv'
<1>1. \A t \in Threads : Committing(t)' => executed'[t] # None
  BY DEF CommitInv
<1>2. ASSUME NEW t \in Threads, executed'[t] # None, ~executed'[t].rewound
      PROVE  /\ Len(executed'[t].tip.chain) <= Len(chain')
             /\ executed'[t].tip.chain = SubSeq(chain', 1, Len(executed'[t].tip.chain))
  <2>1. executed'[t] = executed[t] /\ executed[t] \in Executions
    BY <1>2 DEF TypeInv
  <2>2. PICK c : c = executed[t].tip.chain
    OBVIOUS
  <2>3. c \in Seq(Nat) /\ Len(c) <= Len(chain) /\ c = SubSeq(chain, 1, Len(c))
    BY <1>2, <2>1, <2>2 DEF CommitInv, Executions
  <2>4. chain \in Seq(Nat) /\ Len(chain) \in Nat /\ Len(c) \in Nat
    BY <2>3, LenProperties DEF TypeInv
  <2>5. Len(chain') = Len(chain) + 1 /\ chain' \in Seq(Nat)
    BY <2>4
  <2>6. SubSeq(chain', 1, Len(c)) = SubSeq(chain, 1, Len(c))
    <3>1. /\ SubSeq(chain, 1, Len(c)) = [i \in 1 .. Len(c) |-> chain[i]]
          /\ SubSeq(chain', 1, Len(c)) = [i \in 1 .. Len(c) |-> chain'[i]]
      BY <2>3, <2>4, <2>5
    <3>2. \A i \in 1 .. Len(c) : chain'[i] = chain[i]
      BY <2>3, <2>4
    <3> QED BY <3>1, <3>2
  <2> QED BY <2>1, <2>2, <2>3, <2>4, <2>5, <2>6
<1> QED BY <1>1, <1>2 DEF CommitInv

(* A chain that is exchanged is marked where a transaction was executed. *)
LEMMA CommitsOverExchange ==
    ASSUME TypeInv, CommitInv, executed' = Exchanged,
           \A t \in Threads : Committing(t)' => Committing(t)
    PROVE  CommitInv' /\ executed' \in [Threads -> Executions \cup {None}]
<1>1. \A t \in Threads :
         \/ executed[t] = None /\ executed'[t] = None
         \/ /\ executed[t] \in Executions /\ executed'[t] \in Executions
            /\ executed'[t].rewound
  BY DEF TypeInv, Exchanged, Executions
<1>2. DOMAIN executed' = Threads /\ executed' = [t \in Threads |-> executed'[t]]
  BY DEF Exchanged
<1>3. None \notin Executions
  BY NoneAssumption DEF Executions
<1>4. \A t \in Threads : Committing(t)' => executed'[t] # None
  BY <1>1, <1>3 DEF CommitInv
<1>5. executed' \in [Threads -> Executions \cup {None}]
  BY <1>1, <1>2
<1> QED BY <1>1, <1>4, <1>5 DEF CommitInv

(* Operations on the locks, and the steps that touch neither chain nor      *)
(* clock.                                                                   *)
LEMMA LockActionsKeep ==
    ASSUME LocksInv, NEW t \in Threads,
           \/ \E r \in Requests : Accept(t, r)
           \/ \E l \in Locks : TakeRead(t, l) \/ TakeWrite(t, l) \/ Wait(t, l) \/ DropGuard(t, l)
    PROVE  TypeInv' /\ GuardsInv' /\ CommitInv'
<1> USE DEF LocksInv
<1>1. LockTypes' /\ GuardsInv'
  BY AcceptGuards, TakeReadGuards, TakeWriteGuards, WaitGuards, DropGuards
<1>2. UNCHANGED << parallel, poisoned, chain, clock, saved, made, executed >>
  BY DEF Accept, TakeRead, TakeWrite, Wait, DropGuard, data, locks
<1>3. \A u \in Threads : Committing(u)' => Committing(u)
  <2>1. CASE \E r \in Requests : Accept(t, r)
    <3>1. PICK r \in Requests : request' = [request EXCEPT ![t] = r] /\ pc' = pc /\ pc[t] = 1
      BY <2>1 DEF Accept, GuardsInv, GuardsOf
    <3>2. 1 \notin 11 + More .. 16 + More
      BY DEF More
    <3> QED BY <3>1, <3>2 DEF Committing, TypeInv
  <2>2. CASE \E l \in Locks : Wait(t, l)
    BY <2>2 DEF Wait, Committing
  <2>3. CASE \E l \in Locks : TakeRead(t, l) \/ TakeWrite(t, l) \/ DropGuard(t, l)
    <3>1. Advance(t) \/ Leave(t)
      BY <2>3 DEF TakeRead, TakeWrite, DropGuard
    <3>2. ~Idle(t) /\ Operation(t)[1] # "execute"
      BY <2>3, WantsMeans DEF TakeRead, TakeWrite, DropGuard
    <3> QED BY <3>1, <3>2, CommittingMoves
  <2> QED BY <2>1, <2>2, <2>3
<1>4. CommitInv'
  BY <1>2, <1>3, CommitsStay
<1> QED BY <1>1, <1>2, <1>4 DEF TypeInv, LockTypes

LEMMA SnapshotStepsKeep ==
    ASSUME LocksInv, NEW t \in Threads,
           CheckLimit(t) \/ Save(t) \/ Choose(t) \/ Clear(t)
    PROVE  TypeInv' /\ GuardsInv' /\ CommitInv'
<1> USE DEF LocksInv
<1>1. /\ ~Idle(t) /\ Operation(t)[1] \in {"limit", "save", "choose", "clear"}
      /\ UNCHANGED << parallel, poisoned, chain, clock, made, executed >>
      /\ \/ Leave(t)
         \/ Advance(t) /\ UNCHANGED << readers, writer, queued >>
  BY DEF CheckLimit, Save, Choose, Clear, At, data, locks
<1>2. LockTypes' /\ GuardsInv'
  BY <1>1, LeaveGuards, StepGuards
<1>3. \A u \in Threads : Committing(u)' => Committing(u)
  BY <1>1, CommittingMoves
<1>4. CommitInv'
  BY <1>1, <1>3, CommitsStay
<1>5. saved' \in Seq([chain : Seq(Nat), clock : Nat])
  <2>1. saved' \in {saved, Append(saved, Tip), << >>}
    BY DEF CheckLimit, Save, Choose, Clear, data
  <2>2. PICK tip : tip = Tip
    OBVIOUS
  <2>3. PICK S : S = [chain : Seq(Nat), clock : Nat]
    OBVIOUS
  <2>4. tip \in S
    BY <2>2, <2>3 DEF TypeInv, Tip
  <2>5. saved \in Seq(S)
    BY <2>3 DEF TypeInv
  <2>6. Append(saved, tip) \in Seq(S) /\ << >> \in Seq(S)
    BY <2>4, <2>5, EmptySeq, AppendProperties
  <2> QED BY <2>1, <2>2, <2>3, <2>5, <2>6
<1> QED BY <1>1, <1>2, <1>4, <1>5 DEF TypeInv, LockTypes

LEMMA ExecuteKeeps ==
    ASSUME LocksInv, NEW t \in Threads, Execute(t)
    PROVE  TypeInv' /\ GuardsInv' /\ CommitInv'
<1> USE DEF LocksInv
<1>1. PICK e : e = [tip |-> Tip, rewound |-> FALSE]
  OBVIOUS
<1>2. /\ ~Idle(t) /\ Operation(t)[1] = "execute" /\ Advance(t)
      /\ executed' = [executed EXCEPT ![t] = e]
      /\ UNCHANGED << parallel, readers, writer, queued, poisoned, chain, clock, saved, made >>
  BY <1>1 DEF Execute, At, locks
<1>3. LockTypes' /\ GuardsInv'
  BY <1>2, StepGuards
<1>4. e \in Executions /\ e.tip = Tip /\ ~e.rewound /\ e # None
  <2>1. PICK tip : tip = Tip
    OBVIOUS
  <2>2. tip \in [chain : Seq(Nat), clock : Nat]
    BY <2>1 DEF TypeInv, Tip
  <2>3. e = [tip |-> tip, rewound |-> FALSE]
    BY <1>1, <2>1
  <2>4. e \in Executions /\ e.tip = tip /\ ~e.rewound
    BY <2>2, <2>3 DEF Executions
  <2>5. None \notin Executions
    BY NoneAssumption DEF Executions
  <2> QED BY <2>1, <2>4, <2>5
<1>5. /\ executed'[t] = e
      /\ \A u \in Threads \ {t} : executed'[u] = executed[u]
      /\ executed' \in [Threads -> Executions \cup {None}]
  BY <1>2, <1>4 DEF TypeInv
<1>6. \A u \in Threads \ {t} : Committing(u)' <=> Committing(u)
  BY <1>2, CommittingMoves
<1>7. e.tip.chain = chain
  BY <1>2, <1>4 DEF Tip
<1>8. chain = SubSeq(chain, 1, Len(chain)) /\ Len(chain) <= Len(chain)
  <2>1. chain \in Seq(Nat) /\ Len(chain) \in Nat /\ chain = [i \in 1 .. Len(chain) |-> chain[i]]
    BY LenProperties DEF TypeInv
  <2>2. SubSeq(chain, 1, Len(chain)) = [i \in 1 .. Len(chain) |-> chain[i]]
    BY <2>1
  <2> QED BY <2>1, <2>2
<1>9. CommitInv'
  <2>1. \A u \in Threads : Committing(u)' => executed'[u] # None
    BY <1>4, <1>5, <1>6 DEF CommitInv
  <2>2. ASSUME NEW u \in Threads, executed'[u] # None, ~executed'[u].rewound
        PROVE  /\ Len(executed'[u].tip.chain) <= Len(chain')
               /\ executed'[u].tip.chain = SubSeq(chain', 1, Len(executed'[u].tip.chain))
    <3>1. CASE u = t
      BY <1>2, <1>5, <1>7, <1>8, <3>1
    <3>2. CASE u # t
      BY <1>2, <1>5, <2>2, <3>2 DEF CommitInv
    <3> QED BY <3>1, <3>2
  <2> QED BY <2>1, <2>2 DEF CommitInv
<1> QED BY <1>2, <1>3, <1>5, <1>9 DEF TypeInv, LockTypes

(* Who leaves with its execution given up is on the way to no commit. *)
LEMMA GivenUp ==
    ASSUME LocksInv, NEW t \in Threads, ~Idle(t), Leave(t), chain' = chain,
           executed' = [executed EXCEPT ![t] = None]
    PROVE  CommitInv' /\ executed' \in [Threads -> Executions \cup {None}]
<1> USE DEF LocksInv
<1>1. request'[t] = None /\ None # "send_raw_transaction"
  BY NoneAssumption, AllFit DEF Leave, TypeInv, Requests
<1>2. ~Committing(t)' /\ \A u \in Threads \ {t} : Committing(u)' <=> Committing(u)
  BY <1>1, CommittingMoves DEF Committing
<1>3. /\ executed' \in [Threads -> Executions \cup {None}] /\ executed'[t] = None
      /\ \A u \in Threads \ {t} : executed'[u] = executed[u]
  BY DEF TypeInv
<1>4. CommitInv'
  BY <1>2, <1>3 DEF CommitInv
<1> QED BY <1>3, <1>4

LEMMA HaltKeeps ==
    ASSUME LocksInv, NEW t \in Threads, Halt(t)
    PROVE  TypeInv' /\ GuardsInv' /\ CommitInv'
<1> USE DEF LocksInv
<1>1. /\ ~Idle(t) /\ Operation(t)[1] = "halt"
      /\ UNCHANGED << parallel, poisoned, chain, clock, saved, made >>
      /\ \/ Leave(t) /\ executed' = [executed EXCEPT ![t] = None]
         \/ Advance(t) /\ UNCHANGED << readers, writer, queued, executed >>
  BY DEF Halt, At
<1>2. LockTypes' /\ GuardsInv'
  BY <1>1, LeaveGuards, StepGuards
<1>3. \A u \in Threads : Committing(u)' => Committing(u)
  BY <1>1, CommittingMoves
<1>4. CASE Advance(t) /\ UNCHANGED << readers, writer, queued, executed >>
  BY <1>1, <1>2, <1>3, <1>4, CommitsStay DEF TypeInv, LockTypes
<1>5. CASE Leave(t) /\ executed' = [executed EXCEPT ![t] = None]
  <2>1. CommitInv' /\ executed' \in [Threads -> Executions \cup {None}]
    BY <1>1, <1>5, GivenUp
  <2> QED BY <1>1, <1>2, <2>1 DEF TypeInv, LockTypes
<1> QED BY <1>1, <1>4, <1>5

(* A panic ends a request like an error does. *)
LEMMA PanicKeeps ==
    ASSUME LocksInv, NEW t \in Threads, CommitPanics(t) \/ ReadFails(t)
    PROVE  TypeInv' /\ GuardsInv' /\ CommitInv'
<1> USE DEF LocksInv
<1>1. /\ ~Idle(t) /\ Leave(t) /\ executed' = [executed EXCEPT ![t] = None]
      /\ UNCHANGED << parallel, chain, clock, saved, made >>
  BY WantsMeans DEF CommitPanics, ReadFails, Panics, At
<1>2. LockTypes' /\ GuardsInv'
  BY <1>1, LeaveGuards
<1>3. CommitInv' /\ executed' \in [Threads -> Executions \cup {None}]
  BY <1>1, GivenUp
<1> QED BY <1>1, <1>2, <1>3 DEF TypeInv, LockTypes

LEMMA CommitKeeps ==
    ASSUME LocksInv, NEW t \in Threads, Commit(t)
    PROVE  TypeInv' /\ GuardsInv' /\ CommitInv'
<1> USE DEF LocksInv
<1>1. /\ ~Idle(t) /\ Operation(t)[1] = "commit"
      /\ executed' = [executed EXCEPT ![t] = None]
      /\ UNCHANGED << parallel, clock, saved >>
  BY DEF Commit, At
<1>2. Committing(t) /\ executed[t] # None
  <2>1. Kind(request[t], pc[t]) = "commit" /\ pc[t] \in 1 .. Len(Programs[request[t]])
        /\ ChangesFit(request[t], Len(Programs[request[t]]))
    BY <1>1, Running
  <2>2. request[t] = "send_raw_transaction" /\ pc[t] = 16 + More
    BY <2>1 DEF ChangesFit
  <2>3. 16 + More \in 11 + More .. 16 + More
    BY DEF More
  <2> QED BY <2>2, <2>3 DEF Committing, CommitInv
<1>3. /\ executed' \in [Threads -> Executions \cup {None}] /\ executed'[t] = None
      /\ \A u \in Threads \ {t} : executed'[u] = executed[u]
  BY <1>1 DEF TypeInv
<1>4. /\ chain' = Append(chain, made + 1) /\ made' = made + 1 /\ Advance(t)
      /\ UNCHANGED << readers, writer, queued, poisoned >>
  BY DEF Commit, locks
<1>5. LockTypes' /\ GuardsInv'
  BY <1>1, <1>4, StepGuards
<1>6. \A u \in Threads : Committing(u)' => Committing(u) /\ u # t
  BY <1>1, <1>4, CommittingMoves
<1>7. made + 1 \in Nat /\ chain' \in Seq(Nat)
  BY <1>4 DEF TypeInv
<1>8. /\ \A u \in Threads : executed'[u] \in {executed[u], None}
      /\ \A u \in Threads : Committing(u)' => executed'[u] = executed[u] /\ Committing(u)
  BY <1>3, <1>6
<1>9. CommitInv'
  BY <1>4, <1>7, <1>8, CommitsOverGrowth
<1> QED BY <1>1, <1>3, <1>4, <1>5, <1>7, <1>9 DEF TypeInv, LockTypes

(* Who mines, moves the clock or exchanges the chain commits nothing.       *)
LEMMA ChangesApart ==
    ASSUME LocksInv, NEW t \in Threads, ~Idle(t), Advance(t),
           Operation(t)[1] \in {"mine", "shift", "restore", "exchange"},
           UNCHANGED << parallel, readers, writer, queued >>
    PROVE  /\ LockTypes' /\ GuardsInv'
           /\ \A u \in Threads : Committing(u)' => Committing(u) /\ u # t
<1> USE DEF LocksInv
<1>1. LockTypes' /\ GuardsInv'
  BY StepGuards
<1>2. request[t] # "send_raw_transaction"
  BY Running DEF ChangesFit
<1> QED BY <1>1, <1>2, CommittingMoves

LEMMA MineKeeps ==
    ASSUME LocksInv, NEW t \in Threads, Mine(t)
    PROVE  TypeInv' /\ GuardsInv' /\ CommitInv'
<1> USE DEF LocksInv
<1>1. /\ ~Idle(t) /\ Operation(t)[1] = "mine" /\ Advance(t)
      /\ chain' = Append(chain, made + 1) /\ made' = made + 1
      /\ UNCHANGED << parallel, readers, writer, queued, poisoned, clock, saved, executed >>
  BY DEF Mine, At, locks
<1>2. /\ LockTypes' /\ GuardsInv'
      /\ \A u \in Threads : Committing(u)' => Committing(u)
  BY <1>1, ChangesApart
<1>3. made + 1 \in Nat /\ chain' \in Seq(Nat)
  BY <1>1 DEF TypeInv
<1>4. CommitInv'
  BY <1>1, <1>2, <1>3, CommitsOverGrowth
<1> QED BY <1>1, <1>2, <1>3, <1>4 DEF TypeInv, LockTypes

LEMMA ShiftKeeps ==
    ASSUME LocksInv, NEW t \in Threads, Shift(t)
    PROVE  TypeInv' /\ GuardsInv' /\ CommitInv'
<1> USE DEF LocksInv
<1>1. /\ ~Idle(t) /\ Operation(t)[1] = "shift" /\ Advance(t) /\ clock' = clock + 1
      /\ UNCHANGED << parallel, readers, writer, queued, poisoned, chain, saved, made, executed >>
  BY DEF Shift, At, locks
<1>2. /\ LockTypes' /\ GuardsInv'
      /\ \A u \in Threads : Committing(u)' => Committing(u)
  BY <1>1, ChangesApart
<1>3. CommitInv'
  BY <1>1, <1>2 DEF CommitInv
<1> QED BY <1>1, <1>2, <1>3 DEF TypeInv, LockTypes

LEMMA RestoreKeeps ==
    ASSUME LocksInv, NEW t \in Threads, Restore(t)
    PROVE  TypeInv' /\ GuardsInv' /\ CommitInv'
<1> USE DEF LocksInv
<1>1. /\ ~Idle(t) /\ Operation(t)[1] = "restore" /\ Advance(t) /\ executed' = Exchanged
      /\ UNCHANGED << parallel, readers, writer, queued, poisoned, made >>
  BY DEF Restore, At, locks
<1>2. /\ LockTypes' /\ GuardsInv'
      /\ \A u \in Threads : Committing(u)' => Committing(u)
  BY <1>1, ChangesApart
<1>3. CommitInv' /\ executed' \in [Threads -> Executions \cup {None}]
  BY <1>1, <1>2, CommitsOverExchange
<1>4. chain' \in Seq(Nat) /\ clock' \in Nat /\ saved' \in Seq([chain : Seq(Nat), clock : Nat])
  <2>1. PICK S : S = [chain : Seq(Nat), clock : Nat]
    OBVIOUS
  <2>2. saved \in Seq(S) /\ Len(saved) \in Nat /\ DOMAIN saved = 1 .. Len(saved)
    BY <2>1, LenProperties DEF TypeInv
  <2>3. PICK id \in DOMAIN saved : /\ chain' = saved[id].chain /\ clock' = saved[id].clock
                                   /\ saved' = SubSeq(saved, 1, id - 1)
    BY DEF Restore
  <2>4. saved[id] \in S
    BY <2>2
  <2>5. chain' \in Seq(Nat) /\ clock' \in Nat
    BY <2>1, <2>3, <2>4
  <2>6. saved' \in Seq(S)
    BY <2>2, <2>3, SubSeqProperties
  <2> QED BY <2>1, <2>5, <2>6
<1> QED BY <1>1, <1>2, <1>3, <1>4 DEF TypeInv, LockTypes

LEMMA ExchangeKeeps ==
    ASSUME LocksInv, NEW t \in Threads, Exchange(t)
    PROVE  TypeInv' /\ GuardsInv' /\ CommitInv'
<1> USE DEF LocksInv
<1>1. /\ ~Idle(t) /\ Operation(t)[1] = "exchange" /\ Advance(t) /\ executed' = Exchanged
      /\ clock' = 0 /\ \E base \in Bases : chain' = << base >>
      /\ UNCHANGED << parallel, readers, writer, queued, poisoned, saved, made >>
  BY DEF Exchange, At, locks
<1>2. /\ LockTypes' /\ GuardsInv'
      /\ \A u \in Threads : Committing(u)' => Committing(u)
  BY <1>1, ChangesApart
<1>3. CommitInv' /\ executed' \in [Threads -> Executions \cup {None}]
  BY <1>1, <1>2, CommitsOverExchange
<1>4. chain' \in Seq(Nat) /\ clock' \in Nat
  BY <1>1 DEF Bases
<1> QED BY <1>1, <1>2, <1>3, <1>4 DEF TypeInv, LockTypes

(* Who writes under a lock found it in order, and who panics gives up those *)
(* it poisons.                                                              *)
LEMMA PoisonKeeps ==
    ASSUME LocksInv, [Next]_vars
    PROVE  PoisonInv'
<1> USE DEF LocksInv
<1>1. CASE /\ poisoned' = poisoned
           /\ \A l \in poisoned : writer'[l] \in {writer[l], None}
  BY <1>1 DEF PoisonInv
<1>2. ASSUME NEW t \in Threads, Leave(t), poisoned' = poisoned
      PROVE  \A l \in poisoned : writer'[l] \in {writer[l], None}
  BY <1>2 DEF Leave, PoisonInv
<1>3. ASSUME NEW t \in Threads, NEW l \in Locks, TakeRead(t, l) \/ Wait(t, l)
      PROVE  PoisonInv'
  BY <1>1, <1>2, <1>3 DEF TakeRead, Wait
<1>4. ASSUME NEW t \in Threads, NEW l \in Locks, TakeWrite(t, l)
      PROVE  PoisonInv'
  <2>1. CASE l \in poisoned
    <3>1. Leave(t) /\ poisoned' = poisoned
      BY <1>4, <2>1 DEF TakeWrite
    <3> QED BY <1>1, <1>2, <3>1
  <2>2. CASE l \notin poisoned
    <3>1. poisoned' = poisoned /\ writer' = [writer EXCEPT ![l] = t]
      BY <1>4, <2>2 DEF TakeWrite
    <3> QED BY <1>1, <2>2, <3>1 DEF TypeInv
  <2> QED BY <2>1, <2>2
<1>5. ASSUME NEW t \in Threads, NEW l \in Locks, DropGuard(t, l)
      PROVE  PoisonInv'
  <2>1. poisoned' = poisoned /\ (writer' = writer \/ writer' = [writer EXCEPT ![l] = None])
    BY <1>5 DEF DropGuard
  <2>2. \A m \in poisoned : writer'[m] \in {writer[m], None}
    BY <2>1 DEF TypeInv, PoisonInv
  <2> QED BY <1>1, <2>1, <2>2
<1>6. ASSUME NEW t \in Threads,
             CheckLimit(t) \/ Save(t) \/ Choose(t) \/ Clear(t) \/ Halt(t)
      PROVE  PoisonInv'
  BY <1>1, <1>2, <1>6 DEF CheckLimit, Save, Choose, Clear, Halt, locks
<1>7. ASSUME NEW t \in Threads,
             \/ Execute(t) \/ Commit(t) \/ Mine(t) \/ Shift(t) \/ Restore(t) \/ Exchange(t)
             \/ \E r \in DOMAIN Programs : Accept(t, r)
      PROVE  PoisonInv'
  BY <1>1, <1>7 DEF Execute, Commit, Mine, Shift, Restore, Exchange, Accept, locks
<1>8. ASSUME NEW t \in Threads, CommitPanics(t) \/ ReadFails(t)
      PROVE  PoisonInv'
  <2>1. /\ poisoned' = poisoned \cup {l \in Locks \ {"storage"} : writer[l] = t}
        /\ writer' = [l \in Locks |-> IF writer[l] = t THEN None ELSE writer[l]]
    BY <1>8 DEF CommitPanics, ReadFails, Panics, Leave
  <2> QED BY <2>1 DEF PoisonInv, TypeInv
<1>9. CASE UNCHANGED vars
  BY <1>1, <1>9 DEF vars, locks
<1> QED BY <1>3, <1>4, <1>5, <1>6, <1>7, <1>8, <1>9 DEF Next, Run

LEMMA LocksInit ==
    Init => LocksInv
<1> SUFFICES ASSUME Init PROVE LocksInv
  OBVIOUS
<1>1. \A t \in Threads : Idle(t) /\ pc[t] = 1 /\ executed[t] = None
  BY DEF Init, Idle
<1>2. \A l \in Locks : writer[l] = None /\ \A t \in Threads : readers[l][t] = 0
  BY DEF Init
<1>3. None \notin Threads /\ None # "send_raw_transaction"
  BY LockAssumption, NoneAssumption, AllFit DEF Requests
<1>4. TypeInv
  BY DEF Init, TypeInv
<1>5. GuardsInv
  <2>1. \A t \in Threads : GuardsOf(t)
    BY <1>1, <1>2, <1>3 DEF GuardsOf
  <2> QED BY <1>1, <1>2, <2>1 DEF Init, GuardsInv
<1>6. CommitInv
  <2>1. \A t \in Threads : ~Committing(t)
    BY <1>1, <1>3 DEF Committing, Idle
  <2> QED BY <1>1, <2>1 DEF Init, CommitInv
<1>7. PoisonInv
  BY DEF Init, PoisonInv
<1> QED BY <1>4, <1>5, <1>6, <1>7 DEF LocksInv

LEMMA LocksStep ==
    LocksInv /\ [Next]_vars => LocksInv'
<1> SUFFICES ASSUME LocksInv, [Next]_vars PROVE LocksInv'
  OBVIOUS
<1>1. ASSUME NEW t \in Threads, Run(t) PROVE TypeInv' /\ GuardsInv' /\ CommitInv'
  BY <1>1, LockActionsKeep, SnapshotStepsKeep, ExecuteKeeps, HaltKeeps, PanicKeeps,
     CommitKeeps, MineKeeps, ShiftKeeps, RestoreKeeps, ExchangeKeeps DEF Run
<1>2. ASSUME NEW t \in Threads, NEW r \in DOMAIN Programs, Accept(t, r)
      PROVE  TypeInv' /\ GuardsInv' /\ CommitInv'
  BY <1>2, AllFit, LockActionsKeep
<1>3. ASSUME UNCHANGED vars PROVE TypeInv' /\ GuardsInv' /\ CommitInv'
  <2>1. /\ UNCHANGED << parallel, request, pc, readers, writer, queued >>
        /\ UNCHANGED << chain, clock, saved, made, executed >>
    BY <1>3 DEF vars, locks, data
  <2>2. TypeInv'
    BY <2>1 DEF LocksInv, TypeInv
  <2>3. GuardsInv'
    BY <2>1 DEF LocksInv, GuardsInv, GuardsOf, Idle, Wants, Operation
  <2>4. CommitInv'
    BY <2>1 DEF LocksInv, CommitInv, Committing
  <2> QED BY <2>2, <2>3, <2>4
<1> QED BY <1>1, <1>2, <1>3, PoisonKeeps DEF Next, LocksInv

LEMMA LocksAlways ==
    Spec => []LocksInv
<1>1. Init => LocksInv
  BY LocksInit
<1>2. LocksInv /\ [Next]_vars => LocksInv'
  BY LocksStep
<1> QED BY <1>1, <1>2, PTL DEF Spec

-----------------------------------------------------------------------------
(* Waiting for ever. *)

LEMMA StuckOn ==
    ASSUME LocksInv, AllStuck, NEW t \in Threads, ~Idle(t)
    PROVE  \E l \in Locks, operation \in {"read", "write"} :
              /\ Wants(t, operation, l)
              /\ operation = Kind(request[t], pc[t]) /\ l = Lock(request[t], pc[t])
              /\ IF operation = "read" THEN ~Readable(l) ELSE ~Writable(l)
<1>1. PICK l \in Locks : \/ Wants(t, "read", l) /\ ~Readable(l)
                         \/ Wants(t, "write", l) /\ ~Writable(l)
  BY DEF AllStuck, Blocked
<1>2. Operation(t)[1] = Kind(request[t], pc[t]) /\ Operation(t)[2] = Lock(request[t], pc[t])
  BY Running DEF LocksInv
<1> QED BY <1>1, <1>2, WantsMeans

(* What nobody can take is held: a reader that waits for a writer waits for *)
(* whom the writer waits for.                                               *)
LEMMA StuckBehind ==
    ASSUME LocksInv, AllStuck, NEW t \in Threads, ~Idle(t)
    PROVE  \E u \in Threads : ~Idle(u) /\ Holds(request[u], pc[u], Lock(request[t], pc[t]))
<1>1. PICK l \in Locks, operation \in {"read", "write"} :
         /\ Wants(t, operation, l) /\ l = Lock(request[t], pc[t])
         /\ IF operation = "read" THEN ~Readable(l) ELSE ~Writable(l)
  BY StuckOn
<1>2. ASSUME ~Writable(l)
      PROVE  \E u \in Threads : ~Idle(u) /\ Holds(request[u], pc[u], l)
  <2>1. PICK u \in Threads : writer[l] = u \/ readers[l][u] > 0
    BY <1>2 DEF Writable, LocksInv, TypeInv
  <2>2. GuardsOf(u)
    BY DEF LocksInv, GuardsInv
  <2> QED BY <2>1, <2>2 DEF GuardsOf, Holds
<1>3. ASSUME ~Readable(l), Writable(l)
      PROVE  FALSE
  <2>1. PICK u \in queued : Wants(u, "write", l)
    BY <1>3 DEF Readable, Writable
  <2>2. u \in Threads /\ ~Idle(u)
    BY <2>1, WantsMeans DEF LocksInv, TypeInv
  <2>3. PICK m \in Locks, other \in {"read", "write"} :
           Wants(u, other, m) /\ IF other = "read" THEN ~Readable(m) ELSE ~Writable(m)
    BY <2>2, StuckOn
  <2>4. m = l /\ other = "write"
    BY <2>1, <2>3, WantsMeans
  <2> QED BY <1>3, <2>3, <2>4
<1> QED BY <1>1, <1>2, <1>3

(* Who holds the storage waits for nothing, so nobody waits for it. *)
LEMMA StuckOffStorage ==
    ASSUME LocksInv, AllStuck, NEW t \in Threads, ~Idle(t)
    PROVE  Lock(request[t], pc[t]) # "storage"
<1> SUFFICES ASSUME Lock(request[t], pc[t]) = "storage" PROVE FALSE
  OBVIOUS
<1>1. PICK u \in Threads : ~Idle(u) /\ Holds(request[u], pc[u], "storage")
  BY StuckBehind
<1>2. Kind(request[u], pc[u]) \in {"read", "write"}
  BY <1>1, StuckOn
<1>3. /\ pc[u] \in 1 .. Len(Programs[request[u]])
      /\ WaitsFit(request[u], Len(Programs[request[u]]))
  BY <1>1, Running DEF LocksInv
<1> QED BY <1>1, <1>2, <1>3 DEF WaitsFit

(* Who is stuck on the snapshots' lock is a reset that wants the node. *)
LEMMA StuckOnSnapshots ==
    ASSUME LocksInv, AllStuck, NEW t \in Threads, ~Idle(t),
           Holds(request[t], pc[t], "snapshots")
    PROVE  /\ request[t] = "reset_network" /\ writer["snapshots"] = t
           /\ Wants(t, "write", "inner") /\ Lock(request[t], pc[t]) = "inner"
<1>1. PICK l \in Locks, operation \in {"read", "write"} :
         /\ Wants(t, operation, l)
         /\ operation = Kind(request[t], pc[t]) /\ l = Lock(request[t], pc[t])
  BY StuckOn
<1>2. l # "storage"
  BY <1>1, StuckOffStorage
<1>3. /\ pc[t] \in 1 .. Len(Programs[request[t]])
      /\ WaitsFit(request[t], Len(Programs[request[t]]))
      /\ writer["snapshots"] = t <=> Writes(request[t], pc[t], "snapshots")
  BY Running DEF LocksInv, Locks
<1> QED BY <1>1, <1>2, <1>3 DEF WaitsFit

LEMMA StuckInvariant ==
    ASSUME LocksInv
    PROVE  StuckCauses
<1> SUFFICES ASSUME AllStuck
             PROVE  parallel /\ (ResetAgainstSnapshots \/ (ShowGasDetails /\ ReadTwice))
  BY DEF StuckCauses
<1>1. \A t, u \in Threads : Idle(t) \/ Idle(u) \/ t = u \/ parallel
  BY DEF LocksInv, GuardsInv
<1>2. PICK t \in Threads : ~Idle(t)
  BY DEF AllStuck
<1>3. PICK g \in Threads : ~Idle(g) /\ Holds(request[g], pc[g], "inner")
  <2>1. Lock(request[t], pc[t]) \in {"inner", "snapshots"}
    BY <1>2, StuckOffStorage, StuckOn DEF Locks
  <2>2. CASE Lock(request[t], pc[t]) = "inner"
    BY <1>2, <2>2, StuckBehind
  <2>3. CASE Lock(request[t], pc[t]) = "snapshots"
    <3>1. PICK u \in Threads : ~Idle(u) /\ Holds(request[u], pc[u], "snapshots")
      BY <1>2, <2>3, StuckBehind
    <3>2. Lock(request[u], pc[u]) = "inner"
      BY <3>1, StuckOnSnapshots
    <3> QED BY <3>1, <3>2, StuckBehind
  <2> QED BY <2>1, <2>2, <2>3
<1>4. PICK l \in Locks, operation \in {"read", "write"} :
         /\ Wants(g, operation, l)
         /\ operation = Kind(request[g], pc[g]) /\ l = Lock(request[g], pc[g])
         /\ IF operation = "read" THEN ~Readable(l) ELSE ~Writable(l)
  BY <1>3, StuckOn
<1>5. l # "storage"
  BY <1>3, <1>4, StuckOffStorage
<1>6. /\ pc[g] \in 1 .. Len(Programs[request[g]])
      /\ WaitsFit(request[g], Len(Programs[request[g]]))
      /\ readers["inner"][g] = Reads(request[g], pc[g], "inner")
      /\ writer["inner"] = g <=> Writes(request[g], pc[g], "inner")
  BY <1>3, Running DEF LocksInv, Locks
<1>7. CASE l = "inner"
  <2>1. /\ operation = "read" /\ request[g] = "send_raw_transaction" /\ ShowGasDetails
        /\ readers["inner"][g] = 1
    BY <1>3, <1>4, <1>6, <1>7 DEF WaitsFit
  <2>2. writer["inner"] = None
    BY <2>1 DEF LocksInv, GuardsInv, Locks
  <2>3. PICK u \in queued : Wants(u, "write", "inner")
    BY <1>4, <1>7, <2>1, <2>2 DEF Readable
  <2>4. u \in Threads /\ ~Idle(u) /\ u # g
    <3>1. u \in Threads
      BY DEF LocksInv, TypeInv
    <3>2. ~Idle(u) /\ Operation(u)[1] = "write"
      BY <2>3, WantsMeans
    <3>3. Operation(g)[1] = "read"
      BY <1>4, <2>1, WantsMeans
    <3> QED BY <3>1, <3>2, <3>3
  <2>5. ReadTwice
    BY <1>4, <1>7, <2>1, <2>3, <2>4 DEF ReadTwice
  <2> QED BY <1>1, <1>3, <2>1, <2>4, <2>5
<1>8. CASE l = "snapshots"
  <2>1. request[g] \in {"snapshot", "revert_snapshot"} /\ writer["inner"] = g
    BY <1>3, <1>4, <1>6, <1>8 DEF WaitsFit
  <2>2. PICK u \in Threads : ~Idle(u) /\ Holds(request[u], pc[u], "snapshots")
    BY <1>3, <1>4, <1>8, StuckBehind
  <2>3. /\ request[u] = "reset_network" /\ writer["snapshots"] = u
        /\ Wants(u, "write", "inner")
    BY <2>2, StuckOnSnapshots
  <2>4. ResetAgainstSnapshots
    BY <1>4, <1>8, <2>1, <2>3 DEF ResetAgainstSnapshots
  <2>5. u # g
    BY <2>1, <2>3
  <2> QED BY <1>1, <1>3, <2>2, <2>4, <2>5
<1> QED BY <1>5, <1>7, <1>8 DEF Locks

(* Requests wait for each other for ever only where several threads run     *)
(* them, and only as a reset against a snapshot or a revert, or as the      *)
(* second read of inner under display_detailed_gas_info with a writer in    *)
(* between.                                                                 *)
THEOREM OnlyTwoWaysToStick ==
    Spec => []StuckCauses
  BY LocksAlways, StuckInvariant, PTL

-----------------------------------------------------------------------------
(* Commits. *)

(* Only who has the node's lock to itself changes the chain or the clock. *)
LEMMA ChainUnderLock ==
    ASSUME LocksInv, [Next]_vars, chain' # chain \/ clock' # clock
    PROVE  \E u \in Threads :
              /\ writer["inner"] = u
              /\ Commit(u) \/ Mine(u) \/ Shift(u) \/ Restore(u) \/ Exchange(u)
<1>1. PICK u \in Threads : Commit(u) \/ Mine(u) \/ Shift(u) \/ Restore(u) \/ Exchange(u)
  <2>1. ASSUME NEW t \in Threads, Run(t)
        PROVE  Commit(t) \/ Mine(t) \/ Shift(t) \/ Restore(t) \/ Exchange(t)
    BY <2>1 DEF Run, TakeRead, TakeWrite, Wait, DropGuard, Execute, Halt, CommitPanics,
                ReadFails, Panics, CheckLimit, Save, Choose, Clear, data
  <2>2. ASSUME NEW t \in Threads, NEW r \in DOMAIN Programs, Accept(t, r) PROVE FALSE
    BY <2>2 DEF Accept, data
  <2> QED BY <2>1, <2>2 DEF Next, vars, data
<1>2. ~Idle(u) /\ Operation(u)[1] \in {"commit", "mine", "shift", "restore", "exchange"}
  BY <1>1 DEF Commit, Mine, Shift, Restore, Exchange, At
<1>3. /\ pc[u] \in 1 .. Len(Programs[request[u]])
      /\ ChangesFit(request[u], Len(Programs[request[u]]))
      /\ Operation(u)[1] = Kind(request[u], pc[u])
      /\ writer["inner"] = u <=> Writes(request[u], pc[u], "inner")
  BY <1>2, Running DEF LocksInv, Locks
<1> QED BY <1>1, <1>2, <1>3 DEF ChangesFit

LEMMA CommitsStep ==
    ASSUME LocksInv, [Next]_vars
    PROVE  /\ \A t \in Threads :
                 At(t, "commit") /\ chain' # chain =>
                     executed[t].tip.chain = chain \/ executed[t].rewound
           /\ "inner" \in poisoned => UNCHANGED << chain, clock >>
<1>1. "inner" \in poisoned => UNCHANGED << chain, clock >>
  <2>1. None \notin Threads
    BY LockAssumption
  <2>2. "inner" \in poisoned => writer["inner"] = None
    BY DEF LocksInv, PoisonInv
  <2> QED BY <2>1, <2>2, ChainUnderLock
<1>2. ASSUME NEW t \in Threads, At(t, "commit"), chain' # chain, ~executed[t].rewound
      PROVE  executed[t].tip.chain = chain
  <2>1. /\ ~Idle(t) /\ pc[t] \in 1 .. Len(Programs[request[t]])
        /\ ChangesFit(request[t], Len(Programs[request[t]]))
        /\ Kind(request[t], pc[t]) = "commit"
        /\ writer["inner"] = t <=> Writes(request[t], pc[t], "inner")
    BY <1>2, Running DEF At, LocksInv, Locks
  <2>2. writer["inner"] = t /\ request[t] = "send_raw_transaction" /\ pc[t] = 16 + More
    BY <2>1 DEF ChangesFit
  <2>3. executed[t] # None
    <3>1. 16 + More \in 11 + More .. 16 + More
      BY DEF More
    <3> QED BY <2>2, <3>1 DEF Committing, LocksInv, CommitInv
  <2>4. Commit(t) \/ Mine(t) \/ Shift(t) \/ Restore(t) \/ Exchange(t)
    BY <1>2, <2>2, ChainUnderLock
  <2>5. Commit(t)
    BY <1>2, <2>4 DEF At, Mine, Shift, Restore, Exchange
  <2>6. Len(chain) = Len(executed[t].tip.chain)
    BY <2>5 DEF Commit, TipAsExpected
  <2>7. executed[t].tip.chain = SubSeq(chain, 1, Len(chain))
    BY <1>2, <2>3, <2>6 DEF LocksInv, CommitInv
  <2>8. chain = [i \in 1 .. Len(chain) |-> chain[i]] /\ chain \in Seq(Nat)
        /\ Len(chain) \in Nat
    BY LenProperties DEF LocksInv, TypeInv
  <2>9. SubSeq(chain, 1, Len(chain)) = [i \in 1 .. Len(chain) |-> chain[i]]
    BY <2>8
  <2> QED BY <2>7, <2>8, <2>9
<1> QED BY <1>1, <1>2

(* The commit loop of run_l2_tx lets a transaction through only on the      *)
(* chain it was executed on, or after a revert or a reset; and a panic that *)
(* poisons the node's lock is the last that becomes of the chain and the    *)
(* clock.                                                                   *)
THEOREM CommitsAreCurrent ==
    Spec => CommitsWhereExecuted
<1>1. LocksInv /\ [Next]_vars =>
         [/\ \A t \in Threads :
                At(t, "commit") /\ chain' # chain =>
                    executed[t].tip.chain = chain \/ executed[t].rewound
          /\ "inner" \in poisoned => UNCHANGED << chain, clock >>]_vars
  BY CommitsStep
<1> QED BY <1>1, LocksAlways, PTL DEF Spec, CommitsWhereExecuted

=============================================================================
