--------------------------- MODULE MCInMemoryNode ---------------------------
(***************************************************************************)
(* Values for the constants of InMemoryNode and NodeQueries, for model     *)
(* checking.                                                               *)
(***************************************************************************)
EXTENDS NodeQueries, TLC

MCSymmetry == Permutations(Txs)

(* One slot is enough to tell an archived state from another. *)
MCKeys == {"k"}
MCGenesisSlots == [k \in Keys |-> 1]
MCGenesisZero == [k \in Keys |-> 0]
NoWrites == << >>
WriteTo(v) == [k \in MCKeys |-> v]

MCWritesNone == {NoWrites}
MCWritesTwo == {NoWrites, WriteTo(2)}
MCWritesAll == {NoWrites, WriteTo(0), WriteTo(2)}

MCNoLogs == [t \in Txs |-> << >>]
MCThreeLogs == [t \in Txs |-> << [address |-> "a", topics |-> << "x", "x" >>],
                                [address |-> "b", topics |-> << "x" >>],
                                [address |-> "b", topics |-> << "x", "y" >>] >>]

Criteria(from, to, addresses, first, second) ==
    [from_block |-> from, to_block |-> to, addresses |-> addresses,
     topics |-> << first, second, {}, {} >>]

(* What filters are installed with. *)
MCCriteria == {Criteria(Latest, Latest, {"b"}, {}, {"y"}),
               Criteria(Earliest, Number(3), {}, {"x"}, {})}

(* What is asked of eth_getLogs besides: every range, every kind of topics. *)
Bounds == {Latest, Earliest, Number(1), Number(3)}
MCQueries ==
    {Criteria(from, to, {}, {}, {}) : from \in Bounds, to \in Bounds}
      \cup {Criteria(Earliest, Latest, {"b"}, first, second) :
                first \in {{}, {"y"}}, second \in {{}, {"x"}, {"x", "y"}}}

(* A word of the system context as a client may leave it: another block, at *)
(* a time that is past for some nodes and still to come for others.         *)
MCContextWords == {[number |-> 3, timestamp |-> 1003]}

(* The remote chain has blocks past the fork point, which is in the middle  *)
(* of a batch; the fork point and a later block hold a transaction.         *)
MCRemoteTransactions ==
    [n \in 0 .. 4 |-> IF n = 2 THEN << "r2" >> ELSE IF n = 3 THEN << "r3", "s3" >>
                      ELSE << >>]
MCRemoteTxs == {"r2", "r3", "s3"}
MCFork == [number |-> 2, batch |-> 1, timestamp |-> 500, l1_timestamp |-> 498,
           slots |-> [k \in Keys |-> 2], transactions |-> MCRemoteTransactions[2]]
MCForks == {MCFork}
MCInitialForks == {NoFork, MCFork}
=============================================================================
