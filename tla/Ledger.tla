-------------------------------- MODULE Ledger --------------------------------
(***************************************************************************)
(* What a client may rely on of the chain the node shows: a ledger that is *)
(* only ever appended to, with savepoints.  A block once shown stays, and  *)
(* so does a transaction's result, until the client goes back to a         *)
(* savepoint or starts the ledger anew; going back restores the chain and  *)
(* the results of the savepoint, and uses up the later ones.               *)
(***************************************************************************)
EXTENDS Naturals, Sequences

VARIABLES
    chain,     \* the blocks: [hash, transactions]
    results,   \* the transactions that have a result
    saved      \* the savepoints: [chain, results], oldest first

Transactions(blocks) == UNION {{blocks[i].transactions[j] :
                                   j \in DOMAIN blocks[i].transactions} :
                                  i \in DOMAIN blocks}

Init ==
    /\ Len(chain) = 1
    /\ results = {}
    /\ saved = << >>

(* New blocks go on top, under hashes no block has; the transactions in     *)
(* them, and no others, get their results.                                  *)
Extend ==
    /\ Len(chain') > Len(chain)
    /\ SubSeq(chain', 1, Len(chain)) = chain
    /\ \A i, j \in DOMAIN chain' : chain'[i].hash = chain'[j].hash => i = j
    /\ LET new == Transactions(SubSeq(chain', Len(chain) + 1, Len(chain')))
       IN  new \cap results = {} /\ results' = results \cup new
    /\ UNCHANGED saved

Save ==
    /\ saved' = Append(saved, [chain |-> chain, results |-> results])
    /\ UNCHANGED << chain, results >>

GoBack(i) ==
    /\ chain' = saved[i].chain
    /\ results' = saved[i].results
    /\ saved' = SubSeq(saved, 1, i - 1)

Restart ==
    /\ Len(chain') = 1
    /\ results' = {}
    /\ saved' = << >>

Next == Extend \/ Save \/ (\E i \in DOMAIN saved : GoBack(i)) \/ Restart

Spec == Init /\ [][Next]_<< chain, results, saved >>
=============================================================================
