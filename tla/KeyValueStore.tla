--------------------------- MODULE KeyValueStore ---------------------------
(***************************************************************************)
(* What the node's storage promises to its readers, whatever is local,     *)
(* remote or cached: a slot holds what was last written to it.  A store    *)
(* starts as a copy of a base (the chain that is forked, or nothing), and  *)
(* a write of zero uncovers the base again.  Stores can be saved, brought  *)
(* back once, and given up for a new one.  ForkStorage implements it, and  *)
(* so does the register of rich and impersonated accounts in TestNode.     *)
(***************************************************************************)
EXTENDS Naturals, Sequences

CONSTANTS Keys, Values,
          NewStores      \* the stores to start from: records [base, store]

VARIABLES base,      \* slot -> the word a write of zero uncovers
          store,     \* slot -> the word a reader is given
          saved      \* the stores that can be brought back, oldest first

vars == << base, store, saved >>

Init ==
    /\ \E new \in NewStores : base = new.base /\ store = new.store
    /\ saved = << >>

(* Write several slots at once, as a committed transaction does. *)
Put ==
    /\ DOMAIN store' = Keys
    /\ \A k \in Keys : store'[k] \in {store[k], base[k]} \cup (Values \ {0})
    /\ UNCHANGED << base, saved >>

Save == saved' = Append(saved, store) /\ UNCHANGED << base, store >>

Revert ==
    /\ \E i \in DOMAIN saved :
          store' = saved[i] /\ saved' = SubSeq(saved, 1, i - 1)
    /\ UNCHANGED base

Renew ==
    /\ \E new \in NewStores : base' = new.base /\ store' = new.store
    /\ saved' = << >>

Next == Put \/ Save \/ Revert \/ Renew

Spec == Init /\ [][Next]_vars
=============================================================================
