---------------------------- MODULE MCForkStorage ----------------------------
(***************************************************************************)
(* Values for the constants of ForkStorage, for model checking.            *)
(***************************************************************************)
EXTENDS ForkStorage

(* A new node holds one word (a rich account); on the forked chain the      *)
(* account has code, a nonce and a word.  That code is of a hash that is    *)
(* only served remotely; what is deployed or set here has another.          *)
MCRemoteHash == 3
MCGenesisState == [k \in SlotKeys |-> 1]
MCRemoteState ==
    [f \in Forks |->
        [k \in Keys |-> IF k = CodeKey THEN MCRemoteHash
                        ELSE IF k = NonceKey THEN full_nonce(1, 0) ELSE 2]]
MCRemoteDeps == [f \in Forks |-> {MCRemoteHash}]
=============================================================================
