---------------------------- MODULE MCRemoteCache ----------------------------
(***************************************************************************)
(* Values for the constants of RemoteCache, for model checking.            *)
(***************************************************************************)
EXTENDS RemoteCache, TLC

Disk(reset) == [kind |-> "disk", reset |-> reset]
MCConfigs == {Disk(FALSE), Disk(TRUE), [kind |-> "memory", reset |-> FALSE],
              [kind |-> "none", reset |-> FALSE]}
MCSymmetry == Permutations(Networks)
MCAllTypes == {CacheTypes[i] : i \in DOMAIN CacheTypes}
=============================================================================
