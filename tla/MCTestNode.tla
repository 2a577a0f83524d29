----------------------------- MODULE MCTestNode -----------------------------
(***************************************************************************)
(* Values for the constants of TestNode, for model checking.               *)
(***************************************************************************)
EXTENDS TestNode

(* Two chains: one of a network known by name, and one known by url only.   *)
MCRemoteBlocks ==
    [url \in {"sepolia-testnet", "localhost"} |->
        IF url = "localhost" THEN [n \in {0} |-> << >>]
        ELSE [n \in 0 .. 1 |-> IF n = 1 THEN << "t1", "t2", "t3" >> ELSE << >>]]

CommandLine(command, network, fork_at, tx) ==
    [command |-> command, network |-> network, fork_at |-> fork_at, tx |-> tx,
     debug_mode |-> FALSE, given |-> {}, cache |-> None, cache_dir |-> FALSE,
     override_bytecodes |-> FALSE, system_contracts |-> "BuiltIn"]

MCCommandLines ==
    {[CommandLine("run", None, None, None) EXCEPT
         !.debug_mode = TRUE, !.given = {"show_calls", "l1_gas_price"}, !.cache = c] :
         c \in {"none", "disk"}}
    \cup {[CommandLine("fork", "sepolia-testnet", n, None) EXCEPT
              !.given = {"l2_gas_price", "log", "system_contracts_options"},
              !.system_contracts = "Local", !.cache = "disk", !.cache_dir = TRUE] :
              n \in {None, 7}}
    \cup {[CommandLine("replay_tx", "sepolia-testnet", None, tx) EXCEPT
              !.debug_mode = TRUE, !.override_bytecodes = TRUE] : tx \in {"t2", "t9"}}

(* A file that is ignored, and one that is not. *)
MCConfigFiles ==
    {[named |-> {"show_calls", "l1_gas_price"}, cache |-> "memory",
      system_contracts |-> "BuiltInWithoutSecurity"],
     [named |-> Required \cup {"l1_gas_price", "limit_scale_factor"}, cache |-> "memory",
      system_contracts |-> "BuiltInWithoutSecurity"]}
=============================================================================
