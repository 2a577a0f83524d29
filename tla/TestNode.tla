------------------------------ MODULE TestNode ------------------------------
(***************************************************************************)
(* Starting the node and its settings: command line and configuration      *)
(* file (src/src/config), the fork point and the transactions to replay    *)
(* (ForkDetails in src/src/fork.rs), gas prices (src/src/node/fee_model.rs)*)
(* main itself (src/src/main.rs), the choice of system contracts           *)
(* (src/src/system_contracts.rs), logging (src/src/observability.rs), the  *)
(* config_ methods (src/src/node/config_api.rs) and what a snapshot, a     *)
(* revert and a reset do to all of it.                                     *)
(*                                                                         *)
(* A setting is modelled by where its value comes from: "default", "file", *)
(* "debug" (what --debug-mode stands for), "cli" or "api".  A price that   *)
(* comes from a forked chain is modelled by the chain's url, and the url   *)
(* of a network main knows by name is that name.                           *)
(***************************************************************************)
EXTENDS Naturals, Sequences, FiniteSets

CONSTANTS
    CommandLines,      \* the command lines to start the node with
    ConfigFiles,       \* the configuration files to start it with
    RemoteBlocks,      \* url -> block number -> its transactions
    Wallets,           \* the accounts that are made rich
    Strangers,         \* other accounts
    MAX_SNAPSHOTS,
    MaxChanged,        \* bound of the model: settings changed by requests
    None

Urls == DOMAIN RemoteBlocks
Accounts == Wallets \cup Strangers
NodeSettings == {"port", "show_calls", "show_outputs", "show_storage_logs",
                 "show_vm_details", "show_gas_details", "resolve_hashes",
                 "system_contracts_options"}
LogSettings == {"log", "log_file_path"}
GasSettings == {"l1_gas_price", "l2_gas_price", "price_scale_factor",
                "limit_scale_factor"}
(* What else a chain's fee parameters say: "overheads" stands for the five  *)
(* numbers of its fee model's configuration that no option sets.            *)
ChainParameters == {"l1_pubdata_price", "overheads"}
DebugSettings == {"show_calls", "show_outputs", "show_gas_details", "resolve_hashes"}
ApiSettings == NodeSettings \ {"port", "system_contracts_options"}

ASSUME CommandLineAssumption ==
    \A opt \in CommandLines :
        /\ opt.given \subseteq NodeSettings \cup LogSettings
                               \cup {"l1_gas_price", "l2_gas_price"}
        /\ opt.command \in {"run", "fork", "replay_tx"}
        /\ opt.command # "run" => opt.network \in Urls

(* Transactions are told apart by their hash, and genesis holds none.       *)
ASSUME RemoteAssumption ==
    \A url \in Urls : LET chain == RemoteBlocks[url] IN
        /\ \A n \in DOMAIN chain :
              n \in Nat /\ chain[n] \in Seq({chain[n][i] : i \in DOMAIN chain[n]})
        /\ 0 \in DOMAIN chain => chain[0] = << >>
        /\ \A m, n \in DOMAIN chain : \A i \in DOMAIN chain[m], j \in DOMAIN chain[n] :
              chain[m][i] = chain[n][j] => m = n /\ i = j

ASSUME NoneAssumption ==
    None \notin Urls \cup {"default", "file", "debug", "cli", "1.2", "1.3", "1.5", "2.0"}

VARIABLES
    opt, file,        \* what the node is started with
    phase,            \* how far main is
    config,           \* config.node and config.log: setting -> provenance
    gas,              \* config.gas: GasSettings -> provenance or None
    cache,            \* config.cache
    to_replay,        \* transactions_to_replay, those still to run
    fork,             \* fork_storage.fork, or None
    fees,             \* fee_input_provider
    chain_id,         \* fork_storage.chain_id
    impersonated, rich,   \* impersonated_accounts, rich_accounts
    logging,          \* the filter of the tracing subscriber: name -> level
    snapshots,
    (* History: what main applied, and what the config_ methods changed. *)
    applied, by_api

start == << opt, file >>
settings == << config, gas, cache >>
node == << fork, fees, chain_id, impersonated, rich >>
replay == << to_replay, applied >>
vars == << start, phase, settings, node, replay, logging, snapshots, by_api >>

-----------------------------------------------------------------------------
(* Configuration.                                                           *)

(* A file that is missing, lacks one of the required settings or does not   *)
(* parse is ignored as a whole, also when --config names it.                *)
Required == NodeSettings \cup LogSettings \cup {"cache"}
Loads(f) == Required \subseteq f.named

try_load(f) ==
    LET From(s) == IF Loads(f) THEN "file" ELSE "default"
    IN  [config |-> [s \in NodeSettings \cup LogSettings |-> From(s)],
         gas |-> [s \in GasSettings |->
                     IF Loads(f) /\ s \in f.named THEN "file" ELSE None],
         cache |-> [kind |-> IF Loads(f) THEN f.cache ELSE "disk", by |-> From("cache")]]

(* Faulty variant: debug mode is applied last. *)
DebugLast(loaded) ==
    [config |-> [s \in NodeSettings \cup LogSettings |->
                    IF opt.debug_mode /\ s \in DebugSettings THEN "debug"
                    ELSE IF s \in opt.given THEN "cli" ELSE loaded.config[s]],
     gas |-> [s \in GasSettings |-> IF s \in opt.given THEN "cli" ELSE loaded.gas[s]],
     cache |-> IF opt.cache = None THEN loaded.cache
               ELSE [kind |-> opt.cache, by |-> "cli"]]

(* Debug mode first, then the options one by one; --cache-dir and           *)
(* --reset-cache count only along with --cache.                             *)
override_with_opts(loaded) ==
    [config |-> [s \in NodeSettings \cup LogSettings |->
                    IF s \in opt.given THEN "cli"
                    ELSE IF opt.debug_mode /\ s \in DebugSettings THEN "debug"
                    ELSE loaded.config[s]],
     gas |-> [s \in GasSettings |-> IF s \in opt.given THEN "cli" ELSE loaded.gas[s]],
     cache |-> IF opt.cache = None THEN loaded.cache
               ELSE [kind |-> opt.cache, by |-> "cli"]]

-----------------------------------------------------------------------------
(* Logging.  A directive names a binary and the level to show of it, or no  *)
(* level, which stands for all of them.                                     *)

binary_names == << "era_test_node" >>
parse_filter(directives) ==
    [name \in {directives[i].name : i \in DOMAIN directives} |->
        LET last == CHOOSE i \in DOMAIN directives :
                       /\ directives[i].name = name
                       /\ \A j \in DOMAIN directives : directives[j].name = name => j <= i
        IN  IF directives[last].level = None THEN "trace" ELSE directives[last].level]

init_filter(level) ==
    parse_filter([i \in DOMAIN binary_names |-> [name |-> binary_names[i], level |-> level]])

(* join puts the level between the names: the last one is left without. *)
set_log_level(level) ==
    parse_filter([i \in DOMAIN binary_names |->
                     [name |-> binary_names[i],
                      level |-> IF i < Len(binary_names) THEN level ELSE None]])

set_logging(directives) == parse_filter(directives)

-----------------------------------------------------------------------------
(* The system contracts: a bootloader for each kind of run and the default  *)
(* account.  There are no impersonating ones among the local contracts, and *)
(* none for calls, which never ask for them.                                *)

system_contracts_options ==
    CASE config["system_contracts_options"] = "cli" -> opt.system_contracts
      [] config["system_contracts_options"] = "file" -> file.system_contracts
      [] OTHER -> "BuiltIn"

bootloader(execution_mode, impersonating) ==
    [code |-> CASE execution_mode = "VerifyExecute" -> "proved_batch"
                [] execution_mode = "EstimateFee" -> "fee_estimate"
                [] execution_mode = "EthCall" -> "playground_batch",
     impersonating |-> impersonating /\ system_contracts_options # "Local"]

bsc_load_with_bootloader(loader) ==
    [bootloader |-> loader,
     default_aa |-> IF system_contracts_options = "BuiltInWithoutSecurity"
                      THEN "DefaultAccountNoSecurity" ELSE "DefaultAccount"]

contracts(execution_mode, impersonating) ==
    bsc_load_with_bootloader(bootloader(execution_mode, impersonating))

-----------------------------------------------------------------------------
(* Fork points.                                                             *)

KnownNetworks == {"mainnet", "sepolia-testnet", "goerli-testnet"}
fork_network(name) == [kind |-> IF name \in KnownNetworks THEN name ELSE "other",
                       url |-> name]

(* (price, limit) scale factors. *)
local_gas_scale_factors(network) ==
    CASE network.kind = "mainnet" -> << "1.5", "1.2" >>
      [] network.kind = "sepolia-testnet" -> << "2.0", "1.2" >>
      [] network.kind = "goerli-testnet" -> << "1.2", "1.2" >>
      [] OTHER -> << "1.5", "1.3" >>

(* The fork points that can be had at a block: none if there is no such     *)
(* block; with or without the chain's fee parameters, whose request may     *)
(* fail.  A remote error or an unsupported protocol version is a failure    *)
(* like any other, see the actions.                                         *)
from_network_and_miniblock_and_chain(network, n, chain, cache_config) ==
    IF n \notin DOMAIN RemoteBlocks[network.url] THEN {}
    ELSE {[url |-> network.url, number |-> n, overwrite_chain_id |-> chain,
           factors |-> local_gas_scale_factors(network),
           fee_params |-> params, cache_config |-> cache_config] :
             params \in {None, network.url}}

Latest(url) == CHOOSE n \in DOMAIN RemoteBlocks[url] :
                  \A m \in DOMAIN RemoteBlocks[url] : m <= n
ForkNumber(url, fork_at) == IF fork_at = None THEN Latest(url) ELSE fork_at

from_network(name, fork_at, cache_config) ==
    from_network_and_miniblock_and_chain(
        fork_network(name), ForkNumber(name, fork_at), None, cache_config)

(* The blocks that hold a transaction: one, or none. *)
BlockOf(url, tx) ==
    {n \in DOMAIN RemoteBlocks[url] :
        \E i \in DOMAIN RemoteBlocks[url][n] : RemoteBlocks[url][n][i] = tx}

(* Faulty variant: the fork is at the block of the transaction. *)
AtTheTxBlock(name, tx, cache_config) ==
    UNION {from_network_and_miniblock_and_chain(fork_network(name), n, name, cache_config) :
              n \in BlockOf(name, tx)}

(* The block before the one of the transaction, saturating at 0. *)
from_network_tx(name, tx, cache_config) ==
    UNION {from_network_and_miniblock_and_chain(
              fork_network(name), IF n = 0 THEN 0 ELSE n - 1, name, cache_config) :
              n \in BlockOf(name, tx)}

(* hardhat_reset never takes a url for a network it knows. *)
from_url(url, fork_at, cache_config) ==
    from_network_and_miniblock_and_chain(
        [kind |-> "other", url |-> url], ForkNumber(url, fork_at), None, cache_config)

(* The transactions of the block up to the replayed one, which is included. *)
get_earlier_transactions_in_same_block(url, tx) ==
    LET n == CHOOSE b \in BlockOf(url, tx) : TRUE
        last == CHOOSE i \in DOMAIN RemoteBlocks[url][n] : RemoteBlocks[url][n][i] = tx
    IN  SubSeq(RemoteBlocks[url][n], 1, last)

-----------------------------------------------------------------------------
(* Gas prices: the chain's parameters if they are known, the network's      *)
(* scale factors, and the overrides over both.                              *)

DefaultFees ==
    [l1_gas_price |-> "default", l2_gas_price |-> "default",
     l1_pubdata_price |-> "default", overheads |-> "default",
     price_scale_factor |-> "1.5", limit_scale_factor |-> "1.3"]

from_estimate_scale_factors(factors) ==
    [DefaultFees EXCEPT !.price_scale_factor = factors[1],
                        !.limit_scale_factor = factors[2]]

from_fee_params_and_estimate_scale_factors(params, factors) ==
    [l1_gas_price |-> params, l2_gas_price |-> params,
     l1_pubdata_price |-> params, overheads |-> params,
     price_scale_factor |-> factors[1], limit_scale_factor |-> factors[2]]

with_overrides(provider, overrides) ==
    [p \in DOMAIN provider |->
        IF p \in GasSettings /\ overrides[p] # None THEN overrides[p] ELSE provider[p]]

FeesOf(f, overrides) ==
    with_overrides(
        IF f = None THEN DefaultFees
        ELSE IF f.fee_params = None THEN from_estimate_scale_factors(f.factors)
        ELSE from_fee_params_and_estimate_scale_factors(f.fee_params, f.factors),
        overrides)

(* Faulty variant: the scale factors are not kept. *)
PricesOnly == [s \in GasSettings |-> IF s \in {"l1_gas_price", "l2_gas_price"}
                                     THEN fees[s] ELSE None]

get_gas_values == [s \in GasSettings |-> fees[s]]

-----------------------------------------------------------------------------
TEST_NODE_NETWORK_ID == "260"

(* What the constructor of the node does to the state modelled here. *)
new(f, overrides) ==
    /\ fork' = f
    /\ fees' = FeesOf(f, overrides)
    /\ chain_id' = IF f = None \/ f.overwrite_chain_id = None THEN TEST_NODE_NETWORK_ID
                   ELSE f.overwrite_chain_id
    /\ impersonated' = {}

Init ==
    /\ opt \in CommandLines
    /\ file \in ConfigFiles
    /\ phase = "start"
    /\ config = [s \in NodeSettings \cup LogSettings |-> "default"]
    /\ gas = [s \in GasSettings |-> None]
    /\ cache = [kind |-> "disk", by |-> "default"]
    /\ fork = None /\ fees = DefaultFees /\ chain_id = TEST_NODE_NETWORK_ID
    /\ impersonated = {} /\ rich = {}
    /\ to_replay = << >> /\ applied = << >>
    /\ logging = << >>
    /\ snapshots = << >>
    /\ by_api = {}

Exit == phase' = "exited"

(* A disk cache on the command line needs a directory: main panics without. *)
Configure ==
    /\ phase = "start"
    /\ LET read == override_with_opts(try_load(file))
       IN  \/ /\ opt.cache = "disk" => opt.cache_dir
              /\ config' = read.config /\ gas' = read.gas /\ cache' = read.cache
              /\ logging' = init_filter(read.config["log"])
              /\ phase' = "configured"
           \/ /\ opt.cache = "disk" /\ ~opt.cache_dir
              /\ Exit
              /\ UNCHANGED << settings, logging >>
    /\ UNCHANGED << start, node, replay, snapshots, by_api >>

ForkPoints ==
    CASE opt.command = "run" -> {None}
      [] opt.command = "fork" -> from_network(opt.network, opt.fork_at, cache)
      [] opt.command = "replay_tx" -> from_network_tx(opt.network, opt.tx, cache)

(* Connect to the chain, collect the transactions to replay, and make the   *)
(* node.  Without a fork point, or when a request fails, main ends.         *)
Create ==
    /\ phase = "configured"
    /\ \E f \in ForkPoints :
          /\ new(f, gas)
          /\ to_replay' = IF opt.command = "replay_tx"
                          THEN get_earlier_transactions_in_same_block(f.url, opt.tx)
                          ELSE << >>
    /\ phase' = "created"
    /\ UNCHANGED << start, settings, rich, applied, logging, snapshots, by_api >>

CannotFork ==
    /\ phase = "configured"
    /\ opt.command # "run"
    /\ Exit
    /\ UNCHANGED << start, settings, node, replay, logging, snapshots, by_api >>

(* --override-bytecodes-dir: a file that cannot be used is a panic. *)
OverrideBytecodes ==
    /\ phase = "created"
    /\ phase' = "overridden" \/ (opt.override_bytecodes /\ Exit)
    /\ UNCHANGED << start, settings, node, replay, logging, snapshots, by_api >>

(* apply_txs, one transaction.  The first one that fails is the last one    *)
(* tried, and main goes on as if nothing had happened.                      *)
ApplyTx ==
    /\ phase = "overridden" /\ to_replay # << >>
    /\ \/ applied' = Append(applied, Head(to_replay)) /\ to_replay' = Tail(to_replay)
       \/ applied' = applied /\ to_replay' = << >>
    /\ UNCHANGED << start, phase, settings, node, logging, snapshots, by_api >>

(* Make the wallets rich and serve. *)
Serve ==
    /\ phase = "overridden" /\ to_replay = << >>
    /\ rich' = Wallets
    /\ phase' = "serving"
    /\ UNCHANGED << start, settings, fork, fees, chain_id, impersonated, replay,
                    logging, snapshots, by_api >>

-----------------------------------------------------------------------------
(* Requests.                                                                *)

Changing(s) ==
    /\ by_api' = by_api \cup {s}
    /\ Cardinality(by_api') <= MaxChanged

(* config_set_show_calls and its like.  A value that does not parse leaves  *)
(* the setting alone.                                                       *)
config_set(s) ==
    /\ phase = "serving"
    /\ config' = [config EXCEPT ![s] = "api"]
    /\ Changing(s)
    /\ UNCHANGED << start, phase, gas, cache, node, replay, logging, snapshots >>

config_set_log_level ==
    /\ phase = "serving"
    /\ logging' = set_log_level("api")
    /\ Changing("log")
    /\ UNCHANGED << start, phase, settings, node, replay, snapshots >>

config_set_logging ==
    /\ phase = "serving"
    /\ logging' = set_logging(<< [name |-> "era_test_node", level |-> "api"] >>)
    /\ Changing("log")
    /\ UNCHANGED << start, phase, settings, node, replay, snapshots >>

impersonate_account(a) ==
    /\ phase = "serving"
    /\ impersonated' = impersonated \cup {a}
    /\ UNCHANGED << start, phase, settings, fork, fees, chain_id, rich, replay,
                    logging, snapshots, by_api >>

stop_impersonating_account(a) ==
    /\ phase = "serving"
    /\ impersonated' = impersonated \ {a}
    /\ UNCHANGED << start, phase, settings, fork, fees, chain_id, rich, replay,
                    logging, snapshots, by_api >>

snapshot ==
    /\ phase = "serving"
    /\ Len(snapshots) < MAX_SNAPSHOTS
    /\ snapshots' = Append(snapshots, [fees |-> fees, impersonated |-> impersonated,
                                       rich |-> rich])
    /\ UNCHANGED << start, phase, settings, node, replay, logging, by_api >>

(* Faulty variant: the impersonated accounts are not brought back. *)
RestoreKeepingImpersonated(s) ==
    /\ fees' = s.fees /\ rich' = s.rich
    /\ UNCHANGED impersonated

(* The configuration is not part of a snapshot. *)
restore_snapshot(s) ==
    fees' = s.fees /\ impersonated' = s.impersonated /\ rich' = s.rich

revert_snapshot(id) ==
    /\ phase = "serving"
    /\ restore_snapshot(snapshots[id])
    /\ snapshots' = SubSeq(snapshots, 1, id - 1)
    /\ UNCHANGED << start, phase, settings, fork, chain_id, replay, logging, by_api >>

(* A fork point knows how it is cached; without one the default is assumed, *)
(* whatever the node was started with.                                      *)
get_cache_config == IF fork = None THEN [kind |-> "disk", by |-> "default"]
                    ELSE fork.cache_config

(* The fork points hardhat_reset can be asked for: none, another block of   *)
(* the chain it is on, or a block of any chain.                             *)
ResetPoints ==
    {None}
    \cup (IF fork = None THEN {}
          ELSE UNION {from_url(fork.url, n, get_cache_config) :
                         n \in DOMAIN RemoteBlocks[fork.url]})
    \cup (UNION {from_url(url, None, get_cache_config) : url \in Urls})
    \cup (UNION {UNION {from_url(url, n, get_cache_config) :
                           n \in DOMAIN RemoteBlocks[url]} : url \in Urls})

(* A reset that cannot have its fork point answers with an error and leaves *)
(* everything as it is.                                                     *)
reset_network ==
    /\ phase = "serving"
    /\ \E f \in ResetPoints : new(f, get_gas_values)
    /\ rich' = Wallets
    /\ snapshots' = << >>
    /\ UNCHANGED << start, phase, settings, replay, logging, by_api >>

ImpersonationMethods ==
    \E a \in Accounts : impersonate_account(a) \/ stop_impersonating_account(a)

Next ==
    \/ Configure \/ Create \/ CannotFork \/ OverrideBytecodes \/ ApplyTx \/ Serve
    \/ \E s \in ApiSettings : config_set(s)
    \/ config_set_log_level \/ config_set_logging
    \/ ImpersonationMethods
    \/ snapshot
    \/ \E id \in DOMAIN snapshots : revert_snapshot(id)
    \/ reset_network

Spec == Init /\ [][Next]_vars

-----------------------------------------------------------------------------
(* What eth_accounts answers, and whose transactions eth_sendTransaction    *)
(* runs: the node lets them through, and the bootloader or the default      *)
(* account does not miss a signature.                                       *)
accounts == rich
send_transaction_allowed(from, who) == from \in who
run_l2_tx_contracts(from, who) == contracts("VerifyExecute", from \in who)
CanAct(from, who) ==
    LET used == run_l2_tx_contracts(from, who)
    IN  /\ send_transaction_allowed(from, who)
        /\ \/ used.bootloader.impersonating
           \/ used.default_aa = "DefaultAccountNoSecurity"

(* What a setting is after the start: an option beats debug mode, which     *)
(* beats the file, which beats the default.                                 *)
Precedence(s) ==
    IF s \in opt.given THEN "cli"
    ELSE IF opt.debug_mode /\ s \in DebugSettings THEN "debug"
    ELSE IF Loads(file) THEN "file" ELSE "default"

(* A setting has the value its options call for, whatever is replayed,      *)
(* reverted or reset, until a config_ method changes it, and so do the      *)
(* prices of the command line and the file, also over those of a forked     *)
(* chain.  What the log file shows is as asked for until a method changes   *)
(* that.                                                                    *)
OptionsWin ==
    /\ phase \notin {"start", "exited"} =>
          /\ \A s \in DOMAIN config : s \notin by_api => config[s] = Precedence(s)
          /\ "log" \notin by_api => logging["era_test_node"] = Precedence("log")
    /\ phase \in {"created", "overridden", "serving"} =>
          \A s \in GasSettings :
              /\ s \in opt.given => fees[s] = "cli"
              /\ s \notin opt.given /\ Loads(file) /\ s \in file.named => fees[s] = "file"

(* The parameters no option sets are those of the chain the node is on.     *)
ParametersOf(f) == IF f = None \/ f.fee_params = None THEN "default" ELSE f.fee_params

(* A reset keeps the node's gas prices and scale factors, also on a chain   *)
(* with other ones, but not the other parameters of the fee model: those    *)
(* are always the ones of the chain the node is then on, or the built-in    *)
(* ones (get_gas_values in src/src/node/in_memory.rs, where line 834 calls  *)
(* the fee provider "immutable during the test node life cycle").  And as   *)
(* long as the node goes from fork to fork, it caches as it was told to.    *)
KeptOverResets ==
    [][phase = "serving" =>
          /\ \A s \in GasSettings : fees'[s] = fees[s]
          /\ \A p \in ChainParameters : fees'[p] = ParametersOf(fork')
          /\ fork # None /\ fork' # None => fork'.cache_config = fork.cache_config]_vars

(* Replaying: the transactions run are those of the replayed transaction's *)
(* block, in order, up to it or to one that failed, and they run on top of  *)
(* the block before.                                                        *)
ReplayInPlace ==
    applied # << >> =>
        \E n \in BlockOf(opt.network, opt.tx) :
            LET block == RemoteBlocks[opt.network][n]
            IN  /\ Len(applied) <= Len(block)
                /\ applied = SubSeq(block, 1, Len(applied))
                /\ \A i \in 1 .. Len(applied) - 1 : applied[i] # opt.tx
                /\ phase = "overridden" => fork.url = opt.network /\ fork.number + 1 = n

-----------------------------------------------------------------------------
(* Who is impersonated and who is rich is a store that is saved, brought    *)
(* back and renewed with the node: what eth_accounts lists and              *)
(* eth_sendTransaction lets through follows from what was asked for since.  *)
Bit(b) == IF b THEN 1 ELSE 0
Marks == Accounts \X {"impersonated", "rich"}
MarksOf(who, wealthy) ==
    [m \in Marks |-> Bit(m[1] \in (IF m[2] = "rich" THEN wealthy ELSE who))]
NoMarks == MarksOf({}, {})
Acting(who) == {a \in Accounts : CanAct(a, who)}

Register == INSTANCE KeyValueStore WITH
    Keys <- Marks,
    Values <- {0, 1},
    NewStores <- {[base |-> NoMarks, store |-> NoMarks],
                  [base |-> NoMarks, store |-> MarksOf({}, Wallets)]},
    base <- NoMarks,
    store <- MarksOf(Acting(impersonated), accounts),
    saved <- [i \in DOMAIN snapshots |->
                 MarksOf(Acting(snapshots[i].impersonated), snapshots[i].rich)]

Acts(a) == CanAct(a, impersonated)
Rewinds == reset_network \/ \E id \in DOMAIN snapshots : revert_snapshot(id)

(* But for a revert or a reset, an account starts and stops acting in a     *)
(* request that names it, for which the contracts must not be the local     *)
(* ones, and nobody gets rich or poor once the node serves.                 *)
AsAsked(a) ==
    /\ ~Acts(a) /\ Acts(a)' => impersonate_account(a) \/ Rewinds
    /\ Acts(a) /\ ~Acts(a)' => stop_impersonating_account(a) \/ Rewinds
    /\ impersonate_account(a) => (Acts(a)' <=> system_contracts_options # "Local")
    /\ stop_impersonating_account(a) => ~Acts(a)'
    /\ (a \in accounts' <=> a \in accounts) \/ Rewinds \/ Serve

(* Impersonation and wealth refine KeyValueStore, and the marks of an       *)
(* account are those the requests about it call for, of any number of       *)
(* accounts at a time: hardhat_stopImpersonatingAccount ends what its       *)
(* address has and that only.  (src/SUPPORTED_APIS.md:1630 knows of one     *)
(* impersonated account, cleared whatever address is given.)                *)
IsAccountRegister == Register!Spec /\ [][\A a \in Accounts : AsAsked(a)]_vars
=============================================================================
