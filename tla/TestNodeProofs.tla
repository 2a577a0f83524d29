--------------------------- MODULE TestNodeProofs ---------------------------
(***************************************************************************)
(* Proofs about TestNode, for every command line, configuration file and   *)
(* remote chain.                                                           *)
(***************************************************************************)
EXTENDS TestNode, SequenceTheorems, TLAPS

-----------------------------------------------------------------------------
(* The inductive invariant. *)

FeeValues == Urls \cup {"default", "cli", "file", "1.2", "1.3", "1.5", "2.0"}
Fees == [GasSettings \cup ChainParameters -> FeeValues]
Saves == [fees : Fees, impersonated : SUBSET Accounts, rich : SUBSET Accounts]

TypeInv ==
    /\ opt \in CommandLines
    /\ fork # None => fork.url \in Urls
    /\ fees \in Fees
    /\ impersonated \subseteq Accounts /\ rich \subseteq Accounts
    /\ snapshots \in Seq(Saves)
    /\ DOMAIN config = NodeSettings \cup LogSettings
    /\ gas \in [GasSettings -> {"cli", "file", None}]

(* Nobody acts, and nothing is saved, before the node serves. *)
QuietInv ==
    phase # "serving" => impersonated = {} /\ rich = {} /\ snapshots = << >>

(* The prices asked for are in gas once main has read them and in the fee   *)
(* model once there is a node, with the chain's other parameters; a         *)
(* snapshot has the fee model of the node.                                  *)
PriceInv ==
    /\ phase \notin {"start", "exited"} =>
          \A s \in GasSettings :
             gas[s] = IF s \in opt.given THEN "cli"
                      ELSE IF Loads(file) /\ s \in file.named THEN "file" ELSE None
    /\ phase \in {"created", "overridden", "serving"} =>
          /\ \A s \in GasSettings : gas[s] # None => fees[s] = gas[s]
          /\ \A p \in ChainParameters : fees[p] = ParametersOf(fork)
    /\ \A i \in DOMAIN snapshots : snapshots[i].fees = fees

SettingsInv ==
    phase \notin {"start", "exited"} =>
       /\ \A s \in DOMAIN config : s \notin by_api => config[s] = Precedence(s)
       /\ "log" \notin by_api => logging["era_test_node"] = Precedence("log")

(* block[last] is the replayed transaction; those before it have been       *)
(* applied, or are still to be, or will not be because one failed.          *)
Replays(block, last) ==
    /\ last \in DOMAIN block /\ block[last] = opt.tx
    /\ Len(applied) <= last
    /\ applied = SubSeq(block, 1, Len(applied))
    /\ to_replay \in {<< >>, SubSeq(block, Len(applied) + 1, last)}

ReplayInv ==
    /\ applied \in Seq({applied[i] : i \in DOMAIN applied})
    /\ opt.command # "replay_tx" \/ phase \in {"start", "configured"} =>
          applied = << >> /\ to_replay = << >>
    /\ opt.command = "replay_tx" /\ phase \in {"created", "overridden", "serving"} =>
          \E n \in BlockOf(opt.network, opt.tx) :
             /\ \E last \in DOMAIN RemoteBlocks[opt.network][n] :
                   Replays(RemoteBlocks[opt.network][n], last)
             /\ phase # "serving" => fork.url = opt.network /\ fork.number + 1 = n
    /\ phase \notin {"overridden", "serving"} => applied = << >>

NodeInv ==
    /\ phase \in {"start", "configured", "created", "overridden", "serving", "exited"}
    /\ TypeInv /\ QuietInv /\ PriceInv /\ SettingsInv /\ ReplayInv

-----------------------------------------------------------------------------
(* Fork points and prices. *)

(* A fork point as the constructors in fork.rs make it. *)
IsForkPoint(f) ==
    /\ f.fee_params \in Urls \cup {None}
    /\ f.factors[1] \in FeeValues /\ f.factors[2] \in FeeValues

LEMMA ForkPointMade ==
    ASSUME NEW network, network.url \in Urls, NEW n, NEW chain, NEW by,
           NEW f \in from_network_and_miniblock_and_chain(network, n, chain, by)
    PROVE  /\ IsForkPoint(f) /\ f.url = network.url /\ f.number = n
           /\ f.cache_config = by
<1>1. PICK params \in {None, network.url} :
        f = [url |-> network.url, number |-> n, overwrite_chain_id |-> chain,
             factors |-> local_gas_scale_factors(network),
             fee_params |-> params, cache_config |-> by]
  BY DEF from_network_and_miniblock_and_chain
<1>2. /\ f.factors = local_gas_scale_factors(network) /\ f.fee_params = params
      /\ f.url = network.url /\ f.number = n /\ f.cache_config = by
  BY <1>1
<1>3. /\ local_gas_scale_factors(network)[1] \in FeeValues
      /\ local_gas_scale_factors(network)[2] \in FeeValues
  BY DEF local_gas_scale_factors, FeeValues
<1> QED BY <1>2, <1>3 DEF IsForkPoint

(* Prices that are given beat those of the fork point, whose parameters     *)
(* nothing else beats.                                                      *)
LEMMA FeesMade ==
    ASSUME NEW f, f = None \/ IsForkPoint(f),
           NEW overrides, \A s \in GasSettings : overrides[s] \in FeeValues \cup {None}
    PROVE  /\ FeesOf(f, overrides) \in Fees
           /\ \A s \in GasSettings :
                 overrides[s] # None => FeesOf(f, overrides)[s] = overrides[s]
           /\ \A p \in ChainParameters : FeesOf(f, overrides)[p] = ParametersOf(f)
<1> DEFINE provider == IF f = None THEN DefaultFees
                       ELSE IF f.fee_params = None THEN from_estimate_scale_factors(f.factors)
                       ELSE from_fee_params_and_estimate_scale_factors(f.fee_params, f.factors)
<1>1. DefaultFees \in Fees
  BY DEF DefaultFees, Fees, GasSettings, ChainParameters, FeeValues
<1>2. provider \in Fees
  <2>1. CASE f = None
    BY <1>1, <2>1
  <2>2. CASE f # None /\ f.fee_params = None
    <3>1. from_estimate_scale_factors(f.factors) \in Fees
      BY <1>1, <2>2 DEF from_estimate_scale_factors, Fees, GasSettings, ChainParameters,
         IsForkPoint
    <3> QED BY <2>2, <3>1
  <2>3. CASE f # None /\ f.fee_params # None
    <3>1. f.fee_params \in FeeValues
      BY <2>3 DEF IsForkPoint, FeeValues
    <3>2. from_fee_params_and_estimate_scale_factors(f.fee_params, f.factors) \in Fees
      BY <2>3, <3>1 DEF from_fee_params_and_estimate_scale_factors, Fees, GasSettings,
         ChainParameters, IsForkPoint
    <3> QED BY <2>3, <3>2
  <2> QED BY <2>1, <2>2, <2>3
<1>3. FeesOf(f, overrides) = with_overrides(provider, overrides)
  BY DEF FeesOf
<1>4. \A p \in ChainParameters : provider[p] = ParametersOf(f)
  <2>1. \A p \in ChainParameters : p \in {"l1_pubdata_price", "overheads"}
    BY DEF ChainParameters
  <2>2. CASE f = None \/ f.fee_params = None
    <3>1. provider \in {DefaultFees, from_estimate_scale_factors(f.factors)}
      BY <2>2
    <3>2. /\ DefaultFees["l1_pubdata_price"] = "default"
          /\ DefaultFees["overheads"] = "default"
          /\ from_estimate_scale_factors(f.factors)["l1_pubdata_price"] = "default"
          /\ from_estimate_scale_factors(f.factors)["overheads"] = "default"
      BY DEF DefaultFees, from_estimate_scale_factors
    <3> QED BY <2>1, <2>2, <3>1, <3>2 DEF ParametersOf
  <2>3. CASE f # None /\ f.fee_params # None
    <3>1. provider = from_fee_params_and_estimate_scale_factors(f.fee_params, f.factors)
      BY <2>3
    <3> QED BY <2>1, <2>3, <3>1 DEF ParametersOf, from_fee_params_and_estimate_scale_factors
  <2> QED BY <2>2, <2>3
<1>5. \A p \in ChainParameters : p \notin GasSettings
  BY DEF ChainParameters, GasSettings
<1> HIDE DEF provider
<1> QED BY <1>2, <1>3, <1>4, <1>5 DEF with_overrides, Fees

(* No price is none. *)
LEMMA PricesAreGiven ==
    None \notin FeeValues
  BY NoneAssumption DEF FeeValues

(* A block that holds a transaction, once. *)
HoldsOnce(block, tx) ==
    /\ block \in Seq({block[i] : i \in DOMAIN block})
    /\ \A i, j \in DOMAIN block : block[i] = block[j] => i = j
    /\ \E i \in DOMAIN block : block[i] = tx

(* Where a transaction is: in one block, which is not genesis.              *)
LEMMA OneBlock ==
    ASSUME NEW url, url \in Urls, NEW tx, NEW n, n \in BlockOf(url, tx),
           NEW block, block = RemoteBlocks[url][n]
    PROVE  /\ n \in Nat /\ n # 0
           /\ HoldsOnce(block, tx)
           /\ \A m \in BlockOf(url, tx) : m = n
<1> DEFINE chain == RemoteBlocks[url]
<1>1. /\ \A m \in DOMAIN chain :
            m \in Nat /\ chain[m] \in Seq({chain[m][i] : i \in DOMAIN chain[m]})
      /\ 0 \in DOMAIN chain => chain[0] = << >>
      /\ \A m, o \in DOMAIN chain : \A i \in DOMAIN chain[m], j \in DOMAIN chain[o] :
            chain[m][i] = chain[o][j] => m = o /\ i = j
  BY RemoteAssumption
<1>2. \A m \in BlockOf(url, tx) :
         m \in DOMAIN chain /\ \E i \in DOMAIN chain[m] : chain[m][i] = tx
  BY DEF BlockOf
<1>3. block = chain[n]
  OBVIOUS
<1> HIDE DEF chain
<1>4. n # 0
  <2>1. DOMAIN << >> = {}
    OBVIOUS
  <2> QED BY <1>1, <1>2, <2>1
<1>5. \A m \in BlockOf(url, tx) : m = n
  BY <1>1, <1>2
<1>6. HoldsOnce(block, tx)
  BY <1>1, <1>2, <1>3 DEF HoldsOnce
<1> QED BY <1>1, <1>2, <1>4, <1>5, <1>6

(* The fork points main and hardhat_reset can be given. *)
LEMMA ResetPointMade ==
    ASSUME TypeInv, NEW f \in ResetPoints, f # None
    PROVE  IsForkPoint(f) /\ f.cache_config = get_cache_config /\ f.url \in Urls
<1>1. PICK url \in Urls : \E n : f \in from_url(url, n, get_cache_config)
  BY DEF ResetPoints, TypeInv
<1>2. [kind |-> "other", url |-> url].url = url
  OBVIOUS
<1> QED BY <1>1, <1>2, ForkPointMade DEF from_url

-----------------------------------------------------------------------------
(* Starting the node. *)

(* The log file's filter starts with the level asked for. *)
LEMMA FilterStarts ==
    ASSUME NEW level, level # None
    PROVE  init_filter(level)["era_test_node"] = level
<1> DEFINE ds == [i \in DOMAIN binary_names |-> [name |-> binary_names[i], level |-> level]]
<1>1. DOMAIN binary_names = {1} /\ binary_names[1] = "era_test_node"
  BY DEF binary_names
<1>2. DOMAIN ds = {1} /\ ds[1].name = "era_test_node" /\ ds[1].level = level
  BY <1>1
<1>3. init_filter(level) = parse_filter(ds)
  BY DEF init_filter
<1> HIDE DEF ds
<1>4. {ds[i].name : i \in DOMAIN ds} = {"era_test_node"}
  BY <1>2
<1>5. (CHOOSE i \in DOMAIN ds :
          /\ ds[i].name = "era_test_node"
          /\ \A j \in DOMAIN ds : ds[j].name = "era_test_node" => j <= i) = 1
  BY <1>2
<1> QED BY <1>2, <1>3, <1>4, <1>5 DEF parse_filter

(* try_load and override_with_opts put every value where Precedence says.   *)
LEMMA OptionsRead ==
    LET read == override_with_opts(try_load(file))
    IN  /\ DOMAIN read.config = NodeSettings \cup LogSettings
        /\ \A s \in DOMAIN read.config : read.config[s] = Precedence(s)
        /\ read.gas \in [GasSettings -> {"cli", "file", None}]
        /\ \A s \in GasSettings :
              read.gas[s] = IF s \in opt.given THEN "cli"
                            ELSE IF Loads(file) /\ s \in file.named THEN "file" ELSE None
<1> DEFINE loaded == try_load(file)
           read == override_with_opts(loaded)
<1>1. /\ loaded.config = [s \in NodeSettings \cup LogSettings |->
                             IF Loads(file) THEN "file" ELSE "default"]
      /\ loaded.gas = [s \in GasSettings |->
                          IF Loads(file) /\ s \in file.named THEN "file" ELSE None]
  BY DEF try_load
<1> HIDE DEF loaded
<1>2. /\ read.config = [s \in NodeSettings \cup LogSettings |->
                           IF s \in opt.given THEN "cli"
                           ELSE IF opt.debug_mode /\ s \in DebugSettings THEN "debug"
                           ELSE loaded.config[s]]
      /\ read.gas = [s \in GasSettings |->
                        IF s \in opt.given THEN "cli" ELSE loaded.gas[s]]
  BY DEF override_with_opts
<1> HIDE DEF read
<1>3. /\ DOMAIN read.config = NodeSettings \cup LogSettings
      /\ \A s \in DOMAIN read.config : read.config[s] = Precedence(s)
  BY <1>1, <1>2 DEF Precedence
<1>4. /\ DOMAIN read.gas = GasSettings
      /\ \A s \in GasSettings :
            read.gas[s] = IF s \in opt.given THEN "cli"
                          ELSE IF Loads(file) /\ s \in file.named THEN "file" ELSE None
  BY <1>1, <1>2
<1>5. read.gas \in [GasSettings -> {"cli", "file", None}]
  <2>1. read.gas = [s \in GasSettings |-> read.gas[s]]
    BY <1>2
  <2> QED BY <1>4, <2>1
<1> QED BY <1>3, <1>4, <1>5 DEF read, loaded

LEMMA ConfigureKeeps ==
    ASSUME NodeInv, Configure
    PROVE  NodeInv'
<1> USE DEF NodeInv
<1> DEFINE read == override_with_opts(try_load(file))
<1>1. /\ DOMAIN read.config = NodeSettings \cup LogSettings
      /\ \A s \in DOMAIN read.config : read.config[s] = Precedence(s)
      /\ read.gas \in [GasSettings -> {"cli", "file", None}]
      /\ \A s \in GasSettings :
            read.gas[s] = IF s \in opt.given THEN "cli"
                          ELSE IF Loads(file) /\ s \in file.named THEN "file" ELSE None
  BY OptionsRead
<1> HIDE DEF read
<1>2. /\ phase = "start"
      /\ UNCHANGED << opt, file, fork, fees, chain_id, impersonated, rich, to_replay,
                      applied, snapshots, by_api >>
      /\ \/ /\ config' = read.config /\ gas' = read.gas /\ cache' = read.cache
            /\ logging' = init_filter(read.config["log"])
            /\ phase' = "configured"
         \/ phase' = "exited" /\ UNCHANGED << config, gas, cache, logging >>
  BY DEF Configure, Exit, read, start, node, replay, settings
<1>3. /\ "log" \in NodeSettings \cup LogSettings
      /\ Precedence("log") # None
  BY NoneAssumption DEF LogSettings, Precedence
<1>4. init_filter(read.config["log"])["era_test_node"] = Precedence("log")
  <2>1. read.config["log"] = Precedence("log")
    BY <1>1, <1>3
  <2> QED BY <1>3, <2>1, FilterStarts
<1>5. TypeInv'
  BY <1>1, <1>2 DEF TypeInv
<1>6. QuietInv'
  BY <1>2 DEF QuietInv
<1>7. PriceInv'
  BY <1>1, <1>2 DEF PriceInv
<1>8. SettingsInv'
  BY <1>1, <1>2, <1>4 DEF SettingsInv, Precedence
<1>9. ReplayInv'
  BY <1>2 DEF ReplayInv
<1> QED BY <1>2, <1>5, <1>6, <1>7, <1>8, <1>9

(* The fork point main makes the node with, and the transactions to replay. *)
LEMMA CreateKeeps ==
    ASSUME NodeInv, Create
    PROVE  NodeInv'
<1> USE DEF NodeInv
<1>1. /\ phase = "configured" /\ phase' = "created"
      /\ UNCHANGED << opt, file, config, gas, cache, rich, applied, logging, snapshots,
                      by_api >>
  BY DEF Create, start, settings
<1>2. PICK f \in ForkPoints :
        /\ fork' = f /\ fees' = FeesOf(f, gas) /\ impersonated' = {}
        /\ to_replay' = IF opt.command = "replay_tx"
                        THEN get_earlier_transactions_in_same_block(f.url, opt.tx)
                        ELSE << >>
  BY DEF Create, new
<1>3. opt \in CommandLines /\ opt.command \in {"run", "fork", "replay_tx"}
      /\ (opt.command # "run" => opt.network \in Urls)
  BY CommandLineAssumption DEF TypeInv
<1>4. fork_network(opt.network).url = opt.network
  BY DEF fork_network
<1>5. CASE opt.command = "run"
  <2>1. f = None
    BY <1>2, <1>5 DEF ForkPoints
  <2>2. /\ TypeInv' /\ \A s \in GasSettings : gas[s] # None => fees'[s] = gas[s]
        /\ \A p \in ChainParameters : fees'[p] = ParametersOf(fork')
    <3>1. \A s \in GasSettings : gas[s] \in FeeValues \cup {None}
      BY DEF TypeInv, FeeValues
    <3>2. /\ FeesOf(f, gas) \in Fees
          /\ \A s \in GasSettings : gas[s] # None => FeesOf(f, gas)[s] = gas[s]
          /\ \A p \in ChainParameters : FeesOf(f, gas)[p] = ParametersOf(f)
      BY <2>1, <3>1, FeesMade
    <3>3. \A p \in ChainParameters : fees'[p] = ParametersOf(fork')
      BY <1>2, <3>2
    <3>4. TypeInv'
      BY <1>1, <1>2, <2>1, <3>2 DEF TypeInv
    <3> QED BY <1>2, <3>2, <3>3, <3>4
  <2>3. snapshots = << >>
    BY <1>1 DEF QuietInv
  <2>4. QuietInv' /\ PriceInv' /\ SettingsInv'
    BY <1>1, <1>2, <2>2, <2>3 DEF QuietInv, PriceInv, SettingsInv, Precedence
  <2>5. ReplayInv'
    BY <1>1, <1>2, <1>5 DEF ReplayInv
  <2> QED BY <1>1, <2>2, <2>4, <2>5
<1>6. CASE opt.command # "run"
  <2>1. /\ IsForkPoint(f) /\ f.url = opt.network /\ opt.network \in Urls
        /\ opt.command = "replay_tx" =>
              \E n \in BlockOf(opt.network, opt.tx) :
                  f.number = IF n = 0 THEN 0 ELSE n - 1
    <3>1. CASE opt.command = "fork"
      BY <1>2, <1>3, <1>4, <3>1, ForkPointMade DEF ForkPoints, from_network
    <3>2. CASE opt.command = "replay_tx"
      <4>1. PICK n \in BlockOf(opt.network, opt.tx) :
               f \in from_network_and_miniblock_and_chain(
                        fork_network(opt.network), IF n = 0 THEN 0 ELSE n - 1,
                        opt.network, cache)
        BY <1>2, <3>2 DEF ForkPoints, from_network_tx
      <4> QED BY <1>3, <1>4, <3>2, <4>1, ForkPointMade
    <3> QED BY <1>3, <1>6, <3>1, <3>2
  <2>2. /\ TypeInv' /\ \A s \in GasSettings : gas[s] # None => fees'[s] = gas[s]
        /\ \A p \in ChainParameters : fees'[p] = ParametersOf(fork')
    <3>1. \A s \in GasSettings : gas[s] \in FeeValues \cup {None}
      BY DEF TypeInv, FeeValues
    <3>2. /\ FeesOf(f, gas) \in Fees
          /\ \A s \in GasSettings : gas[s] # None => FeesOf(f, gas)[s] = gas[s]
          /\ \A p \in ChainParameters : FeesOf(f, gas)[p] = ParametersOf(f)
      BY <2>1, <3>1, FeesMade
    <3>3. \A p \in ChainParameters : fees'[p] = ParametersOf(fork')
      BY <1>2, <3>2
    <3>4. TypeInv'
      BY <1>1, <1>2, <2>1, <3>2 DEF TypeInv
    <3> QED BY <1>2, <3>2, <3>3, <3>4
  <2>3. snapshots = << >>
    BY <1>1 DEF QuietInv
  <2>4. QuietInv' /\ PriceInv' /\ SettingsInv'
    BY <1>1, <1>2, <2>2, <2>3 DEF QuietInv, PriceInv, SettingsInv, Precedence
  <2>5. applied = << >>
    BY <1>1 DEF ReplayInv
  <2>6. CASE opt.command = "replay_tx"
    <3>1. PICK url, tx : url = opt.network /\ tx = opt.tx
      OBVIOUS
    <3>2. PICK n : n \in BlockOf(url, tx) /\ f.number = IF n = 0 THEN 0 ELSE n - 1
      BY <2>1, <2>6, <3>1
    <3>3. PICK block : block = RemoteBlocks[url][n]
      OBVIOUS
    <3>4. url \in Urls
      BY <2>1, <3>1
    <3>5. /\ n \in Nat /\ n # 0
          /\ HoldsOnce(block, tx)
          /\ \A m \in BlockOf(url, tx) : m = n
      BY <3>2, <3>3, <3>4, OneBlock
    <3>6. (CHOOSE b \in BlockOf(url, tx) : TRUE) = n
      BY <3>2, <3>5
    <3>7. PICK last \in DOMAIN block : block[last] = tx
      BY <3>5 DEF HoldsOnce
    <3>8. (CHOOSE i \in DOMAIN block : block[i] = tx) = last
      BY <3>5, <3>7 DEF HoldsOnce
    <3>9. to_replay' = SubSeq(block, 1, last)
      <4>1. get_earlier_transactions_in_same_block(url, tx) = SubSeq(block, 1, last)
        BY <3>3, <3>6, <3>8 DEF get_earlier_transactions_in_same_block
      <4> QED BY <1>2, <2>1, <2>6, <3>1, <4>1
    <3>10. Len(block) \in Nat /\ DOMAIN block = 1 .. Len(block)
      BY <3>5, LenProperties DEF HoldsOnce
    <3>11. Replays(block, last)'
      <4>1. Len(<< >>) = 0 /\ SubSeq(block, 1, 0) = << >>
        BY <3>5, SubSeqProperties DEF HoldsOnce
      <4> QED BY <1>1, <2>5, <3>1, <3>7, <3>9, <3>10, <4>1 DEF Replays
    <3>12. fork'.url = opt'.network /\ fork'.number + 1 = n
      BY <1>1, <1>2, <2>1, <3>2, <3>5
    <3>13. /\ applied' = << >> /\ applied' \in Seq({applied'[i] : i \in DOMAIN applied'})
           /\ opt' = opt
      BY <1>1, <2>5 DEF ReplayInv
    <3>14. block = RemoteBlocks[opt'.network][n] /\ n \in BlockOf(opt'.network, opt'.tx)
      BY <3>1, <3>2, <3>3, <3>13
    <3>15. ReplayInv'
      BY <1>1, <2>6, <3>7, <3>11, <3>12, <3>13, <3>14 DEF ReplayInv
    <3> QED BY <1>1, <2>2, <2>4, <3>15
  <2>7. CASE opt.command # "replay_tx"
    <3>1. ReplayInv'
      BY <1>1, <1>2, <2>5, <2>7 DEF ReplayInv
    <3> QED BY <1>1, <2>2, <2>4, <3>1
  <2> QED BY <2>6, <2>7
<1> QED BY <1>5, <1>6

(* A sequence is one of its own elements. *)
LEMMA OwnRange ==
    ASSUME NEW S, NEW s \in Seq(S)
    PROVE  s \in Seq({s[i] : i \in DOMAIN s})
<1> DEFINE R == {s[i] : i \in DOMAIN s}
<1>1. Len(s) \in Nat /\ DOMAIN s = 1 .. Len(s) /\ s = [i \in 1 .. Len(s) |-> s[i]]
  BY LenProperties
<1>2. \A i \in 1 .. Len(s) : s[i] \in R
  BY <1>1
<1> HIDE DEF R
<1>3. s \in [1 .. Len(s) -> R]
  BY <1>1, <1>2
<1>4. s \in Seq(R)
  BY <1>1, <1>3
<1> QED BY <1>4 DEF R

(* Without a chain to fork, or with bytecodes that cannot be used, main     *)
(* ends; with nothing left to replay, it serves.                            *)
LEMMA StartKeeps ==
    ASSUME NodeInv, CannotFork \/ OverrideBytecodes \/ Serve
    PROVE  NodeInv'
<1> USE DEF NodeInv
<1>1. /\ UNCHANGED << opt, file, config, gas, cache, fork, fees, chain_id, impersonated,
                      to_replay, applied, logging, snapshots, by_api >>
      /\ \/ phase = "configured" /\ phase' = "exited" /\ rich' = rich
         \/ phase = "created" /\ phase' \in {"overridden", "exited"} /\ rich' = rich
         \/ phase = "overridden" /\ phase' = "serving" /\ rich' = Wallets
  BY DEF CannotFork, OverrideBytecodes, Serve, Exit, start, settings, node, replay
<1>2. TypeInv'
  <2>1. rich' \subseteq Accounts
    BY <1>1 DEF TypeInv, Accounts
  <2> QED BY <1>1, <2>1 DEF TypeInv
<1>3. QuietInv'
  BY <1>1 DEF QuietInv
<1>4. PriceInv'
  BY <1>1 DEF PriceInv
<1>5. SettingsInv'
  BY <1>1 DEF SettingsInv, Precedence
<1>6. ReplayInv'
  BY <1>1 DEF ReplayInv, Replays
<1> QED BY <1>1, <1>2, <1>3, <1>4, <1>5, <1>6

(* A transaction is applied, or fails and is the last one tried. *)
LEMMA ApplyTxKeeps ==
    ASSUME NodeInv, ApplyTx
    PROVE  NodeInv'
<1> USE DEF NodeInv
<1>1. /\ UNCHANGED << opt, file, phase, config, gas, cache, fork, fees, chain_id,
                      impersonated, rich, logging, snapshots, by_api >>
      /\ phase = "overridden" /\ to_replay # << >>
      /\ \/ applied' = Append(applied, Head(to_replay)) /\ to_replay' = Tail(to_replay)
         \/ applied' = applied /\ to_replay' = << >>
  BY DEF ApplyTx, start, settings, node
<1>2. TypeInv' /\ QuietInv' /\ PriceInv' /\ SettingsInv'
  BY <1>1 DEF TypeInv, QuietInv, PriceInv, SettingsInv, Precedence
<1>3. opt.command = "replay_tx"
  BY <1>1 DEF ReplayInv
<1>4. PICK url, tx : url = opt.network /\ tx = opt.tx
  OBVIOUS
<1>5. PICK n : /\ n \in BlockOf(url, tx)
               /\ \E last \in DOMAIN RemoteBlocks[url][n] :
                     Replays(RemoteBlocks[url][n], last)
               /\ fork.url = url /\ fork.number + 1 = n
  BY <1>1, <1>3, <1>4 DEF ReplayInv
<1>6. PICK block : block = RemoteBlocks[url][n]
  OBVIOUS
<1>7. PICK last \in DOMAIN block : Replays(block, last)
  BY <1>5, <1>6
<1>8. url \in Urls
  BY <1>3, <1>4, CommandLineAssumption DEF TypeInv
<1>9. block \in Seq({block[i] : i \in DOMAIN block})
  <2>1. n \in BlockOf(url, tx)
    BY <1>5
  <2>2. HoldsOnce(block, tx)
    BY <2>1, <1>6, <1>8, OneBlock
  <2> QED BY <2>2 DEF HoldsOnce
<1>10. PICK S : S = {block[i] : i \in DOMAIN block}
  OBVIOUS
<1>11. block \in Seq(S) /\ Len(block) \in Nat /\ DOMAIN block = 1 .. Len(block)
  BY <1>9, <1>10, LenProperties
<1>12. PICK a : a = Len(applied)
  OBVIOUS
<1>13. /\ a \in Nat /\ last \in 1 .. Len(block)
       /\ applied = SubSeq(block, 1, a) /\ a <= last
       /\ to_replay = SubSeq(block, a + 1, last)
  BY <1>1, <1>7, <1>11, <1>12, LenProperties DEF ReplayInv, Replays
<1>14. CASE applied' = applied /\ to_replay' = << >>
  <2>1. Replays(block, last)'
    BY <1>1, <1>7, <1>14 DEF Replays
  <2>2. ReplayInv'
    BY <1>1, <1>3, <1>4, <1>5, <1>6, <1>7, <1>14, <2>1 DEF ReplayInv
  <2> QED BY <1>1, <1>2, <2>2
<1>15. CASE applied' = Append(applied, Head(to_replay)) /\ to_replay' = Tail(to_replay)
  <2>1. /\ to_replay \in Seq(S)
        /\ Len(to_replay) = last - a /\ a < last
        /\ \A i \in 1 .. last - a : to_replay[i] = block[a + i]
    <3>1. SubSeq(block, a + 1, last) = [i \in 1 .. last - a |-> block[a + i]]
      BY <1>11, <1>13
    <3>2. to_replay \in Seq(S) /\ Len(to_replay) = last - a
      BY <1>11, <1>13, <3>1, SubSeqProperties
    <3>3. a < last
      BY <1>1, <1>13, <3>2, EmptySeq
    <3> QED BY <1>13, <3>1, <3>2, <3>3
  <2>2. Head(to_replay) = block[a + 1]
    BY <1>13, <2>1
  <2>3. applied' = SubSeq(block, 1, a + 1) /\ Len(applied') = a + 1
    BY <1>11, <1>13, <1>15, <2>1, <2>2
  <2>4. to_replay' = SubSeq(block, a + 2, last)
    BY <1>11, <1>13, <1>15, <2>1
  <2>5. Replays(block, last)'
    BY SMTT(30), <1>1, <1>7, <1>13, <2>1, <2>3, <2>4 DEF Replays
  <2>6. applied' \in Seq({applied'[i] : i \in DOMAIN applied'})
    <3>1. applied' \in Seq(S)
      BY <1>11, <1>13, <2>1, <2>3, SubSeqProperties
    <3> QED BY <3>1, OwnRange
  <2>7. ReplayInv'
    BY <1>1, <1>3, <1>4, <1>5, <1>6, <1>7, <2>5, <2>6 DEF ReplayInv
  <2> QED BY <1>1, <1>2, <2>7
<1> QED BY <1>1, <1>14, <1>15

-----------------------------------------------------------------------------
(* Requests. *)

(* No request starts anything or replays anything. *)
LEMMA RequestsOnly ==
    ASSUME NodeInv, phase = "serving", phase' = phase,
           UNCHANGED << opt, file, to_replay, applied >>
    PROVE  /\ phase' \in {"start", "configured", "created", "overridden", "serving", "exited"}
           /\ QuietInv' /\ ReplayInv'
  BY DEF NodeInv, QuietInv, ReplayInv, Replays

LEMMA ConfigMethodsKeep ==
    ASSUME NodeInv,
           (\E s \in ApiSettings : config_set(s)) \/ config_set_log_level \/ config_set_logging
    PROVE  NodeInv'
<1> USE DEF NodeInv
<1>1. PICK s \in ApiSettings \cup {"log"} :
        /\ phase = "serving" /\ phase' = phase /\ by_api' = by_api \cup {s}
        /\ UNCHANGED << opt, file, gas, cache, fork, fees, chain_id, impersonated, rich,
                        to_replay, applied, snapshots >>
        /\ \/ config' = [config EXCEPT ![s] = "api"] /\ logging' = logging
           \/ config' = config /\ s = "log"
  BY DEF config_set, config_set_log_level, config_set_logging, Changing, start, settings,
         node, replay
<1>2. QuietInv' /\ ReplayInv'
  BY <1>1, RequestsOnly
<1>3. TypeInv' /\ PriceInv'
  BY <1>1 DEF TypeInv, PriceInv
<1>4. SettingsInv'
  <2>1. \A r \in DOMAIN config' : r \notin by_api' => config'[r] = Precedence(r)
    BY <1>1 DEF SettingsInv, TypeInv
  <2>2. \A r : Precedence(r)' = Precedence(r)
    BY <1>1 DEF Precedence
  <2>3. "log" \notin by_api' => logging'["era_test_node"] = Precedence("log")
    BY <1>1 DEF SettingsInv
  <2> QED BY <2>1, <2>2, <2>3 DEF SettingsInv
<1> QED BY <1>1, <1>2, <1>3, <1>4

LEMMA ImpersonationKeeps ==
    ASSUME NodeInv, ImpersonationMethods
    PROVE  NodeInv'
<1> USE DEF NodeInv
<1>1. PICK a \in Accounts :
        /\ phase = "serving" /\ phase' = phase
        /\ impersonated' = impersonated \cup {a} \/ impersonated' = impersonated \ {a}
        /\ UNCHANGED << opt, file, config, gas, cache, fork, fees, chain_id, rich,
                        to_replay, applied, logging, snapshots, by_api >>
  BY DEF ImpersonationMethods, impersonate_account, stop_impersonating_account, start,
         settings, replay
<1>2. QuietInv' /\ ReplayInv'
  BY <1>1, RequestsOnly
<1>3. TypeInv' /\ PriceInv' /\ SettingsInv'
  BY <1>1 DEF TypeInv, PriceInv, SettingsInv, Precedence
<1> QED BY <1>1, <1>2, <1>3

(* A snapshot holds the prices of the node, and a revert brings them back. *)
LEMMA SnapshotsKeep ==
    ASSUME NodeInv, snapshot \/ \E id \in DOMAIN snapshots : revert_snapshot(id)
    PROVE  NodeInv'
<1> USE DEF NodeInv
<1>1. /\ phase = "serving" /\ phase' = phase
      /\ UNCHANGED << opt, file, config, gas, cache, fork, to_replay, applied, logging,
                      by_api >>
  BY DEF snapshot, revert_snapshot, start, settings, node, replay
<1>2. QuietInv' /\ ReplayInv'
  BY <1>1, RequestsOnly
<1>3. snapshots \in Seq(Saves) /\ Len(snapshots) \in Nat /\ DOMAIN snapshots = 1 .. Len(snapshots)
  BY LenProperties DEF TypeInv
<1>4. SettingsInv'
  BY <1>1 DEF SettingsInv, Precedence
<1>5. /\ fees' \in Fees /\ impersonated' \subseteq Accounts /\ rich' \subseteq Accounts
      /\ snapshots' \in Seq(Saves)
      /\ fees' = fees
      /\ \A i \in DOMAIN snapshots' : snapshots'[i].fees = fees
  <2>1. CASE snapshot
    <3> DEFINE save == [fees |-> fees, impersonated |-> impersonated, rich |-> rich]
    <3>1. save \in Saves /\ save.fees = fees
      BY DEF TypeInv, Saves
    <3>2. /\ snapshots' = Append(snapshots, save)
          /\ UNCHANGED << fees, impersonated, rich >>
      BY <2>1 DEF snapshot, node
    <3> HIDE DEF save
    <3>3. /\ snapshots' \in Seq(Saves) /\ DOMAIN snapshots' = 1 .. Len(snapshots) + 1
          /\ \A i \in 1 .. Len(snapshots) : snapshots'[i] = snapshots[i]
          /\ snapshots'[Len(snapshots) + 1] = save
      BY <1>3, <3>1, <3>2, AppendProperties, LenProperties
    <3>4. \A i \in DOMAIN snapshots' :
             \/ snapshots'[i] = save
             \/ i \in DOMAIN snapshots /\ snapshots'[i] = snapshots[i]
      BY <1>3, <3>3
    <3> QED BY <3>1, <3>2, <3>3, <3>4 DEF TypeInv, PriceInv
  <2>2. CASE \E id \in DOMAIN snapshots : revert_snapshot(id)
    <3>1. PICK id \in DOMAIN snapshots :
             /\ fees' = snapshots[id].fees /\ impersonated' = snapshots[id].impersonated
             /\ rich' = snapshots[id].rich
             /\ snapshots' = SubSeq(snapshots, 1, id - 1)
      BY <2>2 DEF revert_snapshot, restore_snapshot
    <3>2. snapshots[id] \in Saves
      BY <1>3, ElementOfSeq
    <3>3. /\ snapshots' \in Seq(Saves) /\ DOMAIN snapshots' = 1 .. id - 1
          /\ \A i \in 1 .. id - 1 : snapshots'[i] = snapshots[i]
      BY <1>3, <3>1, SubSeqProperties, LenProperties
    <3>4. \A i \in DOMAIN snapshots' : i \in DOMAIN snapshots /\ snapshots'[i] = snapshots[i]
      BY <1>3, <3>3
    <3> QED BY <3>1, <3>2, <3>3, <3>4 DEF PriceInv, Saves
  <2> QED BY <2>1, <2>2
<1>6. TypeInv' /\ PriceInv'
  BY <1>1, <1>5 DEF TypeInv, PriceInv
<1> QED BY <1>1, <1>2, <1>4, <1>6

(* A reset overrides the prices of the new chain with those it has. *)
LEMMA ResetMade ==
    ASSUME NodeInv, reset_network
    PROVE  /\ fork' \in ResetPoints
           /\ fork' # None => fork'.url \in Urls /\ fork'.cache_config = get_cache_config
           /\ fees' \in Fees
           /\ \A s \in GasSettings : fees'[s] = fees[s]
           /\ \A p \in ChainParameters : fees'[p] = ParametersOf(fork')
           /\ impersonated' = {} /\ rich' = Wallets /\ snapshots' = << >>
           /\ phase = "serving" /\ phase' = phase
           /\ UNCHANGED << opt, file, config, gas, cache, to_replay, applied, logging, by_api >>
<1> USE DEF NodeInv
<1>1. /\ fork' \in ResetPoints /\ fees' = FeesOf(fork', get_gas_values)
      /\ impersonated' = {} /\ rich' = Wallets /\ snapshots' = << >>
      /\ phase = "serving" /\ phase' = phase
      /\ UNCHANGED << opt, file, config, gas, cache, to_replay, applied, logging, by_api >>
  BY DEF reset_network, new, start, settings, replay
<1>2. PICK f : f = fork'
  OBVIOUS
<1>3. /\ f = None \/ IsForkPoint(f)
      /\ f # None => f.url \in Urls /\ f.cache_config = get_cache_config
  BY <1>1, <1>2, ResetPointMade
<1>4. \A s \in GasSettings : get_gas_values[s] = fees[s] /\ fees[s] \in FeeValues
  BY DEF get_gas_values, TypeInv, Fees
<1>5. PICK kept : kept = get_gas_values
  OBVIOUS
<1>6. /\ FeesOf(f, kept) \in Fees
      /\ \A s \in GasSettings : kept[s] # None => FeesOf(f, kept)[s] = kept[s]
      /\ \A p \in ChainParameters : FeesOf(f, kept)[p] = ParametersOf(f)
  BY <1>3, <1>4, <1>5, FeesMade
<1>7. \A s \in GasSettings : fees[s] # None
  BY <1>4, PricesAreGiven
<1> QED BY <1>1, <1>2, <1>3, <1>4, <1>5, <1>6, <1>7

LEMMA ResetKeeps ==
    ASSUME NodeInv, reset_network
    PROVE  NodeInv'
<1> USE DEF NodeInv
<1>1. QuietInv' /\ ReplayInv'
  BY ResetMade, RequestsOnly
<1>2. TypeInv' /\ PriceInv'
  <2>1. DOMAIN << >> = {} /\ << >> \in Seq(Saves) /\ Wallets \subseteq Accounts
    BY EmptySeq DEF Accounts
  <2> QED BY <2>1, ResetMade DEF TypeInv, PriceInv
<1>3. SettingsInv'
  BY ResetMade DEF SettingsInv, Precedence
<1> QED BY <1>1, <1>2, <1>3, ResetMade

-----------------------------------------------------------------------------
(* Every state of the node. *)

LEMMA NodeInit ==
    ASSUME Init
    PROVE  NodeInv
<1>1. DefaultFees \in Fees
  BY DEF DefaultFees, Fees, GasSettings, ChainParameters, FeeValues
<1>2. TypeInv
  BY <1>1, EmptySeq DEF Init, TypeInv
<1>3. << >> \in Seq({<< >>[i] : i \in DOMAIN << >>})
  BY EmptySeq
<1> QED BY <1>2, <1>3 DEF Init, NodeInv, QuietInv, PriceInv, SettingsInv, ReplayInv

LEMMA NodeStep ==
    ASSUME NodeInv, [Next]_vars
    PROVE  NodeInv'
<1>1. CASE UNCHANGED vars
  BY <1>1 DEF vars, start, settings, node, replay, NodeInv, TypeInv, QuietInv, PriceInv,
         SettingsInv, Precedence, ReplayInv, Replays
<1>2. CASE Next
  BY <1>2, ConfigureKeeps, CreateKeeps, StartKeeps, ApplyTxKeeps, ConfigMethodsKeep,
     ImpersonationKeeps, SnapshotsKeep, ResetKeeps DEF Next
<1> QED BY <1>1, <1>2

LEMMA NodeAlways ==
    Spec => []NodeInv
  BY NodeInit, NodeStep, PTL DEF Spec

-----------------------------------------------------------------------------
(* The results. *)

(* Whatever is replayed, reverted or reset, a setting has the value its     *)
(* options, debug mode or the file call for until a config_ method changes  *)
(* it, and the prices of the command line and the file beat those of any    *)
(* chain the node is put on.                                                *)
THEOREM OptionsAlwaysWin == Spec => []OptionsWin
<1>1. NodeInv => OptionsWin
  <2> SUFFICES ASSUME NodeInv PROVE OptionsWin
    OBVIOUS
  <2> USE DEF NodeInv
  <2>1. phase \in {"created", "overridden", "serving"} =>
           \A s \in GasSettings :
              /\ s \in opt.given => fees[s] = "cli"
              /\ s \notin opt.given /\ Loads(file) /\ s \in file.named => fees[s] = "file"
    BY NoneAssumption DEF PriceInv
  <2> QED BY <2>1 DEF OptionsWin, SettingsInv
<1> QED BY <1>1, NodeAlways, PTL

(* What main applies is the beginning of the replayed transaction's block,  *)
(* which does not go past it, on a fork of the block before.                *)
THEOREM ReplaysInPlace == Spec => []ReplayInPlace
<1>1. NodeInv => ReplayInPlace
  <2> SUFFICES ASSUME NodeInv, applied # << >> PROVE ReplayInPlace
    BY DEF ReplayInPlace
  <2> USE DEF NodeInv
  <2>1. opt.command = "replay_tx" /\ phase \in {"overridden", "serving"}
    BY DEF ReplayInv
  <2>2. PICK url, tx : url = opt.network /\ tx = opt.tx
    OBVIOUS
  <2>3. PICK n : /\ n \in BlockOf(url, tx)
                 /\ \E last \in DOMAIN RemoteBlocks[url][n] :
                       Replays(RemoteBlocks[url][n], last)
                 /\ phase # "serving" => fork.url = url /\ fork.number + 1 = n
    BY <2>1, <2>2 DEF ReplayInv
  <2>4. PICK block : block = RemoteBlocks[url][n]
    OBVIOUS
  <2>5. PICK last \in DOMAIN block : Replays(block, last)
    BY <2>3, <2>4
  <2>6. url \in Urls /\ n \in BlockOf(url, tx)
    BY <2>1, <2>2, <2>3, CommandLineAssumption DEF TypeInv
  <2>7. HoldsOnce(block, tx)
    BY <2>4, <2>6, OneBlock
  <2>8. PICK S : S = {block[i] : i \in DOMAIN block}
    OBVIOUS
  <2>9. block \in Seq(S) /\ Len(block) \in Nat /\ DOMAIN block = 1 .. Len(block)
    BY <2>7, <2>8, LenProperties DEF HoldsOnce
  <2>10. PICK a : a = Len(applied)
    OBVIOUS
  <2>11. /\ a \in Nat /\ last \in 1 .. Len(block) /\ block[last] = tx
         /\ a <= last /\ applied = SubSeq(block, 1, a)
    BY <2>2, <2>5, <2>9, <2>10, LenProperties DEF ReplayInv, Replays
  <2>12. a <= Len(block)
    BY <2>9, <2>11
  <2>13. \A i \in 1 .. a - 1 : applied[i] # tx
    <3> SUFFICES ASSUME NEW i \in 1 .. a - 1 PROVE applied[i] # tx
      OBVIOUS
    <3>1. applied[i] = block[i] /\ i \in DOMAIN block /\ i # last
      BY <2>9, <2>11, SubSeqProperties
    <3> QED BY <2>7, <2>11, <3>1 DEF HoldsOnce
  <2> QED BY <2>1, <2>2, <2>3, <2>4, <2>10, <2>11, <2>12, <2>13 DEF ReplayInPlace
<1> QED BY <1>1, NodeAlways, PTL

(* No revert and no reset, onto whatever chain, changes a gas price or a    *)
(* scale factor of a serving node; the parameters of the fee model that no  *)
(* option sets are those of the chain it is then on; and a reset from fork  *)
(* to fork leaves the node caching as it was told to.                       *)
THEOREM SettingsAreKept == Spec => KeptOverResets
<1> DEFINE Kept == phase = "serving" =>
                      /\ \A s \in GasSettings : fees'[s] = fees[s]
                      /\ \A p \in ChainParameters : fees'[p] = ParametersOf(fork')
                      /\ fork # None /\ fork' # None =>
                            fork'.cache_config = fork.cache_config
<1>1. ASSUME NodeInv, [Next]_vars PROVE [Kept]_vars
  <2> USE DEF NodeInv
  <2>1. CASE UNCHANGED vars
    BY <2>1
  <2>2. CASE Configure \/ Create \/ CannotFork \/ OverrideBytecodes \/ ApplyTx \/ Serve
    BY <2>2 DEF Configure, Create, CannotFork, OverrideBytecodes, ApplyTx, Serve
  <2>3. CASE \/ \E s \in ApiSettings : config_set(s)
             \/ config_set_log_level \/ config_set_logging \/ ImpersonationMethods
             \/ snapshot
    <3>1. UNCHANGED << fork, fees >>
      BY <2>3 DEF config_set, config_set_log_level, config_set_logging,
         ImpersonationMethods, impersonate_account, stop_impersonating_account, snapshot,
         node
    <3> QED BY <1>1, <3>1 DEF PriceInv
  <2>4. CASE \E id \in DOMAIN snapshots : revert_snapshot(id)
    <3>1. /\ fork' = fork
          /\ \E id \in DOMAIN snapshots : fees' = snapshots[id].fees
      BY <2>4 DEF revert_snapshot, restore_snapshot
    <3> QED BY <1>1, <3>1 DEF PriceInv
  <2>5. CASE reset_network
    BY <1>1, <2>5, ResetMade DEF get_cache_config
  <2> QED BY <1>1, <2>1, <2>2, <2>3, <2>4, <2>5 DEF Next
<1>2. [][Kept]_vars <=> KeptOverResets
  BY PTL DEF KeptOverResets
<1> QED BY <1>1, <1>2, NodeAlways, PTL DEF Spec

-----------------------------------------------------------------------------
(* The register of accounts. *)

(* Who acts follows from who is impersonated, unless the contracts are the  *)
(* local ones, none of which is made for it.                                *)
Open == system_contracts_options # "Local"
Page(open, who, wealthy) == MarksOf({a \in Accounts : open /\ a \in who}, wealthy)
Pages(open, saves) ==
    [i \in DOMAIN saves |-> Page(open, saves[i].impersonated, saves[i].rich)]
Bits == [Marks -> {0, 1}]

LEMMA PageMade ==
    ASSUME NEW open, NEW who, NEW wealthy
    PROVE  Page(open, who, wealthy) \in Bits
  BY DEF Page, MarksOf, Bit, Bits

LEMMA ContractsUsed ==
    /\ \A from, who : CanAct(from, who) <=> Open /\ from \in who
    /\ (\A from, who : CanAct(from, who) <=> Open /\ from \in who)'
<1> USE DEF CanAct, run_l2_tx_contracts, contracts, bsc_load_with_bootloader, bootloader,
            send_transaction_allowed, Open
<1>1. \A from, who : CanAct(from, who) <=> Open /\ from \in who
  OBVIOUS
<1>2. (\A from, who : CanAct(from, who) <=> Open /\ from \in who)'
  OBVIOUS
<1> QED BY <1>1, <1>2

(* What the register holds, in a state and in the next one. *)
LEMMA RegisterMade ==
    /\ MarksOf(Acting(impersonated), accounts) = Page(Open, impersonated, rich)
    /\ (MarksOf(Acting(impersonated), accounts))' = Page(Open', impersonated', rich')
    /\ [i \in DOMAIN snapshots |->
          MarksOf(Acting(snapshots[i].impersonated), snapshots[i].rich)] = Pages(Open, snapshots)
    /\ [i \in DOMAIN snapshots |->
          MarksOf(Acting(snapshots[i].impersonated), snapshots[i].rich)]' = Pages(Open', snapshots')
<1>1. \A from, who : CanAct(from, who) <=> Open /\ from \in who
  BY ContractsUsed
<1>2. (\A from, who : CanAct(from, who) <=> Open /\ from \in who)'
  BY ContractsUsed
<1>3. /\ Acting(impersonated) = {a \in Accounts : Open /\ a \in impersonated}
      /\ \A i : Acting(snapshots[i].impersonated)
                   = {a \in Accounts : Open /\ a \in snapshots[i].impersonated}
  BY <1>1 DEF Acting
<1>4. /\ Acting(impersonated)' = {a \in Accounts : Open' /\ a \in impersonated'}
      /\ \A i : Acting(snapshots[i].impersonated)'
                   = {a \in Accounts : Open' /\ a \in snapshots'[i].impersonated}
  BY <1>2 DEF Acting
<1>5. /\ MarksOf(Acting(impersonated), accounts) = Page(Open, impersonated, rich)
      /\ [i \in DOMAIN snapshots |->
            MarksOf(Acting(snapshots[i].impersonated), snapshots[i].rich)] = Pages(Open, snapshots)
  BY <1>3 DEF Page, Pages, accounts
<1>6. /\ (MarksOf(Acting(impersonated), accounts))' = Page(Open', impersonated', rich')
      /\ [i \in DOMAIN snapshots |->
            MarksOf(Acting(snapshots[i].impersonated), snapshots[i].rich)]' = Pages(Open', snapshots')
  BY <1>4 DEF Page, Pages, accounts
<1> QED BY <1>5, <1>6

(* A save adds a page, and a revert tears off those after its own. *)
LEMMA PagesAdded ==
    ASSUME NEW open, NEW saves \in Seq(Saves), NEW save \in Saves
    PROVE  Pages(open, Append(saves, save))
              = Append(Pages(open, saves), Page(open, save.impersonated, save.rich))
<1> DEFINE P(s) == Page(open, s.impersonated, s.rich)
<1>1. /\ Pages(open, saves) = [i \in DOMAIN saves |-> P(saves[i])]
      /\ Pages(open, Append(saves, save))
            = [i \in DOMAIN Append(saves, save) |-> P(Append(saves, save)[i])]
  BY DEF Pages
<1>2. \A s : P(s) \in Bits
  BY PageMade
<1> HIDE DEF P
<1>3. /\ Len(saves) \in Nat /\ DOMAIN saves = 1 .. Len(saves)
      /\ DOMAIN Append(saves, save) = 1 .. Len(saves) + 1
      /\ \A i \in 1 .. Len(saves) : Append(saves, save)[i] = saves[i]
      /\ Append(saves, save)[Len(saves) + 1] = save
  BY LenProperties, AppendProperties
<1>4. Pages(open, saves) \in Seq(Bits) /\ Len(Pages(open, saves)) = Len(saves)
  BY <1>1, <1>2, <1>3
<1>5. /\ Pages(open, Append(saves, save)) \in Seq(Bits)
      /\ Len(Pages(open, Append(saves, save))) = Len(saves) + 1
  BY <1>1, <1>2, <1>3
<1>6. /\ Append(Pages(open, saves), P(save)) \in Seq(Bits)
      /\ Len(Append(Pages(open, saves), P(save))) = Len(saves) + 1
      /\ \A i \in 1 .. Len(saves) : Append(Pages(open, saves), P(save))[i] = Pages(open, saves)[i]
      /\ Append(Pages(open, saves), P(save))[Len(saves) + 1] = P(save)
  BY <1>2, <1>4, AppendProperties
<1>7. \A i \in 1 .. Len(saves) + 1 :
         Pages(open, Append(saves, save))[i] = Append(Pages(open, saves), P(save))[i]
  BY <1>1, <1>3, <1>6
<1>8. Pages(open, Append(saves, save)) = Append(Pages(open, saves), P(save))
  BY <1>5, <1>6, <1>7, SeqEqual
<1> QED BY <1>8 DEF P

LEMMA PagesKept ==
    ASSUME NEW open, NEW saves \in Seq(Saves), NEW id \in DOMAIN saves
    PROVE  Pages(open, SubSeq(saves, 1, id - 1)) = SubSeq(Pages(open, saves), 1, id - 1)
<1> DEFINE P(s) == Page(open, s.impersonated, s.rich)
           kept == SubSeq(saves, 1, id - 1)
<1>1. /\ Pages(open, saves) = [i \in DOMAIN saves |-> P(saves[i])]
      /\ Pages(open, kept) = [i \in DOMAIN kept |-> P(kept[i])]
  BY DEF Pages
<1>2. \A s : P(s) \in Bits
  BY PageMade
<1> HIDE DEF P
<1>3. /\ Len(saves) \in Nat /\ DOMAIN saves = 1 .. Len(saves) /\ id \in 1 .. Len(saves)
      /\ DOMAIN kept = 1 .. id - 1 /\ id - 1 \in Nat
      /\ \A i \in 1 .. id - 1 : kept[i] = saves[i]
  BY LenProperties, SubSeqProperties
<1> HIDE DEF kept
<1>4. Pages(open, saves) \in Seq(Bits) /\ Len(Pages(open, saves)) = Len(saves)
  BY <1>1, <1>2, <1>3
<1>5. Pages(open, kept) \in Seq(Bits) /\ Len(Pages(open, kept)) = id - 1
  BY SMTT(30), <1>1, <1>2, <1>3
<1>6. /\ SubSeq(Pages(open, saves), 1, id - 1) \in Seq(Bits)
      /\ Len(SubSeq(Pages(open, saves), 1, id - 1)) = id - 1
      /\ \A i \in 1 .. id - 1 : SubSeq(Pages(open, saves), 1, id - 1)[i] = Pages(open, saves)[i]
  BY <1>3, <1>4, SubSeqProperties
<1>7. \A i \in 1 .. id - 1 :
         Pages(open, kept)[i] = SubSeq(Pages(open, saves), 1, id - 1)[i]
  BY <1>1, <1>3, <1>6
<1>8. Pages(open, kept) = SubSeq(Pages(open, saves), 1, id - 1)
  BY <1>5, <1>6, <1>7, SeqEqual
<1> QED BY <1>8 DEF kept

(* The contracts are chosen once, before anybody acts. *)
LEMMA OpenStays ==
    ASSUME UNCHANGED << opt, file >>,
           config'["system_contracts_options"] = config["system_contracts_options"]
    PROVE  Open' = Open
  BY DEF Open, system_contracts_options

(* Every account starts and stops acting, is rich or not, as the requests   *)
(* about it call for.                                                       *)
LEMMA MarksAsAsked ==
    ASSUME NodeInv, [Next]_vars
    PROVE  [\A a \in Accounts : AsAsked(a)]_vars
<1> USE DEF NodeInv
<1> SUFFICES ASSUME Next, NEW a \in Accounts PROVE AsAsked(a)
  BY DEF vars
<1>1. Acts(a) <=> Open /\ a \in impersonated
  BY ContractsUsed DEF Acts
<1>2. Acts(a)' <=> Open' /\ a \in impersonated'
  BY ContractsUsed DEF Acts
<1>3. CASE ImpersonationMethods
  <2>1. /\ UNCHANGED << opt, file, config, rich >>
        /\ \E b \in Accounts :
              \/ impersonate_account(b) /\ impersonated' = impersonated \cup {b}
              \/ stop_impersonating_account(b) /\ impersonated' = impersonated \ {b}
    BY <1>3 DEF ImpersonationMethods, impersonate_account, stop_impersonating_account,
       start, settings
  <2>2. Open' = Open
    BY <2>1, OpenStays
  <2>3. /\ impersonate_account(a) => a \in impersonated'
        /\ stop_impersonating_account(a) => a \notin impersonated'
    BY DEF impersonate_account, stop_impersonating_account
  <2> QED BY <1>1, <1>2, <2>1, <2>2, <2>3 DEF AsAsked, accounts, Open
<1>4. CASE ~ImpersonationMethods
  <2>1. ~impersonate_account(a) /\ ~stop_impersonating_account(a)
    BY <1>4 DEF ImpersonationMethods
  <2>2. CASE Rewinds
    BY <2>1, <2>2 DEF AsAsked
  <2>3. CASE ~Rewinds
    <3>1. CASE Configure \/ Create \/ CannotFork \/ OverrideBytecodes \/ ApplyTx \/ Serve
      <4>1. phase # "serving" /\ impersonated' = {} /\ (rich' = rich \/ Serve)
        BY <3>1 DEF Configure, Create, CannotFork, OverrideBytecodes, ApplyTx, Serve, new,
           node, QuietInv
      <4> QED BY <1>1, <1>2, <2>1, <4>1 DEF AsAsked, accounts, QuietInv
    <3>2. CASE \/ \E s \in ApiSettings : config_set(s)
               \/ config_set_log_level \/ config_set_logging \/ snapshot
      <4>1. /\ UNCHANGED << opt, file, impersonated, rich >>
            /\ \/ config' = config
               \/ \E s \in ApiSettings : config' = [config EXCEPT ![s] = "api"]
        BY <3>2 DEF config_set, config_set_log_level, config_set_logging, snapshot, start,
           node, settings
      <4>2. config'["system_contracts_options"] = config["system_contracts_options"]
        BY <4>1 DEF ApiSettings, TypeInv, NodeSettings
      <4>3. Open' = Open
        BY <4>1, <4>2, OpenStays
      <4> QED BY <1>1, <1>2, <2>1, <4>1, <4>3 DEF AsAsked, accounts
    <3> QED BY <1>4, <2>3, <3>1, <3>2 DEF Next, Rewinds
  <2> QED BY <2>2, <2>3
<1> QED BY <1>3, <1>4

(* Who eth_accounts lists and whose transactions eth_sendTransaction lets   *)
(* through is a store: methods write to it, snapshots and reverts save it   *)
(* and bring it back, and a start or a reset renews it.  Requests mark the  *)
(* accounts they name and no others.                                        *)
THEOREM AccountsAreRegistered == Spec => IsAccountRegister
<1> DEFINE store == Page(Open, impersonated, rich)
           saved == Pages(Open, snapshots)
<1>1. Init => Register!Init
  <2> SUFFICES ASSUME Init PROVE Register!Init
    OBVIOUS
  <2>1. impersonated = {} /\ rich = {} /\ DOMAIN snapshots = {}
    BY DEF Init
  <2>2. {a \in Accounts : Open /\ a \in impersonated} = {}
    BY <2>1
  <2>3. store = NoMarks /\ saved = << >>
    BY <2>1, <2>2 DEF Page, Pages, NoMarks
  <2>4. /\ MarksOf(Acting(impersonated), accounts) = NoMarks
        /\ [i \in DOMAIN snapshots |->
              MarksOf(Acting(snapshots[i].impersonated), snapshots[i].rich)] = << >>
    BY <2>3, RegisterMade
  <2> QED BY <2>4 DEF Register!Init
<1>2. ASSUME NodeInv, [Next]_vars PROVE [Register!Next]_(Register!vars)
  <2> USE <1>2
  <2>1. /\ UNCHANGED << store, saved >> => UNCHANGED Register!vars
        /\ store' \in Bits /\ saved' = saved => Register!Put
        /\ saved' = Append(saved, store) /\ store' = store => Register!Save
        /\ (\E i \in DOMAIN saved : store' = saved[i] /\ saved' = SubSeq(saved, 1, i - 1))
              => Register!Revert
        /\ store' = MarksOf({}, Wallets) /\ saved' = << >> => Register!Renew
    <3>1. /\ store' = (MarksOf(Acting(impersonated), accounts))'
          /\ store = MarksOf(Acting(impersonated), accounts)
          /\ saved = [i \in DOMAIN snapshots |->
                         MarksOf(Acting(snapshots[i].impersonated), snapshots[i].rich)]
          /\ saved' = [i \in DOMAIN snapshots |->
                          MarksOf(Acting(snapshots[i].impersonated), snapshots[i].rich)]'
      BY RegisterMade
    <3>2. NoMarks' = NoMarks /\ \A k \in Marks : NoMarks[k] = 0
      BY DEF NoMarks, MarksOf, Bit
    <3> HIDE DEF store, saved
    <3>3. UNCHANGED << store, saved >> => UNCHANGED Register!vars
      BY <3>1, <3>2 DEF Register!vars
    <3>4. store' \in Bits /\ saved' = saved => Register!Put
      BY <3>1, <3>2 DEF Register!Put, Bits
    <3>5. saved' = Append(saved, store) /\ store' = store => Register!Save
      BY <3>1, <3>2 DEF Register!Save
    <3>6. (\E i \in DOMAIN saved : store' = saved[i] /\ saved' = SubSeq(saved, 1, i - 1))
             => Register!Revert
      BY <3>1, <3>2 DEF Register!Revert
    <3>7. store' = MarksOf({}, Wallets) /\ saved' = << >> => Register!Renew
      BY <3>1, <3>2 DEF Register!Renew
    <3> QED BY <3>3, <3>4, <3>5, <3>6, <3>7
  <2>2. store' \in Bits
    BY PageMade
  <2> USE DEF NodeInv
  <2>3. CASE UNCHANGED vars
    <3>1. UNCHANGED << opt, file, config, impersonated, rich, snapshots >>
      BY <2>3 DEF vars, start, settings, node
    <3>2. Open' = Open
      BY <3>1, OpenStays
    <3> QED BY <2>1, <3>1, <3>2
  <2>4. CASE Configure \/ Create \/ CannotFork \/ OverrideBytecodes \/ ApplyTx \/ Serve
    <3>1. /\ phase # "serving" /\ snapshots' = snapshots
          /\ impersonated' = {} /\ rich' \in {rich, Wallets}
      BY <2>4 DEF Configure, Create, CannotFork, OverrideBytecodes, ApplyTx, Serve, new,
         node, QuietInv
    <3>2. saved' = saved
      BY <3>1 DEF Pages, QuietInv
    <3> QED BY <2>1, <2>2, <3>2 DEF Register!Next
  <2>5. CASE (\E s \in ApiSettings : config_set(s)) \/ config_set_log_level \/ config_set_logging
    <3>1. /\ UNCHANGED << opt, file, impersonated, rich, snapshots >>
          /\ \/ config' = config
             \/ \E s \in ApiSettings : config' = [config EXCEPT ![s] = "api"]
      BY <2>5 DEF config_set, config_set_log_level, config_set_logging, start, node, settings
    <3>2. config'["system_contracts_options"] = config["system_contracts_options"]
      BY <3>1 DEF ApiSettings, TypeInv, NodeSettings
    <3>3. Open' = Open
      BY <3>1, <3>2, OpenStays
    <3> QED BY <2>1, <3>1, <3>3
  <2>6. CASE ImpersonationMethods \/ snapshot \/ (\E id \in DOMAIN snapshots : revert_snapshot(id))
    <3>1. UNCHANGED << opt, file, config >>
      BY <2>6 DEF ImpersonationMethods, impersonate_account, stop_impersonating_account,
         snapshot, revert_snapshot, start, settings
    <3>2. Open' = Open
      BY <3>1, OpenStays
    <3>3. PICK open : open = Open
      OBVIOUS
    <3>4. CASE ImpersonationMethods
      <4>1. snapshots' = snapshots
        BY <3>4 DEF ImpersonationMethods, impersonate_account, stop_impersonating_account
      <4> QED BY <2>1, <2>2, <3>2, <4>1 DEF Register!Next
    <3>5. CASE snapshot
      <4>1. PICK save : save = [fees |-> fees, impersonated |-> impersonated, rich |-> rich]
        OBVIOUS
      <4>2. /\ save \in Saves /\ save.impersonated = impersonated /\ save.rich = rich
            /\ snapshots' = Append(snapshots, save)
            /\ UNCHANGED << impersonated, rich >>
        BY <3>5, <4>1 DEF snapshot, node, Saves, TypeInv
      <4>3. Pages(open, Append(snapshots, save))
               = Append(Pages(open, snapshots), Page(open, impersonated, rich))
        BY <4>2, PagesAdded DEF TypeInv
      <4>4. saved' = Append(saved, store) /\ store' = store
        BY <3>2, <3>3, <4>2, <4>3
      <4> QED BY <2>1, <4>4 DEF Register!Next
    <3>6. CASE \E id \in DOMAIN snapshots : revert_snapshot(id)
      <4>1. PICK id \in DOMAIN snapshots :
               /\ impersonated' = snapshots[id].impersonated /\ rich' = snapshots[id].rich
               /\ snapshots' = SubSeq(snapshots, 1, id - 1)
        BY <3>6 DEF revert_snapshot, restore_snapshot
      <4>2. Pages(open, SubSeq(snapshots, 1, id - 1)) = SubSeq(Pages(open, snapshots), 1, id - 1)
        BY PagesKept DEF TypeInv
      <4>3. id \in DOMAIN saved /\ saved[id] = store'
        BY <3>2, <4>1 DEF Pages
      <4>4. saved' = SubSeq(saved, 1, id - 1)
        BY <3>2, <3>3, <4>1, <4>2
      <4> QED BY <2>1, <4>3, <4>4 DEF Register!Next
    <3> QED BY <2>6, <3>4, <3>5, <3>6
  <2>7. CASE reset_network
    <3>1. impersonated' = {} /\ rich' = Wallets /\ snapshots' = << >>
      BY <2>7, ResetMade
    <3>2. store' = MarksOf({}, Wallets) /\ saved' = << >>
      BY <3>1 DEF Page, Pages
    <3> QED BY <2>1, <3>2 DEF Register!Next
  <2> QED BY <2>3, <2>4, <2>5, <2>6, <2>7 DEF Next
<1>3. ASSUME NodeInv, [Next]_vars PROVE [\A a \in Accounts : AsAsked(a)]_vars
  BY <1>3, MarksAsAsked
<1> HIDE DEF store, saved
<1> QED BY <1>1, <1>2, <1>3, NodeAlways, PTL DEF Spec, IsAccountRegister, Register!Spec, Register!vars

=============================================================================
