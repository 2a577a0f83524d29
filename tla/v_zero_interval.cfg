SPECIFICATION Spec
CONSTANTS
    Txs = {t1, t2}
    NoTx = NoTx
    RemoteTx = RemoteTx
    RemoteTxs <- MCRemoteTxs
    LogQueries = {}
    Unanswerable = {}
    RemoteTransactions <- MCRemoteTransactions
    NoFork = NoFork
    Keys = {}
    Values = {0, 1, 2}
    Writes <- MCWritesNone
    TxLogs <- MCNoLogs
    LogCriteria = {}
    GenesisSlots <- MCGenesisSlots
    ContextWords = {}
    HugeNonces = FALSE
    Forks = {}
    InitialForks = {NoFork}
    MAX_FILTER_ID = 0
    MAX_PREVIOUS_STATES = 2
    MAX_SNAPSHOTS = 0
    NumBlocks = {2}
    Intervals = {0}
    TimeDeltas = {}
    Times = {}
    AllowRewind = FALSE
    RemoteFails = FALSE
    MaxMiniblock = 5
    MaxTimestamp = 2010
    MaxPending = 1
PROPERTIES
    MiningResyncs
