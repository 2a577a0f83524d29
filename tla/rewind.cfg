SPECIFICATION Spec
SYMMETRY MCSymmetry
CONSTANTS
    Txs = {t1, t2}
    NoTx = NoTx
    RemoteTx = RemoteTx
    RemoteTxs <- MCRemoteTxs
    LogQueries = {}
    Unanswerable = {}
    RemoteTransactions <- MCRemoteTransactions
    NoFork = NoFork
    Keys = {}
    Values = {0, 1, 2}
    Writes <- MCWritesNone
    TxLogs <- MCNoLogs
    LogCriteria = {}
    GenesisSlots <- MCGenesisSlots
    ContextWords <- MCContextWords
    HugeNonces = TRUE
    Forks <- MCForks
    InitialForks = {NoFork}
    MAX_FILTER_ID = 0
    MAX_PREVIOUS_STATES = 2
    MAX_SNAPSHOTS = 0
    NumBlocks = {1, 2}
    Intervals = {1, 3}
    TimeDeltas = {}
    Times = {0, 1005}
    AllowRewind = TRUE
    RemoteFails = TRUE
    MaxMiniblock = 4
    MaxTimestamp = 1004
    MaxPending = 1
PROPERTIES
    PanicCauses
    MiningResyncs
