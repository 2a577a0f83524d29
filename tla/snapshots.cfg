SPECIFICATION Spec
CONSTANTS
    Txs = {t1, t2}
    NoTx = NoTx
    RemoteTx = RemoteTx
    RemoteTxs <- MCRemoteTxs
    LogQueries = {}
    Unanswerable = {}
    RemoteTransactions <- MCRemoteTransactions
    NoFork = NoFork
    Keys = {}
    Values = {0, 1, 2}
    Writes <- MCWritesNone
    TxLogs <- MCNoLogs
    LogCriteria = {}
    GenesisSlots <- MCGenesisSlots
    ContextWords = {}
    HugeNonces = FALSE
    Forks <- MCForks
    InitialForks <- MCInitialForks
    MAX_FILTER_ID = 0
    MAX_PREVIOUS_STATES = 2
    MAX_SNAPSHOTS = 2
    NumBlocks = {0, 1, 3}
    Intervals = {1, 3}
    TimeDeltas = {1}
    Times = {0, 1003}
    AllowRewind = FALSE
    RemoteFails = FALSE
    MaxMiniblock = 6
    MaxTimestamp = 2010
    MaxPending = 1
INVARIANTS
    TypeOK
    NoPanic
    TipsAgree
    TimestampsIncrease
    BatchStructure
    BlockMapsAgree
    ParentLinks
    TipHashOnChain
    ReceiptsOnChain
    SnapshotsArePrefixes
PROPERTIES
    IsLedger
SYMMETRY MCSymmetry
