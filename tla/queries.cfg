SPECIFICATION Spec
CONSTANTS
    Txs = {t1, t2}
    NoTx = NoTx
    RemoteTx = RemoteTx
    RemoteTxs <- MCRemoteTxs
    LogQueries <- MCQueries
    Unanswerable = {t2}
    RemoteTransactions <- MCRemoteTransactions
    NoFork = NoFork
    Keys <- MCKeys
    Values = {0, 2}
    Writes <- MCWritesTwo
    TxLogs <- MCThreeLogs
    LogCriteria <- MCCriteria
    GenesisSlots <- MCGenesisZero
    ContextWords = {}
    HugeNonces = FALSE
    Forks <- MCForks
    InitialForks <- MCInitialForks
    MAX_FILTER_ID = 1
    MAX_PREVIOUS_STATES = 1
    MAX_SNAPSHOTS = 1
    NumBlocks = {1}
    Intervals = {1}
    TimeDeltas = {}
    Times = {}
    AllowRewind = FALSE
    RemoteFails = FALSE
    MaxMiniblock = 5
    MaxTimestamp = 2010
    MaxPending = 1
INVARIANTS
    ArchiveBounded
    ArchiveKeepsNewest
    QueuesOnChain
    BlockAnswersAgree
    TransactionAnswersAgree
    LogAnswersExact
PROPERTIES
    ArchiveStable
    TxBlocksTold
    AnswersStable
