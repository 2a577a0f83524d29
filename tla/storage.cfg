SPECIFICATION Spec
CONSTANTS
    SlotKeys = {"k"}
    CodeKey = "code"
    NonceKey = "nonce"
    SlotValues = {0, 1}
    RichBalance = 1
    CodeHashes = {7}
    EditedHashes = {8}
    EditedNonces = {1}
    NONCE_RADIX = 2
    GenesisState <- MCGenesisState
    GenesisDeps = {}
    NoFork = NoFork
    Forks = {F}
    RemoteState <- MCRemoteState
    RemoteDeps <- MCRemoteDeps
    MAX_SNAPSHOTS = 1
    MaxNonce = 1
    MaxViewKeys = 2
INVARIANTS
    CachesMatchFork
    CodeAvailable
PROPERTIES
    OnlyForward
    IsKeyValueStore
