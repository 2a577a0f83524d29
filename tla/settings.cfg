SPECIFICATION Spec
CONSTANTS
    CommandLines <- MCCommandLines
    ConfigFiles <- MCConfigFiles
    RemoteBlocks <- MCRemoteBlocks
    Wallets = {"w"}
    Strangers = {"s"}
    MAX_SNAPSHOTS = 2
    MaxChanged = 1
    None = None
CHECK_DEADLOCK FALSE
INVARIANTS
    OptionsWin
    ReplayInPlace
PROPERTIES
    KeptOverResets
    IsAccountRegister
