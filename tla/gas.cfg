SPECIFICATION Spec
CONSTANTS
    Requests <- MCRequests
    MAX_L2_TX_GAS_LIMIT = 11
    ESTIMATE_GAS_ACCEPTABLE_OVERESTIMATION = 1
    MAX_VM_PUBDATA_PER_BATCH = 1
    U64_MAX = 30
    ScaleNum = 13
    ScaleDen = 10
    F32_PRECISION = 8
    Window = 10
    Top = 22
INVARIANTS
    SearchBracket
    TightEstimate
    NoFalseRejection
PROPERTIES
    Answered
CHECK_DEADLOCK FALSE
