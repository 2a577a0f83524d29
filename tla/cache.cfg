SPECIFICATION Spec
CONSTANTS
    Networks = {A, B}
    Selectors = Selectors
    None = None
    Torn = Torn
    Types <- MCAllTypes
    CacheConfigs <- MCConfigs
    MaxHead = 2
    MaxTorn = 1
    MaxEntries = 2
INVARIANTS
    HitsOnceTrue
    IndexExact
    ServedNetworks
SYMMETRY MCSymmetry
