SPECIFICATION Spec
CONSTANTS
    Networks = {A}
    Selectors = Selectors
    None = None
    Torn = Torn
    Types = {"resolver_selectors"}
    CacheConfigs <- MCConfigs
    MaxHead = 1
    MaxTorn = 1
    MaxEntries = 2
PROPERTIES
    CachingDisabled
