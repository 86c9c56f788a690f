\* A client whose feed was empty when it first read it.
SPECIFICATION Spec
CONSTANTS
    v1 = v1  v2 = v2
    Items = {1, 2}
    Vaults = {v1, v2}
    VaultOf <- TwoVaults
    Shareable = {v2}
    Editable = {1}
    Founded = {1}
    EventLimit = 1
    BootstrapLimit = 1
    NullCursor = TRUE
    Home = v1
    MaxLog = 2
    MaxVersion = 2
    MaxDisturbances = 1
INVARIANTS SkipsAccounted
CHECK_DEADLOCK FALSE
