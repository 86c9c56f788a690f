\* Two vaults with an item each, one of which the user may lose or not have yet; every fault once.
SPECIFICATION FairSpec
CONSTANTS
    v1 = v1  v2 = v2
    Items = {1, 2}
    Vaults = {v1, v2}
    VaultOf <- TwoVaults
    Shareable = {v2}
    Editable = {2}
    Founded = {2}
    EventLimit = 1
    BootstrapLimit = 1
    NullCursor = FALSE
    Home = v1
    MaxLog = 3
    MaxVersion = 2
    MaxDisturbances = 1
INVARIANTS TypeOK SkipsAccounted
PROPERTIES CopySpec Converges
CHECK_DEADLOCK FALSE
