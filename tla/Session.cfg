\* Every fault once: a lost event, a failed request or step, a recycled worker.
SPECIFICATION FairSpec
CONSTANTS
    Settings = {1}
    DeskTimeout <- NoTimeout
    Sessions = {}
    MaxIdle = 1
    MaxClears = 1
    MaxPushes = 1
    MaxFaults = 1
INVARIANTS TypeOK DesktopOwns KeysFollow DeadlineArmed
PROPERTIES FollowsDesktop AutoLocks
