\* Two requests, every use of a code, a one-time link.
SPECIFICATION Spec
CONSTANTS
    Requests = {r1, r2}
    Modes = {"signup", "recovery", "email", "anyone"}
    MaxCodes = 1
    MaxAttempts = 2
    LockAfter = 2
    MaxAccess = 1
SYMMETRY Symmetry
INVARIANTS TypeOK AccessAccounted ConsumedOnce ResetOnce
PROPERTIES RevokedStops
