\* Two engines, two commands on one item, calls that wait for one another.
SPECIFICATION Spec
CONSTANTS
    tab = tab  worker = worker  i1 = i1  i2 = i2
    Cmds = {1, 2}
    Engines = {tab, worker}
    Entity <- OneItem
    Sealed = {2}
    MaxRetry = 2
    SerialCallers = TRUE
    MaxRestarts = 1
SYMMETRY Symmetry
INVARIANTS TypeOK EnqueueIsDurable NeverResurrected NotStuckApplying
PROPERTIES OnlyServedLeave SettledStays
CHECK_DEADLOCK FALSE
