\* One engine, two calls of enqueue() that overlap.
SPECIFICATION Spec
CONSTANTS
    tab = tab  worker = worker  i1 = i1  i2 = i2
    Cmds = {1, 2}
    Engines = {tab}
    Entity <- OneItem
    Sealed = {2}
    MaxRetry = 2
    SerialCallers = FALSE
    MaxRestarts = 0
INVARIANTS EnqueueIsDurable
CHECK_DEADLOCK FALSE
