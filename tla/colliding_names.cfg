SPECIFICATION Spec
CONSTANTS
    None = None
    Keys <- CollidingKeys
    Workers = {w1}
    HostOf <- OneProcess
    Classes <- AllClasses
    ClassDefs <- AllDefs
    UserNames <- JustOld
    GenNames <- TwoGen
    Existing <- JustOld
    Requests <- NewOnly
    Override <- KeepsKept
    Max <- NoFaults
INVARIANT BoundImpliesReady
CHECK_DEADLOCK FALSE
