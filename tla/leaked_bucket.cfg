SPECIFICATION Spec
CONSTANTS
    None = None
    Keys <- OneKey
    Workers = {w1}
    HostOf <- OneProcess
    Classes <- AllClasses
    ClassDefs <- AllDefs
    UserNames <- JustOld
    GenNames <- TwoGen
    Existing <- JustOld
    Requests <- NewOnly
    Override <- KeepsKept
    Max <- NoFaults
INVARIANT StoreReclaimed
CHECK_DEADLOCK FALSE
