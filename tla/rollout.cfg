SPECIFICATION Spec
CONSTANTS
    None = None
    Keys <- OneKey
    Workers = {w1, w2}
    HostOf <- Processes
    Classes <- AllClasses
    ClassDefs <- AllDefs
    UserNames <- JustOld
    GenNames <- TwoGen
    Existing <- JustOld
    Requests <- NewOnly
    Override <- KeepsKept
    Max <- Rollout
INVARIANTS OneBucketPerClaim BoundImpliesReady
SYMMETRY AnyWorker
CHECK_DEADLOCK FALSE
