SPECIFICATION Spec
CONSTANTS
    None = None
    Keys <- TwoKeys
    Workers = {w1, w2}
    HostOf <- OneProcess
    Classes <- AllClasses
    ClassDefs <- AllDefs
    UserNames <- OldAndMine
    GenNames <- TwoGen
    Existing <- JustOld
    Requests <- Contended
    Override <- KeepsKept
    Max <- Sharing
INVARIANTS BoundImpliesReady NothingOrphaned
PROPERTY OnlyReclaimedBucketsVanish
SYMMETRY AnyWorker
CHECK_DEADLOCK FALSE
