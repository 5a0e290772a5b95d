SPECIFICATION FairSpec
CONSTANTS
    None = None
    Keys <- OneKey
    Workers = {w1}
    HostOf <- OneProcess
    Classes <- NewAndOldClasses
    ClassDefs <- NewAndOldDefs
    UserNames <- OldAndMine
    GenNames <- TwoGen
    Existing <- JustOld
    Requests <- NewAndOld
    Override <- KeepsClass
    Max <- Recovery
INVARIANT NothingOrphaned
PROPERTIES EventuallyBound EventuallyReleased ConfigConverges
CHECK_DEADLOCK FALSE
