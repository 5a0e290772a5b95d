SPECIFICATION Spec
CONSTANTS
    None = None
    Keys <- OneKey
    Workers = {w1}
    HostOf <- OneProcess
    Classes <- AllClasses
    ClassDefs <- AllDefs
    UserNames <- OldAndMine
    GenNames <- TwoGen
    Existing <- JustOld
    Requests <- AllRequests
    Override <- KeepsKept
    Max <- OneLife
INVARIANTS TypeOK OneBucketPerClaim BoundImpliesReady
PROPERTIES OnlyReclaimedBucketsVanish BoundClaimsLeaveNothing ClaimContract
CHECK_DEADLOCK FALSE
