SPECIFICATION FairSpec
CONSTANTS
    None = None
    Keys <- ThreeKeys
    Workers <- TwoWorkers
    Namespace = "a"
    Names <- SomeNames
    Extra <- SomeLabels
    Settings <- SomeSettings
    Limit <- Bounds
INVARIANTS TypeOK DirtyIsComing WorksInBounds LogNamesRequest ErrorMeansNoWork
PROPERTIES QueueContract ChangesAreServed StopEndsAll
CHECK_DEADLOCK FALSE
