SPECIFICATION Spec
CONSTANTS
    None = None
    Limit <- Lagging
INVARIANTS TypeOK RestMeansSettled
PROPERTY EventuallySettled
CHECK_DEADLOCK FALSE
