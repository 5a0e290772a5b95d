SPECIFICATION Spec
CONSTANTS
    None = None
    Limit <- Expired
PROPERTY EveryEventAnswered
CHECK_DEADLOCK FALSE
