SPECIFICATION Spec
CHECK_DEADLOCK FALSE
CONSTANTS
    MaxVersion = 2
    MaxBackups = 3
    MaxRestores = 2
    Mixed = Mixed
    Partial = Partial
    Missing = Missing
INVARIANTS
    LatestRestorable
    RestoresWholeBackups
    LiveNotLost
