SPECIFICATION FairServingSpec
CONSTANTS
    Tests = {positive_price}
    TaggedTests = {}
    HardFail = TRUE
    TestMayNotRun = TRUE
    Retries = 1
    Workers = {w1}
    Exporter = exporter
    ServingReadOnly = TRUE
    Children = {c1}
INVARIANTS
    ServingTypeOK
    OneAtATime
    MarkedAfterGate
    StagingHasSchema
PROPERTIES
    RefusedOnlyByPipeline
    ServingNeverWrites
    RequestsEnd
    LockFreed
    RunEnds
