SPECIFICATION ServingSpec
CONSTANTS
    Tests = {positive_price}
    TaggedTests = {}
    HardFail = TRUE
    TestMayNotRun = FALSE
    Retries = 1
    Workers = {w1}
    Exporter = exporter
    ServingReadOnly = TRUE
    Children = {}
INVARIANTS
    HardFailBlocks
