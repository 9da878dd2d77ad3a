SPECIFICATION Spec
SYMMETRY Symmetric
CONSTANTS
    Procs = {dag}
    Keys = {k1, k2}
    Csvs = {c1, c2, bad}
    ValidCsvs = {c1, c2}
    NoSha = NoSha
    ParquetSha = ParquetSha
    Resolution = 1
    MaxNow = 4
    MaxVersion = 2
    Faults = {"crash"}
INVARIANTS
    TypeOK
    CanonicalIntact
    AmendmentChain
    ReplayStable
PROPERTIES
    CanonicalForward
    ImplementsLedger
