SPECIFICATION Spec
SYMMETRY Symmetric
CONSTANTS
    Procs = {dag}
    Keys = {k1}
    Csvs = {c1, c2}
    ValidCsvs = {c1, c2}
    NoSha = NoSha
    ParquetSha = ParquetSha
    Resolution = 1
    MaxNow = 3
    MaxVersion = 1
    Faults = {"crash", "rebuild"}
INVARIANTS
    CanonicalIntact
