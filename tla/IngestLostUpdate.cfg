SPECIFICATION Spec
SYMMETRY Symmetric
\* Two that save at a time may leave a manifest no operation can load.
CHECK_DEADLOCK FALSE
CONSTANTS
    Procs = {dag, ops}
    Keys = {k1}
    Csvs = {c1, c2}
    ValidCsvs = {c1, c2}
    NoSha = NoSha
    ParquetSha = ParquetSha
    Resolution = 1
    MaxNow = 3
    MaxVersion = 1
    Faults = {}
PROPERTIES
    CanonicalForward
