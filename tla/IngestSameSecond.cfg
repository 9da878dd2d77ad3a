SPECIFICATION Spec
SYMMETRY Symmetric
CONSTANTS
    Procs = {dag}
    Keys = {k1}
    Csvs = {c1, c2}
    ValidCsvs = {c1, c2}
    NoSha = NoSha
    ParquetSha = ParquetSha
    Resolution = 4
    MaxNow = 3
    MaxVersion = 1
    Faults = {}
PROPERTIES
    RawAppendOnly
