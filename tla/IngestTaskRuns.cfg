SPECIFICATION FairSpec
CONSTANTS
    ali = ali
    bdo = bdo
    Order <- DatedOrder
    SymbolOf <- DatedSymbols
    DateOf <- DatedDates
    NoDate = 0
    Csvs = {c1, c2, bad}
    ValidCsvs = {c1, c2}
    NoCsv = NoCsv
    NoSha = NoSha
    Retries = 2
    MaxDay = 2
    MaxFaults = 2
INVARIANTS
    TypeOK
    DropIngested
PROPERTIES
    RerunIdentical
    EventuallyCanonical
