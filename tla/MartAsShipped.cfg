SPECIFICATION MartSpec
CONSTANTS
    Dates <- MCDates
    Flows = {f1}
    NoFlow = NoFlow
    DiskFails = FALSE
    Crashes = FALSE
    Stagings <- MCStagings
    DimSymbol <- MCDimSymbol
    DimSession <- MCDimSession
    Today = 3
    MinRows = 2
    Statsmodels = TRUE
    Columns = {"session_key", "open_price", "high_price", "low_price", "close_price"}
    Null = Null
INVARIANTS
    ModelSucceeds
