SPECIFICATION MartSpec
CONSTANTS
    Dates <- MCDates
    Flows = {f1}
    NoFlow = NoFlow
    DiskFails = TRUE
    Crashes = TRUE
    Stagings <- MCStagings
    DimSymbol <- MCDimSymbol
    DimSession <- MCDimSession
    Today = 3
    MinRows = 2
    Statsmodels = TRUE
    Columns = {"session_date_key", "price"}
    Null = Null
INVARIANTS
    MartTypeOK
    SuccessMeansWhole
    MartShowsAnswers
    MartComplete
    LaggedClose
    MeasuresFinite
