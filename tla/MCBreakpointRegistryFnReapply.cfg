CONSTANTS
    f1 = f1
    n1 = n1
    Files <- MCFiles
    DasmFiles = {}
    Lines <- MCLines
    FnNames <- MCFnNames
    ReqSettings <- MCReqSettings
    Filters <- MCFilters
    MaxBp = 3
    MapRaises = FALSE

SPECIFICATION Spec

PROPERTY FnSettingsReapplied
