CONSTANTS
    f1 = f1
    n1 = n1
    Files <- MCFiles
    DasmFiles = {}
    Lines <- MCLines
    FnNames <- MCFnNames
    ReqSettings <- MCReqSettingsOvf
    Filters <- MCFilters
    MaxBp = 3
    MapRaises = TRUE

SPECIFICATION Spec

INVARIANT TypeOK
INVARIANT InfoPaired
INVARIANT NoStaleAdded
PROPERTY ReconcileExact
PROPERTY LineSettingsReapplied
