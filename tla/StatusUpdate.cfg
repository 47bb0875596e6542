\* The program may stop, and the batches are used up at some point.
CONSTANTS
    c = c
    r = r
    x = x
    Classes <- MCClasses
    Gateways = {}
    HTTPRoutes <- MCHTTPRoutes
    TLSRoutes = {}
    Others <- MCOthers
    Statuses <- MCStatuses
    MaxBatches = 2
    MaxChanges = 2
SPECIFICATION Spec
CHECK_DEADLOCK FALSE
INVARIANTS
    StatusPublished
PROPERTIES
    OthersKept
    NothingOverwritten
    UpdateEnds
