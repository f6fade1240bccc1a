\* A 401 reaches the caller after one send.
SPECIFICATION Spec
CONSTANTS
    r1 = r1
    Requests = {r1}
    page = page
    api = api
    Relative = Relative
    Unparseable = Unparseable
    NoOrigin = NoOrigin
    PageOrigin = page
    Targets = {Relative}
    ApiOrigins = {page}
    DevHeaders = FALSE
    NoTarget = NoTarget
INVARIANTS
    RetriedOnce
CHECK_DEADLOCK FALSE
