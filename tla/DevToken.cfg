\* The page as it is configured: environment.ts names an API of another origin than the
\* page, and app.module.ts registers the bearer interceptor alone, without API_ORIGINS.
SPECIFICATION PageSpec
CONSTANTS
    Null = Null
    page = page
    api = api
    Relative = Relative
    Unparseable = Unparseable
    NoOrigin = NoOrigin
    PageOrigin = page
    Targets = {Relative, Unparseable, api}
    ApiOrigins = {page}
    DevHeaders = FALSE
    NoTarget = NoTarget
    ApiBase = api
    NotesdOrigin = api
    MaxOperations = 1
    MaxScripts = 1
    Requests <- MCRequests
    ScriptCalls <- MCScriptCalls
    FieldNames <- MCFieldNames
    OldNotes = {4}
    PageLimit = 2
INVARIANTS
    EveryRequestCarriesToken
CHECK_DEADLOCK FALSE
