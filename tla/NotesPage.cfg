\* Two operations of the user or a script; the API under the page's origin.
SPECIFICATION FairPageSpec
CONSTANTS
    Null = Null
    page = page
    api = api
    Relative = Relative
    Unparseable = Unparseable
    NoOrigin = NoOrigin
    PageOrigin = page
    Targets = {Relative, Unparseable, api}
    ApiOrigins = {page}
    DevHeaders = TRUE
    NoTarget = NoTarget
    ApiBase = Relative
    NotesdOrigin = page
    MaxOperations = 2
    MaxScripts = 1
    Requests <- MCRequests
    ScriptCalls <- MCScriptCalls
    FieldNames <- MCFieldNames
    OldNotes = {4}
    PageLimit = 2
INVARIANTS
    IdentityStaysHome
    FlagsMatchRequests
    ShowsCreated
    AsAsked
PROPERTIES
    CancelledIsQuiet
    CallersHear
CHECK_DEADLOCK FALSE
