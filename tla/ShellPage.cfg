\* A page load of any of the hosts, and a second call of registerAll.
SPECIFICATION FairSpec
CONSTANTS
    b = b
    c = c
    NotArray = NotArray
    Absent = Absent
    Calls <- MCCalls
    bootCall = b
    Hosts <- MCHosts
    Paths <- MCPaths
    Hashes <- MCHashes
    NotesHash = "#notes"
    Route <- MCRoute
INVARIANTS
    SessionBeforeApps
    FrameStaysEmpty
    CallbackBeforeToken
    StartedWithAllApps
    OneSession
    NoSilentDrop
    FaultIsFirst
    MalformedIsNamed
PROPERTIES
    ActiveAppMounts
CHECK_DEADLOCK FALSE
