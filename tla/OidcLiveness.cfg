\* Liveness, and the refinement of the shared refresh: two calls, the in-memory store.
SPECIFICATION FairSpec
CONSTANTS
    c1 = c1
    c2 = c2
    Calls = {c1, c2}
    StateStore = "memory"
    Skew = 1
    Lifetimes <- MCLifetimes
    MaxTime = 2
    MaxTokens = 1
    MaxLoads = 1
    NoCall = NoCall
    NoUser = NoUser
    NoExpiry = NoExpiry
INVARIANTS
    AnnouncedBeforeHanded
PROPERTIES
    CallsSettle
    FlightClears
    ImplementsSharedRefresh
