\* Two overlapping calls, localStorage.
SPECIFICATION Spec
CONSTANTS
    c1 = c1
    c2 = c2
    Calls = {c1, c2}
    StateStore = "localStorage"
    Skew = 1
    Lifetimes <- MCLifetimes
    MaxTime = 3
    MaxTokens = 2
    MaxLoads = 1
    NoCall = NoCall
    NoUser = NoUser
    NoExpiry = NoExpiry
SYMMETRY Symmetry
INVARIANTS
    SingleFlight
    WaitersHaveFlight
    SharedVerdict
    HandedTokenOutlivesSkew
    AnnouncedBeforeHanded
    IInv
