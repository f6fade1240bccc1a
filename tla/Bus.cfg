\* Handlers that subscribe, unsubscribe, publish and throw while events are delivered.
SPECIFICATION Spec
CONSTANTS
    h1 = h1
    h2 = h2
    Handlers = {h1, h2}
    shell = shell
    ufe = ufe
    Bundles = {shell, ufe}
    MaxEvents = 2
    MaxDepth = 2
    MaxEntries = 4
    Hole = Hole
    NoBus = NoBus
SYMMETRY Symmetry
INVARIANTS
    OneBusPerPage
    StayingSubscribersHearOnce
    NoDuplicates
CHECK_DEADLOCK FALSE
