\* One path, query and header parameter and a body, up to two calls of the setters.
SPECIFICATION Spec
CONSTANTS
    Null = Null
    Values <- MCValues
    Bodies <- MCBodies
    Name <- MCName
    Templates <- MCTemplates
    Options <- MCOptions
    MaxCalls = 2
INVARIANTS
    PathRecovered
    PairsRecovered
    BodyRecovered
CHECK_DEADLOCK FALSE
