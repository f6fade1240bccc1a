\* A retry of a call with a stream body sends a body that was read.
SPECIFICATION Spec
CONSTANTS
    r1 = r1
    r2 = r2
    Requests = {r1}
    page = page
    api = api
    other = other
    Relative = Relative
    Unparseable = Unparseable
    NoOrigin = NoOrigin
    PageOrigin = page
    Targets = {Relative}
    Inputs <- MCInputs
    AllowedOrigins = {api}
    StrictTargets = {api}
    Sessions = {"inPlace", "redirect", "stub"}
    MaxTokens = 2
    NoToken = NoToken
    NoInput = NoInput
INVARIANTS
    RetryKeepsBody
CHECK_DEADLOCK FALSE
