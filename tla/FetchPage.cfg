\* Two overlapping calls in a page whose token is revoked at any time.
SPECIFICATION FairSpec
CONSTANTS
    r1 = r1
    r2 = r2
    Requests = {r1, r2}
    page = page
    api = api
    other = other
    Relative = Relative
    Unparseable = Unparseable
    NoOrigin = NoOrigin
    PageOrigin = page
    Targets = {Relative, Unparseable, api, other}
    Inputs <- MCInputs
    AllowedOrigins = {api}
    StrictTargets = {api}
    Sessions = {"inPlace", "redirect", "stub"}
    MaxTokens = 3
    NoToken = NoToken
    NoInput = NoInput
INVARIANTS
    OneRetryAfterLogin
    RetryTokenIsNew
    OnlyRevokedAgain
    TokenStaysHome
PROPERTIES
    CallsEnd
CHECK_DEADLOCK FALSE
