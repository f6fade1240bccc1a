-------------------------------- MODULE Origins --------------------------------
(***************************************************************************)
(* How the packages resolve a request's target to an origin: new URL(url,  *)
(* pageOrigin), with the page's origin undefined outside a browser.  A     *)
(* target is an absolute URL, named by its origin, a relative URL, or a    *)
(* string that is no URL.                                                  *)
(***************************************************************************)
CONSTANTS
    PageOrigin,   \* location.origin, or NoOrigin outside a browser
    NoOrigin,     \* undefined
    Relative,     \* a relative URL
    Unparseable   \* a string new URL throws on

\* A relative URL is one.
ASSUME OriginAssumption == Relative # Unparseable

\* The origin of the resolved target; NoOrigin when it does not resolve.
OriginOf(target) ==
    CASE target = Relative    -> PageOrigin
      [] target = Unparseable -> NoOrigin
      [] OTHER                -> target

\* Slip: a target that does not resolve is taken for one of the page.
MayAttachUnresolved(target, allowedOrigins) ==
    OriginOf(target) \in {PageOrigin, NoOrigin} \cup allowedOrigins

\* createAuthedFetch: the page's own origin, or one on the allowlist.
MayAttachToken(target, allowedOrigins) ==
    /\ OriginOf(target) # NoOrigin
    /\ OriginOf(target) = PageOrigin \/ OriginOf(target) \in allowedOrigins

\* Slip: the same for the Angular interceptors.
IsAllowedUnresolved(target, apiOrigins) ==
    OriginOf(target) \in apiOrigins \cup {NoOrigin}

\* The Angular interceptors: the list alone decides.
IsAllowedOrigin(target, apiOrigins) ==
    OriginOf(target) # NoOrigin /\ OriginOf(target) \in apiOrigins

=============================================================================
