------------------------------ MODULE OidcSession ------------------------------
(***************************************************************************)
(* The OIDC session provider (packages/oidc/src/index.ts) as one page of a *)
(* browser runs it: overlapping getToken() calls that share one silent     *)
(* refresh, login and logout redirects that throw the page away, and the   *)
(* page that is loaded next.                                               *)
(*                                                                         *)
(* JavaScript runs a function without interruption up to its next await,   *)
(* so an action is the code between two awaits.  A call of getToken is a   *)
(* member of Calls; a call starts at most one silent refresh, so a refresh *)
(* promise is named by the call that started it.                           *)
(***************************************************************************)
EXTENDS Naturals, FiniteSets

CONSTANTS
    Calls,       \* the invocations of getToken
    StateStore,  \* "localStorage" or "memory": OidcConfig.stateStore
    Skew,        \* REFRESH_SKEW_SECONDS
    Lifetimes,   \* the lifetimes a granted token may have: seconds, or NoExpiry
    MaxTime,     \* bound: the clock stops here
    MaxTokens,   \* bound: tokens granted
    MaxLoads,    \* bound: page loads after the first
    NoCall,      \* null, for the refresh promise
    NoUser,      \* null, for a user
    NoExpiry     \* null, for expires_at

EmptyToken == 0

Users == [tok : Nat, exp : Nat \cup {NoExpiry}]

ASSUME StoreAssumption  == StateStore \in {"localStorage", "memory"}
ASSUME BoundsAssumption == /\ Skew \in Nat /\ Lifetimes \subseteq Nat \cup {NoExpiry}
                           /\ MaxTime \in Nat /\ MaxTokens \in Nat /\ MaxLoads \in Nat
ASSUME NullAssumption   == NoCall \notin Calls /\ NoUser \notin Users /\ NoExpiry \notin Nat

VARIABLES
    now,              \* Date.now() / 1000
    page,             \* "live", or where the browser went: "signin" or elsewhere
    callback,         \* the page was loaded at /callback and has not finished the sign-in
    loads,            \* page loads so far
    issued,           \* tokens granted so far
    store,            \* the user kept by WebStorageStateStore
    refreshInFlight,  \* the promise field of the provider
    phase,            \* phase[r]: how far the silent refresh started by r is
    result,           \* result[r]: what that refresh settled with
    pc,               \* pc[c]: where call c of getToken stands
    user,             \* user[c]: the local variable `user` of call c
    awaits,           \* awaits[c]: the refresh promise call c awaits or awaited
    decided,          \* decided[c]: when call c passed its last freshness test
    announced         \* tokens published as token_acquired on this page's bus

tokenVars == <<issued, store, announced>>
callVars  == <<pc, user, awaits, decided>>
flightVars == <<refreshInFlight, phase, result>>
pageVars  == <<page, callback, loads>>
vars == <<now, pageVars, tokenVars, flightVars, callVars>>

Phases == {"none", "pending", "landed", "settled", "cleared"}
CallStates == {"new", "reading", "read", "awaiting", "returned", "redirecting",
               "failed", "lost"}

\* Slip: the skew is forgotten.
IsFreshNow(u, t) ==
    u # NoUser /\ u.tok # EmptyToken /\ (u.exp # NoExpiry => u.exp > t)

\* isFresh: a token without expires_at is fresh as long as it is not empty.
IsFresh(u, t) ==
    /\ u # NoUser
    /\ u.tok # EmptyToken
    /\ u.exp # NoExpiry => u.exp > t + Skew

-----------------------------------------------------------------------------
Init ==
    /\ now = 0
    /\ page = "live" /\ callback = FALSE /\ loads = 0
    /\ issued = 0 /\ store = NoUser /\ announced = {}
    /\ refreshInFlight = NoCall
    /\ phase = [c \in Calls |-> "none"] /\ result = [c \in Calls |-> NoUser]
    /\ pc = [c \in Calls |-> "new"] /\ user = [c \in Calls |-> NoUser]
    /\ awaits = [c \in Calls |-> NoCall] /\ decided = [c \in Calls |-> 0]

Expiry(lifetime) == IF lifetime = NoExpiry THEN NoExpiry ELSE now + lifetime

\* A user the provider may grant now: its token is new, or empty.
Grants == {[tok |-> issued + 1, exp |-> Expiry(l)] : l \in Lifetimes}
              \cup {[tok |-> EmptyToken, exp |-> NoExpiry]}

\* Slip: userLoaded has no handler that publishes.
AcquireQuietly(u) ==
    /\ issued < MaxTokens /\ u \in Grants
    /\ issued' = issued + 1 /\ store' = u
    /\ UNCHANGED announced

\* UserManager stores the granted user and raises userLoaded, whose handler
\* publishes token_acquired on the bus.
Acquire(u) ==
    /\ issued < MaxTokens
    /\ u \in Grants
    /\ issued' = issued + 1
    /\ store' = u
    /\ announced' = announced \cup {u.tok}

-----------------------------------------------------------------------------
(* getToken *)

\* The call runs up to `await this.mgr.getUser()`.  The shell hands the session
\* out only after the callback is complete.
GetToken(c) ==
    /\ page = "live" /\ ~callback
    /\ pc[c] = "new"
    /\ pc' = [pc EXCEPT ![c] = "reading"]
    /\ UNCHANGED <<now, pageVars, tokenVars, flightVars, user, awaits, decided>>

\* UserManager.getUser reads the store some time before the call resumes.
ReadStore(c) ==
    /\ page = "live"
    /\ pc[c] = "reading"
    /\ pc' = [pc EXCEPT ![c] = "read"]
    /\ user' = [user EXCEPT ![c] = store]
    /\ UNCHANGED <<now, pageVars, tokenVars, flightVars, awaits, decided>>

\* `await this.mgr.getUser()` rejects, the store being out of reach or its text
\* damaged: nothing catches it, and getToken rejects.
ReadFails(c) ==
    /\ page = "live"
    /\ pc[c] = "reading"
    /\ pc' = [pc EXCEPT ![c] = "failed"]
    /\ UNCHANGED <<now, pageVars, tokenVars, flightVars, user, awaits, decided>>

\* The stored token is fresh: return it.
ReturnStored(c) ==
    /\ page = "live"
    /\ pc[c] = "read" /\ IsFresh(user[c], now)
    /\ pc' = [pc EXCEPT ![c] = "returned"]
    /\ decided' = [decided EXCEPT ![c] = now]
    /\ UNCHANGED <<now, pageVars, tokenVars, flightVars, user, awaits>>

\* Slip: a call starts a refresh though one is in flight.
StartRefreshUnshared(c) ==
    /\ page = "live"
    /\ pc[c] = "read" /\ ~IsFresh(user[c], now)
    /\ refreshInFlight' = c
    /\ phase' = [phase EXCEPT ![c] = "pending"]
    /\ awaits' = [awaits EXCEPT ![c] = c]
    /\ pc' = [pc EXCEPT ![c] = "awaiting"]
    /\ UNCHANGED <<now, pageVars, tokenVars, result, user, decided>>

\* No refresh is in flight: this call starts one, registers the finally handler
\* and awaits it.
StartRefresh(c) ==
    /\ page = "live"
    /\ pc[c] = "read" /\ ~IsFresh(user[c], now)
    /\ refreshInFlight = NoCall
    /\ refreshInFlight' = c
    /\ phase' = [phase EXCEPT ![c] = "pending"]
    /\ awaits' = [awaits EXCEPT ![c] = c]
    /\ pc' = [pc EXCEPT ![c] = "awaiting"]
    /\ UNCHANGED <<now, pageVars, tokenVars, result, user, decided>>

\* Another call's refresh is in flight: await the same promise.
JoinRefresh(c) ==
    /\ page = "live"
    /\ pc[c] = "read" /\ ~IsFresh(user[c], now)
    /\ refreshInFlight # NoCall
    /\ awaits' = [awaits EXCEPT ![c] = refreshInFlight]
    /\ pc' = [pc EXCEPT ![c] = "awaiting"]
    /\ UNCHANGED <<now, pageVars, tokenVars, flightVars, user, decided>>

\* signinSilent has obtained a token: stored and announced, not yet resolved.
RefreshLands(r) ==
    /\ page = "live"
    /\ phase[r] = "pending"
    /\ \E u \in Grants : Acquire(u) /\ result' = [result EXCEPT ![r] = u]
    /\ phase' = [phase EXCEPT ![r] = "landed"]
    /\ UNCHANGED <<now, pageVars, refreshInFlight, callVars>>

RefreshResolves(r) ==
    /\ page = "live"
    /\ phase[r] = "landed"
    /\ phase' = [phase EXCEPT ![r] = "settled"]
    /\ UNCHANGED <<now, pageVars, tokenVars, refreshInFlight, result, callVars>>

\* Slip: a rejected signinSilent leaves the shared promise unsettled.
RefreshHangs(r) == RefreshResolves(r)

\* signinSilent rejects, or resolves without a user.  A bus subscriber that
\* throws makes it reject after the user was stored.  .catch(() => null).
RefreshFails(r) ==
    /\ page = "live"
    /\ phase[r] \in {"pending", "landed"}
    /\ phase' = [phase EXCEPT ![r] = "settled"]
    /\ result' = [result EXCEPT ![r] = NoUser]
    /\ UNCHANGED <<now, pageVars, tokenVars, refreshInFlight, callVars>>

\* Slip: the field is never cleared.
ClearFlightForgets(r) ==
    /\ page = "live"
    /\ phase[r] = "settled"
    /\ phase' = [phase EXCEPT ![r] = "cleared"]
    /\ UNCHANGED <<now, pageVars, tokenVars, refreshInFlight, result, callVars>>

\* The finally handler.  It was registered before any await of the promise, so
\* it runs before any of the calls that await the promise resumes.
ClearFlight(r) ==
    /\ page = "live"
    /\ phase[r] = "settled"
    /\ phase' = [phase EXCEPT ![r] = "cleared"]
    /\ refreshInFlight' = NoCall
    /\ UNCHANGED <<now, pageVars, tokenVars, result, callVars>>

\* `user = await this.refreshInFlight` resumes call c.
Resumes(c) ==
    /\ page = "live"
    /\ pc[c] = "awaiting"
    /\ phase[awaits[c]] = "cleared"
    /\ user' = [user EXCEPT ![c] = result[awaits[c]]]
    /\ decided' = [decided EXCEPT ![c] = now]
    /\ UNCHANGED <<now, pageVars, tokenVars, flightVars, awaits>>

ReturnRefreshed(c) ==
    /\ Resumes(c)
    /\ IsFresh(result[awaits[c]], now)
    /\ pc' = [pc EXCEPT ![c] = "returned"]

\* Slip: the test of the refreshed user is dropped before the redirect.
FallBackAlways(c) ==
    /\ Resumes(c)
    /\ pc' = [pc EXCEPT ![c] = "redirecting"]

\* The refresh did not help: ask for an interactive login.
FallBack(c) ==
    /\ Resumes(c)
    /\ ~IsFresh(result[awaits[c]], now)
    /\ pc' = [pc EXCEPT ![c] = "redirecting"]

\* signinRedirect came back without leaving the page (it rejected, or resolved):
\* getToken rejects.
RedirectReturns(c) ==
    /\ page = "live"
    /\ pc[c] = "redirecting"
    /\ pc' = [pc EXCEPT ![c] = "failed"]
    /\ UNCHANGED <<now, pageVars, tokenVars, flightVars, user, awaits, decided>>

-----------------------------------------------------------------------------
(* login, logout and the page's life *)

\* signoutRedirect drops the stored user before it navigates.  The page goes some
\* time later, if it does (Reload).
Logout ==
    /\ page = "live" /\ ~callback
    /\ store' = NoUser
    /\ UNCHANGED <<now, pageVars, issued, announced, flightVars, callVars>>

\* Everything a page holds in memory goes with it: calls, promises, the bus, and
\* the store unless it is localStorage.
Unload(reason) ==
    /\ page = "live"
    /\ loads < MaxLoads
    /\ page' = reason
    /\ callback' = FALSE
    /\ announced' = {}
    /\ store' = IF StateStore = "memory" THEN NoUser ELSE store
    /\ refreshInFlight' = NoCall
    /\ phase' = [c \in Calls |-> "none"] /\ result' = [c \in Calls |-> NoUser]
    /\ pc' = [c \in Calls |-> IF pc[c] = "new" THEN "new" ELSE "lost"]
    /\ user' = [c \in Calls |-> NoUser] /\ awaits' = [c \in Calls |-> NoCall]
    /\ decided' = [c \in Calls |-> 0]
    /\ UNCHANGED <<now, loads, issued>>

\* signinRedirect, called by a getToken that fell back or by login(), leaves for
\* the sign-in page.  Until then it changes nothing here.
LeaveToSignIn == Unload("signin")

\* The user reloads the page, or logout() leaves for the sign-out page.
Reload == Unload("away")

\* The next page constructs a new provider.  Coming back from the sign-in page it
\* may be at /callback.
Load ==
    /\ page # "live"
    /\ page' = "live"
    /\ loads' = loads + 1
    /\ callback' \in {FALSE, page = "signin"}
    /\ UNCHANGED <<now, tokenVars, flightVars, callVars>>

CompleteLoginRedirect ==
    /\ page = "live" /\ callback
    /\ callback' = FALSE
    /\ \/ \E u \in Grants : Acquire(u)
       \/ UNCHANGED tokenVars
    /\ UNCHANGED <<now, page, loads, flightVars, callVars>>

-----------------------------------------------------------------------------
(* The library's timers, the other tabs, the clock *)

\* automaticSilentRenew: the library refreshes a stored user on its own, apart from
\* refreshInFlight.
AutoRenew ==
    /\ page = "live" /\ store # NoUser
    /\ \E u \in Grants : Acquire(u)
    /\ UNCHANGED <<now, pageVars, flightVars, callVars>>

\* localStorage is shared: another tab signs in, refreshes or signs out.  No event
\* of this page's UserManager tells of it.
OtherTab ==
    /\ StateStore = "localStorage"
    /\ \/ /\ issued < MaxTokens
          /\ store' \in Grants
          /\ issued' = issued + 1
       \/ store # NoUser /\ store' = NoUser /\ UNCHANGED issued
    /\ UNCHANGED <<now, pageVars, announced, flightVars, callVars>>

Tick ==
    /\ now < MaxTime
    /\ now' = now + 1
    /\ UNCHANGED <<pageVars, tokenVars, flightVars, callVars>>

-----------------------------------------------------------------------------
CallStep(c) ==
    \/ GetToken(c) \/ ReadStore(c) \/ ReadFails(c) \/ ReturnStored(c)
    \/ StartRefresh(c) \/ JoinRefresh(c)
    \/ ReturnRefreshed(c) \/ FallBack(c) \/ RedirectReturns(c)

RefreshStep(r) ==
    RefreshLands(r) \/ RefreshResolves(r) \/ RefreshFails(r) \/ ClearFlight(r)

PageStep ==
    Logout \/ LeaveToSignIn \/ Reload \/ Load \/ CompleteLoginRedirect

Environment ==
    AutoRenew \/ OtherTab \/ Tick

Next ==
    \/ \E c \in Calls : CallStep(c) \/ RefreshStep(c)
    \/ PageStep
    \/ Environment

\* The event loop runs every job that is queued, and the library settles every
\* promise it returns.  Nobody has to call getToken or to leave the page.
Fairness ==
    \A c \in Calls :
        /\ WF_vars(ReadStore(c) \/ ReadFails(c))
        /\ WF_vars(ReturnStored(c) \/ StartRefresh(c) \/ JoinRefresh(c))
        /\ WF_vars(ReturnRefreshed(c) \/ FallBack(c))
        /\ WF_vars(RedirectReturns(c) \/ LeaveToSignIn)
        /\ WF_vars(RefreshResolves(c) \/ RefreshFails(c))
        /\ WF_vars(ClearFlight(c))

Spec == Init /\ [][Next]_vars
FairSpec == Spec /\ Fairness

-----------------------------------------------------------------------------
(* Properties *)

\* Type invariant of the provider, its calls and the page.
PageTypes   == /\ now \in Nat /\ loads \in Nat
               /\ page \in {"live", "signin", "away"} /\ callback \in BOOLEAN
TokenTypes  == issued \in Nat /\ store \in Users \cup {NoUser} /\ announced \subseteq Nat
FlightTypes == /\ refreshInFlight \in Calls \cup {NoCall}
               /\ phase \in [Calls -> Phases]
               /\ result \in [Calls -> Users \cup {NoUser}]
CallTypes   == /\ pc \in [Calls -> CallStates]
               /\ user \in [Calls -> Users \cup {NoUser}]
               /\ awaits \in [Calls -> Calls \cup {NoCall}]
               /\ decided \in [Calls -> Nat]
TypeOK == PageTypes /\ TokenTypes /\ FlightTypes /\ CallTypes

Unsettled(r) == phase[r] \in {"pending", "landed", "settled"}

\* Overlapping getToken calls never have two silent refreshes of their own under
\* way, from the start of signinSilent until its finally handler has run.
SingleFlight ==
    \A r, s \in Calls : Unsettled(r) /\ Unsettled(s) => r = s

\* The field and the promises agree: the refresh under way is the one a new call
\* would join, and the field never keeps a promise that is over (the next expiry
\* could not refresh any more).
FlightIsCurrent ==
    \A r \in Calls : Unsettled(r) <=> refreshInFlight = r

\* A call that waits, waits for a promise somebody started and that is over or
\* still the current one: no call is left on a promise nothing will settle.
WaitersHaveFlight ==
    \A c \in Calls : pc[c] = "awaiting" =>
        /\ awaits[c] \in Calls
        /\ refreshInFlight = awaits[c] \/ phase[awaits[c]] = "cleared"

\* The calls that shared a refresh get the same answer, except that one which
\* resumes later may find the token has come too near its expiry.  So a call is
\* never answered after one of the same refresh was sent to sign in.
SharedVerdict ==
    \A c, d \in Calls :
        /\ awaits[c] # NoCall /\ awaits[c] = awaits[d]
        /\ pc[c] = "returned" /\ pc[d] \in {"redirecting", "failed"}
        => decided[c] < decided[d]

\* A token getToken has returned was not empty and stays valid for the refresh
\* skew at least: requests sent with it within that time do not carry an expired
\* token.
HandedTokenOutlivesSkew ==
    \A c \in Calls : pc[c] = "returned" =>
        /\ user[c] # NoUser
        /\ user[c].tok # EmptyToken
        /\ user[c].exp # NoExpiry /\ now <= decided[c] + Skew => now < user[c].exp

\* Subscribers hear of a token before a caller has it: with the memory store every
\* token a page hands out was announced on its bus; with localStorage the token of
\* a refresh was, the one found in the store need not be (an earlier page or
\* another tab put it there).
AnnouncedBeforeHanded ==
    \A c \in Calls :
        /\ pc[c] = "returned"
        /\ StateStore = "memory" \/ awaits[c] # NoCall
        => user[c].tok \in announced

\* A refresh was started, and a promise is awaited, by a call past its first test.
RefreshHasStarter ==
    \A r \in Calls : pc[r] \in {"new", "reading", "read"} =>
        phase[r] = "none" /\ awaits[r] = NoCall

\* A verdict is the freshness, when it was passed, of the user the call held: the
\* one the shared promise settled with, if there was one.  A call that failed
\* without a refresh passed none.
Verdicts ==
    \A c \in Calls :
        /\ pc[c] = "returned" => IsFresh(user[c], decided[c])
        /\ pc[c] = "redirecting" => awaits[c] # NoCall
        /\ pc[c] \in {"redirecting", "failed"} /\ awaits[c] # NoCall =>
              ~IsFresh(user[c], decided[c])
        /\ pc[c] \in {"returned", "redirecting", "failed"} /\ awaits[c] # NoCall =>
              phase[awaits[c]] = "cleared" /\ user[c] = result[awaits[c]]

\* The inductive invariant: the types of a call that resumes rest on the promise
\* it awaits, and that on the bookkeeping of the field.
IInv == TypeOK /\ FlightIsCurrent /\ WaitersHaveFlight /\ RefreshHasStarter /\ Verdicts

\* Every getToken call comes to an end: a token, an error, or the page it runs on
\* is left.
CallsSettle ==
    \A c \in Calls : pc[c] = "reading" ~> pc[c] \in {"returned", "failed", "lost"}

\* A refresh never blocks the ones after it: the field is cleared in the end.
FlightClears == refreshInFlight # NoCall ~> refreshInFlight = NoCall

\* What a call looks like from outside, and the abstract shared refresh it takes part in.
SharedState(c) ==
    CASE pc[c] = "new" -> "idle"
      [] pc[c] \in {"reading", "read"} -> "asking"
      [] pc[c] = "awaiting" -> IF phase[awaits[c]] = "cleared" THEN "served" ELSE "waiting"
      [] pc[c] = "returned" -> "answered"
      [] pc[c] \in {"redirecting", "failed"} -> "refused"
      [] OTHER -> "dropped"

Shared == INSTANCE SharedRefresh WITH
    busy  <- refreshInFlight # NoCall,
    state <- [c \in Calls |-> SharedState(c)]

\* Refinement of SharedRefresh, its fairness included: joining, starting, ending
\* and serving happen as that specification says.
ImplementsSharedRefresh == Shared!FairSpec

=============================================================================
