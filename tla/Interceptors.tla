----------------------------- MODULE Interceptors -----------------------------
(***************************************************************************)
(* The Angular interceptors (packages/angular/src/index.ts) in the order   *)
(* they are registered in, devAuthInterceptor ahead of                     *)
(* bearerAuthInterceptor: overlapping requests that may be cancelled at    *)
(* any moment, each an observable its caller (outer) subscribes to and an  *)
(* inner one that goes to the backend.  What happens to one request is an  *)
(* operator on its record, for modules in which it happens along with      *)
(* something else.                                                         *)
(***************************************************************************)
EXTENDS Naturals, Origins

CONSTANTS
    Requests,    \* requests of the application
    Targets,     \* where they may go
    ApiOrigins,  \* the origins of the injection token API_ORIGINS
    DevHeaders,  \* DEV_AUTH_HEADERS is not empty
    NoTarget

ASSUME InterceptorAssumption == DevHeaders \in BOOLEAN /\ NoTarget \notin Targets

VARIABLE
    \* req[r].outer: the caller's subscription; inner: what the interceptor is subscribed
    \* to; target: where r goes; headers: those the interceptors set on it; status: how
    \* the backend answered; login: the login() call r has made; sends: how often it was
    \* passed to the backend
    req

OuterStates == {"idle", "open", "value", "completed", "errored", "cancelled"}
InnerStates == {"none", "token", "wire", "closed"}

Idle == [outer |-> "idle", inner |-> "none", target |-> NoTarget, headers |-> {},
         status |-> "none", login |-> "none", sends |-> 0]

Init == req = [r \in Requests |-> Idle]

Allowed(t) == IsAllowedOrigin(t, ApiOrigins)

\* devAuthInterceptor: no headers configured, or another origin: the request is
\* passed on as it is.
DevAuth(t) == IF DevHeaders /\ Allowed(t) THEN {"dev"} ELSE {}

Live(r) == req[r].outer \in {"open", "value"}

-----------------------------------------------------------------------------
(* What happens to a request q *)

\* HttpClient subscribes: the dev headers are set; a request to an allowed origin waits
\* for from(session.getToken()), any other goes straight to the backend.
Subscribed(q, t) ==
    LET begun == [q EXCEPT !.outer = "open", !.target = t, !.headers = DevAuth(t)]
    IN  IF Allowed(t) THEN [begun EXCEPT !.inner = "token"]
                      ELSE [begun EXCEPT !.inner = "wire", !.sends = @ + 1]

\* The clone with the Authorization header goes to the backend.
Authorized(q) ==
    [q EXCEPT !.headers = @ \cup {"bearer"}, !.inner = "wire", !.sends = @ + 1]

Completed(q) == [q EXCEPT !.inner = "closed", !.outer = "completed", !.status = "ok"]

\* Slip: the 401 waits for the login before the caller hears of it.
ErroredSilently(q, s) ==
    LET login == s = "401" /\ "bearer" \in q.headers
    IN  [q EXCEPT !.inner = "closed", !.status = s,
                  !.outer = IF login THEN @ ELSE "errored",
                  !.login = IF login THEN "pending" ELSE @]

\* The backend's error.  A 401 of a request with the token starts a login nobody waits
\* for; the caller sees the error either way.
Errored(q, s) ==
    [q EXCEPT !.inner = "closed", !.outer = "errored", !.status = s,
              !.login = IF s = "401" /\ "bearer" \in q.headers THEN "pending" ELSE @]

\* Slip: the teardown of the inner subscription is left out.
CancelledOuter(q) == [q EXCEPT !.outer = "cancelled"]

\* The caller unsubscribes; the teardown takes the inner subscription with it.
Cancelled(q) == [q EXCEPT !.outer = "cancelled", !.inner = "closed"]

-----------------------------------------------------------------------------
(* Requests of an application that may do anything with them *)

Subscribe(r) ==
    /\ req[r].outer = "idle"
    /\ \E t \in Targets : req' = [req EXCEPT ![r] = Subscribed(@, t)]

TokenArrives(r) ==
    /\ req[r].inner = "token"
    /\ req' = [req EXCEPT ![r] = Authorized(@)]

\* getToken rejects: its error is the caller's, without a login.
TokenFails(r) ==
    /\ req[r].inner = "token"
    /\ req' = [req EXCEPT ![r].inner = "closed", ![r].outer = "errored"]

\* An event before the response, the first of them HttpClient's own for the sending.
Emit(r) ==
    /\ req[r].inner = "wire"
    /\ req' = [req EXCEPT ![r].outer = "value"]

Complete(r) ==
    /\ req[r].inner = "wire"
    /\ req' = [req EXCEPT ![r] = Completed(@)]

Error(r) ==
    /\ req[r].inner = "wire"
    /\ \E s \in {"401", "error"} : req' = [req EXCEPT ![r] = Errored(@, s)]

Unsubscribe(r) ==
    /\ Live(r)
    /\ req' = [req EXCEPT ![r] = Cancelled(@)]

\* The promise of `void session.login()` settles unobserved.
LoginSettles(r) ==
    /\ req[r].login = "pending"
    /\ req' = [req EXCEPT ![r].login = "settled"]

RequestStep(r) ==
    \/ Subscribe(r) \/ TokenArrives(r) \/ TokenFails(r) \/ Emit(r)
    \/ Complete(r) \/ Error(r) \/ Unsubscribe(r) \/ LoginSettles(r)

Next == \E r \in Requests : RequestStep(r)

Spec == Init /\ [][Next]_req

-----------------------------------------------------------------------------
(* Properties *)

\* Type invariant of the requests.
TypeOK ==
    req \in [Requests ->
        [outer : OuterStates, inner : InnerStates, target : Targets \cup {NoTarget},
         headers : SUBSET {"dev", "bearer"}, status : {"none", "ok", "401", "error"},
         login : {"none", "pending", "settled"}, sends : Nat]]

\* Neither the token nor the development identity leaves for an origin off the
\* list, and nothing ever does for a target that does not resolve.
IdentityStaysHome ==
    \A r \in Requests : req[r].headers # {} => OriginOf(req[r].target) \in ApiOrigins \ {NoOrigin}

\* After the caller has unsubscribed, while the token is awaited or while the
\* backend works, nothing of the request happens any more: no send, no event, no
\* login.
CancelledIsQuiet ==
    [][\A r \in Requests : req[r].outer = "cancelled" => req'[r] = req[r]]_req

\* A caller that stays subscribed hears how the request ended: no 401 is kept from
\* it while a login is under way.
CallersHear ==
    \A r \in Requests :
        req[r].outer = "open" ~> req[r].outer \in {"completed", "errored", "cancelled"}

\* What docs/content/docs/how-to/wire-the-session.md says: on a 401 the interceptor triggers
\* login and retries once, so a caller sees a 401 only after a second send.
RetriedOnce ==
    \A r \in Requests :
        req[r].outer = "errored" /\ req[r].status = "401" /\ "bearer" \in req[r].headers
            => req[r].sends = 2

=============================================================================
