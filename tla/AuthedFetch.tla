------------------------------ MODULE AuthedFetch ------------------------------
(***************************************************************************)
(* createAuthedFetch (packages/core/src/session.ts): overlapping calls of  *)
(* the wrapped fetch, each with at most one login and one retry, over one  *)
(* session whose token the servers may stop accepting at any time.  What   *)
(* login() does depends on the session: one that signs in on the page has  *)
(* a new token when it resolves, OidcSessionProvider leaves the page (or   *)
(* comes back empty-handed), StubSessionProvider keeps its only token.     *)
(*                                                                         *)
(* A call is a member of Requests.  Tokens are numbered in the order the   *)
(* identity provider issues them; the servers accept the latest only.      *)
(***************************************************************************)
EXTENDS Naturals, Sequences, Origins

CONSTANTS
    Requests,        \* the calls of the wrapped fetch
    Targets,         \* where they may go
    Inputs,          \* what they may be given
    AllowedOrigins,  \* AuthedFetchOptions.allowedOrigins
    StrictTargets,   \* targets that answer 401 whatever the token
    Sessions,        \* the sessions: subset of {"inPlace", "redirect", "stub"}
    MaxTokens,       \* bound: tokens issued
    NoToken, NoInput

\* What a call is given: a Request object or a URL with an init, and a body that
\* can be sent any number of times (none, a string) or once (a stream; the body of
\* a Request).
AllInputs == [target : Targets, form : {"request", "plain"}, body : {"reusable", "once"}]

ASSUME TokenAssumption == MaxTokens \in Nat \ {0} /\ NoToken \notin Nat
ASSUME InputAssumption == Inputs \subseteq AllInputs /\ NoInput \notin AllInputs

VARIABLES
    session,  \* the session createAuthedFetch was given
    held,     \* the token the session holds
    valid,    \* the token the servers accept
    pc,       \* pc[r]: what call r waits for
    input,    \* input[r]: its arguments
    spent,    \* spent[r]: the body of its arguments has been read
    sent,     \* sent[r]: the requests it made of base, in order
    status,   \* status[r]: the status of the last response, 0 before
    relogin   \* relogin[r]: the token its login brought, 0 before

vars == <<session, held, valid, pc, input, spent, sent, status, relogin>>

Sends == [token : Nat \cup {NoToken}, intact : BOOLEAN]
CallStates == {"idle", "token", "wire", "login", "returned", "rejected", "lost"}

Init ==
    /\ session \in Sessions
    /\ held = 1 /\ valid = 1
    /\ pc = [r \in Requests |-> "idle"]
    /\ input = [r \in Requests |-> NoInput]
    /\ spent = [r \in Requests |-> FALSE]
    /\ sent = [r \in Requests |-> <<>>]
    /\ status = [r \in Requests |-> 0]
    /\ relogin = [r \in Requests |-> 0]

Attach(in) == MayAttachToken(in.target, AllowedOrigins)

-----------------------------------------------------------------------------
\* base is called with the input in and the token t.  A Request is cloned first, and clone
\* throws once its body was read; base reads the body of an init itself.
Send(r, in, t) ==
    IF in.form = "request" /\ spent[r]
    THEN /\ pc' = [pc EXCEPT ![r] = "rejected"]
         /\ UNCHANGED <<sent, spent>>
    ELSE /\ pc' = [pc EXCEPT ![r] = "wire"]
         /\ sent' = [sent EXCEPT ![r] = Append(@, [token |-> t, intact |-> ~spent[r]])]
         /\ spent' = [spent EXCEPT ![r] = in.form = "plain" /\ in.body = "once"]

\* Slip: the retry keeps the token of the first send.
StartSendSameToken(r, in) ==
    IF Attach(in) /\ sent[r] = <<>>
    THEN pc' = [pc EXCEPT ![r] = "token"] /\ UNCHANGED <<sent, spent>>
    ELSE Send(r, in, IF sent[r] = <<>> THEN NoToken ELSE sent[r][1].token)

\* send(): with the token, which is awaited, or at once without one.
StartSend(r, in) ==
    IF Attach(in)
    THEN pc' = [pc EXCEPT ![r] = "token"] /\ UNCHANGED <<sent, spent>>
    ELSE Send(r, in, NoToken)

Call(r) ==
    /\ pc[r] = "idle"
    /\ \E in \in Inputs :
          /\ input' = [input EXCEPT ![r] = in]
          /\ StartSend(r, in)
    /\ UNCHANGED <<session, held, valid, status, relogin>>

\* session.getToken() resolves with the token the session holds then.
TokenArrives(r) ==
    /\ pc[r] = "token"
    /\ Send(r, input[r], held)
    /\ UNCHANGED <<session, held, valid, input, status, relogin>>

\* getToken, base or login rejects, and the call with it.  base rejects a body that was
\* read before.
Rejects(r) ==
    /\ pc[r] \in {"token", "wire", "login"}
    /\ pc' = [pc EXCEPT ![r] = "rejected"]
    /\ UNCHANGED <<session, held, valid, input, spent, sent, status, relogin>>

\* The status a server may answer the last request of call r with.
Answers(r) ==
    LET last == sent[r][Len(sent[r])] IN
    IF last.token = NoToken THEN {200, 401}
    ELSE IF last.token = valid /\ input[r].target \notin StrictTargets THEN {200}
    ELSE {401}

Answered(r, s) ==
    /\ pc[r] = "wire"
    /\ sent[r][Len(sent[r])].intact
    /\ s \in Answers(r)
    /\ status' = [status EXCEPT ![r] = s]
    /\ UNCHANGED <<session, held, valid, input, spent, sent, relogin>>

\* Anything but a first 401 is the caller's.
Passes(r) ==
    \E s \in {200, 401} :
        /\ Answered(r, s)
        /\ s # 401 \/ Len(sent[r]) > 1
        /\ pc' = [pc EXCEPT ![r] = "returned"]

\* Slip: every 401 is followed by a login and a retry.
UnauthorizedAgain(r) ==
    /\ Answered(r, 401)
    /\ Len(sent[r]) <= 2
    /\ pc' = [pc EXCEPT ![r] = "login"]

\* A first 401: await session.login().
Unauthorized(r) ==
    /\ Answered(r, 401)
    /\ Len(sent[r]) = 1
    /\ pc' = [pc EXCEPT ![r] = "login"]

\* Slip: the retry does not wait for the login.
LoggedInUnawaited(r) ==
    /\ pc[r] = "login"
    /\ StartSend(r, input[r])
    /\ UNCHANGED <<session, held, valid, input, status, relogin>>

\* Slip: the retry waits until there is another token than the one refused.
LoggedInWithNewToken(r) ==
    /\ pc[r] = "login"
    /\ held' = IF session = "inPlace" THEN valid ELSE held
    /\ held' # sent[r][1].token
    /\ relogin' = [relogin EXCEPT ![r] = held']
    /\ StartSend(r, input[r])
    /\ UNCHANGED <<session, valid, input, status>>

\* login() resolves: retry, with the token the session holds by now.
LoggedIn(r) ==
    /\ pc[r] = "login"
    /\ held' = IF session = "inPlace" THEN valid ELSE held
    /\ relogin' = [relogin EXCEPT ![r] = held']
    /\ StartSend(r, input[r])
    /\ UNCHANGED <<session, valid, input, status>>

\* login() leaves the page, with every call on it.
PageLeaves ==
    /\ session = "redirect"
    /\ \E r \in Requests : pc[r] = "login"
    /\ pc' = [r \in Requests |->
                IF pc[r] \in {"token", "wire", "login"} THEN "lost" ELSE pc[r]]
    /\ UNCHANGED <<session, held, valid, input, spent, sent, status, relogin>>

-----------------------------------------------------------------------------
(* The surroundings *)

\* The application reads the body of a Request it has passed.
CallerReads(r) ==
    /\ pc[r] \in {"token", "wire", "login"}
    /\ input[r].form = "request" /\ input[r].body = "once" /\ ~spent[r]
    /\ spent' = [spent EXCEPT ![r] = TRUE]
    /\ UNCHANGED <<session, held, valid, pc, input, sent, status, relogin>>

\* The token expires or is revoked, and a newer one is what the servers want.
Revoke ==
    /\ valid < MaxTokens
    /\ valid' = valid + 1
    /\ UNCHANGED <<session, held, pc, input, spent, sent, status, relogin>>

\* The session renews its token by itself.
Renew ==
    /\ session # "stub" /\ held # valid
    /\ held' = valid
    /\ UNCHANGED <<session, valid, pc, input, spent, sent, status, relogin>>

CallStep(r) ==
    \/ Call(r) \/ TokenArrives(r) \/ Rejects(r) \/ Passes(r) \/ Unauthorized(r)
    \/ LoggedIn(r)

Next ==
    \/ \E r \in Requests : CallStep(r) \/ CallerReads(r)
    \/ PageLeaves \/ Revoke \/ Renew

\* Every promise that is awaited settles.
Fairness ==
    \A r \in Requests :
        /\ WF_vars(TokenArrives(r))
        /\ WF_vars(Passes(r) \/ Unauthorized(r) \/ (pc[r] = "wire" /\ Rejects(r)))
        /\ WF_vars(LoggedIn(r) \/ PageLeaves)

Spec == Init /\ [][Next]_vars
FairSpec == Spec /\ Fairness

-----------------------------------------------------------------------------
(* Properties *)

\* Type invariant of the calls and the session.
TypeOK ==
    /\ session \in Sessions
    /\ held \in Nat /\ valid \in Nat
    /\ pc \in [Requests -> CallStates]
    /\ input \in [Requests -> Inputs \cup {NoInput}]
    /\ spent \in [Requests -> BOOLEAN]
    /\ sent \in [Requests -> Seq(Sends)]
    /\ status \in [Requests -> {0, 200, 401}]
    /\ relogin \in [Requests -> Nat]

\* No send of a call, first or retry, carries the token to an origin that is neither
\* the page's nor on the allowlist; a target that does not resolve never gets it.
TokenStaysHome ==
    \A r \in Requests : \A i \in DOMAIN sent[r] :
        sent[r][i].token # NoToken =>
            /\ input[r].target # Unparseable
            /\ OriginOf(input[r].target) \in ({PageOrigin} \ {NoOrigin}) \cup AllowedOrigins

\* A call makes one retry at most, and only after its own login came back.
OneRetryAfterLogin ==
    \A r \in Requests :
        /\ Len(sent[r]) <= 2
        /\ Len(sent[r]) = 2 => relogin[r] # 0

\* A retry carries the token again, if the first send did, and never one older than
\* the login brought, however the logins of other calls and the session's own
\* renewals fall.
RetryTokenIsNew ==
    \A r \in Requests :
        Len(sent[r]) = 2 /\ sent[r][1].token # NoToken =>
            sent[r][2].token # NoToken /\ sent[r][2].token >= relogin[r]

\* With a session that signs in on the page, a caller sees a 401 for a token it could
\* have only if the server refuses every token, or the token of the login was revoked
\* again before the retry was answered.
OnlyRevokedAgain ==
    session = "inPlace" => \A r \in Requests :
        /\ pc[r] = "returned" /\ status[r] = 401
        /\ sent[r][1].token # NoToken /\ input[r].target \notin StrictTargets
        => valid > relogin[r] /\ relogin[r] > sent[r][1].token

\* Every call that was made comes to an end, or its page does: with a token or without
\* (a foreign target, one that does not resolve), after one send or two, and also when
\* the login brings no new token, as with a session that has only the one.
CallsEnd ==
    \A r \in Requests :
        pc[r] \in {"token", "wire", "login"} ~> pc[r] \in {"returned", "rejected", "lost"}

\* What the comment on the captured request says: a retry never reuses a body that was
\* consumed.
RetryKeepsBody ==
    \A r \in Requests : \A i \in DOMAIN sent[r] : sent[r][i].intact

=============================================================================
