# Formal models of devedge-ufe-sdk

TLA+ models of the micro-frontend SDK in this repository, checked by TLC on small
instances, with proofs checked by TLAPS for every value of the constants. Source paths below
are relative to the repository root.

## 1. The system

A **shell** owns one OIDC session and mounts separately bundled **micro-frontends**
(uFEs) through single-spa. The uFEs get the session as a prop, call the backend with its
token, and never sign in themselves.

| Part | Source | State it keeps | Operations | Model |
|---|---|---|---|---|
| OIDC session provider | `packages/oidc/src/index.ts` | the promise `refreshInFlight`; through oidc-client-ts the stored user | `getToken`, `login`, `logout`, `completeLoginRedirect`, `completeSilentRedirect`, `getClaims`, `subscribe` | `OidcSession` |
| Auth-event bus | `packages/core/src/session.ts:36-87` | a live `Set` of subscribers, one bus pinned on the global object | `createAuthEventBus`, `publish`, `subscribe`, the returned unsubscribe | `AuthEventBus` |
| Authed fetch | `packages/core/src/session.ts:89-185` | none between calls | the wrapped `fetch` | `AuthedFetch` |
| Development session | `packages/core/src/session.ts:187-231` | a fixed token | the same interface | the session `"stub"` of `AuthedFetch`, `useDevSession` in `Shell` |
| Angular interceptors | `packages/angular/src/index.ts` | one subscription per request | `devAuthInterceptor`, `bearerAuthInterceptor` | `Interceptors` |
| single-spa shell | `packages/single-spa/src/index.ts`, `examples/.../shell/root-config.ts`, its twin `examples/.../notes-ufe/src/shell/main.ts` | what is registered with single-spa | both `bootShell`, `createShell().registerAll`, `loadMfe`, `toSingleSpaLifecycles` | `Shell` |
| Nav contributions, manifests | `packages/core/src/nav.ts`, `manifest.ts` | registries are immutable | `staticGroupRegistry`, `validateNavContribution`, `assertNavContributions`, `defineManifest` | `Nav`, used by `Shell` and `Doctor` |
| Dev-loop diagnosis | `packages/dev-loop/src/index.ts`, `cli.ts` | the report of a run | `diagnose`, `devedge-ufe doctor`, `override` | `Doctor` |
| Generated notesd client | `examples/.../clients/notesd-client/src/` | a builder's parameters and body | the methods of `RequestBuilder`, the five operations, `Api.rootUrl`, `Api.invoke` | `RequestParameters`, `RequestBuilder`, `BuilderCaller`, `NotesClient` |
| Notes view of the example | `examples/.../notes-ufe/src/app/home.component.ts`, `notes.service.ts` | the view's fields | `ngOnInit`, `onCreate`, `refresh` | `NotesPage` |
| Wiring of the example uFE | `examples/.../notes-ufe/src/metadata.ts`, `main.ufe.ts`, `app/app.module.ts` | none | evaluation of the modules | partly in `Shell` (manifest, props) and `NotesPage` (interceptors, API base) |

**How they interact.** Importing a uFE's metadata checks and freezes its manifest.
`bootShell` constructs the session, completes a redirect the page was loaded for,
validates the manifest's nav items and calls `registerAll`, which awaits
`session.getToken()` before it registers the apps; each uFE is mounted with the session
among its props. The provider publishes
`token_acquired`, `token_expired` and `signed_out` on the bus, from callbacks of
oidc-client-ts. Authed fetch and the interceptors call `getToken` before a request and
`login` after a 401. The notes view calls the generated client, whose requests pass the
interceptors on their way to notesd. `diagnose` uses the same nav validation as the shell.

**What is hard in it.**

- Everything is asynchronous on one thread: between two awaits nothing else runs, at
  every await anything may. Overlapping `getToken` calls share a refresh; requests
  overlap with logins, renewals, revocations and cancellations.
- A redirect or reload throws away a page with all its promises, and localStorage
  survives it and is shared with other tabs.
- `publish` iterates a live `Set` that the subscribers it calls may change.
- Bodies can be read once, and three parties compete for them.
- The order of boot: callback, token, registration, `start()`.
- Values read before an await and used after it; responses that overtake one another.
- A parameter is escaped up to three times on its way into a request, and the receiver
  undoes it once.

The list of hazards, each with its line and the properties about it, is in
`PROJECT.json`. Those without a property say why.

**What makes each part correct.** Provider: one refresh for all calls that need one, no
call left waiting, the same verdict for calls that shared a refresh, no token about to
expire, tokens announced before they are used. Bus: one per page, every subscriber that
stays hears every event once. Authed fetch and interceptors: the token goes to its own
origins only, one retry after a login and with a new token, nothing happens to a
cancelled request, callers always hear. Shell: nothing mounts without a session, all
apps or none are started, every uFE gets the shell's session. Nav: no contribution
vanishes silently. Doctor: the report is what was seen, and names what was wrong first. Client: the receiver reads what
was asked for. Notes: the flags follow the requests, and a list that fits into
one page is complete.

## 2. Modules

| Module | Role |
|---|---|
| `SharedRefresh` | abstract: what a token getter promises about refreshes |
| `OidcSession` | the provider, one page after the other; refines `SharedRefresh` |
| `Origins` | how both clients resolve a target to an origin |
| `AuthedFetch`, `Interceptors` | the two clients of the session; both extend `Origins` |
| `AuthEventBus` | the bus |
| `Nav` | nav validation and manifests as operators, without state |
| `Shell` | manifest, boot, registration, single-spa; extends `Nav` |
| `Doctor` | the diagnosis and its command; extends `Nav` |
| `RequestParameters`, `RequestBuilder` | the generated client's parameters and builder as operators |
| `BuilderCaller` | code that uses a builder, and a receiver that reads the request |
| `NotesClient` | the five operations over `RequestBuilder`, and how notesd understands them |
| `NotesPage` | the composition: view and script over `Interceptors` and `NotesClient`, with notesd |
| `MC...` | constants and symmetry for TLC |
| `Operators_proofs` | what the stateless operators of `RequestBuilder` and `Nav` compute, and the facts about folds and induction this needs |
| `X_proofs` | for `X` among `OidcSession`, `AuthedFetch`, `AuthEventBus`, `Shell`, `Doctor`, `NotesPage`, `BuilderCaller`: its inductive invariant, lemmas and theorems. The last four extend `Operators_proofs`; the theorems of `Interceptors` are in `NotesPage_proofs`, whose composition needs them |

Names of definitions follow the source; a comment gives the code they stand for where the
name does not, and `map` in `PROJECT.json` the lines. Definitions marked *Slip* are the
model of a plausible bug; a slip stands in front of the definition it would replace, takes
no part in any specification, and for each property one of them is recorded in
`PROJECT.json` under `mutants`: with it, TLC finds the property violated.

### OidcSession

An action is the code between two awaits. A call is a member of `Calls`, and since a call
starts at most one refresh, a refresh promise is named by the call that started it.

| Code | Model |
|---|---|
| `await um.getUser()`, then `isFresh(user)` | `GetToken`, `ReadStore`, then `ReturnStored`, `StartRefresh` or `JoinRefresh`; `ReadFails` when `getUser` rejects |
| `refreshInFlight ??= signinSilent().catch().finally()` | `refreshInFlight`, `phase[r]`: pending, landed (user stored), settled, cleared |
| `userLoaded` handler, `publish(token_acquired)` | `Acquire`, in the step that stores the user |
| `user = await refreshInFlight`, second `isFresh` | `ReturnRefreshed`, `FallBack` |
| `await signinRedirect()`, then the throw | `RedirectReturns`, or the page goes: `LeaveToSignIn` |
| `logout`, redirect callbacks, reload | `Logout`, `CompleteLoginRedirect`, `Reload`, `Load` |
| `automaticSilentRenew`, other tabs | `AutoRenew`, `OtherTab` |

Simplifications, with the reason for each:

- `login()` only asks the library for a redirect and changes nothing else, so it has no
  state: `LeaveToSignIn` may happen at any time the page lives. The navigation of
  `logout()` is a `Reload`.
- UserManager stores the user, raises `userLoaded` and then resolves (`RefreshLands`,
  `RefreshResolves`). A subscriber that throws makes it reject after the store, so
  `RefreshFails` is possible after landing.
- `.finally` was registered before any caller awaited the promise, so `ClearFlight` comes
  before any caller resumes. `phase[r] = "cleared"` is what a resumed call waits for.
- The library's own renewal is one step. It is not deduplicated with `getToken`'s.
- A user is a token and an expiry. Claims and the handlers of `token_expired` and
  `signed_out` touch no state of the provider.

### AuthedFetch

A session is the token it holds. The servers accept the latest token issued (`valid`),
which a revocation moves on. The model has the two sends, the login between them and the
bodies: a Request is cloned before each send and the original can be read by its caller,
an init is passed to `base` as it is. Origins are model values; a relative target resolves
to the page's origin, an unparseable one to none. Headers other than the two the code sets
are left out, and so is an init that is passed beside a Request.

What `login()` does is the session's business, and `createAuthedFetch` takes any: one
that signs in on the page (`"inPlace"`, the only kind after which the retry can carry a
new token), `OidcSessionProvider`, which leaves the page or comes back with what it had
(`"redirect"`), and `StubSessionProvider`, which has one token for ever (`"stub"`).

### Interceptors

A request is one record: the caller's subscription (`outer`), the interceptor's
(`inner`), the headers set on it, the answer, the login and how often it was sent. What
happens to one request is an operator on that record (`Subscribed`, `Authorized`,
`Errored`, `Cancelled`), so that `NotesPage` uses the same definitions. The caller may
unsubscribe at any time.

### AuthEventBus

The stack of `publish` calls under way, each with its position in the Set. Deleted members
leave a hole, additions go to the end and are seen by an iteration that has not ended:
the semantics of a JavaScript Set. Whatever runs on top of the stack, the program or a
handler, may use the bus again or throw. So `publish` need not return: a handler that
subscribes a new function each time it is called keeps the loop at `session.ts:46` going,
and nothing in the code prevents that. `MaxEntries` cuts such a run off; no property says
that `publish` returns.

### Nav and Shell

`Nav` abstracts a contribution to its group, a registry to the set of its groups and an
Error to the place it names.

What a shell is built from is one record, `host`, chosen in `Init` and never changed: the
list of apps, the kind of session, which of the two `bootShell` it is, the manifest and
the two registries it is checked against, the props, and where the uFE's bundle has its
lifecycles. `Import` is the evaluation of `metadata.ts`, before any of `bootShell` runs.
`bootShell` is cut at its awaits; the loop of `registerAll` is one step, since it does not
await. `registerApplication` throws for a name already taken, which ends the loop where
it is.

The two `bootShell` differ in this: the twin knows only the OIDC session, returns instead
of calling `start()`, and loads a bundle without looking for its lifecycles. The model
assumes that the twin's caller starts single-spa when the twin's promise has resolved
(`CallerStarts`); nothing in the repository calls the twin. The promise resolves alike
after the registration and in the frame of a silent renewal (`main.ts:88-90`), so the
caller may start single-spa in the frame as well, where nothing is registered:
`FrameStaysEmpty` and `StartedWithAllApps` say what that leaves true.

single-spa is external: an active app is loaded once it is registered and mounted once
single-spa is started; one whose load failed may be tried again when the address changes,
one that failed to mount is not. A hash is the sequence of its segments, which is all that
`activeOnHash` looks at. The props a uFE is mounted with are records of which only the
session matters: `customProps` under the shell's session, over what
`toSingleSpaLifecycles` captured.

### Doctor

The dev server may change between the two requests of a run. `diagnoses` is an auxiliary
variable: the first thing of the checklist that was wrong (`FirstWrong`) at each moment
since the call, which `FirstFailing` compares with the report. A certificate error whose
message does not say so, as a browser's "Failed to fetch", counts as an unreachable
server there, because that is all the code can tell.

### RequestParameters, RequestBuilder, BuilderCaller

Encoding is what the properties are about, so a text is a sequence of characters
`<<c, n>>`, the character `c` encoded `n` times: `encodeURIComponent` adds one to `n` of
the characters it touches, the escape of a separator sets it, the path's replacements and
a decoding receiver take it back. A value is null, a text, a list of texts or an object,
with null elements. A builder is a record, its Maps are sequences in the order of
insertion, and a method is an operator from builder to builder. The loops are written
with functions over indices and the folds of the community modules, without recursion.

`BuilderCaller` calls the setters in any order with any values and builds. Its properties
do not repeat the serialization: they parse the request with a receiver's operators
(`Split`, `KeyValue`, `Read`), written from the OpenAPI rules for each style, and compare
the result with what was asked for last. The receiver is the counterpart a server would
be, it is not code of the repository, and is not in `map`. Where the code does lose
something, the property says exactly when: `PathRecovered` has an equivalence, so the
recovery of a value with a separator in one of its parts would violate it as well.

Between the two is the browser's parsing of the URL. It takes a segment of one dot or two
(`DotSegments`) out of the path, and `encodeURIComponent` leaves dots as they are, so such
a text does not arrive (`DotsOnly`, which counts the dot that the label style puts before
its value). A key of an object goes into the path as it is (`request-builder.ts:63`):
`ValueAssumption` leaves out the keys with a character in `Breaking`, which would end the
segment or the path, or mean something to the decoding or to `String.replace`; a value
may have any of them. Line breaks and other invisible characters are left out.

### NotesClient, NotesPage

`NotesClient` has the request of each operation, through `RequestBuilder`, and
`Understood`, which matches a request the way notesd's gateway does (external; one
segment for `{id}`, not an empty one, and not one of the dot segments, which the browser
takes out of the URL). An update changes the fields whose names are elements of the mask
(`Changes`); an element that is no field's name, such as two names joined with a comma,
changes nothing (`backend/README.md:86-90`).

`NotesPage` is a page with the notes view and with a script that calls any operation with
its own root URL and parameters through the same client. Every request goes through
`Interceptors`; notesd serves it (`Handle`) and the response arrives, in any order, or is
an error, or is lost after the request was served. Only the view's own steps touch its
fields. A list is answered with its first page (`Pages`): all notes if there are no more
than `PageLimit`, which includes those that were there before (`OldNotes`), or some of them,
and the view never asks for another page (`notes.service.ts:58`). The view's two requests of one kind are told apart, so that `shown` can name the
request whose answer is in front of the user.

## 3. What is checked

TLC, with the bounds of each `.cfg`; each run takes about two minutes at most.

| Run | Question | Properties |
|---|---|---|
| `OidcSafety` | two calls over localStorage with a reload and another tab | `SingleFlight`, `WaitersHaveFlight`, `SharedVerdict`, `HandedTokenOutlivesSkew`, `AnnouncedBeforeHanded`, `IInv` |
| `OidcLiveness` | the in-memory store, with fairness | `AnnouncedBeforeHanded`, `CallsSettle`, `FlightClears`, `ImplementsSharedRefresh` |
| `FetchPage` | two fetches, a session and targets of each kind, a token revoked twice | `OneRetryAfterLogin`, `RetryTokenIsNew`, `OnlyRevokedAgain`, `TokenStaysHome`, `CallsEnd` |
| `Bus` | two handlers, two bundles, nested publish | `OneBusPerPage`, `StayingSubscribersHearOnce`, `NoDuplicates` |
| `ShellPage` | every kind of host, a second `registerAll` | `SessionBeforeApps`, `FrameStaysEmpty`, `CallbackBeforeToken`, `StartedWithAllApps`, `OneSession`, `NoSilentDrop`, `FaultIsFirst`, `MalformedIsNamed`, `ActiveAppMounts` |
| `DoctorRuns` | every run against a changing server | `PassesWereSeen`, `ExitTells`, `FirstFailing` |
| `NotesPage` | view and script, responses out of order or lost, cancellation, a list of more than one page | `IdentityStaysHome`, `CancelledIsQuiet`, `CallersHear`, `FlagsMatchRequests`, `ShowsCreated`, `AsAsked` |
| `Builder` | two calls of setters with values, styles and bodies of every kind | `PathRecovered`, `PairsRecovered`, `BodyRecovered` |

Runs that are violated, each a disagreement between the code and its documentation:

| Run | Property | What it shows |
|---|---|---|
| `FetchBodyReuse` | `RetryKeepsBody` | A URL with a stream in its init is sent again with the consumed stream after a 401; the comment at `session.ts:155-156` says a retry never does that. |
| `InterceptorRetry` | `RetriedOnce` | The interceptor never sends again after a 401; `docs/content/docs/how-to/wire-the-session.md:104` says it retries once. |
| `DoctorNavGroups` | `DoctorReportsNavGroups` | `devedge-ufe doctor` never passes a registry or nav items to `diagnose`, so it cannot report the failure that `docs/content/docs/how-to/diagnose-the-dev-loop.md:36-46` lists for its report. |
| `DevToken` | `EveryRequestCarriesToken` | `environment.ts` names an API of another origin than the page, and `app.module.ts` registers the interceptor without `API_ORIGINS`: no request of the notes view carries the token. `examples/fullstack-oss/README.md:24-25` and `:342-344` say that all do. |

The type invariants (`TypeOK` of `OidcSession`, `AuthedFetch`, `Interceptors`,
`AuthEventBus`, `Shell`) are not among the properties of a run; section 4 has them as
theorems. The inductive invariants of section 4 hold in the instances of the runs, which
TLC showed before they were proved: take the `_proofs` module in place of the one it
extends, and add `INVARIANT IInv` to the `.cfg` (`PageInv` and `ShowInv` for `NotesPage`,
`CallerInv` for `BuilderCaller`; where the `_proofs` module brings in `Nav`, its two
constants need a value as well).

**Bounds and why they are enough.**

- Two overlapping calls show every pairing of starter, joiner and latecomer of one
  refresh; the theorems of section 4 hold for any number. `Lifetimes` has one that is
  shorter than the skew, one that is longer and one without expiry, and `MaxTime` lets a
  fresh token become stale. `MaxTokens` 2 lets a token be replaced while it is used,
  `MaxLoads` 1 lets a page go and another come.
- `FetchPage`: three tokens are the first one, the one a login brings and one that
  replaces it before the retry is answered. Targets: relative, allowed, foreign,
  unparseable. `StrictTargets` refuse every token. Bodies that can be sent once go to
  relative targets only (`MCInputs`): what happens to a body does not depend on the
  target, except through the number of sends, which a relative target has all of.
- `Bus`: two handlers are enough for one to unsubscribe or duplicate the other while it
  is called, two nested publishes for a delivery within a delivery. Deliveries that
  `MaxEntries` and `MaxEvents` cut off are covered up to there; the theorems of section 4
  hold for any bounds.
- `ShellPage`: the hosts are not the product of everything a host may be, but families
  that vary what interacts: app lists, sessions and twins (a list with a duplicate is a
  registration that stops half way, two calls of `registerAll` stop each other);
  bundles and twins; sessions among the props; up to two nav items against up to two
  groups, with and without the check of the metadata; manifests of every shape.
- `Builder`: two calls are one of a setter and another that replaces or accompanies it;
  parameters of different kinds do not touch the same field. Values have up to two
  elements, each of a separator, a dot, a character a path must not contain, nothing
  special, or null. Single texts include the empty one, one dot and two.
- `NotesPage`: two operations, both of the user or one of the script, give with the first
  list and the list after each note up to five requests. An operation of the script has every
  parameter given or left out, ids that need encoding, the empty one and one of two dots,
  masks with the name of a field and with a text that is no name, and a root URL that is
  set, empty, or leads elsewhere. One old note and a `PageLimit` of 2 make the list too long for
  a page as soon as two notes are added.

**Symmetry** is used for safety runs only (`OidcSafety`, `Bus`), over calls, and over
handlers and bundles, that no constant tells apart.

**Deadlock** is checked for the provider and the doctor, where something can always
happen. It is not for the others, which really stop: every request over and no token left
to revoke, the page left, the request built, every operation used up, or, for the bus,
the bounds on insertions and events.

**Fairness.** Weak fairness for the jobs of the event loop (a queued job runs), for the
promises of the library, the browser's fetch and HttpClient (they settle), and for
single-spa's reroute. There is none for the user, the servers' revocations, the automatic
renewal, other tabs, cancellations, the twin's caller or the clock. `CallsSettle` counts a
call whose page is left as settled. On `NotesPage` the only assumption is that while
requests are out some token promise settles or some request is answered or given up:
not which, and not that notesd serves it.

**Properties that hold only under an assumption.**

- `ShowsCreated` speaks of a page whose list is the one asked for last and was answered
  with all there was. The component assigns each response as it comes, so an earlier list
  may arrive later and take the created note off the view; and it shows the first page of a
  list only. Without either condition TLC finds the note missing. What else is in flight,
  or has failed, does not matter. A note whose response was lost is not among those the
  user was told of.
- `ActiveAppMounts` is about a page whose single-spa was started: a boot that rejects
  leaves an empty page.
- `OnlyRevokedAgain` is about a session that signs in on the page. With the other two a
  login brings no token the retry could use, and the caller sees the 401.
- `ActiveAppMounts` excepts a bundle that cannot be fetched or fails to mount, and, with
  the twin, one without lifecycles in the module itself, which single-spa gives up.
- `StayingSubscribersHearOnce` excludes deliveries a handler broke off by throwing,
  because `publish` catches nothing.

## 4. What is proved

Every theorem holds for any value of the constants: any number of calls, requests,
handlers, apps, any lists, origins, hosts and bounds.

| Module | Theorem | Statement |
|---|---|---|
| `OidcSession_proofs` | `Invariant`, `TypeCorrect` | `Spec => []IInv`, `Spec => []TypeOK` |
| | `OneRefreshAtATime` | `Spec => []SingleFlight` |
| | `NoOrphanedWaiter` | `Spec => []WaitersHaveFlight` |
| | `HandedTokensLive` | `Spec => []HandedTokenOutlivesSkew` |
| | `SharersAgree` | `Spec => []SharedVerdict` |
| | `AnnouncedFirst` | `Spec => []AnnouncedBeforeHanded` |
| | `RefinesSharedRefresh` | `Spec => Shared!Spec` |
| `AuthedFetch_proofs` | `Invariant`, `TypeCorrect` | `Spec => []IInv`, `Spec => []TypeOK` |
| | `RetriesOnceAfterLogin` | `Spec => []OneRetryAfterLogin` |
| | `RetriesWithNewToken` | `Spec => []RetryTokenIsNew` |
| | `OnlyRevokedAgainIsSeen` | `Spec => []OnlyRevokedAgain` |
| | `TokenGoesHome` | `Spec => []TokenStaysHome` |
| `AuthEventBus_proofs` | `Invariant`, `TypeCorrect` | `Spec => []IInv`, `Spec => []TypeOK` |
| | `OneBus` | `Spec => []OneBusPerPage` |
| | `StayingHearOnce` | `Spec => []StayingSubscribersHearOnce` |
| | `NobodyTwice` | `Spec => []NoDuplicates` |
| `Operators_proofs` | `StopsAtFirstUnknown` | where `AssertNavContributions` stops, and where it does not |
| | `StrictIsStricter` | what passes a strict check passes a permissive one |
| `Shell_proofs` | `Invariant`, `TypeCorrect` | `Spec => []IInv`, `Spec => []TypeOK` |
| | `SessionBeforeAnyApp` | `Spec => []SessionBeforeApps` |
| | `NoAppsInFrame` | `Spec => []FrameStaysEmpty` |
| | `CallbackFirst` | `Spec => []CallbackBeforeToken` |
| | `WholeListStarts` | `Spec => []StartedWithAllApps` |
| | `ShellsSessionOnly` | `Spec => []OneSession` |
| | `NothingDroppedSilently` | `Spec => []NoSilentDrop` |
| | `FirstIsNamed` | `Spec => []FaultIsFirst` |
| | `WrongFieldIsNamed` | `Spec => []MalformedIsNamed` |
| `Doctor_proofs` | `Invariant` | `Spec => []IInv` |
| | `PassedWasSeen` | `Spec => []PassesWereSeen` |
| | `ExitCodeTells` | `Spec => []ExitTells` |
| | `FirstIsReported` | `Spec => []FirstFailing` |
| `NotesPage_proofs` | `Invariant`, `TypeCorrect` | of `Interceptors`: `Spec => []IInv`, `Spec => []TypeOK` |
| | `IdentityAtHome` | `Spec => []IdentityStaysHome` |
| | `CancelledStaysQuiet` | `Spec => CancelledIsQuiet`, an action property |
| | `PageInvariant` | `PageSpec => []PageInv` |
| | `FlagsAreTrue` | `PageSpec => []FlagsMatchRequests` |
| | `CreatedIsShown` | `PageSpec => []ShowsCreated` |
| | `AskedIsServed` | `PageSpec => []AsAsked` |
| | `PageIdentityAtHome`, `PageCancelledStaysQuiet` | the properties of `Interceptors`, of `PageSpec` |
| `BuilderCaller_proofs` | `CallerInvariant` | `Spec => []CallerInv` |
| | `PathAlwaysRecovered` | `Spec => []PathRecovered` |
| | `PairsAlwaysRecovered` | `Spec => []PairsRecovered` |
| | `BodyAlwaysRecovered` | `Spec => []BodyRecovered` |

**Assumptions** are those the modules state about their constants; TLC evaluates them in
the runs. Those that say more than a type or that a null value is no value:

- `OriginAssumption`: the relative target and the unparseable one are two.
- `HostAssumption`, `DoctorAssumption`: lists of apps and contributions are sequences,
  switches are booleans, and a manifest field is a list or not. The code gets these from
  TypeScript's types, and `defineManifest` tests at run time which fields are lists.
- `PageAssumption`: there are as many requests as the bounded page can make, the view's
  API base and the script's root URLs are targets, and a script's calls say that they are
  the script's.
- `NoteAssumption`: what a script creates, and what was there before, is no note of the
  view's. notesd gives every
  note it creates an id of its own; the model names the view's notes by number.
- `ScriptAssumption`: what a script gives an operation has the shape TypeScript's types
  demand: texts for ids, masks and other parameters, each of which may be left out where
  the type has a `?`, and a plain value for a body. `NamesAreTexts` says of five literal
  names that they are texts, which the provers do not see by themselves.
- `NameAssumption`: a parameter's name has no `=`, no `;` and none of the characters in
  `Breaking`, and is not the name of a header that `build` sets. A path segment with such a name in its prefix could not be
  told apart from another; names come from the generator, not from data.
- `ValueAssumption`, `OptionAssumption`, `TemplateAssumption`, `BodyAssumption`: values are
  what section 5 leaves of them, keys of objects have none of the characters in `Breaking`
  and no `=`, styles are those of OpenAPI, a path ends in the placeholder of its parameter,
  which is a segment of its own, and has it nowhere else, and only a form or a Blob is given the type of a multipart form.

**OidcSession.** `TypeOK` is not inductive: a call that resumes takes
`result[awaits[c]]`, which is a user only if `awaits[c]` is a call, and that holds because
a waiting call always has a refresh. So the inductive invariant is

    IInv == TypeOK /\ FlightIsCurrent /\ WaitersHaveFlight /\ RefreshHasStarter /\ Verdicts

- `FlightIsCurrent`: the refreshes not yet cleared are exactly the one in the field.
  `SingleFlight` follows at once.
- `WaitersHaveFlight`: a waiter's promise is in the field or over.
- `RefreshHasStarter`: a call before its first test has neither started nor awaited a
  refresh, so the phase it is about to set is free.
- `Verdicts`: what a call returned was fresh when it decided, and what it was refused for
  was not (a call that could not read the store decided nothing); a call that shared a refresh decided on the user that refresh settled with.

`HandedTokenOutlivesSkew` is arithmetic from `Verdicts`. `SharedVerdict` is too: two calls
of one refresh hold the same user, and a user that is fresh at one time and not at another
was fresh at the earlier one. `AnnouncedBeforeHanded` needs a second invariant on top:
what a landed refresh has as its result, and with the in-memory store what is stored and
what a call has read, was announced on this page. For the refinement each action is shown
to be, under the mapping `SharedState`, an action of `SharedRefresh` or a stutter; the
reloads map to the loss of all calls at once.

**AuthedFetch.** A conjunct for each question about one call, proved call by call from
two facts about a step: what it leaves of the other calls, and that tokens only get newer.
`Attempts` counts sends and logins where the call stands, `Carries` says that the target
alone decides whether they have a token, `Renews` that a login's token is no newer than
the session's, `Refused` that a token once refused stays refused; the last is what makes
`OnlyRevokedAgain` inductive.

**Interceptors.** What may happen to one request is a relation between its record before
and after (`Moves`), and soundness of a record (`Sound`) is kept by it. So a module in
which more happens has to show only that its steps move requests so.

**AuthEventBus.** The loop of `publish` runs over a set that changes under it, at several
depths at once. The invariant states its progress: for the loop of event `e` at place `n`,
a member that has stayed was called once if its place is before `n`, and not yet if it is
at `n` or after (`Called`); a handler has one place (`Places`); nested loops deliver later
events (`Loops`), so that a step of one does not touch what another has counted; and an
audience that has not unsubscribed is still there (`Present`).

**Nav, Shell and Doctor.** `Operators_proofs` says what `AssertNavContributions` computes; both
the shell's `FaultIsFirst` and `NoSilentDrop` and the doctor's prediction of the shell rest
on it. The shell's invariant relates how far `bootShell` got to the calls of `registerAll`
and to what is registered: `Registrations` (a call that got through registered the whole
list, whoever was first), `BootStage`, `AppProgress`, `RedirectPaths` for the two pages of
a redirect, and `FaultExplained` for the Error. The doctor's `Stage` says what the report
has at each point of a run, `Outcome` how its last step and its result agree, and
`Diagnosed` that what is wrong now has been noted, and that a run that went on to the
manifest has noted something which lies behind the first request.

**NotesPage.** Every step of the page moves its requests by `Moves`, so the properties of
`Interceptors` hold there too. `PageInv` adds that flags and live requests agree, and that
there is a request to spare for every step that takes one, which is counting: one list,
and one more for each note created. `ShowInv` is what makes `ShowsCreated` hold: requests
are used in order, and no list is asked for while a note is being saved (`Order`); so a
list that comes after a note was asked for after the note was stored. What notesd has
served came from these requests (`Service`), and what a list was answered has every note
created before it that is not deleted, if it was a whole list (`ListsAreWhole`). The proof goes through the
client: that the request `NotesApiService` builds is matched by notesd as a list, and as a
create with that note, is a lemma about `RequestBuilder` (`ViewUnderstood`). It also
showed that two of the conditions the property once had, that nothing is in flight and no
error is shown, are not needed, and they are gone.

`AskedIsServed` is about every operation a script calls. The builder's request is worked
out setter by setter (`Put`, the folds of `build`), and read back by notesd: that a text
survives `encodeURIComponent`, the path's replacements and one decoding is a fact about
single characters, and an id that is empty or a dot segment is none that arrives, so no
request of one note is served as one of the collection.

**BuilderCaller.** The state needs little: `CallerInv` says that for each kind of parameter
the builder holds what was asked for last and nothing else. `BodyAlwaysRecovered` follows
from what `FormEntries` has at each place. For the other two the question is what a
receiver finds in texts that were escaped, joined and split again, in lists of any length:

- `SplitJoin`: parts without the separator are what `Split` finds in their `Join`, unless
  there is one and it is empty. `Split` is a fold over the characters, `Join` a fold over
  the parts; the proof follows the splitting from one part to the next (`IntoWord`,
  `IntoNext`), by induction over the parts.
- The other direction of the equivalence, that a part with the separator in it is *not*
  recovered: what `Split` returns has no separator in any part (`PartsWithout`), and
  neither has what a decoding receiver makes of that, if decoding brings no separator
  about (`Channel`). For the path this needs that its replacements have put back the
  `=`, `;` and `,` that were escaped, so that only other characters are left to decode; for the query, that the codec's encoding and
  the receiver's decoding cancel out, which leaves the escape in place.
- `Sends` says when a text on its way stands for a part that was meant. From it `ListRead`,
  `FlatRead` (keys and values alternate), `KeyedRead` (`key=value`) and `NamedRead` (the
  name repeated, as in an exploded matrix) say what is read of a whole list or object.
  What is left for each of path, query and header is to show that its elements are sent in
  this sense, for each style.
- The path is also filled into its template: `AppendPathLast` and `HolesFilled` say for
  which placeholders a style's prefix and `*` fit, and that the others stay unfilled.

**Induction.** The library's induction theorems have an operator as a parameter, which
tlapm cannot instantiate. `Induction` in `Operators_proofs` has a set in its place, and its
proof takes the least number that is not in it (`WFMin`, which has sets only). The
recursive functions in the definitions of the folds are handled the same way: a function
that satisfies the recursion is constructed (`Iteration`), and shown to be the fold.

**Only model-checked.** Liveness, since liveness under fairness and ENABLED are out of the
prover's reach: `CallsSettle`, `FlightClears`, the fairness part of `ImplementsSharedRefresh`,
`CallsEnd`, `CallersHear`, `ActiveAppMounts`. Every safety invariant and
action property of the passing runs is proved.

## 5. Not modelled

- `getClaims`, `subscribe` of the provider and the dependency-injection providers of the
  Angular package: they keep no state.
- Which event the bus delivers: `AuthEventBus` numbers the events and does not tell a
  `token_acquired` from the events of the development session's `login` and `logout`.
- `override` of the dev-loop (one localStorage write and a reload), printing, wording.
- `completeSilentRedirect` beyond its place in the boot: it posts a message to the parent
  frame, whose library answers the refresh.
- Rejections nobody handles, such as that of `void session.login()` in the interceptor.
- Of the generated client: values nested deeper than a list or an object of texts (forms
  do have nested values), the response type, progress and context options of `build`, and
  the interfaces of the models.
- The Angular modules, routes and templates, and the element `main.ufe.ts` renders into:
  declarations that the frameworks interpret.
- `lifecycle.ts` (interfaces only), the Go start-up code of notesd (whose behaviour is in
  another repository), charts and workflows.

## 6. Plan

All modules are written, and every safety property of a passing run is proved. What could
come next:

1. A composition of the provider, the bus and authed fetch on one page, with the question
   no part can answer alone: is a subscriber that acts on `token_acquired` ever behind a
   request that used the token? `AnnouncedFirst` is the provider's half of the answer.
2. Several parameters of one kind in a builder: `BuilderCaller` has one of each, and
   `NotesPage` those of the five operations. `Operators_proofs` has the facts about `Put`
   and the folds of `build` that this takes.
