--------------------------------- MODULE Shell ---------------------------------
(***************************************************************************)
(* The shell on one page load: the manifest a micro-frontend publishes,    *)
(* bootShell of the example (the root-config, and its twin in the notes    *)
(* sources), the createShell it calls (packages/single-spa/src/index.ts)   *)
(* and single-spa, which loads, mounts and unmounts the registered         *)
(* applications as the hash changes.  single-spa and the session provider  *)
(* are external: how getToken answers is OidcSession's business.           *)
(***************************************************************************)
EXTENDS Nav

CONSTANTS
    Hosts,         \* the hosts, what each is built from: see host
    Calls,         \* calls of registerAll
    bootCall,      \* the one bootShell makes
    Paths,         \* what location.pathname may be at first
    Hashes,        \* what location.hash may be: its segments
    NotesHash,     \* NOTES_HASH
    Route          \* Route[a]: the segment activeOnHash is given for app a

Apps == UNION {ToSet(h.apps) : h \in Hosts}

ASSUME ShellAssumption ==
    /\ bootCall \in Calls /\ <<NotesHash>> \in Hashes
    /\ DOMAIN Route = Apps

\* A host is typed TypeScript: its apps are a list and its switches are booleans.  Its
\* manifest comes from a program that may be none, so a field may be no array; one that
\* its own module checks has an array to check.
ASSUME HostAssumption ==
    \A h \in Hosts :
        /\ h.apps \in Seq(ToSet(h.apps))
        /\ h.useDevSession \in BOOLEAN /\ h.twin \in BOOLEAN /\ h.permissive \in BOOLEAN
        /\ h.manifest.navItems # NotArray \/ h.devGroups # Absent =>
              h.manifest.navItems \in Seq(ToSet(h.manifest.navItems))
        /\ h.manifest.exports # NotArray => h.manifest.exports \in Seq(BOOLEAN)

VARIABLES
    host,        \* [apps |-> ShellOptions.apps, the names in order;
                 \*  useDevSession |-> environment.useDevSession;
                 \*  twin |-> whether bootShell is src/shell/main.ts's;
                 \*  manifest, devGroups |-> metadata.ts: the manifest it publishes and
                 \*      the groups it checks it against, or Absent if it does not;
                 \*  groups, permissive |-> the host's own registry and validation options;
                 \*  customProps |-> ShellOptions.customProps; captured |-> the props the
                 \*      modules were adapted with; bundle |-> where lifecycles are found]
    fault,       \* <<>>, or what the Error that stopped the page names
    warned,      \* the contributions that were warned about
    given,       \* given[a]: the session app a was last mounted with
    boot,        \* where bootShell stands
    entry,       \* location.pathname the page was loaded with
    path, hash,  \* location.pathname and location.hash
    signedIn,    \* completeLoginRedirect has succeeded on this page
    call,        \* call[c]: where call c of registerAll stands
    tokens,      \* getToken calls of registerAll that have resolved
    registered,  \* the names registered with single-spa
    started,     \* single-spa's start() has been called
    app          \* app[a]: single-spa's status of the application

vars == <<host, fault, warned, given, boot, entry, path, hash, signedIn, call, tokens,
          registered, started, app>>

nav == <<host, fault, warned>>
location == <<entry, path, hash>>
spa == <<registered, started, app, given>>

BootStates == {"import", "begin", "callback", "silent", "nav", "registering", "done", "framed", "failed",
               "left"}
AppStates == {"none", "not_loaded", "loading", "unreachable", "refused", "loaded", "mounting",
              "mounted", "broken"}
Sessions == {"none", "shell", "other"}

Init ==
    /\ host \in Hosts
    /\ fault = <<>> /\ warned = {}
    /\ given = [a \in Apps |-> "none"]
    /\ boot = "import"
    /\ entry \in Paths /\ path = entry /\ hash \in Hashes
    /\ signedIn = FALSE
    /\ call = [c \in Calls |-> "idle"] /\ tokens = 0
    /\ registered = {}
    /\ started = FALSE
    /\ app = [a \in Apps |-> "none"]

-----------------------------------------------------------------------------
(* The metadata module, and bootShell *)

\* The contribution assertNavContributions throws for, and the registry it misses in.
NavFault(groups, permissive) ==
    LET registry == StaticGroupRegistry(groups)
        bad      == AssertNavContributions(host.manifest.navItems, registry, permissive)
    IN  IF bad = 0 THEN <<>> ELSE <<bad, registry>>

\* metadata.ts is evaluated before anything of the shell: the check against its own
\* groups, then defineManifest.  Its Error keeps bootShell from running.
ImportFault ==
    LET dev   == IF host.devGroups = Absent THEN <<>> ELSE NavFault(host.devGroups, FALSE)
        field == DefineManifest(host.manifest)
    IN  IF dev # <<>> THEN dev ELSE IF field = "none" THEN <<>> ELSE <<field>>

Import ==
    /\ boot = "import"
    /\ fault' = ImportFault
    /\ boot' = IF ImportFault = <<>> THEN "begin" ELSE "failed"
    /\ UNCHANGED <<host, warned, location, signedIn, call, tokens, spa>>

\* Slip: the silent-renew frame boots like a page.
OidcEntryUnframed == IF path = "/callback" THEN "callback" ELSE "nav"

\* Slip: the callback is left to getToken.
OidcEntryNoCallback == IF path = "/silent-refresh" THEN "silent" ELSE "nav"

\* With the OIDC session, the page begins with the redirect it was loaded for, if any.
OidcEntry ==
    CASE path = "/callback"       -> "callback"
      [] path = "/silent-refresh" -> "silent"
      [] OTHER                    -> "nav"

\* The session is constructed.  The development session ignores the path.
Construct ==
    /\ boot = "begin" /\ ~host.twin
    /\ boot' = IF host.useDevSession THEN "nav" ELSE OidcEntry
    /\ UNCHANGED <<nav, location, signedIn, call, tokens, spa>>

\* The twin knows the OIDC session only.
TwinConstruct ==
    /\ boot = "begin" /\ host.twin
    /\ boot' = OidcEntry
    /\ UNCHANGED <<nav, location, signedIn, call, tokens, spa>>

\* `await oidc.completeLoginRedirect()`, then the address becomes /#notes.
CallbackCompletes ==
    /\ boot = "callback"
    /\ boot' = "nav"
    /\ signedIn' = TRUE
    /\ path' = "/" /\ hash' = <<NotesHash>>
    /\ UNCHANGED <<nav, entry, call, tokens, spa>>

\* `await oidc.completeSilentRedirect()` in the hidden frame: bootShell returns.
SilentCompletes ==
    /\ boot = "silent"
    /\ boot' = "framed"
    /\ UNCHANGED <<nav, location, signedIn, call, tokens, spa>>

\* Either of them rejects, and bootShell with it.
RedirectFails ==
    /\ boot \in {"callback", "silent"}
    /\ boot' = "failed"
    /\ UNCHANGED <<nav, location, signedIn, call, tokens, spa>>

\* The contributions the loop of assertNavContributions warns about on its way.
Warned == {i \in DOMAIN host.manifest.navItems :
              LET items == host.manifest.navItems IN
              ValidateNavContribution(items[i], StaticGroupRegistry(host.groups), host.permissive)
                  = "warned"}

\* assertNavContributions passes: the shell is created and registerAll called.
NavPasses ==
    /\ boot = "nav" /\ NavFault(host.groups, host.permissive) = <<>>
    /\ warned' = Warned
    /\ boot' = "registering" /\ call' = [call EXCEPT ![bootCall] = "token"]
    /\ UNCHANGED <<host, fault, location, signedIn, tokens, spa>>

\* It throws, and bootShell rejects.
NavThrows ==
    /\ boot = "nav"
    /\ LET bad == NavFault(host.groups, host.permissive)
       IN  bad # <<>> /\ fault' = bad
    /\ boot' = "failed"
    /\ UNCHANGED <<host, warned, location, signedIn, call, tokens, spa>>

\* Slip: single-spa is started however the registration ended.
StartRegardless ==
    /\ boot = "registering" /\ call[bootCall] # "token"
    /\ boot' = "done" /\ started' = TRUE
    /\ UNCHANGED <<nav, location, signedIn, call, tokens, registered, app, given>>

\* `await shell.registerAll()` is over: start(), which the twin leaves to its caller, or
\* bootShell rejects.
Start ==
    /\ boot = "registering" /\ call[bootCall] = "registered" /\ ~host.twin
    /\ boot' = "done" /\ started' = TRUE
    /\ UNCHANGED <<nav, location, signedIn, call, tokens, registered, app, given>>

TwinReturns ==
    /\ boot = "registering" /\ call[bootCall] = "registered" /\ host.twin
    /\ boot' = "done"
    /\ UNCHANGED <<nav, location, signedIn, call, tokens, spa>>

\* The host page, which calls the twin's bootShell, starts single-spa itself when the
\* promise resolves; it resolves alike after the registration and in the silent frame.
CallerStarts ==
    /\ boot \in {"done", "framed"} /\ host.twin /\ ~started
    /\ started' = TRUE
    /\ UNCHANGED <<nav, location, boot, signedIn, call, tokens, registered, app, given>>

BootRejects ==
    /\ boot = "registering" /\ call[bootCall] = "failed"
    /\ boot' = "failed"
    /\ UNCHANGED <<nav, location, signedIn, call, tokens, spa>>

-----------------------------------------------------------------------------
(* createShell(...).registerAll *)

\* Another holder of the shell calls registerAll.
RegisterAll(c) ==
    /\ c # bootCall /\ call[c] = "idle"
    /\ boot # "left" /\ call[bootCall] # "idle"
    /\ call' = [call EXCEPT ![c] = "token"]
    /\ UNCHANGED <<nav, boot, location, signedIn, tokens, spa>>

\* The first app whose name is taken, by an earlier call or an earlier app of the list:
\* registerApplication throws there.
Taken(i) == host.apps[i] \in registered \cup {host.apps[j] : j \in 1..(i - 1)}
Stop == LET t == {i \in DOMAIN host.apps : Taken(i)} IN
        Min(t \cup {Len(host.apps) + 1})

\* The loop of registerAll, run through at once.
Register(c) ==
    LET new == {host.apps[i] : i \in 1..(Stop - 1)} \ registered IN
    /\ registered' = registered \cup new
    /\ app' = [a \in Apps |-> IF a \in new THEN "not_loaded" ELSE app[a]]
    /\ call' = [call EXCEPT ![c] = IF Stop > Len(host.apps) THEN "registered" ELSE "failed"]

\* Slip: the apps are registered while the token is awaited.
TokenUnawaited(c) ==
    /\ boot # "left"
    /\ call[c] = "token"
    /\ Register(c)
    /\ UNCHANGED <<nav, boot, location, signedIn, tokens, started, given>>

\* `await opts.session.getToken()` resolves.
TokenResolves(c) ==
    /\ boot # "left"
    /\ call[c] = "token"
    /\ tokens' = tokens + 1
    /\ Register(c)
    /\ UNCHANGED <<nav, boot, location, signedIn, started, given>>

TokenRejects(c) ==
    /\ boot # "left"
    /\ ~host.useDevSession
    /\ call[c] = "token"
    /\ call' = [call EXCEPT ![c] = "failed"]
    /\ UNCHANGED <<nav, boot, location, signedIn, tokens, spa>>

\* getToken leaves for the sign-in page.
Leave ==
    /\ boot # "left" /\ ~host.useDevSession
    /\ \E c \in Calls : call[c] = "token"
    /\ boot' = "left"
    /\ UNCHANGED <<nav, location, signedIn, call, tokens, spa>>

-----------------------------------------------------------------------------
(* The props of a micro-frontend *)

\* { ...under, ...over }
Spread(over, under) ==
    [k \in DOMAIN over \cup DOMAIN under |-> IF k \in DOMAIN over THEN over[k] ELSE under[k]]

\* Slip: the caller's props are spread over the session.
CustomPropsLast == Spread(host.customProps, [session |-> "shell"])

\* { ...opts.customProps, session: opts.session }
CustomProps == Spread([session |-> "shell"], host.customProps)

\* What the module is called with: single-spa's props over the ones it was adapted with.
Props == Spread(CustomProps, host.captured)

-----------------------------------------------------------------------------
(* single-spa and the user *)

\* activeOnHash: the route itself, or a path below it.
ActiveOnHash(route, h) == h # <<>> /\ h[1] = route

Active(a) == boot # "left" /\ ActiveOnHash(Route[a], hash)

\* An active application is loaded as soon as it is registered, start() or not.
Load(a) ==
    /\ Active(a) /\ app[a] = "not_loaded"
    /\ app' = [app EXCEPT ![a] = "loading"]
    /\ UNCHANGED <<nav, boot, location, signedIn, call, tokens, registered, started, given>>

\* Slip: the lifecycles are looked for in the module only.
LoadMfeModule == IF host.bundle \in {"module", "default"} THEN "loaded" ELSE "refused"

\* What loadMfe makes of the imported bundle: it finds the lifecycles in the module, its
\* default or the global, or throws.
LoadMfe == IF host.bundle \in {"module", "default", "global"} THEN "loaded" ELSE "refused"

\* The twin passes the module on, and single-spa gives up on one without lifecycles.
TwinLoadMfe == IF host.bundle = "module" THEN "loaded" ELSE "broken"

\* The import resolves, or the bundle cannot be fetched.
Loaded(a) ==
    /\ boot # "left" /\ app[a] = "loading"
    /\ \E s \in {IF host.twin THEN TwinLoadMfe ELSE LoadMfe, "unreachable"} : app' = [app EXCEPT ![a] = s]
    /\ UNCHANGED <<nav, boot, location, signedIn, call, tokens, registered, started, given>>

\* bootstrapFunction: the platform is given props.session as SESSION_PROVIDER.
Mount(a) ==
    /\ started /\ Active(a) /\ app[a] = "loaded"
    /\ app' = [app EXCEPT ![a] = "mounting"]
    /\ given' = [given EXCEPT ![a] = Props.session]
    /\ UNCHANGED <<nav, boot, location, signedIn, call, tokens, registered, started>>

Mounted(a) ==
    /\ boot # "left" /\ app[a] = "mounting"
    /\ \E s \in {"mounted", "broken"} : app' = [app EXCEPT ![a] = s]
    /\ UNCHANGED <<nav, boot, location, signedIn, call, tokens, registered, started, given>>

Unmount(a) ==
    /\ started /\ boot # "left" /\ app[a] = "mounted" /\ ~Active(a)
    /\ app' = [app EXCEPT ![a] = "loaded"]
    /\ UNCHANGED <<nav, boot, location, signedIn, call, tokens, registered, started, given>>

\* The user goes elsewhere; single-spa may then try again what failed to load.
HashChange ==
    /\ boot # "left"
    /\ \E h \in Hashes \ {hash} : hash' = h
    /\ \E again \in SUBSET {a \in Apps : app[a] \in {"unreachable", "refused"}} :
          app' = [a \in Apps |-> IF a \in again THEN "not_loaded" ELSE app[a]]
    /\ UNCHANGED <<nav, boot, entry, path, signedIn, call, tokens, registered, started, given>>

BootStep ==
    \/ Import \/ Construct \/ TwinConstruct \/ CallbackCompletes \/ SilentCompletes \/ RedirectFails
    \/ NavPasses \/ NavThrows \/ Start \/ TwinReturns \/ BootRejects

CallStep(c) == RegisterAll(c) \/ TokenResolves(c) \/ TokenRejects(c)

SpaStep(a) == Load(a) \/ Loaded(a) \/ Mount(a) \/ Mounted(a) \/ Unmount(a)

Next ==
    \/ BootStep \/ CallerStarts
    \/ \E c \in Calls : CallStep(c)
    \/ Leave
    \/ \E a \in Apps : SpaStep(a)
    \/ HashChange

\* Code runs on, promises settle, and single-spa follows the address.
Fairness ==
    /\ WF_vars(BootStep)
    /\ \A c \in Calls : WF_vars(TokenResolves(c) \/ TokenRejects(c) \/ Leave)
    /\ \A a \in Apps : WF_vars(SpaStep(a))

Spec == Init /\ [][Next]_vars
FairSpec == Spec /\ Fairness

-----------------------------------------------------------------------------
(* Properties *)

\* Type invariant of the shell and the page.
TypeOK ==
    /\ host \in Hosts /\ Len(fault) \in {0, 1, 2}
    /\ warned # {} => warned \subseteq DOMAIN host.manifest.navItems
    /\ boot \in BootStates /\ entry \in Paths /\ path \in Paths \cup {"/"} /\ hash \in Hashes
    /\ signedIn \in BOOLEAN /\ started \in BOOLEAN
    /\ call \in [Calls -> {"idle", "token", "registered", "failed"}] /\ tokens \in Nat
    /\ registered \subseteq Apps
    /\ app \in [Apps -> AppStates] /\ given \in [Apps -> Sessions]

\* No micro-frontend is fetched, let alone mounted, before a getToken of the shell has
\* resolved: not through the first registration nor any other.
SessionBeforeApps ==
    \A a \in Apps : app[a] # "none" => tokens > 0

\* With the OIDC provider, the frame the silent renewal runs in, a page of the shell too,
\* does not renew, redirect or mount inside itself: no token is asked for, nothing is
\* registered or fetched, also if the twin's caller, who cannot tell, starts single-spa
\* there.  The root-config does not start it.
FrameStaysEmpty ==
    ~host.useDevSession /\ entry = "/silent-refresh" =>
        /\ \A c \in Calls : call[c] = "idle"
        /\ registered = {} /\ \A a \in Apps : app[a] = "none"
        /\ started => host.twin

\* With the OIDC provider, a page loaded with the answer of a sign-in uses it before it
\* asks for a token, so that it is not sent to sign in again.
CallbackBeforeToken ==
    ~host.useDevSession /\ entry = "/callback" => \A c \in Calls : call[c] # "idle" => signedIn

\* single-spa is started, and an app mounted, only with the whole list registered; the
\* exception is the silent frame of the twin, where it may start with none.
StartedWithAllApps ==
    /\ started => IF boot = "framed" THEN registered = {} ELSE registered = ToSet(host.apps)
    /\ \A a \in Apps : app[a] \in {"mounting", "mounted"} => started

\* Every micro-frontend is mounted with the session of the shell, whatever session the
\* host's customProps or the props it was adapted with bring along.
OneSession ==
    \A a \in Apps : app[a] \in {"mounting", "mounted"} => given[a] = "shell"

\* No contribution renders nothing in silence: a host that goes on to register knows
\* its group, or there was a warning for that very contribution.
NoSilentDrop ==
    call[bootCall] # "idle" =>
        \A i \in DOMAIN host.manifest.navItems :
            host.manifest.navItems[i] \in ToSet(host.groups) \/ i \in warned

\* The Error names a contribution that is at fault, and every one before it is good:
\* repairing what the Error names always gets the host further.
FaultIsFirst ==
    Len(fault) = 2 =>
        /\ host.manifest.navItems[fault[1]] \notin fault[2]
        /\ \A j \in 1..(fault[1] - 1) : host.manifest.navItems[j] \in fault[2]

\* A manifest is accepted exactly when a host can read every field of it, and the
\* field the Error names is the one that is wrong.
WellFormed(m) ==
    /\ NotArray \notin {m.navItems, m.routes, m.exports, m.searchObjects}
    /\ \A i \in DOMAIN m.exports : m.exports[i]

MalformedIsNamed ==
    /\ boot # "import" /\ Len(fault) # 2 => (Len(fault) = 1 <=> ~WellFormed(host.manifest))
    /\ Len(fault) = 1 =>
          \/ host.manifest[fault[1]] = NotArray
          \/ fault = <<"exports">> /\ FALSE \in ToSet(host.manifest.exports)

\* Once single-spa runs, the app of the address in front of the user is mounted, or the
\* address changes, the page is left, its bundle cannot be fetched or fails to mount; the
\* root-config refuses a bundle only if there are no lifecycles in any of the places
\* where a build may leave them.
ActiveAppMounts ==
    \A a \in Apps :
        started /\ a \in registered /\ Active(a) ~>
            \/ app[a] \in {"mounted", "unreachable", "broken"}
            \/ app[a] = "refused" /\ host.bundle = "nowhere"
            \/ ~Active(a)

=============================================================================
