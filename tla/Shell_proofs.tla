------------------------------ MODULE Shell_proofs ------------------------------
(***************************************************************************)
(* Proofs about Shell, for any hosts, calls, paths and addresses.          *)
(***************************************************************************)
EXTENDS Shell, Operators_proofs

Items == host.manifest.navItems

\* What stopped the page, if anything did, is what one of the checks threw.
FaultExplained ==
    /\ boot = "import" => fault = <<>>
    /\ boot \notin {"import", "failed"} \/ call[bootCall] # "idle" =>
          fault = <<>> /\ ImportFault = <<>>
    /\ boot = "failed" => \/ fault = ImportFault
                          \/ ImportFault = <<>> /\ fault = NavFault(host.groups, host.permissive)

\* The calls of registerAll begin with bootShell's own, and what they have registered are
\* the host's apps: all of them once one call got through.
Registrations ==
    /\ call[bootCall] = "idle" => \A c \in Calls : call[c] = "idle"
    /\ (\A c \in Calls : call[c] = "idle") => registered = {} /\ tokens = 0
    /\ registered \subseteq ToSet(host.apps)
    /\ \A c \in Calls : call[c] = "registered" => registered = ToSet(host.apps)

\* Where bootShell stands, as far as the calls and start() tell.
BootStage ==
    /\ boot \in {"import", "begin", "callback", "silent", "nav"} =>
          call[bootCall] = "idle" /\ ~started
    /\ boot = "framed" => call[bootCall] = "idle" /\ (started => host.twin)
    /\ boot = "done" \/ (started /\ boot # "framed") => call[bootCall] = "registered"

\* What single-spa has made of an app.
AppProgress ==
    \A a \in Apps :
        /\ app[a] # "none" => tokens > 0
        /\ app[a] \in {"mounting", "mounted"} => started /\ given[a] = "shell"

\* The silent-renew frame and the callback page are on their path until the redirect
\* they were loaded for is completed.
RedirectPaths ==
    /\ boot \in {"import", "begin"} => path = entry
    /\ ~host.useDevSession /\ entry = "/silent-refresh" =>
          boot \in {"import", "begin", "silent", "framed", "failed"} /\ call[bootCall] = "idle"
          /\ (started => host.twin)
    /\ ~host.useDevSession /\ entry = "/callback" /\ ~signedIn =>
          boot \in {"import", "begin", "callback", "failed"} /\ call[bootCall] = "idle"

\* Types of what the boot and the calls change, and of what single-spa does.
BootTypes ==
    /\ host \in Hosts /\ Len(fault) \in {0, 1, 2}
    /\ warned # {} => warned \subseteq DOMAIN host.manifest.navItems
    /\ boot \in BootStates /\ entry \in Paths /\ path \in Paths \cup {"/"} /\ hash \in Hashes
    /\ signedIn \in BOOLEAN /\ started \in BOOLEAN
CallTypes ==
    /\ call \in [Calls -> {"idle", "token", "registered", "failed"}] /\ tokens \in Nat
    /\ registered \subseteq Apps
AppTypes == app \in [Apps -> AppStates] /\ given \in [Apps -> Sessions]

\* The inductive invariant.
IInv ==
    /\ BootTypes /\ CallTypes /\ AppTypes /\ FaultExplained /\ NoSilentDrop
    /\ Registrations /\ BootStage /\ AppProgress /\ RedirectPaths

-----------------------------------------------------------------------------
(* Facts about hosts and props *)

\* Whatever props come along, a micro-frontend's session is the shell's.
LEMMA SessionIsShells == Props.session = "shell"
<1>1. "session" \in DOMAIN CustomProps /\ CustomProps["session"] = "shell"
  BY DEF CustomProps, Spread
<1>2. Props["session"] = "shell"
  BY <1>1 DEF Props, Spread
<1> QED
  BY <1>2

\* An Error names nothing, a field, or a contribution with the registry it misses in.
LEMMA TupleLengths ==
    /\ Len(<<>>) = 0
    /\ \A x : Len(<<x>>) = 1
    /\ \A x, y : Len(<<x, y>>) = 2
  OBVIOUS

\* A sequence's indices are counted from one.
LEMMA Indices ==
    ASSUME NEW S, NEW s \in Seq(S)
    PROVE  DOMAIN s \subseteq Nat \ {0} /\ DOMAIN s = 1 .. Len(s) /\ Len(s) \in Nat
  OBVIOUS

\* Apps that a host lists are apps.
LEMMA HostApps == ASSUME NEW h \in Hosts PROVE ToSet(h.apps) \subseteq Apps
  BY DEF Apps

\* A manifest that passes the import is well formed, and has contributions to check.
LEMMA ImportPasses ==
    ASSUME host \in Hosts, ImportFault = <<>>
    PROVE  WellFormed(host.manifest) /\ Items \in Seq(ToSet(Items))
<1>1. DefineManifest(host.manifest) = "none"
  BY DEF ImportFault
<1>2. WellFormed(host.manifest)
  BY <1>1 DEF DefineManifest, WellFormed
<1>3. Items \in Seq(ToSet(Items))
  BY <1>2, HostAssumption DEF WellFormed, Items
<1> QED
  BY <1>2, <1>3

\* NavFault is empty, or names the first contribution whose group its registry lacks.
LEMMA NavFaultIs ==
    ASSUME Items \in Seq(ToSet(Items)), NEW groups, NEW permissive \in BOOLEAN
    PROVE  LET fa == NavFault(groups, permissive) IN
           \/ fa = <<>> /\ AssertNavContributions(Items, ToSet(groups), permissive) = 0
           \/ \E bad \in DOMAIN Items : \E registry :
                 /\ fa = <<bad, registry>>
                 /\ Items[bad] \notin registry
                 /\ \A j \in DOMAIN Items : j < bad => Items[j] \in registry
<1> DEFINE bad == AssertNavContributions(Items, ToSet(groups), permissive)
<1>1. DOMAIN Items \subseteq Nat \ {0}
  BY Indices
<1>2. bad # 0 => /\ bad \in DOMAIN Items /\ Items[bad] \notin ToSet(groups)
                 /\ \A j \in DOMAIN Items : j < bad => Items[j] \in ToSet(groups)
  BY <1>1, StopsAtFirstUnknown
<1>3. NavFault(groups, permissive) = IF bad = 0 THEN <<>> ELSE <<bad, ToSet(groups)>>
  BY DEF NavFault, StaticGroupRegistry, Items
<1> QED
  BY <1>2, <1>3

\* Where it is empty, assertNavContributions passes.
LEMMA NoNavFault ==
    ASSUME NEW groups, NEW permissive \in BOOLEAN, NavFault(groups, permissive) = <<>>
    PROVE  AssertNavContributions(Items, ToSet(groups), permissive) = 0
<1> DEFINE bad == AssertNavContributions(Items, ToSet(groups), permissive)
<1>1. NavFault(groups, permissive) = IF bad = 0 THEN <<>> ELSE <<bad, ToSet(groups)>>
  BY DEF NavFault, StaticGroupRegistry, Items
<1>2. <<bad, ToSet(groups)>> # <<>>
  BY TupleLengths
<1> QED
  BY <1>1, <1>2

\* The fields DefineManifest names.
LEMMA FieldNamed ==
    ASSUME NEW h \in Hosts
    PROVE  LET field == DefineManifest(h.manifest) IN
           /\ field = "none" <=> WellFormed(h.manifest)
           /\ field # "none" => \/ field = "exports" /\ FALSE \in ToSet(h.manifest.exports)
                                \/ h.manifest[field] = NotArray
<1>1. h.manifest.exports # NotArray => h.manifest.exports \in Seq(BOOLEAN)
  BY HostAssumption
<1>2. ASSUME h.manifest.exports # NotArray, NEW i \in DOMAIN h.manifest.exports, ~h.manifest.exports[i]
      PROVE  FALSE \in ToSet(h.manifest.exports)
  <2>1. h.manifest.exports[i] = FALSE
    BY <1>1, <1>2
  <2> QED
    BY <1>2, <2>1 DEF ToSet
<1>3. DefineManifest(h.manifest) = "none" <=> WellFormed(h.manifest)
  BY DEF DefineManifest, WellFormed
<1>4. DefineManifest(h.manifest) = "exports" =>
        h.manifest.exports = NotArray \/ FALSE \in ToSet(h.manifest.exports)
  BY <1>2 DEF DefineManifest
<1>5. DefineManifest(h.manifest) \notin {"none", "exports"} =>
        h.manifest[DefineManifest(h.manifest)] = NotArray
  BY DEF DefineManifest
<1> QED
  BY <1>3, <1>4, <1>5

\* What the import of the metadata module may throw: nothing, for a good manifest; what
\* its own check misses; the field that is wrong.
LEMMA ImportFaultIs ==
    ASSUME host \in Hosts
    PROVE  \/ ImportFault = <<>> /\ WellFormed(host.manifest)
           \/ \E bad \in DOMAIN Items : \E registry :
                 /\ ImportFault = <<bad, registry>>
                 /\ Items \in Seq(ToSet(Items)) /\ Items[bad] \notin registry
                 /\ \A j \in DOMAIN Items : j < bad => Items[j] \in registry
           \/ \E field :
                 /\ ImportFault = <<field>> /\ ~WellFormed(host.manifest)
                 /\ \/ field = "exports" /\ FALSE \in ToSet(host.manifest.exports)
                    \/ host.manifest[field] = NotArray
<1> DEFINE dev == IF host.devGroups = Absent THEN <<>> ELSE NavFault(host.devGroups, FALSE)
<1>1. CASE dev # <<>>
  <2>1. host.devGroups # Absent /\ ImportFault = NavFault(host.devGroups, FALSE)
    BY <1>1 DEF ImportFault
  <2>2. Items \in Seq(ToSet(Items))
    BY <2>1, HostAssumption DEF Items
  <2> QED
    BY <1>1, <2>1, <2>2, NavFaultIs
<1>2. CASE dev = <<>>
  <2>1. ImportFault = IF DefineManifest(host.manifest) = "none" THEN <<>>
                      ELSE <<DefineManifest(host.manifest)>>
    BY <1>2 DEF ImportFault
  <2> QED
    BY <2>1, FieldNamed
<1> QED
  BY <1>1, <1>2

\* As long as the host is the same, its checks throw the same.
LEMMA HostFrame ==
    ASSUME UNCHANGED host
    PROVE  /\ ImportFault' = ImportFault
           /\ NavFault(host.groups, host.permissive)' = NavFault(host.groups, host.permissive)
  BY DEF ImportFault, NavFault

-----------------------------------------------------------------------------
(* The steps *)

\* A page that is loaded satisfies the invariant.
LEMMA InitInv == Init => IInv
<1> SUFFICES ASSUME Init PROVE IInv
  OBVIOUS
<1>1. BootTypes
  BY DEF Init, BootTypes, BootStates
<1>2. CallTypes /\ AppTypes
  BY DEF Init, CallTypes, AppTypes, AppStates, Sessions
<1>3. FaultExplained /\ NoSilentDrop
  BY ShellAssumption DEF Init, FaultExplained, NoSilentDrop
<1>4. Registrations /\ BootStage
  BY ShellAssumption DEF Init, Registrations, BootStage
<1>5. AppProgress /\ RedirectPaths
  BY ShellAssumption DEF Init, AppProgress, RedirectPaths
<1> QED
  BY <1>1, <1>2, <1>3, <1>4, <1>5 DEF IInv

\* What the fault and the warnings are about outlives the steps after the checks.
LEMMA ChecksFrame ==
    ASSUME IInv, UNCHANGED nav,
           \/ boot' = boot
           \/ boot' # "import" /\ (boot \notin {"import", "failed"} \/ call[bootCall] # "idle"),
           call'[bootCall] # "idle" => call[bootCall] # "idle"
    PROVE  FaultExplained' /\ NoSilentDrop'
<1>1. FaultExplained'
  <2>1. fault' = fault /\ host' = host
    BY DEF nav
  <2>2. CASE boot' = boot
    BY <2>1, <2>2, HostFrame DEF IInv, FaultExplained
  <2>3. CASE boot' # "import" /\ (boot \notin {"import", "failed"} \/ call[bootCall] # "idle")
    BY <2>1, <2>3, HostFrame DEF IInv, FaultExplained
  <2> QED
    BY <2>2, <2>3
<1>2. NoSilentDrop'
  BY DEF IInv, NoSilentDrop, nav
<1> QED
  BY <1>1, <1>2

\* single-spa loads, mounts and unmounts apps, an app not before start().
LEMMA SpaStepInv ==
    ASSUME IInv, NEW a \in Apps, SpaStep(a)
    PROVE  IInv'
<1>1. UNCHANGED <<nav, boot, location, signedIn, call, tokens, registered, started>>
  BY DEF SpaStep, Load, Loaded, Mount, Mounted, Unmount
<1>2. BootTypes' /\ CallTypes'
  BY <1>1 DEF IInv, BootTypes, CallTypes, nav, location
<1>3. PICK s \in AppStates \ {"none"} :
        /\ app' = [app EXCEPT ![a] = s] /\ app[a] # "none"
        /\ \/ s \notin {"mounting", "mounted"} /\ given' = given
           \/ s = "mounting" /\ started /\ given' = [given EXCEPT ![a] = Props.session]
           \/ s = "mounted" /\ app[a] = "mounting" /\ given' = given
  <2>1. CASE Load(a)
    <3>1. "loading" \in AppStates \ {"none"} /\ "loading" \notin {"mounting", "mounted"}
      BY DEF AppStates
    <3> QED
      BY <2>1, <3>1 DEF Load
  <2>2. CASE Loaded(a)
    BY <2>2 DEF Loaded, LoadMfe, TwinLoadMfe, AppStates
  <2>3. CASE Mount(a)
    BY <2>3 DEF Mount, AppStates
  <2>4. CASE Mounted(a)
    BY <2>4 DEF Mounted, AppStates
  <2>5. CASE Unmount(a)
    <3>1. "loaded" \in AppStates \ {"none"} /\ "loaded" \notin {"mounting", "mounted"}
      BY DEF AppStates
    <3> QED
      BY <2>5, <3>1 DEF Unmount
  <2> QED
    BY <2>1, <2>2, <2>3, <2>4, <2>5 DEF SpaStep
<1>4. AppTypes'
  BY <1>3, SessionIsShells DEF IInv, AppTypes, Sessions
<1>5. AppProgress'
  BY <1>1, <1>3, SessionIsShells DEF IInv, AppTypes, AppProgress
<1>6. FaultExplained' /\ NoSilentDrop'
  BY <1>1, ChecksFrame
<1>7. Registrations' /\ BootStage' /\ RedirectPaths'
  BY <1>1 DEF IInv, Registrations, BootStage, RedirectPaths, nav, location
<1> QED
  BY <1>2, <1>4, <1>5, <1>6, <1>7 DEF IInv

\* The address changes, and what failed to load may be tried again.
LEMMA HashChangeInv ==
    ASSUME IInv, HashChange
    PROVE  IInv'
<1>1. /\ UNCHANGED <<nav, boot, entry, path, signedIn, call, tokens, registered, started, given>>
      /\ hash' \in Hashes
  BY DEF HashChange
<1>2. BootTypes' /\ CallTypes'
  BY <1>1 DEF IInv, BootTypes, CallTypes, nav
<1>3. PICK again \in SUBSET {a \in Apps : app[a] \in {"unreachable", "refused"}} :
        app' = [a \in Apps |-> IF a \in again THEN "not_loaded" ELSE app[a]]
  BY DEF HashChange
<1>4. AppTypes' /\ AppProgress'
  BY <1>1, <1>3 DEF IInv, AppTypes, AppStates, AppProgress
<1>5. FaultExplained' /\ NoSilentDrop'
  BY <1>1, ChecksFrame
<1>6. Registrations' /\ BootStage' /\ RedirectPaths'
  BY <1>1 DEF IInv, Registrations, BootStage, RedirectPaths, nav
<1> QED
  BY <1>2, <1>4, <1>5, <1>6 DEF IInv

\* The loop of registerAll registers apps of the list, and all of them if it gets through.
LEMMA RegisterEffect ==
    ASSUME host \in Hosts, registered \subseteq ToSet(host.apps), NEW c \in Calls, Register(c)
    PROVE  /\ registered \subseteq registered' /\ registered' \subseteq ToSet(host.apps)
           /\ \E s \in {"registered", "failed"} :
                 /\ call' = [call EXCEPT ![c] = s]
                 /\ s = "registered" => registered' = ToSet(host.apps)
           /\ \E new : app' = [a \in Apps |-> IF a \in new THEN "not_loaded" ELSE app[a]]
<1> DEFINE n == Len(host.apps)
           taken == {i \in DOMAIN host.apps : Taken(i)}
<1>1. host.apps \in Seq(ToSet(host.apps)) /\ n \in Nat /\ DOMAIN host.apps = 1 .. n
  BY HostAssumption, Indices
<1>2. taken \cup {n + 1} \in SUBSET Nat /\ Stop = Min(taken \cup {n + 1})
  BY <1>1 DEF Stop
<1>3. Stop \in taken \cup {n + 1} /\ Stop \in Nat /\ Stop <= n + 1
  <2> HIDE DEF n, taken
  <2>1. n + 1 \in taken \cup {n + 1}
    BY <1>1
  <2> QED
    BY <1>2, <2>1, MinIsLeast
<1>4. {host.apps[i] : i \in 1 .. (Stop - 1)} \subseteq ToSet(host.apps)
  BY <1>1, <1>3 DEF ToSet
<1>5. Stop > n => {host.apps[i] : i \in 1 .. (Stop - 1)} = ToSet(host.apps)
  BY <1>1, <1>3 DEF ToSet
<1>6. registered' = registered \cup {host.apps[i] : i \in 1 .. (Stop - 1)}
  BY DEF Register
<1>7. \E new : app' = [a \in Apps |-> IF a \in new THEN "not_loaded" ELSE app[a]]
  BY DEF Register
<1>8. call' = [call EXCEPT ![c] = IF Stop > n THEN "registered" ELSE "failed"]
  BY DEF Register
<1> QED
  BY <1>4, <1>5, <1>6, <1>7, <1>8

\* A call of registerAll that nobody made yet is made, or ends without registering.
LEMMA CallMovesInv ==
    ASSUME IInv, NEW c \in Calls, RegisterAll(c) \/ TokenRejects(c)
    PROVE  IInv'
<1>1. PICK s \in {"token", "failed"} :
        /\ call' = [call EXCEPT ![c] = s] /\ call[c] \in {"idle", "token"}
        /\ call[bootCall] # "idle" /\ (c = bootCall => call[c] = "token" /\ s = "failed")
        /\ UNCHANGED <<nav, boot, location, signedIn, tokens, spa>>
  BY DEF RegisterAll, TokenRejects, IInv, Registrations
<1>2. BootTypes' /\ AppTypes' /\ AppProgress'
  BY <1>1 DEF IInv, BootTypes, AppTypes, AppProgress, nav, location, spa
<1>3. CallTypes'
  BY <1>1 DEF IInv, CallTypes, spa
<1>4. call'[bootCall] # "idle" /\ (call[bootCall] = "registered" => call'[bootCall] = "registered")
  BY <1>1 DEF IInv, CallTypes
<1>5. FaultExplained' /\ NoSilentDrop'
  BY <1>1, ChecksFrame
<1>6. Registrations'
  BY <1>1, <1>4, ShellAssumption DEF IInv, CallTypes, Registrations, nav, spa
<1>7. BootStage'
  BY <1>1, <1>4 DEF IInv, BootStage, spa
<1>8. RedirectPaths'
  BY <1>1 DEF IInv, RedirectPaths, nav, location, spa
<1> QED
  BY <1>2, <1>3, <1>5, <1>6, <1>7, <1>8 DEF IInv

\* The token is there: what is registered from now on has had a session.
LEMMA TokenResolvesInv ==
    ASSUME IInv, NEW c \in Calls, TokenResolves(c)
    PROVE  IInv'
<1>1. /\ call[c] = "token" /\ tokens' = tokens + 1 /\ Register(c)
      /\ UNCHANGED <<nav, boot, location, signedIn, started, given>>
  BY DEF TokenResolves
<1>2. call[bootCall] # "idle"
  BY <1>1 DEF IInv, Registrations
<1>3. /\ registered \subseteq registered' /\ registered' \subseteq ToSet(host.apps)
      /\ \E new : app' = [a \in Apps |-> IF a \in new THEN "not_loaded" ELSE app[a]]
  BY <1>1, RegisterEffect DEF IInv, BootTypes, Registrations
<1>4. PICK s \in {"registered", "failed"} :
        call' = [call EXCEPT ![c] = s] /\ (s = "registered" => registered' = ToSet(host.apps))
  BY <1>1, RegisterEffect DEF IInv, BootTypes, Registrations
<1>5. BootTypes'
  BY <1>1 DEF IInv, BootTypes, nav, location
<1>6. CallTypes'
  BY <1>1, <1>3, <1>4, HostApps DEF IInv, BootTypes, CallTypes
<1>7. AppTypes'
  BY <1>1, <1>3 DEF IInv, AppTypes, AppStates
<1>8. AppProgress'
  <2>1. tokens' > 0
    BY <1>1 DEF IInv, CallTypes
  <2> QED
    BY <1>1, <1>3, <2>1 DEF IInv, AppProgress
<1>9. call'[bootCall] # "idle" /\ (call[bootCall] = "registered" => call'[bootCall] = "registered")
  BY <1>1, <1>2, <1>4 DEF IInv, CallTypes
<1>10. FaultExplained' /\ NoSilentDrop'
  BY <1>1, <1>2, ChecksFrame
<1>11. Registrations'
  <2>1. host' = host
    BY <1>1 DEF nav
  <2>2. \A d \in Calls : call'[d] = "registered" => registered' = ToSet(host.apps)
    BY <1>3, <1>4 DEF IInv, CallTypes, Registrations
  <2> QED
    BY <1>3, <1>9, <2>1, <2>2, ShellAssumption DEF Registrations
<1>12. BootStage'
  BY <1>1, <1>2, <1>9 DEF IInv, BootStage
<1>13. RedirectPaths'
  BY <1>1, <1>2 DEF IInv, RedirectPaths, nav, location
<1> QED
  BY <1>5, <1>6, <1>7, <1>8, <1>10, <1>11, <1>12, <1>13 DEF IInv

\* The page is left for the sign-in.
LEMMA LeaveInv ==
    ASSUME IInv, Leave
    PROVE  IInv'
<1>1. /\ boot' = "left" /\ call[bootCall] # "idle"
      /\ UNCHANGED <<nav, location, signedIn, call, tokens, spa>>
  BY DEF Leave, IInv, Registrations
<1>2. BootTypes' /\ CallTypes' /\ AppTypes' /\ AppProgress'
  BY <1>1 DEF IInv, BootTypes, BootStates, CallTypes, AppTypes, AppProgress, nav, location, spa
<1>3. FaultExplained' /\ NoSilentDrop'
  BY <1>1, ChecksFrame
<1>4. Registrations' /\ BootStage' /\ RedirectPaths'
  BY <1>1 DEF IInv, Registrations, BootStage, RedirectPaths, nav, location, spa
<1> QED
  BY <1>2, <1>3, <1>4 DEF IInv

\* The metadata module is evaluated.
LEMMA ImportInv ==
    ASSUME IInv, Import
    PROVE  IInv'
<1>1. /\ boot = "import" /\ fault' = ImportFault
      /\ boot' = (IF ImportFault = <<>> THEN "begin" ELSE "failed")
      /\ UNCHANGED <<host, warned, location, signedIn, call, tokens, spa>>
  BY DEF Import
<1>2. BootTypes'
  <2>1. Len(ImportFault) \in {0, 1, 2}
    BY ImportFaultIs, TupleLengths DEF IInv, BootTypes
  <2> QED
    BY <1>1, <2>1 DEF IInv, BootTypes, BootStates, location, spa
<1>3. CallTypes' /\ AppTypes' /\ AppProgress' /\ Registrations'
  BY <1>1 DEF IInv, CallTypes, AppTypes, AppProgress, Registrations, spa
<1>4. call[bootCall] = "idle" /\ ~started
  BY <1>1 DEF IInv, BootStage
<1>5. FaultExplained' /\ NoSilentDrop'
  BY <1>1, <1>4, HostFrame DEF FaultExplained, NoSilentDrop
<1>6. BootStage' /\ RedirectPaths'
  BY <1>1, <1>4 DEF IInv, BootStage, RedirectPaths, location, spa
<1> QED
  BY <1>2, <1>3, <1>5, <1>6 DEF IInv

\* Up to the check of the contributions, the boot only follows the path it was loaded on.
LEMMA BeginInv ==
    ASSUME IInv, Construct \/ TwinConstruct \/ CallbackCompletes \/ SilentCompletes \/ RedirectFails
    PROVE  IInv'
<1>1. /\ UNCHANGED <<nav, entry, call, tokens, spa>>
      /\ boot \in {"begin", "callback", "silent"}
      /\ boot' \in {"callback", "silent", "nav", "framed", "failed"}
  BY DEF Construct, TwinConstruct, CallbackCompletes, SilentCompletes, RedirectFails, OidcEntry, location
<1>2. call[bootCall] = "idle" /\ ~started
  BY <1>1 DEF IInv, BootStage
<1>3. BootTypes'
  <2>1. boot' \in BootStates
    BY <1>1 DEF BootStates
  <2>2. path' \in Paths \cup {"/"} /\ hash' \in Hashes /\ signedIn' \in BOOLEAN
    BY ShellAssumption DEF IInv, BootTypes, Construct, TwinConstruct, CallbackCompletes, SilentCompletes,
       RedirectFails, location
  <2> QED
    BY <1>1, <2>1, <2>2 DEF IInv, BootTypes, nav, spa
<1>4. CallTypes' /\ AppTypes' /\ AppProgress' /\ Registrations'
  BY <1>1 DEF IInv, CallTypes, AppTypes, AppProgress, Registrations, nav, spa
<1>5. FaultExplained' /\ NoSilentDrop'
  BY <1>1, ChecksFrame
<1>6. BootStage'
  BY <1>1, <1>2 DEF BootStage, spa
<1>7. RedirectPaths'
  <2>1. CASE Construct \/ TwinConstruct
    BY <1>1, <1>2, <2>1 DEF IInv, RedirectPaths, Construct, TwinConstruct, OidcEntry, nav, location, spa
  <2>2. CASE CallbackCompletes
    BY <1>1, <1>2, <2>2 DEF IInv, RedirectPaths, CallbackCompletes, nav, spa
  <2>3. CASE SilentCompletes \/ RedirectFails
    BY <1>1, <1>2, <2>3 DEF IInv, RedirectPaths, SilentCompletes, RedirectFails, nav, location, spa
  <2> QED
    BY <2>1, <2>2, <2>3
<1> QED
  BY <1>3, <1>4, <1>5, <1>6, <1>7 DEF IInv

\* A host that passes the check has warned of every contribution it does not know.
LEMMA NavPassesInv ==
    ASSUME IInv, NavPasses
    PROVE  IInv'
<1>1. /\ boot = "nav" /\ NavFault(host.groups, host.permissive) = <<>>
      /\ warned' = Warned /\ boot' = "registering" /\ call' = [call EXCEPT ![bootCall] = "token"]
      /\ UNCHANGED <<host, fault, location, signedIn, tokens, spa>>
  BY DEF NavPasses
<1>2. fault = <<>> /\ ImportFault = <<>> /\ host \in Hosts
  BY <1>1 DEF IInv, FaultExplained, BootTypes
<1>3. call[bootCall] = "idle" /\ ~started
  BY <1>1 DEF IInv, BootStage
<1>4. \A c \in Calls : call[c] = "idle"
  BY <1>3 DEF IInv, Registrations
<1>5. BootTypes'
  BY <1>1 DEF IInv, BootTypes, BootStates, Warned, location, spa
<1>6. CallTypes' /\ AppTypes' /\ AppProgress'
  BY <1>1 DEF IInv, CallTypes, AppTypes, AppProgress, spa
<1>7. call'[bootCall] = "token" /\ \A c \in Calls : call'[c] # "registered"
  BY <1>1, <1>4, ShellAssumption DEF IInv, CallTypes
<1>8. FaultExplained'
  BY <1>1, <1>2, HostFrame DEF FaultExplained
<1>9. NoSilentDrop'
  <2>1. ASSUME NEW i \in DOMAIN Items PROVE Items[i] \in ToSet(host.groups) \/ i \in Warned
    <3>1. Items \in Seq(ToSet(Items)) /\ host.permissive \in BOOLEAN
      BY <1>2, ImportPasses, HostAssumption
    <3>2. AssertNavContributions(Items, ToSet(host.groups), host.permissive) = 0
      BY <1>1, <3>1, NoNavFault
    <3> QED
      BY <2>1, <3>1, <3>2, Indices, AcceptedOrWarned DEF Warned, Items, StaticGroupRegistry
  <2> QED
    BY <1>1, <2>1 DEF NoSilentDrop, Items
<1>10. Registrations'
  BY <1>1, <1>3, <1>7, ShellAssumption DEF IInv, Registrations, spa
<1>11. BootStage' /\ RedirectPaths'
  BY <1>1, <1>3 DEF IInv, BootStage, RedirectPaths, location, spa
<1> QED
  BY <1>5, <1>6, <1>8, <1>9, <1>10, <1>11 DEF IInv

\* A host whose check throws registers nothing.
LEMMA NavThrowsInv ==
    ASSUME IInv, NavThrows
    PROVE  IInv'
<1>1. /\ boot = "nav" /\ fault' = NavFault(host.groups, host.permissive) /\ boot' = "failed"
      /\ UNCHANGED <<host, warned, location, signedIn, call, tokens, spa>>
  BY DEF NavThrows
<1>2. ImportFault = <<>> /\ host \in Hosts
  BY <1>1 DEF IInv, FaultExplained, BootTypes
<1>3. call[bootCall] = "idle" /\ ~started
  BY <1>1 DEF IInv, BootStage
<1>4. BootTypes'
  <2>1. Items \in Seq(ToSet(Items)) /\ host.permissive \in BOOLEAN
    BY <1>2, ImportPasses, HostAssumption
  <2>2. Len(NavFault(host.groups, host.permissive)) \in {0, 1, 2}
    BY <2>1, NavFaultIs
  <2> QED
    BY <1>1, <2>2 DEF IInv, BootTypes, BootStates, location, spa
<1>5. CallTypes' /\ AppTypes' /\ AppProgress' /\ Registrations'
  BY <1>1 DEF IInv, CallTypes, AppTypes, AppProgress, Registrations, spa
<1>6. FaultExplained' /\ NoSilentDrop'
  BY <1>1, <1>2, <1>3, HostFrame DEF FaultExplained, NoSilentDrop
<1>7. BootStage' /\ RedirectPaths'
  BY <1>1, <1>3 DEF IInv, BootStage, RedirectPaths, location, spa
<1> QED
  BY <1>4, <1>5, <1>6, <1>7 DEF IInv

\* bootShell's registration is over; single-spa is started once it got through.
LEMMA RegisteredInv ==
    ASSUME IInv, Start \/ TwinReturns \/ BootRejects \/ (CallerStarts /\ boot = "done")
    PROVE  IInv'
<1>1. /\ UNCHANGED <<nav, location, signedIn, call, tokens, registered, app, given>>
      /\ call[bootCall] \in {"registered", "failed"} /\ boot \in {"registering", "done"}
      /\ \/ boot' = "done" /\ call[bootCall] = "registered" /\ (started' = started \/ started' = TRUE)
         \/ boot' = "failed" /\ call[bootCall] = "failed" /\ started' = started
  BY DEF Start, TwinReturns, CallerStarts, BootRejects, spa, IInv, BootStage
<1>2. BootTypes'
  BY <1>1 DEF IInv, BootTypes, BootStates, nav, location
<1>3. CallTypes' /\ AppTypes' /\ Registrations'
  BY <1>1 DEF IInv, CallTypes, AppTypes, Registrations, nav
<1>4. AppProgress'
  BY <1>1 DEF IInv, AppProgress
<1>5. FaultExplained' /\ NoSilentDrop'
  BY <1>1, ChecksFrame
<1>6. BootStage' /\ RedirectPaths'
  BY <1>1 DEF IInv, BootStage, RedirectPaths, nav, location
<1> QED
  BY <1>2, <1>3, <1>4, <1>5, <1>6 DEF IInv

\* The twin's caller starts single-spa in the silent frame: there is nothing to run.
LEMMA FrameStartedInv ==
    ASSUME IInv, CallerStarts, boot = "framed"
    PROVE  IInv'
<1>1. /\ UNCHANGED <<nav, location, boot, signedIn, call, tokens, registered, app, given>>
      /\ host.twin /\ started' = TRUE /\ call[bootCall] = "idle"
  BY DEF CallerStarts, IInv, BootStage
<1>2. BootTypes' /\ CallTypes' /\ AppTypes' /\ Registrations'
  BY <1>1 DEF IInv, BootTypes, CallTypes, AppTypes, Registrations, nav, location
<1>3. AppProgress'
  BY <1>1 DEF IInv, AppProgress
<1>4. FaultExplained' /\ NoSilentDrop'
  BY <1>1, ChecksFrame
<1>5. BootStage' /\ RedirectPaths'
  BY <1>1 DEF IInv, BootStage, RedirectPaths, nav, location
<1> QED
  BY <1>2, <1>3, <1>4, <1>5 DEF IInv

-----------------------------------------------------------------------------
(* Theorems *)

\* The invariant holds on every page load.
THEOREM Invariant == Spec => []IInv
<1>1. IInv /\ [Next]_vars => IInv'
  <2> SUFFICES ASSUME IInv, [Next]_vars PROVE IInv'
    OBVIOUS
  <2>1. CASE BootStep \/ CallerStarts
    <3>1. CallerStarts => boot \in {"done", "framed"}
      BY DEF CallerStarts
    <3> QED
      BY <2>1, <3>1, ImportInv, BeginInv, NavPassesInv, NavThrowsInv, RegisteredInv, FrameStartedInv
      DEF BootStep
  <2>2. ASSUME NEW c \in Calls, CallStep(c) PROVE IInv'
    BY <2>2, CallMovesInv, TokenResolvesInv DEF CallStep
  <2>3. CASE Leave \/ HashChange
    BY <2>3, LeaveInv, HashChangeInv
  <2>4. ASSUME NEW a \in Apps, SpaStep(a) PROVE IInv'
    BY <2>4, SpaStepInv
  <2>5. CASE UNCHANGED vars
    <3>1. UNCHANGED <<nav, boot, location, signedIn, call, tokens, spa>>
      BY <2>5 DEF vars, nav, location, spa
    <3>2. BootTypes' /\ CallTypes' /\ AppTypes'
      BY <3>1 DEF IInv, BootTypes, CallTypes, AppTypes, nav, location, spa
    <3>3. FaultExplained' /\ NoSilentDrop'
      BY <3>1, ChecksFrame
    <3>4. Registrations' /\ BootStage' /\ AppProgress' /\ RedirectPaths'
      BY <3>1 DEF IInv, Registrations, BootStage, AppProgress, RedirectPaths, nav, location, spa
    <3> QED
      BY <3>2, <3>3, <3>4 DEF IInv
  <2> QED
    BY <2>1, <2>2, <2>3, <2>4, <2>5 DEF Next
<1> QED
  BY InitInv, <1>1, PTL DEF Spec

\* Every variable stays in its type.
THEOREM TypeCorrect == Spec => []TypeOK
<1>1. IInv => TypeOK
  BY DEF IInv, TypeOK, BootTypes, CallTypes, AppTypes
<1> QED
  BY <1>1, Invariant, PTL

\* However many callers registerAll has, no app is fetched before a token came.
THEOREM SessionBeforeAnyApp == Spec => []SessionBeforeApps
<1>1. IInv => SessionBeforeApps
  BY DEF IInv, AppProgress, SessionBeforeApps
<1> QED
  BY <1>1, Invariant, PTL

\* The frame of the silent renewal asks for no token and stays without apps, with the
\* root-config and with the twin, whose caller may start single-spa in it.
THEOREM NoAppsInFrame == Spec => []FrameStaysEmpty
<1>1. IInv => FrameStaysEmpty
  <2> SUFFICES ASSUME IInv, ~host.useDevSession, entry = "/silent-refresh"
               PROVE  FrameStaysEmpty
    BY DEF FrameStaysEmpty
  <2>1. call[bootCall] = "idle" /\ (started => host.twin)
    BY DEF IInv, RedirectPaths
  <2>2. (\A c \in Calls : call[c] = "idle") /\ registered = {} /\ tokens = 0
    BY <2>1 DEF IInv, Registrations
  <2>3. \A a \in Apps : app[a] = "none"
    BY <2>2 DEF IInv, AppProgress
  <2> QED
    BY <2>1, <2>2, <2>3 DEF FrameStaysEmpty
<1> QED
  BY <1>1, Invariant, PTL

\* The answer of a sign-in is used before a token is asked for.
THEOREM CallbackFirst == Spec => []CallbackBeforeToken
<1>1. IInv => CallbackBeforeToken
  BY DEF IInv, RedirectPaths, Registrations, CallbackBeforeToken
<1> QED
  BY <1>1, Invariant, PTL

\* single-spa runs with the whole list, whatever names it has and whoever registers,
\* unless it is started in the silent frame, where it has nothing to run.
THEOREM WholeListStarts == Spec => []StartedWithAllApps
<1>1. IInv => StartedWithAllApps
  BY ShellAssumption DEF IInv, BootStage, Registrations, AppProgress, StartedWithAllApps
<1> QED
  BY <1>1, Invariant, PTL

\* Whatever props a host or a module brings, the session is the shell's.
THEOREM ShellsSessionOnly == Spec => []OneSession
<1>1. IInv => OneSession
  BY DEF IInv, AppProgress, OneSession
<1> QED
  BY <1>1, Invariant, PTL

\* No contribution is dropped without a word.
THEOREM NothingDroppedSilently == Spec => []NoSilentDrop
<1>1. IInv => NoSilentDrop
  BY DEF IInv
<1> QED
  BY <1>1, Invariant, PTL

\* The fault is a contribution and the registry that misses it, the first it misses.
NamesContribution ==
    \E bad \in DOMAIN Items : \E registry :
        /\ fault = <<bad, registry>>
        /\ Items \in Seq(ToSet(Items)) /\ Items[bad] \notin registry
        /\ \A j \in DOMAIN Items : j < bad => Items[j] \in registry

\* The fault is a field that is wrong.
NamesField ==
    \E field :
        /\ fault = <<field>> /\ ~WellFormed(host.manifest)
        /\ \/ field = "exports" /\ FALSE \in ToSet(host.manifest.exports)
           \/ host.manifest[field] = NotArray

FaultSays == fault = <<>> \/ NamesContribution \/ NamesField

\* Every fault there can be says what is wrong.
LEMMA FaultsSay ==
    ASSUME IInv
    PROVE  FaultSays /\ (boot # "import" /\ Len(fault) = 0 => WellFormed(host.manifest))
<1>1. host \in Hosts /\ host.permissive \in BOOLEAN
  BY HostAssumption DEF IInv, BootTypes
<1>2. CASE fault = <<>> /\ ImportFault = <<>>
  BY <1>1, <1>2, ImportPasses DEF FaultSays, NamesContribution, NamesField
<1>3. CASE boot = "import"
  BY <1>3 DEF IInv, FaultExplained, FaultSays
<1>4. CASE boot = "failed" /\ fault = ImportFault
  <2>1. CASE ImportFault = <<>>
    BY <1>2, <1>4, <2>1
  <2>2. CASE ImportFault # <<>>
    <3>1. FaultSays
      BY <1>1, <1>4, <2>2, ImportFaultIs DEF FaultSays, NamesContribution, NamesField
    <3>2. Len(fault) # 0
      BY <1>1, <1>4, <2>2, ImportFaultIs, TupleLengths
    <3> QED
      BY <3>1, <3>2
  <2> QED
    BY <2>1, <2>2
<1>5. CASE boot = "failed" /\ ImportFault = <<>> /\ fault = NavFault(host.groups, host.permissive)
  <2>1. Items \in Seq(ToSet(Items)) /\ WellFormed(host.manifest)
    BY <1>1, <1>5, ImportPasses
  <2> QED
    BY <1>1, <1>5, <2>1, NavFaultIs DEF FaultSays, NamesContribution, NamesField
<1>6. boot \notin {"import", "failed"} => fault = <<>> /\ ImportFault = <<>>
  BY DEF IInv, FaultExplained
<1>7. boot = "failed" => \/ fault = ImportFault
                         \/ ImportFault = <<>> /\ fault = NavFault(host.groups, host.permissive)
  BY DEF IInv, FaultExplained
<1> QED
  BY <1>2, <1>3, <1>4, <1>5, <1>6, <1>7

\* How long the fault is tells which of the three it is.
LEMMA LengthTells ==
    ASSUME FaultSays
    PROVE  (Len(fault) = 2 => NamesContribution) /\ (Len(fault) = 1 => NamesField)
<1> DEFINE n == Len(fault)
<1>1. fault = <<>> => n = 0
  BY TupleLengths
<1>2. NamesContribution => n = 2
  BY TupleLengths DEF NamesContribution
<1>3. NamesField => n = 1
  BY TupleLengths DEF NamesField
<1> HIDE DEF n
<1>4. (n = 2 => NamesContribution) /\ (n = 1 => NamesField)
  BY <1>1, <1>2, <1>3 DEF FaultSays
<1> QED
  BY <1>4 DEF n

\* Whatever the contributions and the groups are, the Error names the first at fault.
THEOREM FirstIsNamed == Spec => []FaultIsFirst
<1>1. ASSUME IInv, Len(fault) = 2
      PROVE  /\ Items[fault[1]] \notin fault[2]
             /\ \A j \in 1 .. (fault[1] - 1) : Items[j] \in fault[2]
  <2>1. PICK bad \in DOMAIN Items : \E registry :
          /\ fault = <<bad, registry>>
          /\ Items \in Seq(ToSet(Items)) /\ Items[bad] \notin registry
          /\ \A j \in DOMAIN Items : j < bad => Items[j] \in registry
    BY <1>1, FaultsSay, LengthTells DEF NamesContribution, NamesField
  <2>2. PICK registry :
          /\ fault = <<bad, registry>>
          /\ Items \in Seq(ToSet(Items)) /\ Items[bad] \notin registry
          /\ \A j \in DOMAIN Items : j < bad => Items[j] \in registry
    BY <2>1
  <2>3. fault[1] = bad /\ fault[2] = registry
    BY <2>2
  <2>4. DOMAIN Items = 1 .. Len(Items) /\ Len(Items) \in Nat
    BY <2>2, Indices
  <2>5. \A j \in 1 .. (bad - 1) : j \in DOMAIN Items /\ j < bad
    BY <2>1, <2>4
  <2> QED
    BY <2>2, <2>3, <2>5
<1>2. IInv => FaultIsFirst
  BY <1>1 DEF FaultIsFirst, Items
<1> QED
  BY <1>2, Invariant, PTL

\* Whatever the fields of a manifest are, it is refused exactly when one is wrong, which
\* the Error names.
THEOREM WrongFieldIsNamed == Spec => []MalformedIsNamed
<1>1. ASSUME IInv, Len(fault) = 1
      PROVE  /\ ~WellFormed(host.manifest)
             /\ \/ host.manifest[fault[1]] = NotArray
                \/ fault = <<"exports">> /\ FALSE \in ToSet(host.manifest.exports)
  <2>1. PICK field :
          /\ fault = <<field>> /\ ~WellFormed(host.manifest)
          /\ \/ field = "exports" /\ FALSE \in ToSet(host.manifest.exports)
             \/ host.manifest[field] = NotArray
    BY <1>1, FaultsSay, LengthTells DEF NamesContribution, NamesField
  <2>2. fault[1] = field
    BY <2>1
  <2> QED
    BY <2>1, <2>2
<1>2. ASSUME IInv, boot # "import", Len(fault) # 2, Len(fault) # 1
      PROVE  WellFormed(host.manifest)
  BY <1>2, FaultsSay DEF IInv, BootTypes
<1>3. IInv => MalformedIsNamed
  BY <1>1, <1>2 DEF MalformedIsNamed
<1> QED
  BY <1>3, Invariant, PTL


==============================================================================
