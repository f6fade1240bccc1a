------------------------------- MODULE MCShell -------------------------------
\* Small instances of Shell for TLC.
EXTENDS Shell

CONSTANTS b, c

MCCalls == {b, c}
MCPaths == {"/", "/callback", "/silent-refresh"}
MCHashes == {<<"#notes">>, <<"#notes", "1">>, <<"#admin">>, <<>>}
MCRoute == [a \in {"notes", "admin"} |-> IF a = "notes" THEN "#notes" ELSE "#admin"]

GoodManifest == [navItems |-> <<"notes">>, routes |-> <<>>, exports |-> <<TRUE>>,
                 searchObjects |-> Absent]

\* The root-config of the example.
RootConfig ==
    [apps |-> <<"notes">>, useDevSession |-> FALSE, twin |-> FALSE,
     manifest |-> GoodManifest, devGroups |-> <<"notes">>,
     groups |-> <<"notes", "admin">>, permissive |-> FALSE,
     customProps |-> <<>>, captured |-> <<>>, bundle |-> "global"]

\* Two apps, and a list in which a name comes twice; either session, either bootShell.
AppHosts ==
    {[RootConfig EXCEPT !.apps = list, !.useDevSession = dev, !.twin = twin] :
        list \in {<<"notes", "admin">>, <<"notes", "notes", "admin">>},
        dev \in BOOLEAN, twin \in BOOLEAN}

BundleHosts ==
    {[RootConfig EXCEPT !.bundle = bundle, !.twin = twin] :
        bundle \in {"module", "default", "global", "nowhere"}, twin \in BOOLEAN}

\* A session in the host's own props, in the ones of the module, or in both.
PropsHosts ==
    LET some == {<<>>, [session |-> "other"]} IN
    {[RootConfig EXCEPT !.customProps = custom, !.captured = captured] :
        custom \in some, captured \in some}

Lists(S) == {<<>>} \cup {<<g>> : g \in S} \cup {<<g, h>> : g, h \in S}

\* Up to two contributions in hosts with every list of up to two groups.
NavHosts ==
    {[RootConfig EXCEPT !.manifest.navItems = items, !.devGroups = dev, !.groups = groups,
                        !.permissive = permissive] :
        items \in Lists({"notes", "admin", "other"}), dev \in {Absent, <<"notes", "other">>},
        groups \in Lists({"notes", "admin"}), permissive \in BOOLEAN}

\* Manifests of every shape.
ManifestHosts ==
    {[RootConfig EXCEPT !.devGroups = Absent,
                        !.manifest = [navItems |-> items, routes |-> routes,
                                      exports |-> exports, searchObjects |-> search]] :
        items \in {NotArray, <<"notes">>}, routes \in {NotArray, <<>>},
        exports \in {NotArray, <<>>, <<TRUE>>, <<TRUE, FALSE>>},
        search \in {NotArray, Absent, <<>>}}

\* The twin has no development session.
MCHosts == {h \in AppHosts \cup BundleHosts \cup PropsHosts \cup NavHosts \cup ManifestHosts :
               h.twin => ~h.useDevSession}

=============================================================================
