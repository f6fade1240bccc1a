---------------------------------- MODULE Nav ----------------------------------
(***************************************************************************)
(* Nav contributions and manifests (packages/core/src/nav.ts, manifest.ts) *)
(* as operators.  A contribution is its group, a registry the set of the   *)
(* groups it was built from, an Error the place it names.                  *)
(***************************************************************************)
EXTENDS Naturals, Sequences, FiniteSetsExt, SequencesExt

CONSTANTS
    NotArray,  \* what stands in a manifest's field in place of an array
    Absent     \* undefined

\* staticGroupRegistry copies the list; known() and has() see the same groups.
StaticGroupRegistry(list) == ToSet(list)

\* Slip: a registry without groups knows every group.
ValidateUnlessEmpty(group, registry, permissive) ==
    IF registry = {} \/ group \in registry THEN "ok" ELSE "unknown"

\* validateNavContribution: "ok", "warned" (ok, with a console.warn), or the error.
ValidateNavContribution(group, registry, permissive) ==
    IF registry = {} THEN IF permissive THEN "warned" ELSE "unconfigured"
    ELSE IF group \in registry THEN "ok" ELSE "unknown"

Failing(items, registry, permissive) ==
    {i \in DOMAIN items :
        ValidateNavContribution(items[i], registry, permissive) \notin {"ok", "warned"}}

\* Slip: the loop goes on and the last failure is thrown.
AssertLast(items, registry, permissive) ==
    Max({0} \cup Failing(items, registry, permissive))

\* assertNavContributions: 0, or the contribution it throws for.
AssertNavContributions(items, registry, permissive) ==
    LET failing == Failing(items, registry, permissive)
    IN  IF failing = {} THEN 0 ELSE Min(failing)

\* Slip: searchObjects has to be there.
DefineWithSearch(m) ==
    CASE m.navItems = NotArray -> "navItems"
      [] m.navItems # NotArray /\ m.routes = NotArray -> "routes"
      [] OTHER -> IF m.searchObjects \in {NotArray, Absent} THEN "searchObjects" ELSE "none"

\* defineManifest: "none", or the field its Error names.  An export is TRUE when its
\* id and entry are strings.
DefineManifest(m) ==
    IF m.navItems = NotArray THEN "navItems"
    ELSE IF m.routes = NotArray THEN "routes"
    ELSE IF m.exports = NotArray \/ (\E i \in DOMAIN m.exports : ~m.exports[i]) THEN "exports"
    ELSE IF m.searchObjects = NotArray THEN "searchObjects"
    ELSE "none"

=============================================================================
