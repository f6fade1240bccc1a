--------------------------------- MODULE Doctor ---------------------------------
(***************************************************************************)
(* The dev-loop diagnosis (packages/dev-loop/src): diagnose, called by a   *)
(* program or by `devedge-ufe doctor`, against a dev server that may be    *)
(* restarted or reconfigured between its two requests.                     *)
(*                                                                         *)
(* diagnose awaits twice, so a run is at most three actions: up to the     *)
(* answer of the root request, up to that of the manifest request, and the *)
(* exit of the process.                                                    *)
(***************************************************************************)
EXTENDS Nav

CONSTANTS
    ItemLists,   \* nav contributions the micro-frontend may have
    GroupLists,  \* groups the host may know
    NoOptions

\* A flag of the command line with a value, without one (`true`), or left out.
Flags == {"value", "bare", "missing"}

\* How a request fails, or not: no connection; a certificate error whose message says
\* so, or does not (a browser's "Failed to fetch").
Servers == {"down", "badCert", "badCertUnnamed", "up"}

\* What diagnose is called with.  nav: registry and navItems are among the options.
Options == [by : {"cli", "program"}, url : Flags, metadata : Flags, nav : BOOLEAN]

\* The contributions are a list.
ASSUME DoctorAssumption ==
    /\ NoOptions \notin Options
    /\ \A list \in ItemLists : list \in Seq(ToSet(list))

VARIABLES
    server, cors, served,  \* the dev server: reachable, sends the header, has the manifest
    items, groups,         \* the contributions of the micro-frontend, the host's groups
    opts,                  \* the options, once the run has begun
    pc,                    \* what the run waits for
    steps,                 \* the report: [name, ok]
    result,                \* "ok", "failed" or "threw"; "none" before
    exit,                  \* the exit code of the process, -1 before
    seen,                  \* what was so when it was asked for
    diagnoses              \* what was wrong first, at each moment of the run

vars == <<server, cors, served, items, groups, opts, pc, steps, result, exit, seen, diagnoses>>

setup == <<server, cors, served, items, groups>>
world == <<setup, diagnoses>>

Init ==
    /\ server \in Servers /\ cors \in BOOLEAN /\ served \in BOOLEAN
    /\ items \in ItemLists /\ groups \in GroupLists
    /\ opts = NoOptions /\ pc = "idle" /\ steps = <<>>
    /\ result = "none" /\ exit = 0 - 1 /\ seen = {} /\ diagnoses = {}

Ok(names) == [i \in 1..Len(names) |-> [name |-> names[i], ok |-> TRUE]]
Failed(name) == <<[name |-> name, ok |-> FALSE]>>

\* The run returns with this report.
Report(report) ==
    /\ steps' = report
    /\ result' = IF report[Len(report)].ok THEN "ok" ELSE "failed"
    /\ pc' = "returned"

Registry == StaticGroupRegistry(groups)

\* Slip: the nav check is skipped when nothing is configured.
NavStepSkips(report) ==
    IF opts.nav /\ items # <<>> /\ Registry # {} /\ AssertNavContributions(items, Registry, FALSE) # 0
    THEN Report(report \o Failed("nav"))
    ELSE Report(report \o Ok(<<"nav">>))

\* Step 5, strict.  Without registry or contributions it is skipped, and passes.
NavStep(report) ==
    IF opts.nav /\ items # <<>> /\ AssertNavContributions(items, Registry, FALSE) # 0
    THEN Report(report \o Failed("nav"))
    ELSE Report(report \o Ok(<<"nav">>))

\* The first thing of the checklist that is wrong with a set-up, for a run with these
\* options.
FirstWrong(o, s, c, m) ==
    IF o.url = "bare" \/ s \in {"down", "badCertUnnamed"} THEN "reachable"
    ELSE IF s = "badCert" THEN "tls"
    ELSE IF ~c THEN "cors"
    ELSE IF o.metadata = "value" /\ ~m THEN "manifest"
    ELSE IF o.nav /\ ~ToSet(items) \subseteq ToSet(groups) THEN "nav"
    ELSE "none"

Begin(o) ==
    /\ opts' = o /\ pc' = "root"
    /\ diagnoses' = {FirstWrong(o, server, cors, served)}
    /\ UNCHANGED <<setup, steps, result, exit, seen>>

-----------------------------------------------------------------------------
\* A program calls diagnose.
Diagnose ==
    /\ pc = "idle"
    /\ \E o \in Options : o.by = "program" /\ o.url = "value" /\ o.metadata # "bare" /\ Begin(o)

\* The process prints its usage: 0 without a command, 1 with another one than doctor.
\* `doctor` without --url exits with 2.
Usage ==
    /\ pc = "idle"
    /\ exit' \in {0, 1, 2}
    /\ pc' = "exited"
    /\ UNCHANGED <<world, opts, steps, result, seen>>

\* `devedge-ufe doctor` gives diagnose neither a registry nor contributions.
DoctorCommand ==
    /\ pc = "idle"
    /\ \E o \in Options : o.by = "cli" /\ o.url # "missing" /\ ~o.nav /\ Begin(o)

\* The first request rejects: a bad URL, no connection, a certificate.
RootFails ==
    /\ pc = "root"
    /\ opts.url = "bare" \/ server # "up"
    /\ Report(IF opts.url = "value" /\ server = "badCert"
              THEN Ok(<<"reachable">>) \o Failed("tls") ELSE Failed("reachable"))
    /\ UNCHANGED <<world, opts, exit, seen>>

\* It is answered, whatever the status, without the header.
RootLacksCors ==
    /\ pc = "root"
    /\ opts.url = "value" /\ server = "up" /\ ~cors
    /\ Report(Ok(<<"reachable", "tls">>) \o Failed("cors"))
    /\ seen' = seen \cup {"answered"}
    /\ UNCHANGED <<world, opts, exit>>

\* It is answered with the header.  A metadata path is requested next; without one the
\* step passes as skipped; a bare --metadata is no string, and join throws.
RootAnswered ==
    /\ pc = "root"
    /\ opts.url = "value" /\ server = "up" /\ cors
    /\ seen' = seen \cup {"answered", "cors"}
    /\ CASE opts.metadata = "value" ->
                /\ pc' = "manifest"
                /\ steps' = Ok(<<"reachable", "tls", "cors">>)
                /\ UNCHANGED result
         [] opts.metadata = "bare" ->
                /\ pc' = "returned"
                /\ steps' = Ok(<<"reachable", "tls", "cors">>)
                /\ result' = "threw"
         [] opts.metadata = "missing" ->
                NavStep(Ok(<<"reachable", "tls", "cors", "manifest">>))
    /\ UNCHANGED <<world, opts, exit>>

\* The second request rejects, for whatever reason, or is answered with an error.
ManifestFails ==
    /\ pc = "manifest"
    /\ server # "up" \/ ~served
    /\ Report(steps \o Failed("manifest"))
    /\ UNCHANGED <<world, opts, exit, seen>>

\* Slip: the status of the answer is not looked at.
ManifestAnsweredAnyhow ==
    /\ pc = "manifest"
    /\ server = "up"
    /\ seen' = IF served THEN seen \cup {"manifest"} ELSE seen
    /\ NavStep(steps \o Ok(<<"manifest">>))
    /\ UNCHANGED <<world, opts, exit>>

ManifestAnswered ==
    /\ pc = "manifest"
    /\ server = "up" /\ served
    /\ seen' = seen \cup {"manifest"}
    /\ NavStep(steps \o Ok(<<"manifest">>))
    /\ UNCHANGED <<world, opts, exit>>

\* Slip: a failed run is no failure of the process.
ExitQuietly ==
    /\ pc = "returned" /\ opts.by = "cli"
    /\ exit' = IF result = "threw" THEN 3 ELSE 0
    /\ pc' = "exited"
    /\ UNCHANGED <<world, opts, steps, result, seen>>

\* main's promise settles, and process.exit tells how.
Exit ==
    /\ pc = "returned" /\ opts.by = "cli"
    /\ exit' = CASE result = "ok" -> 0 [] result = "failed" -> 1 [] result = "threw" -> 3
    /\ pc' = "exited"
    /\ UNCHANGED <<world, opts, steps, result, seen>>

\* The dev server comes up, goes down, is reconfigured or rebuilt.
ServerChanges ==
    /\ server' \in Servers /\ cors' \in BOOLEAN /\ served' \in BOOLEAN
    /\ diagnoses' = IF pc \in {"root", "manifest"}
                    THEN diagnoses \cup {FirstWrong(opts, server', cors', served')}
                    ELSE diagnoses
    /\ UNCHANGED <<items, groups, opts, pc, steps, result, exit, seen>>

Run ==
    \/ Diagnose \/ Usage \/ DoctorCommand
    \/ RootFails \/ RootLacksCors \/ RootAnswered
    \/ ManifestFails \/ ManifestAnswered \/ Exit

Next == Run \/ ServerChanges

Spec == Init /\ [][Next]_vars

-----------------------------------------------------------------------------
(* Properties *)

\* A step that passed without being skipped was so when it was checked, though the server
\* may have changed since; and a run that passed the nav step with contributions predicts
\* the shell, which accepts them, permissive or not.
PassesWereSeen ==
    /\ \A i \in DOMAIN steps : steps[i].ok =>
        CASE steps[i].name = "reachable" -> "answered" \in seen \/ Len(steps) = 2
          [] steps[i].name = "tls"       -> "answered" \in seen
          [] steps[i].name = "cors"      -> "cors" \in seen
          [] steps[i].name = "manifest"  -> opts.metadata = "value" => "manifest" \in seen
          [] steps[i].name = "nav"       -> opts.nav =>
                \A p \in BOOLEAN : AssertNavContributions(items, Registry, p) = 0

\* The exit code tells a passed run from a failed one, and both from a crash.
ExitTells ==
    pc = "exited" /\ opts # NoOptions =>
        /\ exit = 0 <=> result = "ok"
        /\ exit = 1 <=> steps # <<>> /\ ~steps[Len(steps)].ok

\* What diagnose ends with was the first thing wrong.  If one diagnosis was right from
\* the call to the end of the run, through both requests, it is the one reported, "none"
\* for a pass.  If the server changed meanwhile, a failure of the first three steps was
\* still the first thing wrong at some moment of the run; a pass, or a failure of the
\* manifest, need not be (the server that went away between the requests is reported
\* as a manifest that cannot be had).  A certificate error whose message does not say so
\* counts as an unreachable server, which is what the code can tell.
FirstFailing ==
    result \in {"ok", "failed"} =>
        LET said == IF result = "ok" THEN "none" ELSE steps[Len(steps)].name IN
        /\ \A d \in diagnoses : diagnoses = {d} => said = d
        /\ said \in {"reachable", "tls", "cors"} => said \in diagnoses

\* What docs/content/docs/how-to/diagnose-the-dev-loop.md says of the command: it reports a
\* contribution that names an unknown group.
DoctorReportsNavGroups ==
    pc = "exited" /\ opts # NoOptions /\ exit = 0 =>
        AssertNavContributions(items, Registry, FALSE) = 0

=============================================================================
