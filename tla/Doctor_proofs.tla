---------------------------- MODULE Doctor_proofs ----------------------------
(***************************************************************************)
(* Proofs about Doctor, for any contributions and groups: what a report    *)
(* says was so, the exit code tells, and what a run ends with was wrong    *)
(* first, as far as two requests can tell.                                 *)
(***************************************************************************)
EXTENDS Doctor, Operators_proofs

Names == {"reachable", "tls", "cors", "manifest", "nav"}
Step == [name : Names, ok : BOOLEAN]

\* The names of the steps that passed, and the step the report ends with.
Passed(report) == {report[i].name : i \in {j \in DOMAIN report : report[j].ok}}
End(report) == report[Len(report)]

\* What is claimed of a passed step in a report of so many.
Claim(name, length) ==
    /\ name = "reachable" => "answered" \in seen \/ length = 2
    /\ name = "tls" => "answered" \in seen
    /\ name = "cors" => "cors" \in seen
    /\ name = "manifest" => opts.metadata # "value" \/ "manifest" \in seen
    /\ name = "nav" /\ opts.nav =>
          \A p \in BOOLEAN : AssertNavContributions(items, Registry, p) = 0

Begun == <<"reachable", "tls", "cors">>

\* Types.
Types ==
    /\ items \in ItemLists /\ server \in Servers /\ pc \in {"idle", "root", "manifest", "returned", "exited"}
    /\ steps \in Seq(Step)
    /\ result \in {"none", "ok", "failed", "threw"}

\* Where the run stands: what it has reported so far, and its options.
Stage ==
    /\ pc = "idle" <=> opts = NoOptions /\ pc # "exited"
    /\ opts \in Options \cup {NoOptions}
    /\ pc \in {"idle", "root"} => steps = <<>> /\ result = "none"
    /\ pc = "root" => opts.url # "missing"
    /\ pc = "manifest" => /\ opts.url = "value"
                          /\ steps = Ok(Begun) /\ result = "none" /\ opts.metadata = "value"
                          /\ {"answered", "cors"} \subseteq seen

\* A passed run ends with a step that passed, a failed one with a step that failed; a run
\* that threw has failed no step.
Outcome ==
    pc \in {"returned", "exited"} /\ opts # NoOptions =>
        /\ result # "none" /\ steps # <<>>
        /\ result = "failed" <=> ~End(steps).ok

\* What is wrong first now; what was when a run went on to the manifest lay behind the
\* first request.
Now == FirstWrong(opts, server, cors, served)
Diagnosed ==
    /\ pc \in {"root", "manifest"} => Now \in diagnoses
    /\ pc = "manifest" => \E d \in diagnoses : d \notin {"reachable", "tls", "cors"}

\* To end with these words is right.
Right(said) ==
    /\ \A d \in diagnoses : diagnoses = {d} => said = d
    /\ said \in {"reachable", "tls", "cors"} => said \in diagnoses
Words(report) == IF End(report).ok THEN "none" ELSE End(report).name

NavWrong == opts.nav /\ ~ToSet(items) \subseteq ToSet(groups)

\* The inductive invariant.
IInv == Types /\ Stage /\ Outcome /\ Diagnosed /\ PassesWereSeen /\ ExitTells /\ FirstFailing

-----------------------------------------------------------------------------
(* Reports *)

\* A list of passed steps.
LEMMA OkIs ==
    ASSUME NEW names \in Seq(Names)
    PROVE  /\ Ok(names) \in Seq(Step) /\ Len(Ok(names)) = Len(names)
           /\ \A i \in 1 .. Len(names) : Ok(names)[i] = [name |-> names[i], ok |-> TRUE]
  BY DEF Ok, Step

\* A report of passed steps names them all, and does not end with a failure.
LEMMA OkPassed ==
    ASSUME NEW names \in Seq(Names), names # <<>>
    PROVE  Passed(Ok(names)) = ToSet(names) /\ End(Ok(names)).ok
<1>1. DOMAIN Ok(names) = 1 .. Len(names) /\ DOMAIN names = 1 .. Len(names) /\ Len(names) \in Nat \ {0}
  BY OkIs
<1>2. ASSUME NEW i \in 1 .. Len(names) PROVE Ok(names)[i].name = names[i] /\ Ok(names)[i].ok
  <2>1. Ok(names)[i] = [name |-> names[i], ok |-> TRUE]
    BY OkIs
  <2>2. [name |-> names[i], ok |-> TRUE].name = names[i] /\ [name |-> names[i], ok |-> TRUE].ok
    BY Zenon
  <2> QED
    BY <2>1, <2>2, Zenon
<1> QED
  BY <1>1, <1>2, OkIs DEF Passed, ToSet, End

\* A step added to a report.
LEMMA AddStep ==
    ASSUME NEW report \in Seq(Step), NEW step \in Step
    PROVE  LET more == report \o <<step>> IN
           /\ more \in Seq(Step) /\ more # <<>> /\ Len(more) = Len(report) + 1 /\ End(more) = step
           /\ Passed(more) = Passed(report) \cup (IF step.ok THEN {step.name} ELSE {})
<1> DEFINE more == report \o <<step>>
<1>1. /\ more \in Seq(Step) /\ Len(more) = Len(report) + 1 /\ Len(report) \in Nat
      /\ DOMAIN more = 1 .. (Len(report) + 1) /\ DOMAIN report = 1 .. Len(report)
      /\ \A i \in 1 .. Len(report) : more[i] = report[i]
      /\ more[Len(report) + 1] = step
  OBVIOUS
<1> HIDE DEF more
<1>2. more # <<>>
  BY <1>1
<1>3. End(more) = step
  BY <1>1 DEF End
<1>4. Passed(more) = Passed(report) \cup (IF step.ok THEN {step.name} ELSE {})
  BY <1>1 DEF Passed
<1> QED
  BY <1>1, <1>2, <1>3, <1>4 DEF more

\* The two ways to add one.
LEMMA AddFailed ==
    ASSUME NEW report \in Seq(Step), NEW name \in Names
    PROVE  LET more == report \o Failed(name) IN
           /\ more \in Seq(Step) /\ more # <<>> /\ Len(more) = Len(report) + 1
           /\ Passed(more) = Passed(report) /\ ~End(more).ok /\ End(more).name = name
<1> DEFINE step == [name |-> name, ok |-> FALSE]
<1>1. step \in Step
  BY DEF Step
<1>2. step.name = name /\ ~step.ok
  BY Zenon
<1> HIDE DEF step
<1>3. LET more == report \o <<step>> IN
      /\ more \in Seq(Step) /\ more # <<>> /\ Len(more) = Len(report) + 1 /\ End(more) = step
      /\ Passed(more) = Passed(report)
  BY <1>1, <1>2, AddStep
<1> QED
  BY <1>2, <1>3 DEF Failed, step

LEMMA AddOk ==
    ASSUME NEW report \in Seq(Step), NEW name \in Names
    PROVE  LET more == report \o Ok(<<name>>) IN
           /\ more \in Seq(Step) /\ more # <<>> /\ Len(more) = Len(report) + 1
           /\ Passed(more) = Passed(report) \cup {name} /\ End(more).ok
<1>1. [name |-> name, ok |-> TRUE] \in Step
  BY DEF Step
<1>2. Ok(<<name>>) = <<[name |-> name, ok |-> TRUE]>>
  <2> DEFINE names == <<name>>
  <2>1. names \in Seq(Names) /\ Len(names) = 1 /\ names[1] = name
    OBVIOUS
  <2> HIDE DEF names
  <2>2. /\ Ok(names) \in Seq(Step) /\ Len(Ok(names)) = 1
        /\ Ok(names)[1] = [name |-> name, ok |-> TRUE]
    BY <2>1, OkIs
  <2>3. Ok(names) = <<[name |-> name, ok |-> TRUE]>>
    BY <1>1, <2>2
  <2> QED
    BY <2>3 DEF names
<1> QED
  BY <1>1, <1>2, AddStep

\* A report of one step, which failed.
LEMMA OnlyFailed ==
    ASSUME NEW name \in Names
    PROVE  LET report == Failed(name) IN
           /\ report \in Seq(Step) /\ report # <<>> /\ Len(report) = 1
           /\ Passed(report) = {} /\ ~End(report).ok /\ End(report).name = name
<1>1. <<>> \in Seq(Step) /\ Len(<<>>) = 0 /\ Passed(<<>>) = {}
  BY DEF Passed
<1>2. <<>> \o Failed(name) = Failed(name)
  <2>1. [name |-> name, ok |-> FALSE] \in Step
    BY DEF Step
  <2>2. Failed(name) \in Seq(Step)
    BY <2>1 DEF Failed
  <2> QED
    BY <2>2
<1> DEFINE none == <<>>
<1>3. none \in Seq(Step) /\ Len(none) = 0 /\ Passed(none) = {} /\ none \o Failed(name) = Failed(name)
  BY <1>1, <1>2
<1> HIDE DEF none
<1>4. LET more == none \o Failed(name) IN
      /\ more \in Seq(Step) /\ more # <<>> /\ Len(more) = 0 + 1
      /\ Passed(more) = {} /\ ~End(more).ok /\ End(more).name = name
  BY <1>3, AddFailed
<1> QED
  BY <1>3, <1>4

\* The steps that are behind a run whose root request was answered.
LEMMA BegunIs ==
    /\ Ok(Begun) \in Seq(Step) /\ Len(Ok(Begun)) = 3 /\ Ok(Begun) # <<>> /\ End(Ok(Begun)).ok
    /\ Passed(Ok(Begun)) = {"reachable", "tls", "cors"}
<1>1. Begun \in Seq(Names) /\ Begun # <<>> /\ Len(Begun) = 3
  BY DEF Begun, Names
<1>2. ToSet(Begun) = {"reachable", "tls", "cors"}
  BY DEF Begun, ToSet
<1> QED
  BY <1>1, <1>2, OkIs, OkPassed

-----------------------------------------------------------------------------
(* The steps *)

\* An idle process satisfies the invariant.
LEMMA InitInv == Init => IInv
<1> SUFFICES ASSUME Init PROVE IInv
  OBVIOUS
<1>1. Types
  BY DEF Init, Types
<1>2. Stage /\ Outcome
  BY DoctorAssumption DEF Init, Stage, Outcome
<1>3. PassesWereSeen /\ ExitTells /\ Diagnosed /\ FirstFailing
  BY DEF Init, PassesWereSeen, ExitTells, Diagnosed, FirstFailing
<1> QED
  BY <1>1, <1>2, <1>3 DEF IInv

\* What a report claims was seen.
LEMMA ClaimedIsSeen ==
    ASSUME NEW report \in Seq(Step), steps' = report,
           \A name \in Passed(report) : Claim(name, Len(report))'
    PROVE  PassesWereSeen'
<1>1. ASSUME NEW i \in DOMAIN report, report[i].ok
      PROVE  Claim(report[i].name, Len(report))' /\ report[i].name \in Names
  <2>1. report[i].name \in Passed(report)
    BY <1>1 DEF Passed
  <2>2. report[i] \in Step
    BY <1>1
  <2>3. report[i].name \in Names
    BY <2>2 DEF Step
  <2> QED
    BY <2>1, <2>3
<1> QED
  BY <1>1 DEF PassesWereSeen, Claim, Names

\* A report is returned, all of whose claims are true.
LEMMA ReportInv ==
    ASSUME IInv, NEW report \in Seq(Step), report # <<>>, Report(report),
           UNCHANGED <<server, items, groups, opts, exit, diagnoses>>, opts \in Options,
           \A name \in Passed(report) : Claim(name, Len(report))', Right(Words(report))
    PROVE  IInv'
<1>1. /\ steps' = report /\ pc' = "returned" /\ opts' = opts /\ items' = items /\ server' = server
      /\ result' = IF End(report).ok THEN "ok" ELSE "failed"
  BY DEF Report, End
<1>2. Types'
  BY <1>1 DEF IInv, Types
<1>3. Stage'
  BY <1>1, DoctorAssumption DEF Stage
<1>4. Outcome'
  BY <1>1 DEF Outcome
<1>5. PassesWereSeen'
  BY <1>1, ClaimedIsSeen
<1>6. ExitTells' /\ Diagnosed'
  BY <1>1 DEF ExitTells, Diagnosed
<1>7. FirstFailing'
  BY <1>1 DEF FirstFailing, Right, Words, End
<1> QED
  BY <1>2, <1>3, <1>4, <1>5, <1>6, <1>7 DEF IInv

\* Step 5 fails exactly when a contribution is in no group of the host.
LEMMA NavFails ==
    ASSUME IInv
    PROVE  opts.nav /\ items # <<>> /\ AssertNavContributions(items, Registry, FALSE) # 0 <=> NavWrong
<1>1. items \in Seq(ToSet(items))
  BY DoctorAssumption DEF IInv, Types
<1>2. DOMAIN items \subseteq Nat \ {0} /\ ToSet(items) = {items[i] : i \in DOMAIN items}
  BY <1>1 DEF ToSet
<1>3. AssertNavContributions(items, Registry, FALSE) = 0 <=> \A i \in DOMAIN items : items[i] \in Registry
  BY <1>2, StopsAtFirstUnknown, Zenon
<1>4. items = <<>> => ToSet(items) \subseteq Registry
  BY <1>2
<1>5. ToSet(items) \subseteq Registry <=> \A i \in DOMAIN items : items[i] \in Registry
  BY <1>2
<1> QED
  BY <1>3, <1>4, <1>5 DEF NavWrong, Registry, StaticGroupRegistry

\* Step 5 adds to a report that is true so far.
LEMMA NavStepInv ==
    ASSUME IInv, NEW report \in Seq(Step), Len(report) > 2, NavStep(report),
           UNCHANGED <<server, items, groups, opts, exit, diagnoses>>, opts \in Options,
           \A name \in Passed(report) : Claim(name, 3)',
           Right(IF NavWrong THEN "nav" ELSE "none")
    PROVE  IInv'
<1>1. "nav" \in Names
  BY DEF Names
<1>2. \A name \in Passed(report) : Claim(name, Len(report) + 1)'
  BY DEF Claim
<1>3. CASE Report(report \o Failed("nav")) /\
           opts.nav /\ items # <<>> /\ AssertNavContributions(items, Registry, FALSE) # 0
  <2> DEFINE more == report \o Failed("nav")
  <2>1. /\ more \in Seq(Step) /\ more # <<>> /\ Len(more) = Len(report) + 1
        /\ Passed(more) = Passed(report) /\ ~End(more).ok /\ End(more).name = "nav"
    BY <1>1, AddFailed
  <2>2. Report(more)
    BY <1>3
  <2> HIDE DEF more
  <2>3. Right(Words(more))
    BY <1>3, <2>1, NavFails DEF Words
  <2> QED
    BY <1>2, <2>1, <2>2, <2>3, ReportInv
<1>4. CASE Report(report \o Ok(<<"nav">>)) /\
           ~(opts.nav /\ items # <<>> /\ AssertNavContributions(items, Registry, FALSE) # 0)
  <2>1. items \in Seq(ToSet(items))
    BY DoctorAssumption DEF IInv, Types
  <2>2. ASSUME opts.nav, NEW p \in BOOLEAN
        PROVE  AssertNavContributions(items, Registry, p) = 0
    <3>1. DOMAIN items \subseteq Nat \ {0}
      BY <2>1
    <3>2. CASE items = <<>>
      <4>1. \A i \in DOMAIN items : items[i] \in Registry \/ (Registry = {} /\ p)
        BY <3>2
      <4> QED
        BY <3>1, <4>1, StopsAtFirstUnknown
    <3>3. CASE AssertNavContributions(items, Registry, FALSE) = 0
      BY <3>1, <3>3, StrictIsStricter
    <3> QED
      BY <1>4, <2>2, <3>2, <3>3
  <2>3. items' = items /\ opts' = opts /\ Registry' = Registry
    BY DEF Registry, StaticGroupRegistry
  <2>4. Claim("nav", Len(report) + 1)'
    BY <2>2, <2>3 DEF Claim
  <2> QED
    <3> DEFINE more == report \o Ok(<<"nav">>)
    <3>1. /\ more \in Seq(Step) /\ more # <<>> /\ Len(more) = Len(report) + 1
          /\ Passed(more) = Passed(report) \cup {"nav"} /\ End(more).ok
      BY <1>1, AddOk
    <3>2. Report(more)
      BY <1>4
    <3> HIDE DEF more
    <3>3. Right(Words(more))
      BY <1>4, <3>1, NavFails DEF Words
    <3> QED
      BY <1>2, <2>4, <3>1, <3>2, <3>3, ReportInv
<1> QED
  BY <1>3, <1>4 DEF NavStep

\* The first request rejects.
LEMMA RootFailsInv ==
    ASSUME IInv, RootFails
    PROVE  IInv'
<1>1. opts \in Options /\ UNCHANGED <<server, items, groups, opts, exit, diagnoses>>
  BY DEF RootFails, IInv, Stage, world, setup
<1>2. {"reachable", "tls"} \subseteq Names
  BY DEF Names
<1>3. Now \in diagnoses
  BY DEF RootFails, IInv, Diagnosed
<1>4. opts.url \in Flags /\ (opts.url = "bare" \/ server # "up") /\ opts.url # "missing"
  BY <1>1 DEF RootFails, IInv, Stage, Options
<1>5. server \in Servers
  BY DEF IInv, Types
<1>6. CASE opts.url = "value" /\ server = "badCert"
  <2> DEFINE names == <<"reachable">>
  <2>1. names \in Seq(Names) /\ names # <<>> /\ Len(names) = 1 /\ ToSet(names) = {"reachable"}
    BY <1>2 DEF ToSet
  <2>2. Report(Ok(names) \o Failed("tls"))
    BY <1>6 DEF RootFails
  <2> HIDE DEF names
  <2>3. Ok(names) \in Seq(Step) /\ Len(Ok(names)) = 1 /\ Passed(Ok(names)) = {"reachable"}
    BY <2>1, OkIs, OkPassed
  <2> DEFINE report == Ok(names) \o Failed("tls")
  <2>4. /\ report \in Seq(Step) /\ report # <<>> /\ Len(report) = 2
        /\ Passed(report) = {"reachable"} /\ ~End(report).ok /\ End(report).name = "tls"
    BY <1>2, <2>3, AddFailed
  <2>5. Report(report)
    BY <2>2
  <2> HIDE DEF report
  <2>6. Claim("reachable", 2)'
    BY DEF Claim
  <2>7. Right(Words(report))
    BY <1>3, <1>6, <2>4 DEF Right, Words, Now, FirstWrong
  <2> QED
    BY <1>1, <2>4, <2>5, <2>6, <2>7, ReportInv
<1>7. CASE ~(opts.url = "value" /\ server = "badCert")
  <2> DEFINE report == Failed("reachable")
  <2>1. Report(report)
    BY <1>7 DEF RootFails
  <2>2. /\ report \in Seq(Step) /\ report # <<>> /\ Passed(report) = {}
        /\ ~End(report).ok /\ End(report).name = "reachable"
    BY <1>2, OnlyFailed
  <2> HIDE DEF report
  <2>3. Now = "reachable"
    BY <1>4, <1>5, <1>7 DEF Now, FirstWrong, Flags, Servers
  <2>4. Right(Words(report))
    BY <1>3, <2>2, <2>3 DEF Right, Words
  <2> QED
    BY <1>1, <2>1, <2>2, <2>4, ReportInv
<1> QED
  BY <1>6, <1>7

\* It is answered without the header.
LEMMA RootLacksCorsInv ==
    ASSUME IInv, RootLacksCors
    PROVE  IInv'
<1>1. /\ opts \in Options /\ UNCHANGED <<server, items, groups, opts, exit, diagnoses>>
      /\ "answered" \in seen' /\ Report(Ok(<<"reachable", "tls">>) \o Failed("cors"))
  BY DEF RootLacksCors, IInv, Stage, world, setup
<1> DEFINE names == <<"reachable", "tls">>
<1>2. /\ names \in Seq(Names) /\ names # <<>> /\ Len(names) = 2 /\ ToSet(names) = {"reachable", "tls"}
      /\ "cors" \in Names
  BY DEF Names, ToSet
<1>3. Report(Ok(names) \o Failed("cors"))
  BY <1>1
<1> HIDE DEF names
<1>4. Ok(names) \in Seq(Step) /\ Len(Ok(names)) = 2 /\ Passed(Ok(names)) = {"reachable", "tls"}
  BY <1>2, OkIs, OkPassed
<1> DEFINE report == Ok(names) \o Failed("cors")
<1>5. /\ report \in Seq(Step) /\ report # <<>> /\ Len(report) = Len(Ok(names)) + 1
      /\ Passed(report) = Passed(Ok(names)) /\ ~End(report).ok /\ End(report).name = "cors"
  BY <1>2, <1>4, AddFailed
<1>6. Report(report)
  BY <1>3
<1> HIDE DEF report
<1>7. \A name \in Passed(report) : Claim(name, Len(report))'
  BY <1>1, <1>4, <1>5 DEF Claim
<1>8. Now \in diagnoses /\ Now = "cors"
  BY DEF RootLacksCors, IInv, Diagnosed, Now, FirstWrong
<1>9. Right(Words(report))
  BY <1>5, <1>8 DEF Right, Words
<1> QED
  BY <1>1, <1>5, <1>6, <1>7, <1>9, ReportInv


\* It is answered with the header.
LEMMA RootAnsweredInv ==
    ASSUME IInv, RootAnswered
    PROVE  IInv'
<1>1. /\ pc = "root" /\ opts \in Options /\ UNCHANGED <<server, items, groups, opts, exit, diagnoses>>
      /\ {"answered", "cors"} \subseteq seen' /\ UNCHANGED <<server, cors, served>>
  BY DEF RootAnswered, IInv, Stage, world, setup
<1>2. opts.metadata \in Flags
  BY <1>1 DEF Options
<1>3. \A name \in {"reachable", "tls", "cors"} : Claim(name, 3)'
  BY <1>1 DEF Claim
<1>4. Now \in diagnoses /\ Now \in {"manifest", "nav", "none"}
  BY DEF RootAnswered, IInv, Diagnosed, Now, FirstWrong
<1>5. opts.url = "value"
  BY DEF RootAnswered
<1>6. CASE opts.metadata = "value" /\ pc' = "manifest" /\ steps' = Ok(Begun) /\ result' = result
  <2>1. Types' /\ Stage'
    BY <1>1, <1>6, <1>5, BegunIs, DoctorAssumption DEF IInv, Types, Stage
  <2>2. Outcome' /\ ExitTells'
    BY <1>6 DEF Outcome, ExitTells
  <2>3. PassesWereSeen'
    BY <1>3, <1>6, BegunIs, ClaimedIsSeen
  <2>4. Now' = Now /\ result = "none"
    BY <1>1 DEF Now, FirstWrong, IInv, Stage
  <2>5. Diagnosed' /\ FirstFailing'
    BY <1>1, <1>6, <1>4, <2>4 DEF Diagnosed, FirstFailing
  <2> QED
    BY <2>1, <2>2, <2>3, <2>5 DEF IInv
<1>7. CASE pc' = "returned" /\ steps' = Ok(Begun) /\ result' = "threw"
  <2>1. Types' /\ Stage'
    BY <1>1, <1>7, BegunIs, DoctorAssumption DEF IInv, Types, Stage
  <2>2. Outcome' /\ ExitTells'
    <3>1. End(steps').ok /\ steps' # <<>>
      BY <1>7, BegunIs
    <3> QED
      BY <1>7, <3>1 DEF Outcome, ExitTells
  <2>3. PassesWereSeen'
    BY <1>3, <1>7, BegunIs, ClaimedIsSeen
  <2>4. Diagnosed' /\ FirstFailing'
    BY <1>7 DEF Diagnosed, FirstFailing
  <2> QED
    BY <2>1, <2>2, <2>3, <2>4 DEF IInv
<1>8. CASE opts.metadata = "missing" /\ NavStep(Ok(<<"reachable", "tls", "cors", "manifest">>))
  <2> DEFINE names == <<"reachable", "tls", "cors", "manifest">>
  <2>1. /\ names \in Seq(Names) /\ names # <<>> /\ Len(names) = 4
        /\ ToSet(names) = {"reachable", "tls", "cors", "manifest"}
    BY DEF Names, ToSet
  <2>2. NavStep(Ok(names))
    BY <1>8
  <2> HIDE DEF names
  <2>3. /\ Ok(names) \in Seq(Step) /\ Len(Ok(names)) = 4
        /\ Passed(Ok(names)) = {"reachable", "tls", "cors", "manifest"}
    BY <2>1, OkIs, OkPassed
  <2>4. Claim("manifest", 3)'
    BY <1>1, <1>8 DEF Claim
  <2>5. Now = IF NavWrong THEN "nav" ELSE "none"
    BY <1>8, <1>4 DEF Now, FirstWrong, NavWrong
  <2>6. Right(IF NavWrong THEN "nav" ELSE "none")
    BY <1>4, <2>5 DEF Right
  <2> QED
    <3> DEFINE report == Ok(names)
    <3>1. /\ report \in Seq(Step) /\ Len(report) > 2 /\ NavStep(report)
          /\ \A name \in Passed(report) : Claim(name, 3)'
      BY <1>3, <2>2, <2>3, <2>4
    <3> HIDE DEF report
    <3> QED
      BY <1>1, <2>6, <3>1, NavStepInv
<1> QED
  BY <1>2, <1>6, <1>7, <1>8 DEF RootAnswered, Flags, Begun

\* The second request rejects or is answered with an error.
LEMMA ManifestFailsInv ==
    ASSUME IInv, ManifestFails
    PROVE  IInv'
<1>1. /\ opts \in Options /\ UNCHANGED <<server, items, groups, opts, exit, seen, diagnoses>>
      /\ Report(steps \o Failed("manifest")) /\ steps = Ok(Begun) /\ {"answered", "cors"} \subseteq seen
      /\ opts.metadata = "value"
  BY DEF ManifestFails, IInv, Stage, world, setup
<1> DEFINE report == Ok(Begun) \o Failed("manifest")
<1>2. /\ report \in Seq(Step) /\ report # <<>> /\ Passed(report) = {"reachable", "tls", "cors"}
      /\ ~End(report).ok /\ End(report).name = "manifest"
  BY BegunIs, AddFailed DEF Names
<1>3. Report(report)
  BY <1>1
<1> HIDE DEF report
<1>4. \A name \in Passed(report) : Claim(name, Len(report))'
  BY <1>1, <1>2 DEF Claim
<1>5. Now \in diagnoses /\ \E d \in diagnoses : d \notin {"reachable", "tls", "cors"}
  BY DEF ManifestFails, IInv, Diagnosed
<1>6. Now \in {"reachable", "tls", "cors", "manifest"}
  BY <1>1 DEF ManifestFails, Now, FirstWrong, IInv, Types, Servers
<1>7. Right(Words(report))
  BY <1>2, <1>5, <1>6 DEF Right, Words
<1> QED
  BY <1>1, <1>2, <1>3, <1>4, <1>7, ReportInv

\* It is answered with the manifest.
LEMMA ManifestAnsweredInv ==
    ASSUME IInv, ManifestAnswered
    PROVE  IInv'
<1>1. /\ opts \in Options /\ UNCHANGED <<server, items, groups, opts, exit, diagnoses>>
      /\ NavStep(steps \o Ok(<<"manifest">>)) /\ steps = Ok(Begun)
      /\ {"answered", "cors", "manifest"} \subseteq seen' /\ opts.metadata = "value"
  BY DEF ManifestAnswered, IInv, Stage, world, setup
<1> DEFINE report == Ok(Begun) \o Ok(<<"manifest">>)
<1>2. /\ report \in Seq(Step) /\ Len(report) = Len(Ok(Begun)) + 1
      /\ Passed(report) = {"reachable", "tls", "cors", "manifest"}
  BY BegunIs, AddOk DEF Names
<1>3. NavStep(report)
  BY <1>1
<1> HIDE DEF report
<1>4. \A name \in Passed(report) : Claim(name, 3)'
  BY <1>1, <1>2 DEF Claim
<1>5. Len(report) > 2
  BY <1>2, BegunIs
<1>6. Now \in diagnoses /\ \E d \in diagnoses : d \notin {"reachable", "tls", "cors"}
  BY DEF ManifestAnswered, IInv, Diagnosed
<1>7. Now = "cors" \/ Now = IF NavWrong THEN "nav" ELSE "none"
  BY DEF ManifestAnswered, IInv, Stage, Now, FirstWrong, NavWrong
<1>8. Right(IF NavWrong THEN "nav" ELSE "none")
  BY <1>6, <1>7 DEF Right
<1> QED
  BY <1>1, <1>2, <1>3, <1>4, <1>5, <1>8, NavStepInv

\* The process ends, with a run behind it or without.
LEMMA ExitInv ==
    ASSUME IInv, Exit \/ Usage
    PROVE  IInv'
<1>1. /\ pc' = "exited" /\ UNCHANGED <<server, items, groups, opts, steps, result, seen, diagnoses>>
      /\ \/ pc = "idle" /\ opts = NoOptions
         \/ /\ pc = "returned" /\ opts # NoOptions
            /\ exit' = CASE result = "ok" -> 0 [] result = "failed" -> 1 [] result = "threw" -> 3
  BY DEF Exit, Usage, IInv, Stage, world, setup
<1>2. Types' /\ Stage'
  BY <1>1 DEF IInv, Types, Stage
<1>3. Outcome'
  BY <1>1 DEF IInv, Outcome
<1>4. PassesWereSeen'
  BY <1>1 DEF IInv, PassesWereSeen, Registry
<1>5. ExitTells'
  <2>1. CASE opts = NoOptions
    BY <1>1, <2>1 DEF ExitTells
  <2>2. CASE pc = "returned" /\ opts # NoOptions
    <3>1. /\ steps # <<>> /\ result \in {"ok", "failed", "threw"}
          /\ result = "failed" <=> ~End(steps).ok
      BY <2>2 DEF IInv, Types, Outcome
    <3>2. (exit' = 0 <=> result = "ok") /\ (exit' = 1 <=> result = "failed")
      BY <1>1, <2>2, <3>1
    <3> QED
      BY <1>1, <3>1, <3>2 DEF ExitTells, End
  <2> QED
    BY <1>1, <2>1, <2>2
<1>6. Diagnosed' /\ FirstFailing'
  BY <1>1 DEF IInv, Diagnosed, FirstFailing
<1> QED
  BY <1>2, <1>3, <1>4, <1>5, <1>6 DEF IInv

\* A run begins, or the dev server changes.
LEMMA QuietInv ==
    ASSUME IInv, Diagnose \/ DoctorCommand \/ ServerChanges \/ UNCHANGED vars
    PROVE  IInv'
<1>1. /\ UNCHANGED <<items, groups, steps, result, exit, seen>> /\ (server' = server \/ server' \in Servers)
      /\ \/ UNCHANGED <<opts, pc>>
         \/ pc = "idle" /\ pc' = "root" /\ opts' \in Options /\ opts'.url # "missing"
  BY DEF Diagnose, DoctorCommand, Begin, ServerChanges, vars, setup
<1>2. Types' /\ Stage'
  BY <1>1, DoctorAssumption DEF IInv, Types, Stage
<1>3. Outcome' /\ ExitTells'
  BY <1>1 DEF IInv, Outcome, ExitTells
<1>4. PassesWereSeen'
  <2>1. CASE UNCHANGED opts
    BY <1>1, <2>1 DEF IInv, PassesWereSeen, Registry
  <2>2. CASE pc = "idle"
    <3>1. steps' = <<>>
      BY <1>1, <2>2 DEF IInv, Stage
    <3> QED
      BY <3>1 DEF PassesWereSeen
  <2> QED
    BY <1>1, <2>1, <2>2
<1>5. FirstFailing'
  <2>1. CASE Diagnose \/ DoctorCommand
    <3>1. pc = "idle"
      BY <2>1 DEF Diagnose, DoctorCommand
    <3> QED
      BY <1>1, <3>1 DEF IInv, Stage, FirstFailing
  <2>2. CASE ServerChanges
    <3>1. CASE pc \in {"root", "manifest"}
      BY <1>1, <3>1 DEF IInv, Stage, FirstFailing
    <3>2. CASE pc \notin {"root", "manifest"}
      BY <1>1, <2>2, <3>2 DEF IInv, ServerChanges, FirstFailing
    <3> QED
      BY <3>1, <3>2
  <2>3. CASE UNCHANGED vars
    BY <2>3 DEF vars, IInv, FirstFailing
  <2> QED
    BY <2>1, <2>2, <2>3
<1>6. Diagnosed'
  <2>1. CASE Diagnose \/ DoctorCommand
    BY <2>1 DEF Diagnose, DoctorCommand, Begin, setup, Diagnosed, Now, FirstWrong
  <2>2. CASE ServerChanges
    <3>1. opts' = opts /\ pc' = pc /\ items' = items /\ groups' = groups
      BY <2>2 DEF ServerChanges
    <3>2. Now' = FirstWrong(opts, server', cors', served')
      BY <3>1 DEF Now, FirstWrong
    <3> QED
      BY <2>2, <3>1, <3>2 DEF IInv, ServerChanges, Diagnosed
  <2>3. CASE UNCHANGED vars
    BY <2>3 DEF vars, IInv, Diagnosed, Now, FirstWrong
  <2> QED
    BY <2>1, <2>2, <2>3
<1> QED
  BY <1>2, <1>3, <1>4, <1>5, <1>6 DEF IInv

-----------------------------------------------------------------------------
(* Theorems *)

\* The invariant holds in every run, whatever the dev server does meanwhile.
THEOREM Invariant == Spec => []IInv
<1>1. IInv /\ [Next]_vars => IInv'
  BY RootFailsInv, RootLacksCorsInv, RootAnsweredInv, ManifestFailsInv, ManifestAnsweredInv, ExitInv,
     QuietInv DEF Next, Run
<1> QED
  BY InitInv, <1>1, PTL DEF Spec

\* What a report says passed was so when it was asked for; a passed nav step predicts the
\* shell, for any contributions and groups.
THEOREM PassedWasSeen == Spec => []PassesWereSeen
<1>1. IInv => PassesWereSeen
  BY DEF IInv
<1> QED
  BY <1>1, Invariant, PTL

\* The exit code tells.
THEOREM ExitCodeTells == Spec => []ExitTells
<1>1. IInv => ExitTells
  BY DEF IInv
<1> QED
  BY <1>1, Invariant, PTL

\* What a run ends with was wrong first, for any contributions and groups and however the
\* server changed between the requests: always so if it did not, and for the steps of the
\* first request also if it did.
THEOREM FirstIsReported == Spec => []FirstFailing
<1>1. IInv => FirstFailing
  BY DEF IInv
<1> QED
  BY <1>1, Invariant, PTL

==============================================================================
