------------------------------- MODULE NotesPage -------------------------------
(***************************************************************************)
(* The page of the notes micro-frontend: the notes view                    *)
(* (home.component.ts over notes.service.ts), which lists and creates      *)
(* notes, and a script that uses the generated client beside it, over the  *)
(* requests of Interceptors and the operations of NotesClient, with notesd *)
(* at the other end.  Responses may overtake one another and be lost.      *)
(***************************************************************************)
EXTENDS Interceptors, NotesClient, FiniteSetsExt

CONSTANTS
    ApiBase,       \* environment.notesApiBaseUrl
    NotesdOrigin,  \* the origin notesd is reached at
    MaxOperations, \* bound: notes the user submits and operations of the script, together
    MaxScripts,    \* bound: operations of the script among them
    ScriptCalls,   \* what they may be: [by |-> "script", op, root, params]
    OldNotes,      \* notes notesd may have before the page is opened
    PageLimit      \* how many notes notesd puts into one page of a list

\* The requests: one for the view's first list, and two for a note.
ASSUME PageAssumption ==
    /\ MaxOperations \in Nat
    /\ Requests = 1..(1 + 2 * MaxOperations)
    /\ ApiBase \in Targets /\ \A c \in ScriptCalls : c.by = "script" /\ ApiRootUrl(c.root, ApiBase) \in Targets

VARIABLES
    call,    \* call[r]: who makes request r, and which operation with which parameters
    answer,  \* answer[r]: the page of notes notesd served r with, and whether there are more
    stored,  \* the notes notesd has
    notes, loading, saving, error,  \* the fields of HomeComponent
    shown    \* the request whose answer notes is, 0 at first

view == <<notes, loading, saving, error, shown>>
pageVars == <<req, call, answer, stored, view>>

NoCall == [by |-> "none"]
NoAnswer == [served |-> FALSE, notes |-> {}, more |-> FALSE]

\* The id notesd gives note n.
NoteIdOf(n) == [i \in 1..n |-> Ch("n")]

Made(by) == {r \in Requests : call[r].by = by}
Unused == Min(Made("none"))

\* NotesApiService.list and create, with the root URL of the configuration.
ListCall == [by |-> "view", op |-> "list", root |-> Null, params |-> Null]
CreateCall(n) == [by |-> "view", op |-> "create", root |-> Null,
                  params |-> [body |-> [kind |-> "plain", note |-> n]]]

IsView(r, op) == call[r].by = "view" /\ call[r].op = op
Submitted == Cardinality({r \in Requests : IsView(r, "create")})

InBounds == Submitted + Cardinality(Made("script")) < MaxOperations

Root(c) == ApiRootUrl(c.root, ApiBase)

Operation(c) ==
    CASE c.op = "list"   -> ListNotes(Root(c), c.params)
      [] c.op = "create" -> CreateNote(Root(c), c.params)
      [] c.op = "get"    -> GetNote(Root(c), c.params)
      [] c.op = "update" -> UpdateNote(Root(c), c.params)
      [] c.op = "delete" -> DeleteNote(Root(c), c.params)

\* What a script may ask for: the ids, masks and other parameters are texts as it writes
\* them, and what it stores is a note.
ASSUME ScriptAssumption ==
    /\ Null \notin Unencoded
    /\ \A c \in ScriptCalls :
          LET given == c.params
              Maybe(t) == t = Null \/ t \in Unencoded
          IN  \/ /\ c.op = "list"
                 /\ \/ given = Null
                    \/ /\ DOMAIN given = {PageSize, PageToken, ShowDeleted}
                       /\ \A name \in DOMAIN given : Maybe(given[name])
              \/ c.op = "create" /\ given.body.kind = "plain"
              \/ c.op = "get" /\ given.id \in Unencoded /\ Maybe(given.mask)
              \/ /\ c.op = "update" /\ given.id \in Unencoded /\ given.body.kind = "plain"
                 /\ given.mask = Null \/ given.mask \in Seq(Unencoded)
              \/ c.op = "delete" /\ given.id \in Unencoded

\* What notesd understands of every call there may be.
AtNotesd == [c \in ScriptCalls \cup {ListCall} \cup {CreateCall(n) : n \in 1..MaxOperations} |->
                Understood(Operation(c))]

\* Every note that is created is a new one: what a script creates, and what was there
\* before, is none of the view's.
ASSUME NoteAssumption ==
    /\ OldNotes \cap (1..MaxOperations) = {}
    /\ \A c \in ScriptCalls : AtNotesd[c].op = "create" => AtNotesd[c].body.note \notin 1..MaxOperations

PageInit ==
    /\ req = [r \in Requests |-> Idle]
    /\ call = [r \in Requests |-> NoCall]
    /\ answer = [r \in Requests |-> NoAnswer]
    /\ stored \in SUBSET OldNotes
    /\ notes = {} /\ loading = FALSE /\ saving = FALSE /\ error = "none" /\ shown = 0

-----------------------------------------------------------------------------
(* Requests on their way.  Events before the response are filtered out by    *)
(* the operations, and a login nobody waits for is of no consequence here.   *)

TokenComes(r) == TokenArrives(r) /\ UNCHANGED <<call, answer, stored, view>>

\* The first page of a list (notesd.proto:69-84): all notes, if they fit, or some of them
\* and a next_page_token, which notes.service.ts:58 drops.
Pages ==
    IF Cardinality(stored) <= PageLimit THEN {[served |-> TRUE, notes |-> stored, more |-> FALSE]}
    ELSE [served : {TRUE}, more : {TRUE}, notes : {page \in SUBSET stored : Cardinality(page) = PageLimit}]

\* notesd serves r.  What it answers a script is of no consequence here.
Handle(r) ==
    /\ req[r].inner = "wire" /\ OriginOf(req[r].target) = NotesdOrigin
    /\ ~answer[r].served
    /\ LET what == AtNotesd[call[r]] IN
       /\ stored' = CASE what.op = "create" -> stored \cup {what.body.note}
                      [] what.op = "delete" -> {n \in stored : NoteIdOf(n) # what.id}
                      [] OTHER -> stored
       /\ \E given \in IF IsView(r, "list") THEN Pages
                       ELSE {[served |-> TRUE, notes |-> {}, more |-> FALSE]} :
             answer' = [answer EXCEPT ![r] = given]
    /\ UNCHANGED <<req, call, view>>

\* A response that is good for r: notesd's, or that of some other server.
CanAnswer(r) ==
    /\ req[r].inner = "wire" /\ OriginOf(req[r].target) # NoOrigin
    /\ OriginOf(req[r].target) = NotesdOrigin => answer[r].served /\ AtNotesd[call[r]].op # "none"

\* What may become of a request that gets no good response: getToken rejects, the
\* answer is an error, which may be a 401 if r was not served, or it is lost.
Failures(r) ==
    {q \in {[req[r] EXCEPT !.inner = "closed", !.outer = "errored"]} : req[r].inner = "token"}
    \cup {Errored(req[r], s) : s \in {s \in {"401", "error"} :
            req[r].inner = "wire" /\ (s = "401" => ~answer[r].served)}}

-----------------------------------------------------------------------------
(* HomeComponent *)

\* ngOnInit: refresh().
NgOnInit ==
    /\ Made("view") = {}
    /\ call' = [call EXCEPT ![Unused] = ListCall]
    /\ req' = [req EXCEPT ![Unused] = Subscribed(@, ApiBase)]
    /\ loading' = TRUE /\ error' = "none"
    /\ UNCHANGED <<answer, stored, notes, saving, shown>>

ListArrives(r) ==
    /\ IsView(r, "list") /\ CanAnswer(r)
    /\ req' = [req EXCEPT ![r] = Completed(@)]
    /\ notes' = answer[r].notes /\ shown' = r
    /\ loading' = FALSE
    /\ UNCHANGED <<call, answer, stored, saving, error>>

ListFails(r) ==
    /\ IsView(r, "list")
    /\ \E q \in Failures(r) : req' = [req EXCEPT ![r] = q]
    /\ error' = "load" /\ loading' = FALSE
    /\ UNCHANGED <<call, answer, stored, notes, saving, shown>>

\* Slip: the button is not disabled while a note is saved.
SubmitAgain ==
    /\ InBounds /\ Made("view") # {}
    /\ call' = [call EXCEPT ![Unused] = CreateCall(Submitted + 1)]
    /\ req' = [req EXCEPT ![Unused] = Subscribed(@, ApiBase)]
    /\ saving' = TRUE /\ error' = "none"
    /\ UNCHANGED <<answer, stored, notes, loading, shown>>

\* The user, who may fill the form in at any time, presses the button, which is disabled
\* while a note is being saved: onCreate().
Submit ==
    /\ ~saving /\ InBounds /\ Made("view") # {}
    /\ call' = [call EXCEPT ![Unused] = CreateCall(Submitted + 1)]
    /\ req' = [req EXCEPT ![Unused] = Subscribed(@, ApiBase)]
    /\ saving' = TRUE /\ error' = "none"
    /\ UNCHANGED <<answer, stored, notes, loading, shown>>

\* Slip: the list is not asked for again.
CreateArrivesOnly(r) ==
    /\ IsView(r, "create") /\ CanAnswer(r)
    /\ req' = [req EXCEPT ![r] = Completed(@)]
    /\ saving' = FALSE
    /\ UNCHANGED <<call, answer, stored, notes, loading, error, shown>>

\* The form is reset, and refresh() asks for the list.
CreateArrives(r) ==
    /\ IsView(r, "create") /\ CanAnswer(r)
    /\ call' = [call EXCEPT ![Unused] = ListCall]
    /\ req' = [req EXCEPT ![r] = Completed(@), ![Unused] = Subscribed(@, ApiBase)]
    /\ saving' = FALSE
    /\ loading' = TRUE /\ error' = "none"
    /\ UNCHANGED <<answer, stored, notes, shown>>

\* The error, or the response of a note that was stored, is lost on the way.
CreateFails(r) ==
    /\ IsView(r, "create")
    /\ \E q \in Failures(r) : req' = [req EXCEPT ![r] = q]
    /\ error' = "create" /\ saving' = FALSE
    /\ UNCHANGED <<call, answer, stored, notes, loading, shown>>

-----------------------------------------------------------------------------
(* A script that calls operations, through Api or itself *)

Invoke ==
    /\ InBounds /\ Cardinality(Made("script")) < MaxScripts
    /\ \E c \in ScriptCalls :
          /\ call' = [call EXCEPT ![Unused] = c]
          /\ req' = [req EXCEPT ![Unused] = Subscribed(@, Root(c))]
    /\ UNCHANGED <<answer, stored, view>>

\* The response, whichever it is; or, where the script holds the observable, it leaves.
ScriptHears(r) ==
    /\ call[r].by = "script"
    /\ \/ CanAnswer(r) /\ Complete(r)
       \/ \E q \in Failures(r) : req' = [req EXCEPT ![r] = q]
    /\ UNCHANGED <<call, answer, stored, view>>

ScriptLeaves(r) ==
    /\ call[r].by = "script"
    /\ Unsubscribe(r)
    /\ UNCHANGED <<call, answer, stored, view>>

-----------------------------------------------------------------------------

Ends(r) == ListArrives(r) \/ ListFails(r) \/ CreateArrives(r) \/ CreateFails(r) \/ ScriptHears(r)

PageNext ==
    \/ \E r \in Requests :
          \/ TokenComes(r) \/ Handle(r)
          \/ ListArrives(r) \/ ListFails(r) \/ CreateArrives(r) \/ CreateFails(r)
          \/ ScriptHears(r) \/ ScriptLeaves(r)
    \/ NgOnInit \/ Submit \/ Invoke

\* As long as requests are out, some token promise settles, or some request is answered
\* or given up.
Fairness == WF_pageVars(\E r \in Requests : TokenComes(r) \/ Ends(r))

PageSpec == PageInit /\ [][PageNext]_pageVars
FairPageSpec == PageSpec /\ Fairness

-----------------------------------------------------------------------------
(* Properties, with those of Interceptors *)

LiveOf(op) == {r \in Requests : IsView(r, op) /\ Live(r)}

\* The flags tell what is going on: the button is disabled exactly while one note is
\* being saved, and the view never waits for a list that no request will bring.
FlagsMatchRequests ==
    /\ Cardinality(LiveOf("create")) = (IF saving THEN 1 ELSE 0)
    /\ loading => LiveOf("list") # {}

\* When the list in front of the user is the one asked for last, and notesd had no more
\* notes than its page holds, it has every note the user was told is created that is still
\* there, whatever order the responses came in, and whatever is in flight or has failed.
ShowsCreated ==
    LET lists == {r \in Requests : IsView(r, "list")}
        created == {call[r].params.body.note : r \in
                        {r \in Requests : IsView(r, "create") /\ req[r].outer = "completed"}}
    IN  shown \in lists /\ shown = Max(lists) /\ ~answer[shown].more => created \cap stored \subseteq notes

\* The parameters a script gave that have a value.
Given(c) ==
    CASE c.op = "list" ->
            IF c.params = Null THEN <<>>
            ELSE LET names == Only(<<PageSize, PageToken, ShowDeleted>>,
                                   {name \in DOMAIN c.params : c.params[name] # Null})
                 IN  [i \in DOMAIN names |-> Pair(names[i], c.params[names[i]])]
      [] c.op = "get" /\ c.params.mask # Null -> <<Pair(ReadMask, c.params.mask)>>
      [] c.op = "update" /\ c.params.mask # Null ->
            [i \in DOMAIN c.params.mask |-> Pair(UpdateMask, c.params.mask[i])]
      [] OTHER -> <<>>

\* What notesd does for a script is what the script asked for: the same operation, on
\* the same note, with the parameters that were given, and an update of the fields its mask
\* names, as far as notesd knows the names.  Only a request for the note with the empty id,
\* which is none, or with an id of one dot or two, is not served.
AsAsked ==
    \A r \in Made("script") : answer[r].served =>
        LET what == AtNotesd[call[r]]
            given == call[r].params
            ofNote == call[r].op \in {"get", "update", "delete"}
        IN  IF ofNote /\ given.id \in {<<>>} \cup DotSegments THEN what.op = "none"
            ELSE /\ what.op = call[r].op
                 /\ ofNote => what.id = given.id
                 /\ what.params = Given(call[r])
                 /\ call[r].op = "update" =>
                       what.changes = IF given.mask = Null THEN {} ELSE ToSet(given.mask) \cap FieldNames
                 /\ call[r].op \in {"create", "update"} => what.body = given.body

\* What examples/fullstack-oss/README.md says: the micro-frontend lists and creates notes carrying the
\* shell-owned bearer token on every request.
EveryRequestCarriesToken ==
    \A r \in Made("view") : req[r].sends > 0 => "bearer" \in req[r].headers

=============================================================================
