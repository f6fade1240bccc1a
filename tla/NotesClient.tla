------------------------------ MODULE NotesClient ------------------------------
(***************************************************************************)
(* The generated client of notesd: the request each operation of the note  *)
(* service builds, and what notesd understands of it.  A root URL is named *)
(* by where it leads.                                                      *)
(***************************************************************************)
EXTENDS RequestBuilder

CONSTANT FieldNames  \* the names notesd takes in an update mask, as texts

NoOptions == [style |-> Null, explode |-> Null]

\* Parameters that are not given are undefined.
Optional(t) == IF t = Null THEN NullValue ELSE Text(t)

NotesPath  == <<Literal(<<Ch("/v1/notes")>>)>>
NotePath(name) == NotesPath \o <<Literal(<<Ch("/")>>), Placeholder(name, <<>>, FALSE)>>

Json == "application/json"
Id == <<Ch("id")>>
NoteId == <<Ch("note.id")>>
ReadMask == <<Ch("readMask")>>
UpdateMask == <<Ch("updateMask")>>
PageSize == <<Ch("pageSize")>>
PageToken == <<Ch("pageToken")>>
ShowDeleted == <<Ch("showDeleted")>>

\* These are texts, too: a fact about literals that the provers have to be told.
ASSUME NamesAreTexts == {ReadMask, UpdateMask, PageSize, PageToken, ShowDeleted} \subseteq Unencoded

-----------------------------------------------------------------------------
(* The operations *)

\* params is null, or gives each of the three parameters a text or null.
ListNotes(rootUrl, params) ==
    LET rb == NewBuilder(rootUrl, NotesPath, "GET")
        Given(b, name) == QueryParam(b, name, Optional(params[name]), NoOptions)
    IN  Build(IF params = Null THEN rb
              ELSE FoldLeft(Given, rb, <<PageSize, PageToken, ShowDeleted>>), Json)

GetNote(rootUrl, params) ==
    LET rb == NewBuilder(rootUrl, NotePath(Id), "GET")
    IN  Build(QueryParam(PathParam(rb, Id, Text(params.id), NoOptions),
                         ReadMask, Optional(params.mask), NoOptions), Json)

CreateNote(rootUrl, params) ==
    Build(SetBody(NewBuilder(rootUrl, NotesPath, "POST"), params.body, Json), Json)

\* Slip: the id fills the placeholder of another operation.
UpdateNoteMisnamed(rootUrl, params) ==
    LET rb == NewBuilder(rootUrl, NotePath(NoteId), "PATCH")
    IN  Build(SetBody(PathParam(rb, Id, Text(params.id), NoOptions), params.body, Json), Json)

UpdateNote(rootUrl, params) ==
    LET rb == NewBuilder(rootUrl, NotePath(NoteId), "PATCH")
        masked == QueryParam(PathParam(rb, NoteId, Text(params.id), NoOptions), UpdateMask,
                             IF params.mask = Null THEN NullValue ELSE List(params.mask), NoOptions)
    IN  Build(SetBody(masked, params.body, Json), Json)

DeleteNote(rootUrl, params) ==
    Build(PathParam(NewBuilder(rootUrl, NotePath(Id), "DELETE"), Id, Text(params.id), NoOptions), Json)

\* Api.rootUrl: the one set on Api, if it is not empty, or that of the configuration.
ApiRootUrl(own, configured) == IF own \in {Null, ""} THEN configured ELSE own

-----------------------------------------------------------------------------
(* notesd: its gateway matches {id} with one segment that is not empty.  A   *)
(* segment of one dot or two does not get there: the browser takes it out.   *)

Segment(request) == Last(request.url).text

HasId(request) ==
    /\ Len(request.url) > 2 /\ Last(request.url).kind = "literal"
    /\ Segment(request) # <<>> /\ Segment(request) \notin DotSegments
    /\ Ch("/") \notin ToSet(Segment(request))

\* The fields an update with these parameters changes.  A text that is no field's name, as
\* two names joined with a comma or a name in camel case, is no mask
\* (backend/README.md:86-90), and without a mask nothing changes.
Changes(params) == {p.text : p \in {p \in ToSet(params) : p.name = UpdateMask}} \cap FieldNames

\* The operation a request is served as, with its id, its parameters, what it changes of
\* the note, and its body.
Understood(request) ==
    LET collection == Len(request.url) = 2
        op == CASE request.method = "GET"    /\ collection -> "list"
                [] request.method = "POST"   /\ collection -> "create"
                [] request.method = "GET"    /\ HasId(request) -> "get"
                [] request.method = "PATCH"  /\ HasId(request) -> "update"
                [] request.method = "DELETE" /\ HasId(request) -> "delete"
                [] OTHER -> "none"
        params == [i \in DOMAIN request.params |->
                      Pair(Decode(request.params[i].name), Decode(request.params[i].text))]
    IN  [op      |-> op,
         id      |-> IF HasId(request) THEN Decode(Segment(request)) ELSE <<>>,
         params  |-> params,
         changes |-> IF op = "update" THEN Changes(params) ELSE {},
         body    |-> request.body]

=============================================================================
