----------------------------- MODULE RequestBuilder -----------------------------
(***************************************************************************)
(* The class RequestBuilder of the generated client as operators: a        *)
(* builder is a record of its fields, each method takes one and returns    *)
(* it changed.  The maps of parameters keep the order of insertion, so     *)
(* they are sequences.                                                     *)
(***************************************************************************)
EXTENDS RequestParameters

UrlEncoded == "application/x-www-form-urlencoded"
Multipart  == "multipart/form-data"

\* Names and values of headers that matter by what they are.
ContentType == <<Ch("Content-Type")>>
Accept      == <<Ch("Accept")>>

NewBuilder(rootUrl, operationPath, method) ==
    [rootUrl |-> rootUrl, operationPath |-> operationPath, method |-> method,
     path |-> <<>>, query |-> <<>>, header |-> <<>>,
     bodyContent |-> NullValue, bodyContentType |-> Null]

\* Map.set: a name that is there keeps its place and gets the new parameter.
Put(params, p) ==
    LET i == SelectInSeq(params, LAMBDA q : q.name = p.name)
    IN  IF i = 0 THEN Append(params, p) ELSE [params EXCEPT ![i] = p]

PathParam(b, name, value, options) ==
    [b EXCEPT !.path = Put(@, Param(name, value, options, "simple", FALSE))]

QueryParam(b, name, value, options) ==
    [b EXCEPT !.query = Put(@, Param(name, value, options, "form", TRUE))]

HeaderParam(b, name, value, options) ==
    [b EXCEPT !.header = Put(@, Param(name, value, options, "simple", FALSE))]

-----------------------------------------------------------------------------
(* A body is null, a Blob with its type, a plain value, or fields, each with *)
(* a key and the sequence of its values; a value is null, a text, a Blob or  *)
(* a nested object.                                                          *)

\* A nested object becomes a Blob of its JSON.
FormDataValue(v) == IF v # Null /\ v.kind = "object" THEN [v EXCEPT !.kind = "blob"] ELSE v

\* What Object.keys finds: nothing in a Blob, and nothing is read of null.
Fields(value) == IF value.kind = "fields" THEN value.fields ELSE <<>>

FormEntries(value) ==
    LET Entries(f) == LET present == Only(f.values, ToSet(f.values) \ {Null})
                      IN  [i \in DOMAIN present |-> Pair(f.key, FormDataValue(present[i]))]
    IN  FlattenSeq([i \in DOMAIN Fields(value) |-> Entries(Fields(value)[i])])

\* encodeURIComponent of a Blob is the text "[object Blob]".
BlobText == <<Ch("["), Ch("]")>>
EntryText(v) == IF v.kind = "text" THEN v.text ELSE BlobText

BodyContent(value, contentType) ==
    CASE contentType = UrlEncoded /\ value.kind \in {"fields", "blob"} ->
            LET entries == FormEntries(value) IN
            [kind |-> "pairs", pairs |-> [i \in DOMAIN entries |->
                Pair(Encode(entries[i].name), Encode(EntryText(entries[i].text)))]]
      [] contentType = Multipart -> [kind |-> "FormData", entries |-> FormEntries(value)]
      [] OTHER -> value

\* A Blob goes by its own type.
SetBody(b, value, contentType) ==
    LET type == IF value.kind = "blob" THEN value.type ELSE contentType
    IN  [b EXCEPT !.bodyContentType = type, !.bodyContent = BodyContent(value, type)]

-----------------------------------------------------------------------------
(* build *)

\* Slip: a FormData is announced too.
ContentHeaderAlways(b, headers) ==
    IF b.bodyContentType \in {Null, ""} THEN headers
    ELSE Append(headers, Pair(ContentType, <<Ch(b.bodyContentType)>>))

\* The browser announces a FormData itself, with the boundary it chose.
ContentHeader(b, headers) ==
    IF b.bodyContentType \in {Null, ""} \/ b.bodyContent.kind = "FormData" THEN headers
    ELSE Append(Only(headers, {h \in ToSet(headers) : h.name # ContentType}),
                Pair(ContentType, <<Ch(b.bodyContentType)>>))

Build(b, accept) ==
    LET query    == FlattenSeq([i \in DOMAIN b.query |-> QueryPairs(b.query[i])])
        header   == FlattenSeq([i \in DOMAIN b.header |-> HeaderPairs(b.header[i])])
        accepted == IF accept = Null THEN <<>> ELSE <<Pair(Accept, <<Ch(accept)>>)>>
    IN  [method |-> b.method,
         url |-> <<Literal(b.rootUrl)>> \o FoldLeft(AppendPath, b.operationPath, b.path),
         params |-> EncodePairs(query),
         headers |-> ContentHeader(b, accepted \o header),
         body |-> b.bodyContent]

=============================================================================
