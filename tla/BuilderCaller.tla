----------------------------- MODULE BuilderCaller -----------------------------
(***************************************************************************)
(* Code that uses a RequestBuilder: it sets parameters and a body in any   *)
(* order, some more than once, and builds the request.  The properties     *)
(* read the request the way its receiver does, by the OpenAPI rules for    *)
(* styles, and compare with what was asked for last.                       *)
(***************************************************************************)
EXTENDS RequestBuilder

CONSTANTS
    Values,      \* values of parameters
    Bodies,      \* values of bodies
    Name,        \* the name of the parameters
    Templates,   \* operation paths
    Options,     \* [path |->, query |->, header |->]: options of parameters
    MaxCalls     \* bound: calls before build

VARIABLES
    builder,  \* the RequestBuilder
    asked,    \* what was asked for last, by kind of parameter
    calls,    \* calls made
    request   \* what build returned

vars == <<builder, asked, calls, request>>

NoRequest == [method |-> "none"]

Without(t, sep) == Ch(sep) \notin ToSet(t)

\* The characters that break a path they stand in as they are: they end a segment or the
\* path, are undone by the receiver's decoding, or mean something to the builder's own
\* String.replace.
Breaking == {"/", "?", "#", "$", "%", "{", "backslash"}

\* Texts are of visible characters: what a header or a URL makes of line breaks is left out.
\* Parameters are named by texts that break no path, read as no "key=value", and are not
\* the names of the headers the builder sets itself.
ASSUME NameAssumption ==
    /\ Null \notin Unencoded
    /\ Name \in Unencoded /\ \A sep \in Breaking \cup {"=", ";"} : Without(Name, sep)
    /\ Name \notin {Accept, ContentType}

\* Values are null, texts as they are written, or lists or objects of those and null.  A
\* key goes into the path without being encoded (request-builder.ts:63), so it must break
\* none either.
ASSUME ValueAssumption ==
    LET Keys == {t \in Unencoded : \A sep \in Breaking \cup {"="} : Without(t, sep)}
        Elements == Unencoded \cup {Null}
    IN  \A v \in Values :
            \/ v = NullValue
            \/ v \in [kind : {"text"}, text : Unencoded]
            \/ v \in [kind : {"list"}, items : Seq(Elements)]
            \/ v \in [kind : {"object"}, items : Seq([key : Keys, value : Elements])]

\* Styles are those of OpenAPI.
ASSUME OptionAssumption ==
    LET PathStyles == {"simple", "label", "matrix"}
        Styles == PathStyles \cup {"form", "spaceDelimited", "pipeDelimited", "deepObject"}
    IN  /\ Null \notin Styles
        /\ DOMAIN Options = {"path", "query", "header"}
        /\ Options["path"] \subseteq [style : PathStyles \cup {Null}, explode : BOOLEAN \cup {Null}]
        /\ Options["query"] \cup Options["header"] \subseteq
              [style : Styles \cup {Null}, explode : BOOLEAN \cup {Null}]

\* The last piece of a path, and no other, is a placeholder for the parameter, and it is a
\* segment of its own.
ASSUME TemplateAssumption ==
    LET Pieces == [kind : {"literal"}, text : Unencoded]
                    \cup [kind : {"placeholder"}, name : Unencoded, star : BOOLEAN,
                          prefix : {<<>>, <<Ch(".")>>, <<Ch(";")>>}]
        IsOurs(piece) == piece.kind = "placeholder" /\ piece.name = Name
    IN  \A path \in Templates :
            /\ path \in Seq(Pieces) /\ Len(path) > 1
            /\ \A i \in DOMAIN path : IsOurs(path[i]) <=> i = Len(path)
            /\ LET before == path[Len(path) - 1]
               IN  before.kind = "literal" /\ before.text # <<>> /\ Last(before.text) = Ch("/")

\* The values a field of a body may have.
FieldValues ==
    [kind : {"text"}, text : Unencoded] \cup [kind : {"blob"}, type : STRING] \cup {[kind |-> "object"]}

\* A value that is neither an object nor a Blob is not sent as multipart.
ASSUME BodyAssumption ==
    LET FormFields == [key : Unencoded, values : Seq(FieldValues \cup {Null})] IN
    /\ Null \notin STRING \cup FieldValues
    /\ \A body \in Bodies :
          /\ body.type # Null
          /\ \/ body.value = NullValue
             \/ body.value.kind = "plain" /\ body.type # Multipart
             \/ body.value \in [kind : {"blob"}, type : STRING]
             \/ body.value \in [kind : {"fields"}, fields : Seq(FormFields)]

Init ==
    /\ \E path \in Templates : builder = NewBuilder(<<Ch("root")>>, path, "POST")
    /\ asked = [kind \in {"path", "query", "header", "body"} |-> Null]
    /\ calls = 0
    /\ request = NoRequest

CanCall == request = NoRequest /\ calls < MaxCalls

\* path(), query() and header(), with or without options.
SetParameter(kind) ==
    /\ CanCall
    /\ \E v \in Values, o \in Options[kind] :
          /\ builder' = CASE kind = "path"   -> PathParam(builder, Name, v, o)
                          [] kind = "query"  -> QueryParam(builder, Name, v, o)
                          [] kind = "header" -> HeaderParam(builder, Name, v, o)
          /\ asked' = [asked EXCEPT ![kind] = [value |-> v, options |-> o]]
    /\ calls' = calls + 1
    /\ UNCHANGED request

\* body().
SetContent ==
    /\ CanCall
    /\ \E body \in Bodies :
          /\ builder' = SetBody(builder, body.value, body.type)
          /\ asked' = [asked EXCEPT !["body"] = body]
    /\ calls' = calls + 1
    /\ UNCHANGED request

\* build(), which leaves the builder as it is.
Finish ==
    /\ request = NoRequest
    /\ request' = Build(builder, "application/json")
    /\ UNCHANGED <<builder, asked, calls>>

Next ==
    \/ \E kind \in {"path", "query", "header"} : SetParameter(kind)
    \/ SetContent
    \/ Finish

Spec == Init /\ [][Next]_vars

-----------------------------------------------------------------------------
(* How a receiver reads a request *)

\* The parts of a joined text; of the empty text there is none.
Split(t, sep) ==
    IF t = <<>> THEN <<>> ELSE FoldLeft(LAMBDA texts, c : IF c = Ch(sep) THEN Append(texts, <<>>)
                               ELSE [texts EXCEPT ![Len(texts)] = Append(@, c)], << <<>> >>, t)

\* t up to its first "=", and what follows.
KeyValue(t) ==
    LET i == SelectInSeq(t, LAMBDA c : c = Ch("="))
    IN  [key |-> SubSeq(t, 1, i - 1), value |-> SubSeq(t, i + 1, Len(t))]

\* The value of kind k that texts stand for, each part decoded after the split.
Read(k, texts, explode, Decoded(_)) ==
    CASE k = "list" -> [i \in DOMAIN texts |-> Decoded(texts[i])]
      [] k = "object" /\ explode ->
            [i \in DOMAIN texts |-> LET kv == KeyValue(texts[i]) IN
                [key |-> Decoded(kv.key), value |-> Decoded(kv.value)]]
      [] k = "object" /\ ~explode ->
            [i \in 1..(Len(texts) \div 2) |->
                [key |-> Decoded(texts[2 * i - 1]), value |-> Decoded(texts[2 * i])]]

AsItIs(t) == t

\* What should be read of a value: null elements as empty texts, properties without a
\* value not at all.
Meant(v) ==
    IF v.kind = "list" THEN [i \in DOMAIN v.items |-> PlainText(v.items[i])] ELSE Present(v)

Texts(v) ==
    IF v.kind = "list" THEN ToSet(Meant(v))
    ELSE UNION {{p.key, p.value} : p \in ToSet(Meant(v))}

\* A joined value is read as it was meant if no part of it has the separator in it and
\* it is not the list of one empty text, which is joined like the empty list.
Joinable(v, sep) ==
    /\ v.kind = "list" => Meant(v) # << <<>> >>
    /\ \A t \in Texts(v) : Without(t, sep)

OptionOr(option, default) == IF option = Null THEN default ELSE option

Explode(a, default) == OptionOr(a.options.explode, default)
Many(a) == a.value.kind \in {"list", "object"}

\* The placeholders that are for a parameter: {name}, and the one with its prefix and
\* explode, which a matrix has only for a list or an object that is exploded.
IsFor(hole, a) ==
    \/ hole.prefix = <<>> /\ ~hole.star
    \/ /\ hole.star = Explode(a, FALSE)
       /\ \/ a.options.style = "label" /\ hole.prefix = <<Ch(".")>>
          \/ a.options.style = "matrix" /\ Explode(a, FALSE) /\ Many(a) /\ hole.prefix = <<Ch(";")>>
          \/ a.options.style \in {Null, "simple"} /\ hole.prefix = <<>>

\* What separates the parts of a path segment, and what comes before them.
PathSep(a) ==
    CASE a.options.style = "label" /\ Explode(a, FALSE)  -> "."
      [] a.options.style = "matrix" /\ Explode(a, FALSE) -> ";"
      [] OTHER -> ","

Lead(a) ==
    CASE a.options.style = "label" -> 1
      [] a.options.style = "matrix" -> IF Explode(a, FALSE) /\ Many(a) THEN 1 ELSE Len(Name) + 2
      [] OTHER -> 0

\* Whether a segment is still there when its URL has been parsed.
Arrives(t) == t \notin DotSegments

ReadPath(t, a) ==
    LET rest  == SubSeq(t, Lead(a) + 1, Len(t))
        texts == Split(rest, PathSep(a))
    IN  IF ~Many(a) THEN Decode(rest)
        ELSE IF a.options.style = "matrix" /\ Explode(a, FALSE) /\ a.value.kind = "list"
        THEN Read("list", [i \in DOMAIN texts |-> KeyValue(texts[i]).value], TRUE, Decode)
        ELSE Read(a.value.kind, texts, Explode(a, FALSE), Decode)

\* The pairs of the query after its decoding.
Received == [i \in DOMAIN request.params |->
    Pair(Decode(request.params[i].name), Decode(request.params[i].text))]

QuerySep(a) ==
    CASE a.value.kind = "list" /\ a.options.style = "spaceDelimited" -> " "
      [] a.value.kind = "list" /\ a.options.style = "pipeDelimited"  -> "|"
      [] OTHER -> ","

HeaderTexts == LET own == Only(request.headers, {h \in ToSet(request.headers) : h.name = Name})
               IN  [i \in DOMAIN own |-> own[i].text]

-----------------------------------------------------------------------------
(* Properties *)

Built == request # NoRequest

\* The text that was asked for, null being the empty one.
AskedText(a) == IF a.value = NullValue THEN <<>> ELSE a.value.text

\* The single texts that are lost on the way: with the dot of a label before them they are
\* one dot or two.
DotsOnly(a) ==
    \/ a.options.style = "label" /\ <<Ch(".")>> \o AskedText(a) \in DotSegments
    \/ a.options.style \in {"simple", Null} /\ AskedText(a) \in DotSegments

\* A path parameter stays within one segment of the path.  Unless it is one of the dot
\* segments, which a browser takes out, it is read as it was asked for last: always when
\* it is one text, and a list or an object exactly when no part of it has the separator
\* in it, which the builder escapes and then puts back.
PathRecovered ==
    Built /\ asked["path"] # Null =>
        LET a == asked["path"]
            segment == Last(request.url)
        IN  IF ~IsFor(Last(builder.operationPath), a) THEN segment.kind = "placeholder"
            ELSE /\ \A c \in Breaking : Without(segment.text, c)
                 /\ IF Many(a)
                    THEN Arrives(segment.text) =>
                            (ReadPath(segment.text, a) = Meant(a.value) <=>
                                \/ Joinable(a.value, PathSep(a))
                                \/ PathSep(a) = ";" /\ Meant(a.value) = << <<>> >>)
                    ELSE /\ Arrives(segment.text) <=> ~DotsOnly(a)
                         /\ ReadPath(segment.text, a) = AskedText(a)

\* A query parameter is read as it was asked for last, and without a value not sent: a
\* joined list or object exactly when no part of it has the separator in it, which
\* the builder escapes and the codec escapes again.
QueryRecovered ==
    Built /\ asked["query"] # Null =>
        LET a == asked["query"]
            v == a.value
            explode == Explode(a, TRUE)
            deep == v.kind = "object" /\ a.options.style = "deepObject"
            Named(key) == IF deep THEN Name \o <<Ch("[")>> \o key \o <<Ch("]")>> ELSE key
        IN  CASE v.kind = "null" -> Received = <<>>
              [] v.kind = "text" -> Received = <<Pair(Name, v.text)>>
              [] v.kind = "list" /\ explode ->
                    Received = [i \in DOMAIN v.items |-> Pair(Name, Meant(v)[i])]
              [] v.kind = "object" /\ (deep \/ explode) ->
                    Received = [i \in DOMAIN Meant(v) |->
                                    Pair(Named(Meant(v)[i].key), Meant(v)[i].value)]
              [] OTHER ->
                    /\ Len(Received) = 1 /\ Received[1].name = Name
                    /\ LET texts == Split(Received[1].text, QuerySep(a)) IN
                       Read(v.kind, texts, FALSE, AsItIs) = Meant(v) <=> Joinable(v, QuerySep(a))

\* A header is read as it was asked for last, and without a value not sent; headers of
\* one name count as one, joined with commas.
HeaderRecovered ==
    Built /\ asked["header"] # Null =>
        LET a == asked["header"]
            v == a.value
            texts == Split(Join(HeaderTexts, ","), ",")
        IN  CASE v.kind = "null" -> HeaderTexts = <<>>
              [] v.kind = "text" -> HeaderTexts = <<v.text>>
              [] OTHER -> Read(v.kind, texts, Explode(a, FALSE), AsItIs) = Meant(v) <=> Joinable(v, ",")

\* No pair of a query or a header is lost, added or garbled, beyond what the two say.
PairsRecovered == QueryRecovered /\ HeaderRecovered

\* The values of the fields of a body that are there, in order.
Sent(value) ==
    FlattenSeq([i \in DOMAIN value.fields |->
        LET f == value.fields[i]
            present == Only(f.values, ToSet(f.values) \ {Null})
        IN  [j \in DOMAIN present |-> [key |-> f.key, value |-> present[j]]]])

\* A nested object goes into a form as a file of its JSON.
AsEntry(v) == IF v.kind = "object" THEN [kind |-> "blob"] ELSE v

\* A body arrives as it was given last and under its own type, which a FormData does not
\* have before it is sent: except values of an url-encoded form that are no texts, and
\* a Blob that has the type of a form.
BodyRecovered ==
    Built /\ asked["body"] # Null =>
        LET v == asked["body"].value
            type == IF v.kind = "blob" THEN v.type ELSE asked["body"].type
            announced == Only(request.headers,
                {h \in ToSet(request.headers) : h.name = ContentType})
            body == request.body
            form == type \in {UrlEncoded, Multipart}
            intact ==
                CASE body.kind = "pairs" ->
                        /\ v.kind = "fields"
                        /\ Sent(v) = [i \in DOMAIN body.pairs |->
                                [key |-> Decode(body.pairs[i].name),
                                 value |-> Text(Decode(body.pairs[i].text))]]
                  [] body.kind = "FormData" ->
                        /\ v.kind = "fields"
                        /\ Len(body.entries) = Len(Sent(v))
                        /\ \A i \in DOMAIN body.entries :
                              /\ body.entries[i].name = Sent(v)[i].key
                              /\ body.entries[i].text = AsEntry(Sent(v)[i].value)
                  [] OTHER -> body = v
            lost == \/ /\ v.kind = "fields" /\ type = UrlEncoded
                       /\ \E i \in DOMAIN Sent(v) : Sent(v)[i].value.kind # "text"
                    \/ v.kind = "blob" /\ form
                    \/ v.kind = "null" /\ type = Multipart
        IN  /\ announced = IF body.kind = "FormData" \/ type = "" THEN <<>>
                           ELSE <<Pair(ContentType, <<Ch(type)>>)>>
            /\ intact <=> ~lost

=============================================================================
