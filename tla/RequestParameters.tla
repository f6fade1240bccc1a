--------------------------- MODULE RequestParameters ---------------------------
(***************************************************************************)
(* How the generated client's request-builder.ts puts parameters into a    *)
(* request.  A text is a sequence of characters <<c, n>>: the character c, *)
(* percent-encoded n times, so that encoding, escaping a separator and     *)
(* undoing either are changes of n.                                        *)
(*                                                                         *)
(* A value is null, a text (numbers and booleans are texts of characters   *)
(* nobody encodes), a list of texts, or an object, a list of its           *)
(* properties; null may stand for an element.  A parameter is its name,    *)
(* its value, and the style and explode it is serialized with.             *)
(***************************************************************************)
EXTENDS Naturals, SequencesExt

CONSTANT Null  \* null and undefined

Ch(c) == <<c, 0>>

\* Texts as their writers give them.
Unencoded == Seq(STRING \X {0})

\* The characters encodeURIComponent encodes.
Reserved == {",", ";", "=", "/", "|", " ", "?", "#", "$", "%", "{", "backslash"}

EncodeChar(c) == IF c[1] \in Reserved THEN <<c[1], c[2] + 1>> ELSE c
DecodeChar(c) == IF c[2] > 0 THEN <<c[1], c[2] - 1>> ELSE c
EscapeChar(c, sep) == IF c = Ch(sep) THEN EncodeChar(c) ELSE c
UnescapeChar(c) == IF c[1] \in {"=", ";", ","} /\ c[2] = 1 THEN Ch(c[1]) ELSE c

\* encodeURIComponent, and what a server does to undo it.
Encode(t) == [i \in DOMAIN t |-> EncodeChar(t[i])]
Decode(t) == [i \in DOMAIN t |-> DecodeChar(t[i])]

\* t.split(sep).join(encodeURIComponent(sep))
Escape(t, sep) == [i \in DOMAIN t |-> EscapeChar(t[i], sep)]

\* A path keeps =, ; and , as they are: %3D, %3B and %2C are replaced.
Unescape(t) == [i \in DOMAIN t |-> UnescapeChar(t[i])]

\* The segments a browser takes out of a path when it parses a URL; encodeURIComponent
\* leaves a dot as it is.
DotSegments == {<<Ch(".")>>, <<Ch("."), Ch(".")>>}

Join(texts, sep) ==
    FlattenSeq([i \in DOMAIN texts |-> IF i = 1 THEN texts[i] ELSE <<Ch(sep)>> \o texts[i]])

NullValue  == [kind |-> "null"]
Text(t)    == [kind |-> "text", text |-> t]
List(s)    == [kind |-> "list", items |-> s]
Object(ps) == [kind |-> "object", items |-> ps]

\* The members of s that are in keep, in order.
Only(s, keep) == FoldLeft(LAMBDA kept, x : IF x \in keep THEN Append(kept, x) ELSE kept, <<>>, s)

\* The properties of an object that have a value.
Present(v) == Only(v.items, {p \in ToSet(v.items) : p.value # Null})

-----------------------------------------------------------------------------
(* Parameter *)

\* The constructor: options that are not given take the defaults of the subclass.
Param(name, value, options, style, explode) ==
    [name |-> name, value |-> value,
     style |-> IF options.style = Null THEN style ELSE options.style,
     explode |-> IF options.explode = Null THEN explode ELSE options.explode]

PlainText(t) == IF t = Null THEN <<>> ELSE t

\* Slip: a path is not encoded.
PathTextRaw(t) == PlainText(t)

\* serializeValue of PathParameter, of a text.
PathText(t) == IF t = Null THEN <<>> ELSE Unescape(Encode(t))

\* serializeValue of Parameter, which calls the one of the subclass (the PathParameter's,
\* if path) for what the value is made of.
Serialize(v, sep, explode, path) ==
    LET Part(t) == IF path THEN PathText(t) ELSE PlainText(t)
        Element(t) == Escape(Part(t), sep)
        Property(p) == IF explode THEN <<p.key \o <<Ch("=")>> \o Element(p.value)>>
                                  ELSE <<p.key, Element(p.value)>>
        props == Present(v)
    IN  CASE v.kind = "null"   -> <<>>
          [] v.kind = "text"   -> Part(v.text)
          [] v.kind = "list"   -> Join([i \in DOMAIN v.items |-> Element(v.items[i])], sep)
          [] v.kind = "object" ->
                Join(FlattenSeq([i \in DOMAIN props |-> Property(props[i])]), sep)

-----------------------------------------------------------------------------
(* PathParameter *)

PathSerialize(v, sep, explode) == Unescape(Serialize(v, sep, explode, TRUE))

Structured(p) == p.explode /\ p.value.kind \in {"list", "object"}

PathPrefix(p) ==
    CASE p.style = "label" -> <<Ch(".")>>
      [] p.style = "matrix" /\ Structured(p) -> <<Ch(";")>>
      [] p.style = "matrix" /\ ~Structured(p) -> <<Ch(";")>> \o p.name \o <<Ch("=")>>
      [] OTHER -> <<>>

PathSeparator(p) ==
    CASE p.style = "matrix" /\ Structured(p) -> ";"
      [] p.style = "label" /\ p.explode -> "."
      [] OTHER -> ","

\* A list that is exploded as a matrix repeats the name before each of its texts.
PathBody(p) ==
    IF p.style = "matrix" /\ p.explode /\ p.value.kind = "list"
    THEN Join([i \in DOMAIN p.value.items |->
                  p.name \o <<Ch("=")>> \o PathText(p.value.items[i])], ";")
    ELSE PathSerialize(p.value, PathSeparator(p), p.explode)

\* A path is a sequence of literals and placeholders: {name}, or {<prefix>name*}.
Literal(t) == [kind |-> "literal", text |-> t]
Placeholder(name, prefix, star) ==
    [kind |-> "placeholder", name |-> name, prefix |-> prefix, star |-> star]

Fill(path, placeholder, t) ==
    LET i == SelectInSeq(path, LAMBDA piece : piece = placeholder)
    IN  IF i = 0 THEN path ELSE [path EXCEPT ![i] = Literal(t)]

AppendPath(path, p) ==
    LET t == PathPrefix(p) \o PathBody(p)
    IN  Fill(Fill(path, Placeholder(p.name, <<>>, FALSE), t),
             Placeholder(p.name, PathPrefix(p), p.explode), t)

-----------------------------------------------------------------------------
(* QueryParameter and HeaderParameter: pairs of a name and a text *)

Pair(name, t) == [name |-> name, text |-> t]

QuerySeparator(style) ==
    CASE style = "spaceDelimited" -> " " [] style = "pipeDelimited" -> "|" [] OTHER -> ","

QueryPairs(p) ==
    LET v == p.value
        Each(Name(_)) == [i \in DOMAIN Present(v) |->
                            Pair(Name(Present(v)[i].key), PlainText(Present(v)[i].value))]
        flat == FlattenSeq([i \in DOMAIN Present(v) |->
                            <<Present(v)[i].key, Present(v)[i].value>>])
    IN  CASE v.kind = "null" -> <<>>
          [] v.kind = "text" -> <<Pair(p.name, v.text)>>
          [] v.kind = "list" /\ p.explode ->
                [i \in DOMAIN v.items |-> Pair(p.name, PlainText(v.items[i]))]
          [] v.kind = "list" /\ ~p.explode ->
                <<Pair(p.name, Serialize(v, QuerySeparator(p.style), FALSE, FALSE))>>
          [] v.kind = "object" /\ p.style = "deepObject" ->
                Each(LAMBDA key : p.name \o <<Ch("[")>> \o key \o <<Ch("]")>>)
          [] v.kind = "object" /\ p.style # "deepObject" /\ p.explode -> Each(LAMBDA key : key)
          [] OTHER -> <<Pair(p.name, Serialize(List(flat), ",", FALSE, FALSE))>>

\* Slip: a header without a value is sent empty.
HeaderPairsEmpty(p) ==
    CASE p.value.kind = "list" ->
            [i \in DOMAIN p.value.items |-> Pair(p.name, PlainText(p.value.items[i]))]
      [] OTHER -> <<Pair(p.name, Serialize(p.value, ",", p.explode, FALSE))>>

HeaderPairs(p) ==
    CASE p.value.kind = "null" -> <<>>
      [] p.value.kind = "list" ->
            [i \in DOMAIN p.value.items |-> Pair(p.name, PlainText(p.value.items[i]))]
      [] OTHER -> <<Pair(p.name, Serialize(p.value, ",", p.explode, FALSE))>>

\* ParameterCodec: every pair of the query is encoded, key and value.
EncodePairs(pairs) == [i \in DOMAIN pairs |-> Pair(Encode(pairs[i].name), Encode(pairs[i].text))]

=============================================================================
