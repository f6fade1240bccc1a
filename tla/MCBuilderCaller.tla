---------------------------- MODULE MCBuilderCaller ----------------------------
\* Small instances of BuilderCaller for TLC.
EXTENDS BuilderCaller

\* A text of nothing special, one of each separator, what a path must not contain, and what
\* it loses.
Parts == {<<Ch("a")>>, <<Ch(",")>>, <<Ch("/"), Ch(";"), Ch("?")>>, <<Ch(".")>>}
MCElements == Parts \cup {Null}
MCKeys == <<<<Ch("k")>>, <<Ch("l")>>>>

MCName == <<Ch("p")>>
Lists == {<<>>} \cup {<<t>> : t \in MCElements} \cup {<<t, u>> : t, u \in MCElements}
MCValues ==
    {NullValue} \cup {Text(t) : t \in Parts \cup {<<>>, <<Ch("."), Ch(".")>>}} \cup {List(s) : s \in Lists}
    \cup {Object([i \in DOMAIN s |-> [key |-> MCKeys[i], value |-> s[i]]]) : s \in Lists}

MCOptions ==
    [path   |-> [style : {Null, "label", "matrix"}, explode : {Null, TRUE}],
     query  |-> [style : {Null, "pipeDelimited", "deepObject"}, explode : {Null, FALSE}],
     header |-> [style : {Null}, explode : {Null, TRUE}]]

MCTemplates ==
    {<<Literal(<<Ch("/")>>), hole>> :
        hole \in {Placeholder(MCName, <<>>, FALSE), Placeholder(MCName, <<Ch(".")>>, TRUE),
                  Placeholder(MCName, <<Ch(";")>>, FALSE)}}

Blob(type) == [kind |-> "blob", type |-> type]
FieldLists == {<<Null>>, <<Text(<<Ch("a"), Ch("=")>>)>>, <<Text(<<Ch("a")>>), Text(<<Ch("/")>>)>>,
                <<[kind |-> "object"]>>, <<Null, Blob("image/png")>>}
MCBodies ==
    [value : {NullValue, [kind |-> "plain"]} \cup {Blob(t) : t \in {"", "image/png", Multipart, UrlEncoded}},
     type : {"application/json"}]
    \cup [value : {NullValue} \cup
              {[kind |-> "fields", fields |-> [i \in DOMAIN s |-> [key |-> MCKeys[i], values |-> s[i]]]] :
                  s \in {<<f>> : f \in FieldLists} \cup {<<f, g>> : f, g \in FieldLists}},
          type : {"application/json", UrlEncoded, Multipart}]

=============================================================================
