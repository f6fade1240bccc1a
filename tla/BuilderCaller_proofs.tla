-------------------------- MODULE BuilderCaller_proofs --------------------------
(***************************************************************************)
(* Proofs about BuilderCaller, for any values, styles, bodies and paths:   *)
(* what a receiver reads of a request is what was asked for last.  The     *)
(* state needs little: a builder holds what was asked for last, and a      *)
(* request is built from it.  The rest is about texts that are joined,     *)
(* escaped and split again.                                                *)
(***************************************************************************)
EXTENDS BuilderCaller, Operators_proofs

\* The parameter that was asked for, by its kind.
PathOf(a)   == PathParameter(Name, a.value, a.options)
QueryOf(a)  == QueryParameter(Name, a.value, a.options)
HeaderOf(a) == HeaderParameter(Name, a.value, a.options)

IsAsked(kind, a) == a.value \in Values /\ a.options \in Options[kind]

BodyType(body) == IF body.value.kind = "blob" THEN body.value.type ELSE body.type

\* What was asked for last is what the builder holds, and nothing else.
PathHeld ==
    \/ asked["path"] = Null /\ builder.path = <<>>
    \/ IsAsked("path", asked["path"]) /\ builder.path = <<PathOf(asked["path"])>>
QueryHeld ==
    \/ asked["query"] = Null /\ builder.query = <<>>
    \/ IsAsked("query", asked["query"]) /\ builder.query = <<QueryOf(asked["query"])>>
HeaderHeld ==
    \/ asked["header"] = Null /\ builder.header = <<>>
    \/ IsAsked("header", asked["header"]) /\ builder.header = <<HeaderOf(asked["header"])>>
BodyHeld ==
    \/ asked["body"] = Null /\ builder.bodyContentType = Null
    \/ /\ asked["body"] \in Bodies /\ builder.bodyContentType = BodyType(asked["body"])
       /\ builder.bodyContent = BodyContent(asked["body"].value, BodyType(asked["body"]))

\* The inductive invariant.
CallerInv ==
    /\ IsBuilder(builder) /\ builder.operationPath \in Templates
    /\ DOMAIN asked = {"path", "query", "header", "body"}
    /\ PathHeld /\ QueryHeld /\ HeaderHeld /\ BodyHeld
    /\ request # NoRequest => request = Build(builder, "application/json")

-----------------------------------------------------------------------------
(* The steps *)

LEMMA CallerInit == Init => CallerInv
<1> SUFFICES ASSUME Init PROVE CallerInv
  OBVIOUS
<1>1. PICK path \in Templates : builder = NewBuilder(<<Ch("root")>>, path, "POST")
  BY DEF Init
<1>2. /\ IsBuilder(builder) /\ builder.operationPath = path /\ builder.path = <<>> /\ builder.query = <<>>
      /\ builder.header = <<>> /\ builder.bodyContentType = Null
  BY <1>1, NewFields
<1>3. /\ DOMAIN asked = {"path", "query", "header", "body"}
      /\ asked["path"] = Null /\ asked["query"] = Null /\ asked["header"] = Null /\ asked["body"] = Null
      /\ request = NoRequest
  BY DEF Init
<1> QED
  BY <1>2, <1>3 DEF CallerInv, PathHeld, QueryHeld, HeaderHeld, BodyHeld

\* A parameter that is set is the only one of its kind, the first or in the place of the
\* one before.
LEMMA OneHeld ==
    ASSUME NEW params, NEW p, params = <<>> \/ \E old : params = <<old>> /\ old.name = p.name
    PROVE  Put(params, p) = <<p>>
  BY PutFirst, PutAgain

LEMMA ParameterNames ==
    \A a : PathOf(a).name = Name /\ QueryOf(a).name = Name /\ HeaderOf(a).name = Name
  BY DEF PathOf, QueryOf, HeaderOf, PathParameter, QueryParameter, HeaderParameter, Param

LEMMA SetParameterInv ==
    ASSUME CallerInv, NEW kind \in {"path", "query", "header"}, SetParameter(kind)
    PROVE  CallerInv'
<1>1. PICK v \in Values, o \in Options[kind] :
        /\ builder' = CASE kind = "path"   -> PathParam(builder, Name, v, o)
                        [] kind = "query"  -> QueryParam(builder, Name, v, o)
                        [] kind = "header" -> HeaderParam(builder, Name, v, o)
        /\ asked' = [asked EXCEPT ![kind] = [value |-> v, options |-> o]]
  BY DEF SetParameter
<1> DEFINE a == [value |-> v, options |-> o]
<1>2. a.value = v /\ a.options = o
  OBVIOUS
<1>3. request' = NoRequest
  BY DEF SetParameter, CanCall
<1>4. /\ DOMAIN asked' = {"path", "query", "header", "body"} /\ asked'[kind] = a
      /\ \A k \in {"path", "query", "header", "body"} : k # kind => asked'[k] = asked[k]
  BY <1>1 DEF CallerInv
<1> HIDE DEF a
<1>5. CASE kind = "path"
  <2>1. builder' = PathParam(builder, Name, v, o)
    BY <1>1, <1>5
  <2>2. /\ IsBuilder(builder') /\ builder'.operationPath = builder.operationPath
        /\ builder'.query = builder.query /\ builder'.header = builder.header
        /\ builder'.bodyContent = builder.bodyContent /\ builder'.bodyContentType = builder.bodyContentType
        /\ builder'.path = Put(builder.path, PathOf(a))
    BY <1>2, <2>1, PathFields DEF PathOf, CallerInv
  <2>3. builder'.path = <<PathOf(a)>>
    BY <2>2, OneHeld, ParameterNames DEF CallerInv, PathHeld
  <2>4. IsAsked("path", a)
    BY <1>2, <1>5 DEF IsAsked
  <2> QED
    BY <1>3, <1>4, <1>5, <2>2, <2>3, <2>4 DEF CallerInv, PathHeld, QueryHeld, HeaderHeld, BodyHeld
<1>6. CASE kind = "query"
  <2>1. builder' = QueryParam(builder, Name, v, o)
    BY <1>1, <1>6
  <2>2. /\ IsBuilder(builder') /\ builder'.operationPath = builder.operationPath
        /\ builder'.path = builder.path /\ builder'.header = builder.header
        /\ builder'.bodyContent = builder.bodyContent /\ builder'.bodyContentType = builder.bodyContentType
        /\ builder'.query = Put(builder.query, QueryOf(a))
    BY <1>2, <2>1, QueryFields DEF QueryOf, CallerInv
  <2>3. builder'.query = <<QueryOf(a)>>
    BY <2>2, OneHeld, ParameterNames DEF CallerInv, QueryHeld
  <2>4. IsAsked("query", a)
    BY <1>2, <1>6 DEF IsAsked
  <2> QED
    BY <1>3, <1>4, <1>6, <2>2, <2>3, <2>4 DEF CallerInv, PathHeld, QueryHeld, HeaderHeld, BodyHeld
<1>7. CASE kind = "header"
  <2>1. builder' = HeaderParam(builder, Name, v, o)
    BY <1>1, <1>7
  <2>2. /\ IsBuilder(builder') /\ builder'.operationPath = builder.operationPath
        /\ builder'.path = builder.path /\ builder'.query = builder.query
        /\ builder'.bodyContent = builder.bodyContent /\ builder'.bodyContentType = builder.bodyContentType
        /\ builder'.header = Put(builder.header, HeaderOf(a))
    BY <1>2, <2>1, HeaderFields DEF HeaderOf, CallerInv
  <2>3. builder'.header = <<HeaderOf(a)>>
    BY <2>2, OneHeld, ParameterNames DEF CallerInv, HeaderHeld
  <2>4. IsAsked("header", a)
    BY <1>2, <1>7 DEF IsAsked
  <2> QED
    BY <1>3, <1>4, <1>7, <2>2, <2>3, <2>4 DEF CallerInv, PathHeld, QueryHeld, HeaderHeld, BodyHeld
<1> QED
  BY <1>5, <1>6, <1>7

LEMMA SetContentInv ==
    ASSUME CallerInv, SetContent
    PROVE  CallerInv'
<1>1. PICK body \in Bodies :
        builder' = SetBody(builder, body.value, body.type) /\ asked' = [asked EXCEPT !["body"] = body]
  BY DEF SetContent
<1>2. request' = NoRequest
  BY DEF SetContent, CanCall
<1>3. /\ DOMAIN asked' = {"path", "query", "header", "body"} /\ asked'["body"] = body
      /\ \A k \in {"path", "query", "header"} : asked'[k] = asked[k]
  BY <1>1 DEF CallerInv
<1>4. /\ IsBuilder(builder') /\ builder'.operationPath = builder.operationPath
      /\ builder'.path = builder.path /\ builder'.query = builder.query /\ builder'.header = builder.header
      /\ builder'.bodyContent = BodyContent(body.value, BodyType(body))
      /\ builder'.bodyContentType = BodyType(body)
  BY <1>1, BodyFields DEF BodyType, CallerInv
<1> QED
  BY <1>1, <1>2, <1>3, <1>4 DEF CallerInv, PathHeld, QueryHeld, HeaderHeld, BodyHeld

\* Every step keeps the invariant.
LEMMA CallerStep == CallerInv /\ [Next]_vars => CallerInv'
<1> SUFFICES ASSUME CallerInv, [Next]_vars PROVE CallerInv'
  OBVIOUS
<1>1. CASE Finish
  BY <1>1 DEF Finish, CallerInv, PathHeld, QueryHeld, HeaderHeld, BodyHeld
<1>2. CASE UNCHANGED vars
  BY <1>2 DEF vars, CallerInv, PathHeld, QueryHeld, HeaderHeld, BodyHeld
<1> QED
  BY <1>1, <1>2, SetParameterInv, SetContentInv DEF Next

\* Whatever is called in which order, a builder holds what was asked for last.
THEOREM CallerInvariant == Spec => []CallerInv
  BY CallerInit, CallerStep, PTL DEF Spec

-----------------------------------------------------------------------------
(* Headers *)

Named(h, name) == {x \in ToSet(h) : x.name = name}
AllNamed(s, name) == \A x \in ToSet(s) : x.name = name

\* Of three lists of headers, each of one name and the names different, a name finds its own.
LEMMA ThreeNames ==
    ASSUME NEW S, NEW a \in Seq(S), NEW b \in Seq(S), NEW c \in Seq(S), NEW h, ThreeLists(h, a, b, c),
           NEW l, NEW m, NEW n, AllNamed(a, l), AllNamed(b, m), AllNamed(c, n), l # m, l # n, m # n
    PROVE  Only(h, Named(h, m)) = b /\ Only(h, Named(h, n)) = c
<1>0. h = (a \o b) \o c
  BY DEF ThreeLists
<1>1. /\ a \o b \in Seq(S) /\ h \in Seq(S)
      /\ ToSet(a \o b) = ToSet(a) \cup ToSet(b) /\ ToSet(h) = ToSet(a \o b) \cup ToSet(c)
  <2>1. ASSUME NEW d \in Seq(S), NEW e \in Seq(S)
        PROVE  d \o e \in Seq(S) /\ ToSet(d \o e) = ToSet(d) \cup ToSet(e)
    BY ConcatMembers
  <2> QED
    BY <1>0, <2>1
<1>2. ASSUME NEW keep
      PROVE  Only(h, keep) = (Only(a, keep) \o Only(b, keep)) \o Only(c, keep)
  BY OnlyThree
<1>3. ASSUME NEW d \in Seq(S), NEW keep
      PROVE  /\ ToSet(d) \cap keep = {} => Only(d, keep) = <<>>
             /\ ToSet(d) \subseteq keep => Only(d, keep) = d
  <2>1. \A i \in 1..Len(d) : d[i] \in ToSet(d)
    BY DEF ToSet
  <2>2. ASSUME ToSet(d) \cap keep = {} PROVE Only(d, keep) = <<>>
    <3>1. \A i \in 1..Len(d) : d[i] \notin keep
      BY <2>1, <2>2
    <3> QED
      BY <3>1, OnlyNone
  <2>3. ASSUME ToSet(d) \subseteq keep PROVE Only(d, keep) = d
    <3>1. \A i \in 1..Len(d) : d[i] \in keep
      BY <2>1, <2>3
    <3> QED
      BY <3>1, OnlyAll
  <2> QED
    BY <2>2, <2>3
<1>4. <<>> \o b = b /\ b \o <<>> = b /\ <<>> \o <<>> = <<>> /\ <<>> \o c = c
  OBVIOUS
<1>5. ToSet(a) \cap Named(h, m) = {} /\ ToSet(b) \subseteq Named(h, m) /\ ToSet(c) \cap Named(h, m) = {}
  BY <1>1 DEF Named, AllNamed
<1>6. ToSet(a) \cap Named(h, n) = {} /\ ToSet(b) \cap Named(h, n) = {} /\ ToSet(c) \subseteq Named(h, n)
  BY <1>1 DEF Named, AllNamed
<1>7. Only(h, Named(h, m)) = b
  <2> DEFINE keep == Named(h, m)
  <2> HIDE DEF keep
  <2>1. Only(a, keep) = <<>> /\ Only(b, keep) = b /\ Only(c, keep) = <<>>
    BY <1>3, <1>5 DEF keep
  <2>2. Only(h, keep) = (Only(a, keep) \o Only(b, keep)) \o Only(c, keep)
    BY <1>2
  <2> QED
    BY <1>4, <2>1, <2>2 DEF keep
<1>8. Only(h, Named(h, n)) = c
  <2> DEFINE keep == Named(h, n)
  <2> HIDE DEF keep
  <2>1. Only(a, keep) = <<>> /\ Only(b, keep) = <<>> /\ Only(c, keep) = c
    BY <1>3, <1>6 DEF keep
  <2>2. Only(h, keep) = (Only(a, keep) \o Only(b, keep)) \o Only(c, keep)
    BY <1>2
  <2> QED
    BY <1>4, <2>1, <2>2 DEF keep
<1> QED
  BY <1>7, <1>8

LEMMA HeaderNames == Accept # ContentType /\ Name # Accept /\ Name # ContentType
<1>1. "Accept" # "Content-Type"
  OBVIOUS
<1>2. Ch("Accept") # Ch("Content-Type")
  BY <1>1, CharTypes
<1> QED
  BY <1>2, NameAssumption DEF Accept, ContentType

LEMMA FewNamed ==
    \A n : AllNamed(<<>>, n) /\ \A t : AllNamed(<<Pair(n, t)>>, n)
  BY DEF AllNamed, ToSet, Pair

\* What build does with the headers of the parameter.
LEMMA BuiltHeader ==
    ASSUME NEW b, NEW pairs, FlattenSeq([i \in DOMAIN b.header |-> HeaderPairs(b.header[i])]) = pairs
    PROVE  \E accepted : /\ accepted \in {<<>>, <<Pair(Accept, <<Ch("application/json")>>)>>}
                         /\ Build(b, "application/json").headers = ContentHeader(b, accepted \o pairs)
<1>1. Build(b, "application/json").headers =
        ContentHeader(b, (IF "application/json" = Null THEN <<>>
                          ELSE <<Pair(Accept, <<Ch("application/json")>>)>>) \o pairs)
  BY DEF Build
<1>2. CASE "application/json" = Null
  BY <1>1, <1>2
<1>3. CASE "application/json" # Null
  BY <1>1, <1>3
<1> QED
  BY <1>2, <1>3

\* No header is announced for a body without a type, and for one the browser announces.
Unannounced(b) == b.bodyContentType \in {Null, ""} \/ b.bodyContent.kind = "FormData"

ContentHeaders(b) == IF Unannounced(b) THEN <<>> ELSE <<Pair(ContentType, <<Ch(b.bodyContentType)>>)>>

LEMMA HeaderAdded ==
    ASSUME NEW S, NEW b, NEW h \in Seq(S), \A x \in ToSet(h) : x.name # ContentType
    PROVE  ContentHeader(b, h) = h \o ContentHeaders(b)
<1>1. CASE Unannounced(b)
  <2>1. ContentHeader(b, h) = h /\ ContentHeaders(b) = <<>>
    BY <1>1 DEF ContentHeader, ContentHeaders, Unannounced
  <2> QED
    BY <2>1
<1>2. CASE ~Unannounced(b)
  <2> DEFINE keep == {x \in ToSet(h) : x.name # ContentType}
             ct == Pair(ContentType, <<Ch(b.bodyContentType)>>)
  <2>1. ContentHeader(b, h) = Append(Only(h, keep), ct) /\ ContentHeaders(b) = <<ct>>
    BY <1>2 DEF ContentHeader, ContentHeaders, Unannounced
  <2>2. \A i \in 1..Len(h) : h[i] \in keep
    BY DEF ToSet
  <2> HIDE DEF keep, ct
  <2>3. Only(h, keep) = h
    BY <2>2, OnlyAll
  <2>4. Append(h, ct) = h \o <<ct>>
    OBVIOUS
  <2> QED
    BY <2>1, <2>3, <2>4
<1> QED
  BY <1>1, <1>2

\* Of the headers of a request, those of the parameter and that of the body are found by
\* their names.
LEMMA BuiltHeaders ==
    ASSUME NEW b, NEW S, NEW pairs \in Seq(S), AllNamed(pairs, Name),
           FlattenSeq([i \in DOMAIN b.header |-> HeaderPairs(b.header[i])]) = pairs, NEW h,
           h = Build(b, "application/json").headers
    PROVE  Only(h, Named(h, Name)) = pairs /\ Only(h, Named(h, ContentType)) = ContentHeaders(b)
<1>1. PICK accepted \in {<<>>, <<Pair(Accept, <<Ch("application/json")>>)>>} :
        h = ContentHeader(b, accepted \o pairs)
  BY BuiltHeader
<1> DEFINE acc == Pair(Accept, <<Ch("application/json")>>)
           ct == Pair(ContentType, <<Ch(b.bodyContentType)>>)
           U == S \cup {acc, ct}
           own == ContentHeaders(b)
<1>2. AllNamed(accepted, Accept) /\ AllNamed(own, ContentType)
  BY <1>1, FewNamed DEF ContentHeaders
<1>3. own \in {<<>>, <<ct>>}
  BY DEF ContentHeaders
<1> HIDE DEF acc, ct, own
<1>4. accepted \in Seq(U) /\ pairs \in Seq(U) /\ own \in Seq(U)
  <2>1. accepted = <<>> \/ accepted = <<acc>>
    BY <1>1 DEF acc
  <2>2. <<>> \in Seq(U) /\ <<acc>> \in Seq(U) /\ <<ct>> \in Seq(U) /\ pairs \in Seq(U)
    OBVIOUS
  <2> HIDE DEF U
  <2> QED
    BY <1>3, <2>1, <2>2
<1> HIDE DEF U
<1>5. accepted \o pairs \in Seq(U) /\ ToSet(accepted \o pairs) = ToSet(accepted) \cup ToSet(pairs)
  BY <1>4, ConcatMembers
<1>6. \A x \in ToSet(accepted \o pairs) : x.name # ContentType
  BY <1>2, <1>5, HeaderNames DEF AllNamed
<1>7. ThreeLists(h, accepted, pairs, own)
  BY <1>1, <1>5, <1>6, HeaderAdded DEF own, ThreeLists
<1>8. Only(h, Named(h, Name)) = pairs /\ Only(h, Named(h, ContentType)) = own
  BY <1>2, <1>4, <1>7, HeaderNames, ThreeNames
<1> QED
  BY <1>8 DEF own

-----------------------------------------------------------------------------
(* Values, and the pairs of a header *)

Elements  == Unencoded \cup {Null}
Keys      == {t \in Unencoded : \A sep \in Breaking \cup {"="} : Without(t, sep)}
KeyValues == [key : Keys, value : Elements]

IsText(v)   == v \in [kind : {"text"}, text : Unencoded]
IsList(v)   == v \in [kind : {"list"}, items : Seq(Elements)]
IsObject(v) == v \in [kind : {"object"}, items : Seq(KeyValues)]

LEMMA ValueKinds ==
    ASSUME NEW v \in Values
    PROVE  \/ v = NullValue /\ v.kind = "null"
           \/ IsText(v) /\ v.kind = "text" /\ v.text \in Unencoded /\ v = Text(v.text)
           \/ IsList(v) /\ v.kind = "list" /\ v.items \in Seq(Elements)
           \/ IsObject(v) /\ v.kind = "object" /\ v.items \in Seq(KeyValues)
<1>1. v = NullValue \/ IsText(v) \/ IsList(v) \/ IsObject(v)
  BY ValueAssumption DEF IsText, IsList, IsObject, Elements, Keys, KeyValues
<1>2. NullValue.kind = "null"
  BY DEF NullValue
<1>3. ASSUME IsText(v)
      PROVE  v.kind = "text" /\ v.text \in Unencoded /\ v = Text(v.text)
  BY <1>3 DEF IsText, Text
<1>4. ASSUME IsList(v)
      PROVE  v.kind = "list" /\ v.items \in Seq(Elements)
  BY <1>4 DEF IsList
<1>5. ASSUME IsObject(v)
      PROVE  v.kind = "object" /\ v.items \in Seq(KeyValues)
  BY <1>5 DEF IsObject
<1> QED
  BY <1>1, <1>2, <1>3, <1>4, <1>5

PlainTexts(items) == [i \in DOMAIN items |-> PlainText(items[i])]
TextsNamed(name, texts) == [i \in DOMAIN texts |-> Pair(name, texts[i])]

LEMMA PlainTextsType ==
    ASSUME NEW items \in Seq(Elements)
    PROVE  PlainTexts(items) \in Seq(Unencoded) /\ Len(PlainTexts(items)) = Len(items)
<1>1. DOMAIN items = 1..Len(items) /\ Len(items) \in Nat /\ \A i \in 1..Len(items) : items[i] \in Elements
  OBVIOUS
<1>2. \A x \in Elements : PlainText(x) \in Unencoded
  <2>1. <<>> \in Unencoded
    BY DEF Unencoded
  <2> QED
    BY <2>1 DEF Elements, PlainText
<1>3. PlainTexts(items) = [i \in 1..Len(items) |-> PlainTexts(items)[i]]
      /\ \A i \in 1..Len(items) : PlainTexts(items)[i] \in Unencoded
  BY <1>1, <1>2 DEF PlainTexts
<1> QED
  BY <1>1, <1>3, FunctionIsSeq

LEMMA TextsNamedType ==
    ASSUME NEW S, NEW texts \in Seq(S), NEW name
    PROVE  /\ \E P : TextsNamed(name, texts) \in Seq(P)
           /\ Len(TextsNamed(name, texts)) = Len(texts) /\ AllNamed(TextsNamed(name, texts), name)
<1> DEFINE n == TextsNamed(name, texts)
           P == [name : {name}, text : S]
<1>1. DOMAIN texts = 1..Len(texts) /\ Len(texts) \in Nat /\ \A i \in 1..Len(texts) : texts[i] \in S
  OBVIOUS
<1>2. \A x \in S : Pair(name, x) \in P /\ Pair(name, x).name = name
  BY DEF Pair
<1> HIDE DEF P
<1>3. n = [i \in 1..Len(texts) |-> n[i]] /\ \A i \in 1..Len(texts) : n[i] \in P /\ n[i].name = name
  BY <1>1, <1>2 DEF TextsNamed
<1>4. n \in Seq(P) /\ Len(n) = Len(texts) /\ DOMAIN n = 1..Len(texts)
  <2> HIDE DEF n
  <2> QED
    BY <1>1, <1>3, FunctionIsSeq
<1>5. AllNamed(n, name)
  BY <1>3, <1>4 DEF AllNamed, ToSet
<1> QED
  BY <1>4, <1>5

\* The pairs of the header, by what was asked for.
LEMMA AskedHeader ==
    ASSUME NEW a, IsAsked("header", a), NEW pairs, pairs = HeaderPairs(HeaderOf(a))
    PROVE  /\ a.value.kind = "null" => pairs = <<>>
           /\ a.value.kind = "list" => pairs = TextsNamed(Name, PlainTexts(a.value.items))
           /\ a.value.kind \in {"text", "object"} =>
                pairs = <<Pair(Name, Serialize(a.value, ",", HeaderOf(a).explode, FALSE))>>
           /\ AllNamed(pairs, Name) /\ \E S : pairs \in Seq(S)
<1> DEFINE p == HeaderOf(a)
           v == a.value
<1>1. p.value = v /\ p.name = Name
  BY DEF HeaderOf, HeaderParameter, Param
<1> HIDE DEF p
<1>2. /\ v.kind = "null" => pairs = <<>>
      /\ v.kind = "list" => pairs = [i \in DOMAIN v.items |-> Pair(Name, PlainText(v.items[i]))]
      /\ v.kind \in {"text", "object"} => pairs = <<Pair(Name, Serialize(v, ",", p.explode, FALSE))>>
  BY <1>1 DEF HeaderPairs, p
<1>3. v \in Values
  BY DEF IsAsked
<1> HIDE DEF v
<1>4. CASE v.kind = "null"
  BY <1>2, <1>4, FewNamed DEF p, v
<1>5. CASE v.kind = "list"
  <2>1. v.items \in Seq(Elements)
    BY <1>3, <1>5, ValueKinds
  <2>2. PlainTexts(v.items) \in Seq(Unencoded)
    BY <2>1, PlainTextsType
  <2>3. DOMAIN PlainTexts(v.items) = DOMAIN v.items
    BY DEF PlainTexts
  <2>4. pairs = TextsNamed(Name, PlainTexts(v.items))
    BY <1>2, <1>5, <2>3 DEF TextsNamed, PlainTexts
  <2>5. AllNamed(pairs, Name) /\ \E S : pairs \in Seq(S)
    <3>1. AllNamed(TextsNamed(Name, PlainTexts(v.items)), Name)
      BY <2>2, TextsNamedType
    <3>2. \E S : TextsNamed(Name, PlainTexts(v.items)) \in Seq(S)
      BY <2>2, TextsNamedType
    <3> QED
      BY <2>4, <3>1, <3>2
  <2> QED
    BY <1>5, <2>4, <2>5 DEF v
<1>6. CASE v.kind \in {"text", "object"}
  <2>1. ASSUME NEW x
        PROVE  \E S : <<x>> \in Seq(S)
    <3>1. <<x>> \in Seq({x})
      OBVIOUS
    <3> QED
      BY <3>1
  <2> QED
    BY <1>2, <1>6, <2>1, FewNamed DEF p, v
<1> QED
  BY <1>3, <1>4, <1>5, <1>6, ValueKinds

\* The pairs of the header that the builder holds.
HeldPairs == IF builder.header = <<>> THEN <<>> ELSE HeaderPairs(HeaderOf(asked["header"]))

LEMMA RequestHeaders ==
    ASSUME CallerInv, Built, NEW h, h = request.headers
    PROVE  /\ Only(h, Named(h, Name)) = HeldPairs
           /\ Only(h, Named(h, ContentType)) = ContentHeaders(builder)
<1>1. h = Build(builder, "application/json").headers
  BY DEF CallerInv, Built
<1> DEFINE lists == [i \in DOMAIN builder.header |-> HeaderPairs(builder.header[i])]
<1>2. AllNamed(HeldPairs, Name) /\ (\E S : HeldPairs \in Seq(S)) /\ FlattenSeq(lists) = HeldPairs
  <2>1. CASE builder.header = <<>>
    <3>1. lists = <<>> /\ HeldPairs = <<>>
      BY <2>1 DEF HeldPairs
    <3>2. \E S : <<>> \in Seq(S)
      <4>1. <<>> \in Seq({})
        OBVIOUS
      <4> QED
        BY <4>1
    <3> QED
      BY <3>1, <3>2, FlattenFew, FewNamed
  <2>2. CASE builder.header # <<>>
    <3> DEFINE a == asked["header"]
    <3>1. IsAsked("header", a) /\ builder.header = <<HeaderOf(a)>>
      BY <2>2 DEF CallerInv, HeaderHeld
    <3>2. HeldPairs = HeaderPairs(HeaderOf(a))
      BY <2>2 DEF HeldPairs
    <3> HIDE DEF a
    <3>3. lists = <<HeldPairs>>
      BY <3>1, <3>2
    <3>4. AllNamed(HeldPairs, Name) /\ \E S : HeldPairs \in Seq(S)
      BY <3>1, <3>2, AskedHeader
    <3> QED
      BY <3>3, <3>4, FlattenFew
  <2> QED
    BY <2>1, <2>2
<1>3. PICK S : HeldPairs \in Seq(S)
  BY <1>2
<1> QED
  BY <1>1, <1>2, <1>3, BuiltHeaders

-----------------------------------------------------------------------------
(* The body *)

FormFields == [key : Unencoded, values : Seq(FieldValues \cup {Null})]
SentValues == [key : Unencoded, value : FieldValues]
IsForm(v)  == v \in [kind : {"fields"}, fields : Seq(FormFields)]

LEMMA BodyKinds ==
    ASSUME NEW body \in Bodies
    PROVE  /\ body.type # Null
           /\ \/ body.value = NullValue /\ body.value.kind = "null"
              \/ body.value.kind = "plain" /\ body.type # Multipart
              \/ body.value.kind = "blob" /\ body.value.type # Null
              \/ IsForm(body.value) /\ body.value.kind = "fields" /\ body.value.fields \in Seq(FormFields)
<1>1. /\ body.type # Null
      /\ \/ body.value = NullValue
         \/ body.value.kind = "plain" /\ body.type # Multipart
         \/ body.value \in [kind : {"blob"}, type : STRING]
         \/ IsForm(body.value)
  BY BodyAssumption DEF IsForm, FormFields
<1>2. NullValue.kind = "null"
  BY DEF NullValue
<1>3. ASSUME body.value \in [kind : {"blob"}, type : STRING]
      PROVE  body.value.kind = "blob" /\ body.value.type # Null
  <2>1. body.value.kind = "blob" /\ body.value.type \in STRING
    BY <1>3
  <2> QED
    BY <2>1, BodyAssumption
<1>4. ASSUME IsForm(body.value)
      PROVE  body.value.kind = "fields" /\ body.value.fields \in Seq(FormFields)
  BY <1>4 DEF IsForm
<1> QED
  BY <1>1, <1>2, <1>3, <1>4

LEMMA FieldKinds ==
    ASSUME NEW v \in FieldValues
    PROVE  /\ v # Null
           /\ \/ v.kind = "text" /\ v.text \in Unencoded /\ v = Text(v.text) /\ FormDataValue(v) = v
              \/ v.kind = "blob" /\ FormDataValue(v) = v
              \/ v.kind = "object" /\ FormDataValue(v) = [kind |-> "blob"] /\ FormDataValue(v).kind = "blob"
<1>1. v # Null
  BY BodyAssumption
<1>2. CASE v \in [kind : {"text"}, text : Unencoded]
  BY <1>1, <1>2 DEF Text, FormDataValue
<1>3. CASE v \in [kind : {"blob"}, type : STRING]
  BY <1>1, <1>3 DEF FormDataValue
<1>4. CASE v = [kind |-> "object"]
  <2>1. v.kind = "object" /\ [v EXCEPT !.kind = "blob"] = [kind |-> "blob"]
    BY <1>4
  <2>2. FormDataValue(v) = [kind |-> "blob"]
    BY <1>1, <2>1 DEF FormDataValue
  <2> QED
    BY <1>1, <2>1, <2>2
<1> QED
  BY <1>2, <1>3, <1>4 DEF FieldValues

\* What goes of a field into a form, and the entry it becomes.
SentOf(f) ==
    LET present == Only(f.values, ToSet(f.values) \ {Null})
    IN  [j \in DOMAIN present |-> [key |-> f.key, value |-> present[j]]]
EntryOf == [x \in SentValues |-> Pair(x.key, FormDataValue(x.value))]

LEMMA SentOfType ==
    ASSUME NEW f \in FormFields
    PROVE  /\ SentOf(f) \in Seq(SentValues)
           /\ LET present == Only(f.values, ToSet(f.values) \ {Null})
              IN  [i \in DOMAIN present |-> Pair(f.key, FormDataValue(present[i]))] = Each(EntryOf, SentOf(f))
<1> DEFINE there == ToSet(f.values) \ {Null}
           present == Only(f.values, there)
           U == FieldValues \cup {Null}
           pairs == [i \in DOMAIN present |-> Pair(f.key, FormDataValue(present[i]))]
           s == SentOf(f)
<1>1. f.key \in Unencoded /\ f.values \in Seq(U)
  BY DEF FormFields
<1>2. present \in Seq(U \cap there)
  <2> HIDE DEF U, there
  <2> QED
    BY <1>1, OnlyType
<1>3. U \cap there \subseteq FieldValues
  OBVIOUS
<1>4. DOMAIN present = 1..Len(present) /\ Len(present) \in Nat /\ \A i \in 1..Len(present) : present[i] \in FieldValues
  <2>1. \A i \in 1..Len(present) : present[i] \in U \cap there
    <3> HIDE DEF U, there, present
    <3> QED
      BY <1>2
  <2>2. DOMAIN present = 1..Len(present) /\ Len(present) \in Nat
    <3> HIDE DEF U, there, present
    <3> QED
      BY <1>2
  <2> QED
    BY <1>3, <2>1, <2>2
<1>5. s = [j \in DOMAIN present |-> [key |-> f.key, value |-> present[j]]]
  BY DEF SentOf
<1> HIDE DEF present, s
<1>6. /\ DOMAIN s = 1..Len(present)
      /\ \A j \in 1..Len(present) : s[j] \in SentValues /\ EntryOf[s[j]] = Pair(f.key, FormDataValue(present[j]))
  BY <1>1, <1>4, <1>5 DEF SentValues, EntryOf
<1>7. s \in Seq(SentValues)
  <2>1. s = [i \in 1..Len(present) |-> s[i]]
    BY <1>4, <1>5
  <2> QED
    BY <1>4, <1>6, <2>1, FunctionIsSeq
<1>8. pairs = Each(EntryOf, s)
  BY <1>4, <1>6 DEF Each
<1> QED
  BY <1>7, <1>8 DEF s, present

\* The entries of a form are what is sent of its fields, one by one.
LEMMA EntriesSent ==
    ASSUME NEW v, IsForm(v)
    PROVE  /\ Sent(v) \in Seq(SentValues) /\ DOMAIN FormEntries(v) = DOMAIN Sent(v)
           /\ Len(FormEntries(v)) = Len(Sent(v)) /\ DOMAIN Sent(v) = 1..Len(Sent(v))
           /\ \A i \in DOMAIN Sent(v) :
                FormEntries(v)[i] = Pair(Sent(v)[i].key, FormDataValue(Sent(v)[i].value))
<1> DEFINE seqs == [i \in DOMAIN v.fields |-> SentOf(v.fields[i])]
           Entries(f) == LET present == Only(f.values, ToSet(f.values) \ {Null})
                         IN  [i \in DOMAIN present |-> Pair(f.key, FormDataValue(present[i]))]
           es == [i \in DOMAIN v.fields |-> Entries(v.fields[i])]
           n == Len(v.fields)
           R == Results(EntryOf, SentValues)
<1>1. v.kind = "fields" /\ v.fields \in Seq(FormFields)
  BY DEF IsForm
<1>2. n \in Nat /\ DOMAIN v.fields = 1..n /\ \A i \in 1..n : v.fields[i] \in FormFields
  BY <1>1
<1>3. Sent(v) = FlattenSeq(seqs)
  BY DEF Sent, SentOf
<1>4. FormEntries(v) = FlattenSeq(es)
  BY <1>1 DEF FormEntries, Fields
<1>5. \A i \in 1..n : seqs[i] \in Seq(SentValues) /\ Entries(v.fields[i]) = Each(EntryOf, seqs[i])
  <2>1. \A i \in 1..n : seqs[i] = SentOf(v.fields[i])
    BY <1>2
  <2> HIDE DEF seqs, n
  <2> QED
    BY <1>2, <2>1, SentOfType
<1>6. seqs \in Seq(Seq(SentValues)) /\ Len(seqs) = n
  <2>1. seqs = [i \in 1..n |-> seqs[i]]
    BY <1>2
  <2> HIDE DEF seqs, n
  <2> QED
    BY <1>2, <1>5, <2>1, FunctionIsSeq
<1>7. EachOfEach(es, EntryOf, seqs)
  BY <1>2, <1>5, <1>6 DEF EachOfEach
<1>8. EntryOf \in Mappings(SentValues, R)
  BY DEF EntryOf, Mappings, Results
<1> HIDE DEF seqs, es, Entries, n, R
<1>9. FlattenSeq(es) = Each(EntryOf, FlattenSeq(seqs)) /\ FlattenSeq(seqs) \in Seq(SentValues)
  BY <1>6, <1>7, <1>8, FlattenEach
<1>10. Sent(v) \in Seq(SentValues) /\ FormEntries(v) = Each(EntryOf, Sent(v))
  BY <1>3, <1>4, <1>9
<1> DEFINE sent == Sent(v)
           entries == FormEntries(v)
<1> HIDE DEF sent, entries
<1>11. sent \in Seq(SentValues) /\ entries = Each(EntryOf, sent)
  BY <1>10 DEF sent, entries
<1>12. DOMAIN entries = DOMAIN sent /\ DOMAIN sent = 1..Len(sent) /\ \A i \in DOMAIN sent : sent[i] \in SentValues
  BY <1>11 DEF Each
<1>13. Len(entries) = Len(sent)
  BY <1>11, EachType
<1>14. \A i \in DOMAIN sent : entries[i] = Pair(sent[i].key, FormDataValue(sent[i].value))
  BY <1>11, <1>12 DEF Each, EntryOf
<1> QED
  BY <1>11, <1>12, <1>13, <1>14 DEF sent, entries

\* What is read of an url-encoded form.
ReadPairs(pairs) ==
    [i \in DOMAIN pairs |-> [key |-> Decode(pairs[i].name), value |-> Text(Decode(pairs[i].text))]]

ReadEntries(entries, v) ==
    /\ Len(entries) = Len(Sent(v))
    /\ \A i \in DOMAIN entries :
          entries[i].name = Sent(v)[i].key /\ entries[i].text = AsEntry(Sent(v)[i].value)

\* An url-encoded form is read as it was meant if all that is sent is texts.
LEMMA PairsRead ==
    ASSUME NEW v, IsForm(v), NEW c, c = BodyContent(v, UrlEncoded)
    PROVE  c.kind = "pairs" /\ (Sent(v) = ReadPairs(c.pairs) <=> \A i \in DOMAIN Sent(v) : Sent(v)[i].value.kind = "text")
<1> DEFINE sent == Sent(v)
           entries == FormEntries(v)
           r == ReadPairs(c.pairs)
<1>1. v.kind = "fields"
  BY DEF IsForm
<1>2. /\ c.kind = "pairs"
      /\ c.pairs = [i \in DOMAIN entries |-> Pair(Encode(entries[i].name), Encode(EntryText(entries[i].text)))]
  <2> DEFINE pairs == [i \in DOMAIN entries |-> Pair(Encode(entries[i].name), Encode(EntryText(entries[i].text)))]
  <2>0. UrlEncoded # Multipart /\ v.kind \in {"fields", "blob"}
    BY <1>1 DEF UrlEncoded, Multipart
  <2>1. c = [kind |-> "pairs", pairs |-> pairs]
    BY <2>0 DEF BodyContent
  <2> HIDE DEF pairs
  <2>2. c.kind = "pairs" /\ c.pairs = pairs
    BY <2>1
  <2> QED
    BY <2>2 DEF pairs
<1>3. /\ sent \in Seq(SentValues) /\ DOMAIN entries = DOMAIN sent /\ DOMAIN sent = 1..Len(sent)
      /\ \A i \in DOMAIN sent : entries[i] = Pair(sent[i].key, FormDataValue(sent[i].value))
  BY EntriesSent
<1> HIDE DEF sent, entries
<1>4. DOMAIN r = DOMAIN sent /\ r = [i \in DOMAIN sent |-> r[i]]
  BY <1>2, <1>3 DEF ReadPairs
<1>5. ASSUME NEW i \in DOMAIN sent
      PROVE  /\ sent[i] \in SentValues
             /\ r[i] = [key |-> Decode(Encode(sent[i].key)),
                        value |-> Text(Decode(Encode(EntryText(FormDataValue(sent[i].value)))))]
  <2>1. sent[i] \in SentValues
    BY <1>3
  <2>2. entries[i].name = sent[i].key /\ entries[i].text = FormDataValue(sent[i].value)
    BY <1>3 DEF Pair
  <2>3. c.pairs[i].name = Encode(sent[i].key) /\ c.pairs[i].text = Encode(EntryText(FormDataValue(sent[i].value)))
    BY <1>2, <1>3, <2>2 DEF Pair
  <2>4. r[i] = [key |-> Decode(c.pairs[i].name), value |-> Text(Decode(c.pairs[i].text))]
    BY <1>2, <1>3 DEF ReadPairs
  <2> QED
    BY <2>1, <2>3, <2>4
<1> HIDE DEF r
<1>6. ASSUME NEW i \in DOMAIN sent
      PROVE  r[i] = sent[i] <=> sent[i].value.kind = "text"
  <2> DEFINE x == sent[i].value
             k == sent[i].key
  <2>1. x \in FieldValues /\ k \in Unencoded /\ sent[i] = [key |-> k, value |-> x]
    BY <1>5 DEF SentValues
  <2>2. r[i] = [key |-> k, value |-> Text(Decode(Encode(EntryText(FormDataValue(x)))))]
    <3>1. k \in Coded
      BY <2>1, RawText
    <3>2. Decode(Encode(k)) = k
      BY <3>1, DecodeEncode
    <3> QED
      BY <1>5, <3>2
  <2> HIDE DEF x, k
  <2>3. CASE x.kind = "text"
    <3>1. x.text \in Unencoded /\ x = Text(x.text) /\ FormDataValue(x) = x
      <4>1. "text" # "blob" /\ "text" # "object"
        OBVIOUS
      <4> QED
        BY <2>1, <2>3, <4>1, FieldKinds
    <3>2. EntryText(FormDataValue(x)) = x.text
      BY <2>3, <3>1 DEF EntryText
    <3>3. x.text \in Coded
      BY <3>1, RawText
    <3>4. Decode(Encode(x.text)) = x.text
      BY <3>3, DecodeEncode
    <3> QED
      BY <2>1, <2>2, <2>3, <3>1, <3>2, <3>4 DEF x
  <2>4. CASE x.kind # "text"
    <3>1. r[i].value.kind = "text"
      BY <2>2 DEF Text
    <3>2. sent[i].value.kind # "text"
      BY <2>4 DEF x
    <3> QED
      BY <3>1, <3>2
  <2> QED
    BY <2>3, <2>4
<1>7. sent = r <=> \A i \in DOMAIN sent : r[i] = sent[i]
  <2>1. sent = [i \in DOMAIN sent |-> sent[i]]
    BY <1>3
  <2> QED
    BY <1>4, <2>1
<1> QED
  BY <1>2, <1>6, <1>7 DEF sent, r

\* A form of several parts has every value that is sent.
LEMMA EntriesRead ==
    ASSUME NEW v, IsForm(v), NEW c, c = BodyContent(v, Multipart)
    PROVE  c.kind = "FormData" /\ ReadEntries(c.entries, v)
<1> DEFINE sent == Sent(v)
           entries == FormEntries(v)
<1>1. c.kind = "FormData" /\ c.entries = entries
  BY DEF BodyContent, UrlEncoded, Multipart
<1>2. /\ sent \in Seq(SentValues) /\ DOMAIN entries = DOMAIN sent /\ Len(entries) = Len(sent)
      /\ \A i \in DOMAIN sent : entries[i] = Pair(sent[i].key, FormDataValue(sent[i].value))
  BY EntriesSent
<1> HIDE DEF sent, entries
<1>3. ASSUME NEW i \in DOMAIN entries
      PROVE  entries[i].name = sent[i].key /\ entries[i].text = AsEntry(sent[i].value)
  <2>0. sent[i] \in SentValues
    BY <1>2
  <2>1. sent[i].value \in FieldValues
    BY <2>0 DEF SentValues
  <2>2. FormDataValue(sent[i].value) = AsEntry(sent[i].value)
    BY <2>1, FieldKinds DEF AsEntry
  <2> QED
    BY <1>2, <2>2 DEF Pair
<1> QED
  BY <1>1, <1>2, <1>3 DEF sent, ReadEntries

\* What is read of a body that was given as v with its type.
Intact(body, v) ==
    CASE body.kind = "pairs"    -> v.kind = "fields" /\ Sent(v) = ReadPairs(body.pairs)
      [] body.kind = "FormData" -> v.kind = "fields" /\ ReadEntries(body.entries, v)
      [] OTHER -> body = v

Lost(v, type) ==
    \/ v.kind = "fields" /\ type = UrlEncoded /\ \E i \in DOMAIN Sent(v) : Sent(v)[i].value.kind # "text"
    \/ v.kind = "blob" /\ type \in {UrlEncoded, Multipart}
    \/ v.kind = "null" /\ type = Multipart

LEMMA BodyRead ==
    ASSUME NEW body \in Bodies, NEW c, c = BodyContent(body.value, BodyType(body))
    PROVE  Intact(c, body.value) <=> ~Lost(body.value, BodyType(body))
<1> DEFINE v == body.value
           type == BodyType(body)
<1>1. /\ \/ v = NullValue /\ v.kind = "null"
         \/ v.kind = "plain" /\ body.type # Multipart
         \/ v.kind = "blob"
         \/ IsForm(v) /\ v.kind = "fields"
      /\ type = IF v.kind = "blob" THEN v.type ELSE body.type
  BY BodyKinds DEF BodyType
<1>2. UrlEncoded # Multipart
  BY DEF UrlEncoded, Multipart
<1> SUFFICES Intact(c, v) <=> ~Lost(v, type)
  OBVIOUS
<1> HIDE DEF v, type
<1>3. c = BodyContent(v, type)
  BY DEF v, type
<1>4. CASE IsForm(v) /\ v.kind = "fields" /\ type = UrlEncoded
  BY <1>2, <1>3, <1>4, PairsRead DEF Intact, Lost
<1>5. CASE IsForm(v) /\ v.kind = "fields" /\ type = Multipart
  BY <1>2, <1>3, <1>5, EntriesRead DEF Intact, Lost
<1>6. CASE v.kind \in {"blob", "fields", "plain", "null"} /\ type \notin {UrlEncoded, Multipart}
  <2>1. c = v
    BY <1>3, <1>6 DEF BodyContent
  <2> QED
    BY <1>6, <2>1 DEF Intact, Lost
<1>7. CASE v.kind = "blob" /\ type \in {UrlEncoded, Multipart}
  <2>1. c.kind = "pairs" \/ c.kind = "FormData"
    BY <1>3, <1>7 DEF BodyContent
  <2> QED
    BY <1>7, <2>1 DEF Intact, Lost
<1>8. CASE v.kind = "plain" /\ type = UrlEncoded
  <2>1. c = v
    BY <1>2, <1>3, <1>8 DEF BodyContent
  <2> QED
    BY <1>8, <2>1 DEF Intact, Lost
<1>9. CASE v.kind = "null" /\ type = UrlEncoded
  <2>1. c = v
    BY <1>2, <1>3, <1>9 DEF BodyContent
  <2> QED
    BY <1>2, <1>9, <2>1 DEF Intact, Lost
<1>10. CASE v.kind = "null" /\ type = Multipart
  <2>1. c.kind = "FormData"
    BY <1>2, <1>3, <1>10 DEF BodyContent
  <2> QED
    BY <1>10, <2>1 DEF Intact, Lost
<1> QED
  BY <1>1, <1>4, <1>5, <1>6, <1>7, <1>8, <1>9, <1>10

\* What is built of an invariant state has the body.
LEMMA BodyKept == CallerInv => BodyRecovered
<1> SUFFICES ASSUME CallerInv, Built, asked["body"] # Null PROVE BodyRecovered
  BY DEF BodyRecovered
<1> DEFINE a == asked["body"]
           v == a.value
           type == BodyType(a)
           h == request.headers
<1>1. a \in Bodies /\ builder.bodyContentType = type /\ builder.bodyContent = BodyContent(v, type)
  BY DEF CallerInv, BodyHeld
<1>2. request.body = builder.bodyContent
  <2>1. Build(builder, "application/json").body = builder.bodyContent
    BY DEF Build
  <2> QED
    BY <2>1 DEF CallerInv, Built
<1>3. Only(h, Named(h, ContentType)) = ContentHeaders(builder)
  BY RequestHeaders
<1>4. type # Null
  BY <1>1, BodyKinds DEF BodyType
<1>5. Only(h, Named(h, ContentType)) =
        IF request.body.kind = "FormData" \/ type = "" THEN <<>> ELSE <<Pair(ContentType, <<Ch(type)>>)>>
  BY <1>1, <1>2, <1>3, <1>4 DEF ContentHeaders, Unannounced
<1>6. Intact(request.body, v) <=> ~Lost(v, type)
  BY <1>1, <1>2, BodyRead
<1> QED
  BY <1>5, <1>6 DEF BodyRecovered, Intact, Lost, ReadPairs, ReadEntries, Named, BodyType

\* A body arrives as it was given last and under its own type, but for the three cases in
\* which the builder cannot send it.
THEOREM BodyAlwaysRecovered == Spec => []BodyRecovered
  BY CallerInvariant, BodyKept, PTL

-----------------------------------------------------------------------------
(* Texts that are joined and split again *)

LEMMA WithoutAppend ==
    ASSUME NEW C, NEW t \in Seq(C), NEW c \in C, NEW sep
    PROVE  Without(Append(t, c), sep) <=> Without(t, sep) /\ c # Ch(sep)
<1>1. ToSet(Append(t, c)) = ToSet(t) \cup {c}
  <2> DEFINE e == <<c>>
  <2>1. e \in Seq(C) /\ ToSet(e) = {c} /\ Append(t, c) = t \o e
    BY DEF ToSet
  <2> HIDE DEF e
  <2> QED
    BY <2>1, ConcatMembers
<1> QED
  BY <1>1 DEF Without

LEMMA WithoutConcat ==
    ASSUME NEW C, NEW t \in Seq(C), NEW u \in Seq(C), NEW sep
    PROVE  Without(t \o u, sep) <=> Without(t, sep) /\ Without(u, sep)
  BY ConcatMembers DEF Without

\* Lists of parts, never empty while a text is split.
PartLists(C) == Seq(Seq(C)) \ {<<>>}

\* What one character does to the parts so far.
SplitStep(texts, c, sep) ==
    IF c = Ch(sep) THEN Append(texts, <<>>) ELSE [texts EXCEPT ![Len(texts)] = Append(@, c)]

\* F[i] is what the first i characters of t make of the parts b.
Splits(F, b, t, sep, C) ==
    /\ F \in [0..Len(t) -> PartLists(C)] /\ F[0] = b
    /\ \A i \in 1..Len(t) : F[i] = SplitStep(F[i - 1], t[i], sep)

\* The parts e are what t makes of << <<>> >>.
SplitsInto(t, e, sep, C) == \E F : Splits(F, << <<>> >>, t, sep, C) /\ e = F[Len(t)]

LEMMA SplitStepType ==
    ASSUME NEW C, NEW e \in PartLists(C), NEW c \in C, NEW sep
    PROVE  SplitStep(e, c, sep) \in PartLists(C)
<1>1. e \in Seq(Seq(C)) /\ Len(e) \in Nat /\ Len(e) # 0 /\ Len(e) \in DOMAIN e
  BY DEF PartLists
<1>2. CASE c = Ch(sep)
  <2>1. Append(e, <<>>) \in Seq(Seq(C)) /\ Append(e, <<>>) # <<>>
    BY <1>1
  <2> QED
    BY <1>2, <2>1 DEF SplitStep, PartLists
<1>3. CASE c # Ch(sep)
  <2> DEFINE f == [e EXCEPT ![Len(e)] = Append(@, c)]
  <2>1. Append(e[Len(e)], c) \in Seq(C)
    BY <1>1
  <2>2. f \in Seq(Seq(C)) /\ Len(f) = Len(e)
    BY <1>1, <2>1
  <2> QED
    BY <1>1, <1>3, <2>2 DEF SplitStep, PartLists
<1> QED
  BY <1>2, <1>3

\* The parts of a text are what its characters make one after the other.
LEMMA SplitSteps ==
    ASSUME NEW C, NEW t \in Seq(C), t # <<>>, NEW sep
    PROVE  \E F : Splits(F, << <<>> >>, t, sep, C) /\ Split(t, sep) = F[Len(t)]
<1> DEFINE n == Len(t)
           T == PartLists(C)
           b == << <<>> >>
           g == [i \in 1..n |-> [x \in T |-> SplitStep(x, t[i], sep)]]
           H(f, e) == IF e = {} THEN b ELSE SplitStep(f[e \ {Max(e)}], t[Max(e)], sep)
           iter == CHOOSE f : f = [e \in SUBSET DOMAIN t |-> H(f, e)]
<1>1. n \in Nat /\ DOMAIN t = 1..n /\ \A i \in 1..n : t[i] \in C
  OBVIOUS
<1>0. b \in T
  <2>1. <<>> \in Seq(C)
    OBVIOUS
  <2>2. b \in Seq(Seq(C)) /\ b # <<>>
    BY <2>1
  <2> QED
    BY <2>2 DEF PartLists
<1>2. g \in Maps(n, T)
  <2>1. \A i \in 1..n : \A x \in T : SplitStep(x, t[i], sep) \in T
    BY <1>1, SplitStepType
  <2> HIDE DEF T
  <2>2. \A i \in 1..n : g[i] \in [T -> T]
    BY <2>1
  <2> QED
    BY <2>2 DEF Maps
<1>3. Split(t, sep) = iter[DOMAIN t]
  BY DEF Split, FoldLeft, MapThenFoldSet, SplitStep
<1> HIDE DEF n, T, g, iter, H, b
<1>4. PICK h : IteratesOnSets(h, n, T, b, g)
  BY <1>0, <1>1, <1>2, SetIteration
<1>5. ASSUME NEW e \in SUBSET (1..n)
      PROVE  h[e] = H(h, e)
  <2>1. CASE e = {}
    BY <1>4, <2>1 DEF IteratesOnSets, H
  <2>2. CASE e # {}
    <3>1. Max(e) \in 1..n
      BY <1>1, <2>2, MaxUpTo
    <3>2. e \ {Max(e)} \in SUBSET (1..n)
      OBVIOUS
    <3>3. h[e \ {Max(e)}] \in T /\ h[e] = g[Max(e)][h[e \ {Max(e)}]]
      BY <1>4, <2>2, <3>2 DEF IteratesOnSets
    <3> QED
      BY <2>2, <3>1, <3>3 DEF g, H
  <2> QED
    BY <2>1, <2>2
<1>6. h = [e \in SUBSET DOMAIN t |-> H(h, e)]
  BY <1>1, <1>4, <1>5 DEF IteratesOnSets
<1>7. iter = [e \in SUBSET DOMAIN t |-> H(iter, e)]
  BY <1>6 DEF iter
<1>8. iter[{}] = b
  BY <1>7 DEF H
<1>9. ASSUME NEW i \in 1..n, iter[1..(i - 1)] \in T
      PROVE  iter[1..i] = g[i][iter[1..(i - 1)]]
  <2>1. 1..i # {} /\ Max(1..i) = i /\ (1..i) \ {i} = 1..(i - 1)
    <3>1. i \in Nat /\ i # 0
      BY <1>1
    <3> QED
      BY <3>1, UpTo
  <2>2. 1..i \in SUBSET DOMAIN t
    BY <1>1
  <2>3. iter[1..i] = H(iter, 1..i)
    BY <1>7, <2>2
  <2> QED
    BY <1>9, <2>1, <2>3 DEF g, H
<1>10. PICK F : Iterates(F, n, T, b, g) /\ iter[1..n] = F[n]
  BY <1>0, <1>1, <1>2, <1>8, <1>9, FoldIterates
<1>11. \A i \in 1..n : F[i] = SplitStep(F[i - 1], t[i], sep)
  <2>1. \A i \in 1..n : i - 1 \in 0..n
    BY <1>1
  <2>2. \A i \in 1..n : F[i - 1] \in T /\ F[i] = g[i][F[i - 1]]
    BY <1>10, <2>1 DEF Iterates
  <2> QED
    BY <2>2 DEF g
<1>12. Splits(F, b, t, sep, C)
  BY <1>10, <1>11 DEF Splits, Iterates, n, T
<1> QED
  BY <1>1, <1>3, <1>10, <1>12 DEF n, b

\* No part has the separator in it.
LEMMA PartsWithout ==
    ASSUME NEW C, NEW t \in Seq(C), NEW sep
    PROVE  /\ Split(t, sep) \in Seq(Seq(C))
           /\ \A i \in 1..Len(Split(t, sep)) : Split(t, sep)[i] \in Seq(C) /\ Without(Split(t, sep)[i], sep)
<1>1. CASE t = <<>>
  <2>1. Split(t, sep) = <<>>
    BY <1>1 DEF Split
  <2> QED
    BY <2>1
<1>2. CASE t # <<>>
  <2> DEFINE n == Len(t)
             b == << <<>> >>
  <2>1. PICK F : Splits(F, b, t, sep, C) /\ Split(t, sep) = F[n]
    BY <1>2, SplitSteps
  <2>2. n \in Nat /\ \A i \in 1..n : t[i] \in C
    OBVIOUS
  <2>3. /\ F[0] = b /\ \A i \in 0..n : F[i] \in PartLists(C)
        /\ \A i \in 1..n : F[i] = SplitStep(F[i - 1], t[i], sep)
    BY <2>1 DEF Splits
  <2> DEFINE good == {i \in 0..n : \A j \in 1..Len(F[i]) : Without(F[i][j], sep)}
  <2>4. 0 \in good
    <3>1. Without(<<>>, sep)
      BY DEF Without, ToSet
    <3>2. Len(b) = 1 /\ b[1] = <<>>
      OBVIOUS
    <3> QED
      BY <2>2, <2>3, <3>1, <3>2
  <2> HIDE DEF n
  <2>5. ASSUME NEW i \in 0..(n - 1), i \in good
        PROVE  i + 1 \in good
    <3> DEFINE e == F[i]
               f == F[i + 1]
               k == Len(e)
    <3>1. i + 1 \in 1..n /\ (i + 1) - 1 = i /\ i \in 0..n /\ i + 1 \in 0..n
      BY <2>2
    <3>2. /\ e \in Seq(Seq(C)) /\ e # <<>> /\ f = SplitStep(e, t[i + 1], sep) /\ t[i + 1] \in C
          /\ \A j \in 1..Len(e) : Without(e[j], sep)
      BY <2>2, <2>3, <2>5, <3>1 DEF PartLists
    <3> HIDE DEF e, f
    <3>3. k \in Nat /\ k # 0 /\ \A j \in 1..k : e[j] \in Seq(C)
      BY <3>2
    <3>4. \A j \in 1..Len(f) : Without(f[j], sep)
      <4>1. CASE t[i + 1] = Ch(sep)
        <5>1. f = Append(e, <<>>)
          BY <3>2, <4>1 DEF SplitStep
        <5>2. Len(f) = k + 1 /\ f[k + 1] = <<>> /\ \A j \in 1..k : f[j] = e[j]
          BY <3>2, <3>3, <5>1
        <5>3. Without(<<>>, sep)
          BY DEF Without, ToSet
        <5> QED
          BY <3>2, <3>3, <5>2, <5>3
      <4>2. CASE t[i + 1] # Ch(sep)
        <5>1. f = [e EXCEPT ![k] = Append(@, t[i + 1])]
          BY <3>2, <4>2 DEF SplitStep
        <5>2. Len(f) = k /\ f[k] = Append(e[k], t[i + 1]) /\ \A j \in 1..k : j # k => f[j] = e[j]
          BY <3>2, <3>3, <5>1
        <5>3. Without(Append(e[k], t[i + 1]), sep)
          <6>1. e[k] \in Seq(C) /\ Without(e[k], sep) /\ t[i + 1] \in C
            BY <3>2, <3>3
          <6> QED
            BY <4>2, <6>1, WithoutAppend
        <5> QED
          BY <3>2, <3>3, <5>2, <5>3
      <4> QED
        BY <4>1, <4>2
    <3> QED
      BY <3>1, <3>4 DEF f
  <2> HIDE DEF good
  <2>6. \A i \in 0..n : i \in good
    BY <2>2, <2>4, <2>5, Induction
  <2>7. n \in 0..n
    BY <2>2
  <2>8. F[n] \in Seq(Seq(C)) /\ \A j \in 1..Len(F[n]) : Without(F[n][j], sep)
    BY <2>3, <2>6, <2>7 DEF good, PartLists
  <2> QED
    BY <2>1, <2>8
<1> QED
  BY <1>1, <1>2

LEMMA IntoNone ==
    ASSUME NEW C, NEW sep
    PROVE  SplitsInto(<<>>, << <<>> >>, sep, C)
<1> DEFINE b == << <<>> >>
           F == [i \in 0..0 |-> b]
<1>1. <<>> \in Seq(C)
  OBVIOUS
<1>2. b \in PartLists(C)
  BY <1>1 DEF PartLists
<1>3. Splits(F, b, <<>>, sep, C) /\ F[Len(<<>>)] = b
  <2> HIDE DEF b
  <2>1. Len(<<>>) = 0 /\ 1..0 = {}
    OBVIOUS
  <2> QED
    BY <1>2, <2>1 DEF Splits
<1> HIDE DEF F
<1> QED
  BY <1>3 DEF SplitsInto

LEMMA IntoAppend ==
    ASSUME NEW C, NEW t \in Seq(C), NEW c \in C, NEW sep, NEW e, SplitsInto(t, e, sep, C)
    PROVE  e \in PartLists(C) /\ SplitsInto(Append(t, c), SplitStep(e, c, sep), sep, C)
<1> DEFINE b == << <<>> >>
           n == Len(t)
           u == Append(t, c)
<1>1. PICK F : Splits(F, b, t, sep, C) /\ e = F[n]
  BY DEF SplitsInto
<1>2. n \in Nat /\ u \in Seq(C) /\ Len(u) = n + 1 /\ u[n + 1] = c /\ \A i \in 1..n : u[i] = t[i]
  OBVIOUS
<1> HIDE DEF n, u
<1> DEFINE G == [i \in 0..(n + 1) |-> IF i = n + 1 THEN SplitStep(e, c, sep) ELSE F[i]]
<1>3. /\ F[0] = b /\ \A i \in 0..n : F[i] \in PartLists(C)
      /\ \A i \in 1..n : F[i] = SplitStep(F[i - 1], t[i], sep)
  BY <1>1 DEF Splits, n
<1>4. e \in PartLists(C) /\ SplitStep(e, c, sep) \in PartLists(C)
  BY <1>1, <1>2, <1>3, SplitStepType
<1>5. G \in [0..(n + 1) -> PartLists(C)] /\ G[0] = b
  BY <1>2, <1>3, <1>4
<1>6. ASSUME NEW i \in 1..(n + 1)
      PROVE  G[i] = SplitStep(G[i - 1], u[i], sep)
  <2>1. CASE i = n + 1
    <3>1. G[i] = SplitStep(e, c, sep) /\ G[i - 1] = F[n]
      BY <1>2, <2>1
    <3> QED
      BY <1>1, <1>2, <2>1, <3>1
  <2>2. CASE i # n + 1
    <3>1. i \in 1..n /\ i - 1 \in 0..n /\ G[i] = F[i] /\ G[i - 1] = F[i - 1]
      BY <1>2, <2>2
    <3> QED
      BY <1>2, <1>3, <3>1
  <2> QED
    BY <2>1, <2>2
<1>7. G[Len(u)] = SplitStep(e, c, sep)
  BY <1>2
<1> HIDE DEF G
<1>8. Splits(G, b, u, sep, C)
  BY <1>2, <1>5, <1>6 DEF Splits
<1> QED
  BY <1>4, <1>7, <1>8 DEF SplitsInto, u

\* What a text splits into is its split.
LEMMA IntoOnly ==
    ASSUME NEW C, NEW t \in Seq(C), t # <<>>, NEW sep, NEW e, SplitsInto(t, e, sep, C)
    PROVE  Split(t, sep) = e
<1> DEFINE b == << <<>> >>
           n == Len(t)
<1>1. PICK F : Splits(F, b, t, sep, C) /\ e = F[n]
  BY DEF SplitsInto
<1>2. PICK G : Splits(G, b, t, sep, C) /\ Split(t, sep) = G[n]
  BY SplitSteps
<1>3. n \in Nat
  OBVIOUS
<1>4. /\ F[0] = G[0]
      /\ \A i \in 1..n : F[i] = SplitStep(F[i - 1], t[i], sep) /\ G[i] = SplitStep(G[i - 1], t[i], sep)
  BY <1>1, <1>2 DEF Splits
<1> DEFINE same == {i \in 0..n : F[i] = G[i]}
<1> HIDE DEF n
<1>5. ASSUME NEW i \in 0..(n - 1), i \in same
      PROVE  i + 1 \in same
  <2>1. i + 1 \in 1..n /\ (i + 1) - 1 = i
    BY <1>3
  <2> QED
    BY <1>3, <1>4, <1>5, <2>1
<1>6. 0 \in same
  BY <1>3, <1>4
<1> HIDE DEF same
<1>7. \A i \in 0..n : i \in same
  BY <1>3, <1>5, <1>6, Induction
<1> QED
  BY <1>1, <1>2, <1>3, <1>7 DEF same

\* e with u after its last part.
WithLast(e, u) == [e EXCEPT ![Len(e)] = @ \o u]

LEMMA WithLastStep ==
    ASSUME NEW C, NEW e \in PartLists(C), NEW u \in Seq(C), NEW c \in C, NEW sep, c # Ch(sep)
    PROVE  SplitStep(WithLast(e, u), c, sep) = WithLast(e, Append(u, c))
<1> DEFINE k == Len(e)
           f == WithLast(e, u)
<1>1. e \in Seq(Seq(C)) /\ k \in Nat /\ k # 0 /\ DOMAIN e = 1..k /\ k \in DOMAIN e /\ e[k] \in Seq(C)
  BY DEF PartLists
<1>2. f \in Seq(Seq(C)) /\ Len(f) = k /\ f[k] = e[k] \o u /\ \A i \in 1..k : i # k => f[i] = e[i]
  <2>1. e[k] \o u \in Seq(C)
    BY <1>1
  <2> HIDE DEF k
  <2>2. f = [e EXCEPT ![k] = @ \o u]
    BY DEF WithLast, k
  <2>3. f \in Seq(Seq(C))
    BY <1>1, <2>1, <2>2
  <2>4. Len(f) = k
    BY <1>1, <2>2 DEF k
  <2> QED
    BY <1>1, <2>2, <2>3, <2>4
<1>3. e[k] \o Append(u, c) = Append(e[k] \o u, c)
  BY <1>1, ConcatAppend
<1>4. SplitStep(f, c, sep) = [f EXCEPT ![k] = Append(@, c)]
  BY <1>2 DEF SplitStep
<1>5. f = [e EXCEPT ![k] = @ \o u] /\ WithLast(e, Append(u, c)) = [e EXCEPT ![k] = @ \o Append(u, c)]
  BY DEF WithLast
<1> HIDE DEF f, k
<1>6. [f EXCEPT ![k] = Append(@, c)] = [e EXCEPT ![k] = Append(e[k] \o u, c)]
  BY <1>1, <1>2, <1>5
<1>7. [e EXCEPT ![k] = @ \o Append(u, c)] = [e EXCEPT ![k] = Append(e[k] \o u, c)]
  BY <1>3
<1> QED
  BY <1>4, <1>5, <1>6, <1>7 DEF f

Prefix(u, i) == SubSeq(u, 1, i)

LEMMA PrefixSteps ==
    ASSUME NEW C, NEW u \in Seq(C)
    PROVE  /\ Prefix(u, 0) = <<>> /\ Prefix(u, Len(u)) = u
           /\ \A i \in 0..Len(u) : Prefix(u, i) \in Seq(C)
           /\ \A i \in 0..(Len(u) - 1) : Prefix(u, i + 1) = Append(Prefix(u, i), u[i + 1])
<1>1. Prefix(u, 0) = <<>> /\ Prefix(u, Len(u)) = u
  BY DEF Prefix
<1>2. ASSUME NEW i \in 0..Len(u)
      PROVE  Prefix(u, i) \in Seq(C)
  BY SubSeqProperties DEF Prefix
<1>3. ASSUME NEW i \in 0..(Len(u) - 1)
      PROVE  Prefix(u, i + 1) = Append(Prefix(u, i), u[i + 1])
  <2> DEFINE l == Prefix(u, i + 1)
             r == Append(Prefix(u, i), u[i + 1])
  <2>1. i \in Nat /\ i + 1 \in 1..Len(u) /\ u[i + 1] \in C
    OBVIOUS
  <2>2. l \in Seq(C) /\ Len(l) = i + 1 /\ \A j \in 1..(i + 1) : l[j] = u[j]
    BY <2>1 DEF Prefix
  <2>3. r \in Seq(C) /\ Len(r) = i + 1 /\ \A j \in 1..(i + 1) : r[j] = u[j]
    BY <2>1 DEF Prefix
  <2> HIDE DEF l, r
  <2>4. l = r
    BY <2>2, <2>3
  <2> QED
    BY <2>4 DEF l, r
<1> QED
  BY <1>1, <1>2, <1>3

\* A word without the separator goes on with the last part.
LEMMA IntoWord ==
    ASSUME NEW C, NEW t \in Seq(C), NEW sep, NEW e, SplitsInto(t, e, sep, C), NEW u \in Seq(C), Without(u, sep)
    PROVE  SplitsInto(t \o u, WithLast(e, u), sep, C)
<1> DEFINE n == Len(u)
           Pre(i) == Prefix(u, i)
           good == {i \in 0..n : SplitsInto(t \o Pre(i), WithLast(e, Pre(i)), sep, C)}
<1>1. n \in Nat /\ \A i \in 1..n : u[i] \in C /\ u[i] # Ch(sep)
  BY DEF Without, ToSet
<1>2. e \in PartLists(C)
  <2>1. PICK F : Splits(F, << <<>> >>, t, sep, C) /\ e = F[Len(t)]
    BY DEF SplitsInto
  <2> QED
    BY <2>1 DEF Splits
<1>3. /\ Pre(0) = <<>> /\ Pre(n) = u /\ \A i \in 0..n : Pre(i) \in Seq(C)
      /\ \A i \in 0..(n - 1) : Pre(i + 1) = Append(Pre(i), u[i + 1])
  BY PrefixSteps
<1> HIDE DEF n, Pre
<1>4. 0 \in good
  <2>1. t \o <<>> = t
    OBVIOUS
  <2>2. WithLast(e, <<>>) = e
    <3>1. e \in Seq(Seq(C)) /\ Len(e) \in DOMAIN e /\ e[Len(e)] \in Seq(C)
      BY <1>2 DEF PartLists
    <3>2. e[Len(e)] \o <<>> = e[Len(e)]
      BY <3>1
    <3> QED
      BY <3>1, <3>2 DEF WithLast
  <2>3. t \o Pre(0) = t /\ WithLast(e, Pre(0)) = e
    BY <1>3, <2>1, <2>2
  <2>4. SplitsInto(t \o Pre(0), WithLast(e, Pre(0)), sep, C)
    BY <2>3
  <2>5. 0 \in 0..n
    BY <1>1
  <2> QED
    BY <2>4, <2>5, Zenon
<1>5. ASSUME NEW i \in 0..(n - 1), i \in good
      PROVE  i + 1 \in good
  <2> DEFINE w == Pre(i)
             c == u[i + 1]
             x == t \o w
             f == WithLast(e, w)
  <2>1. i \in 0..n /\ i + 1 \in 1..n /\ w \in Seq(C) /\ c \in C /\ c # Ch(sep) /\ Pre(i + 1) = Append(w, c)
    <3>1. i \in 0..n /\ i + 1 \in 1..n
      BY <1>1
    <3>2. Pre(i + 1) = Append(w, c)
      BY <1>3
    <3> QED
      BY <1>1, <1>3, <3>1, <3>2
  <2>2. x \in Seq(C) /\ SplitsInto(x, f, sep, C)
    BY <1>5, <2>1
  <2> HIDE DEF x, f, w, c
  <2>3. SplitsInto(Append(x, c), SplitStep(f, c, sep), sep, C)
    BY <2>1, <2>2, IntoAppend
  <2>4. SplitStep(f, c, sep) = WithLast(e, Append(w, c))
    BY <1>2, <2>1, WithLastStep DEF f
  <2>5. t \o Append(w, c) = Append(x, c)
    <3>1. t \o Append(w, c) = Append(t \o w, c)
      BY <2>1, ConcatAppend
    <3> QED
      BY <3>1 DEF x
  <2>6. SplitsInto(t \o Pre(i + 1), WithLast(e, Pre(i + 1)), sep, C)
    BY <2>1, <2>3, <2>4, <2>5
  <2> QED
    BY <1>1, <2>1, <2>6
<1> HIDE DEF good
<1>6. \A i \in 0..n : i \in good
  BY <1>1, <1>4, <1>5, Induction
<1>7. n \in 0..n
  BY <1>1
<1> QED
  BY <1>3, <1>6, <1>7 DEF good

\* A separator and a word make a new part.
LEMMA IntoNext ==
    ASSUME NEW C, NEW sep, Ch(sep) \in C, NEW t \in Seq(C), NEW e, SplitsInto(t, e, sep, C),
           NEW u \in Seq(C), Without(u, sep)
    PROVE  SplitsInto(t \o (<<Ch(sep)>> \o u), Append(e, u), sep, C)
<1> DEFINE s == <<Ch(sep)>>
           x == Append(t, Ch(sep))
           f == Append(e, <<>>)
<1>1. e \in PartLists(C) /\ SplitsInto(x, SplitStep(e, Ch(sep), sep), sep, C)
  BY IntoAppend
<1>2. SplitStep(e, Ch(sep), sep) = f
  BY DEF SplitStep
<1>3. s \in Seq(C) /\ x \in Seq(C) /\ x = t \o s
  BY AppendIsConcat
<1> HIDE DEF s, x
<1>4. SplitsInto(x \o u, WithLast(f, u), sep, C)
  BY <1>1, <1>2, <1>3, IntoWord
<1>5. x \o u = t \o (s \o u)
  BY <1>3, ConcatAssociative
<1>6. WithLast(f, u) = Append(e, u)
  <2> DEFINE k == Len(e) + 1
             l == WithLast(f, u)
             r == Append(e, u)
  <2>1. e \in Seq(Seq(C)) /\ Len(e) \in Nat
    BY <1>1 DEF PartLists
  <2>2. f \in Seq(Seq(C)) /\ Len(f) = k /\ f[k] = <<>> /\ \A i \in 1..Len(e) : f[i] = e[i]
    BY <2>1
  <2>3. <<>> \o u = u
    OBVIOUS
  <2> HIDE DEF f
  <2>4. l = [f EXCEPT ![k] = u]
    BY <2>2, <2>3 DEF WithLast
  <2> HIDE DEF l
  <2>9. k \in DOMAIN f /\ k \in Nat /\ \A i \in 1..Len(e) : i # k /\ i \in DOMAIN f
    BY <2>1, <2>2
  <2>5. l \in Seq(Seq(C)) /\ Len(l) = k /\ l[k] = u /\ \A i \in 1..Len(e) : l[i] = e[i]
    <3>1. l \in Seq(Seq(C)) /\ Len(l) = Len(f)
      BY <2>2, <2>4, <2>9
    <3>2. l[k] = u /\ \A i \in 1..Len(e) : l[i] = f[i]
      BY <2>4, <2>9
    <3> QED
      BY <2>2, <3>1, <3>2
  <2>6. r \in Seq(Seq(C)) /\ Len(r) = k /\ r[k] = u /\ \A i \in 1..Len(e) : r[i] = e[i]
    BY <2>1
  <2> HIDE DEF l, r
  <2>7. \A i \in 1..k : l[i] = r[i]
    <3> TAKE i \in 1..k
    <3>1. i = k \/ i \in 1..Len(e)
      BY <2>1
    <3> QED
      BY <2>5, <2>6, <3>1
  <2>8. l = r
    BY <2>1, <2>5, <2>6, <2>7
  <2> QED
    BY <2>8 DEF l, r
<1>7. SplitsInto(t \o (s \o u), Append(e, u), sep, C)
  BY <1>4, <1>5, <1>6
<1> QED
  BY <1>7 DEF s

\* F[i] is the first i parts, joined.
Joins(F, parts, sep, C) ==
    /\ F \in [0..Len(parts) -> Seq(C)] /\ F[0] = <<>>
    /\ parts # <<>> => F[1] = parts[1]
    /\ \A i \in 2..Len(parts) : F[i] = F[i - 1] \o (<<Ch(sep)>> \o parts[i])

LEMMA JoinSteps ==
    ASSUME NEW C, NEW sep, Ch(sep) \in C, NEW parts \in Seq(Seq(C))
    PROVE  \E F : Joins(F, parts, sep, C) /\ Join(parts, sep) = F[Len(parts)]
<1> DEFINE n == Len(parts)
           s == <<Ch(sep)>>
           seqs == [i \in DOMAIN parts |-> IF i = 1 THEN parts[i] ELSE s \o parts[i]]
<1>1. n \in Nat /\ DOMAIN parts = 1..n /\ \A i \in 1..n : parts[i] \in Seq(C)
  OBVIOUS
<1>2. s \in Seq(C)
  OBVIOUS
<1>3. Join(parts, sep) = FlattenSeq(seqs)
  BY DEF Join
<1> HIDE DEF s, n
<1>4. /\ \A i \in 1..n : seqs[i] \in Seq(C)
      /\ seqs = [i \in 1..n |-> seqs[i]] /\ \A i \in 1..n : seqs[i] = IF i = 1 THEN parts[i] ELSE s \o parts[i]
  BY <1>1, <1>2
<1> HIDE DEF seqs
<1>5. seqs \in Seq(Seq(C)) /\ Len(seqs) = n
  BY <1>1, <1>4, FunctionIsSeq
<1>6. PICK F : Flattens(F, seqs, C) /\ FlattenSeq(seqs) = F[n]
  BY <1>5, FlattenSteps
<1>7. /\ F \in [0..n -> Seq(C)] /\ F[0] = <<>> /\ \A i \in 1..n : F[i] = F[i - 1] \o seqs[i]
  BY <1>5, <1>6 DEF Flattens
<1>8. ASSUME parts # <<>>
      PROVE  F[1] = parts[1]
  <2>1. 1 \in 1..n /\ 1 - 1 = 0
    BY <1>1, <1>8 DEF n
  <2>2. F[1] = F[0] \o parts[1] /\ parts[1] \in Seq(C)
    BY <1>1, <1>4, <1>7, <2>1
  <2>3. <<>> \o parts[1] = parts[1]
    BY <2>2
  <2> QED
    BY <1>7, <2>2, <2>3
<1>9. \A i \in 2..n : F[i] = F[i - 1] \o (s \o parts[i])
  <2>1. \A i \in 2..n : i \in 1..n /\ i # 1
    BY <1>1
  <2> QED
    BY <1>4, <1>7, <2>1
<1>10. Joins(F, parts, sep, C)
  BY <1>7, <1>8, <1>9 DEF Joins, n, s
<1> QED
  BY <1>3, <1>6, <1>10 DEF n

\* Nothing is joined of no parts, and of one empty part; otherwise there is something.
LEMMA JoinEmpty ==
    ASSUME NEW C, NEW sep, Ch(sep) \in C, NEW parts \in Seq(Seq(C))
    PROVE  Join(parts, sep) \in Seq(C) /\ (Join(parts, sep) = <<>> <=> parts = <<>> \/ parts = << <<>> >>)
<1> DEFINE n == Len(parts)
           s == <<Ch(sep)>>
<1>1. PICK F : Joins(F, parts, sep, C) /\ Join(parts, sep) = F[n]
  BY JoinSteps
<1>2. n \in Nat /\ (parts = <<>> <=> n = 0) /\ \A i \in 1..n : parts[i] \in Seq(C)
  OBVIOUS
<1>3. /\ F[0] = <<>> /\ (n # 0 => F[1] = parts[1]) /\ \A i \in 0..n : F[i] \in Seq(C)
      /\ \A i \in 2..n : F[i] = F[i - 1] \o (s \o parts[i])
  BY <1>1, <1>2 DEF Joins
<1>4. CASE n = 0
  BY <1>1, <1>2, <1>3, <1>4
<1>5. CASE n = 1
  <2>1. parts = << <<>> >> <=> parts[1] = <<>>
    BY <1>5
  <2> QED
    BY <1>1, <1>2, <1>3, <1>5, <2>1
<1>6. CASE n > 1
  <2>1. n \in 2..n /\ n - 1 \in 0..n /\ n \in 0..n /\ n \in 1..n
    BY <1>2, <1>6
  <2>2. F[n] = F[n - 1] \o (s \o parts[n]) /\ F[n - 1] \in Seq(C) /\ parts[n] \in Seq(C) /\ F[n] \in Seq(C)
    BY <1>2, <1>3, <2>1
  <2> DEFINE q == s \o parts[n]
             x == F[n - 1]
  <2>3. q \in Seq(C) /\ Len(q) = 1 + Len(parts[n]) /\ Len(parts[n]) \in Nat
    BY <2>2
  <2>4. F[n] = x \o q /\ x \in Seq(C)
    BY <2>2
  <2> HIDE DEF q, x
  <2>5. Len(x \o q) = Len(x) + Len(q) /\ Len(x) \in Nat
    <3>1. Len(x) \in Nat
      BY <2>4
    <3>2. Len(x \o q) = Len(x) + Len(q)
      BY <2>3, <2>4, ConcatProperties
    <3> QED
      BY <3>1, <3>2
  <2>6. F[n] # <<>>
    <3>1. Len(x \o q) # 0
      BY <2>3, <2>5
    <3>2. x \o q # <<>>
      BY <3>1
    <3> QED
      BY <2>4, <3>2
  <2>7. parts # <<>> /\ parts # << <<>> >>
    <3> DEFINE one == << <<>> >>
    <3>1. Len(<<>>) = 0 /\ Len(one) = 1
      OBVIOUS
    <3> HIDE DEF one
    <3>2. n \in Nat /\ n # 0 /\ n # 1
      BY <1>2, <1>6
    <3>3. ASSUME parts = one PROVE FALSE
      BY <3>1, <3>2, <3>3
    <3> QED
      BY <1>2, <3>2, <3>3 DEF one
  <2> QED
    BY <1>1, <2>2, <2>6, <2>7
<1> HIDE DEF n
<1>7. n = 0 \/ n = 1 \/ n > 1
  BY <1>2
<1> QED
  BY <1>4, <1>5, <1>6, <1>7

AllWithout(parts, sep) == \A i \in 1..Len(parts) : Without(parts[i], sep)

\* Parts that do not have the separator in them are found again, unless there is one and it
\* is empty.
LEMMA SplitJoin ==
    ASSUME NEW C, NEW sep, Ch(sep) \in C, NEW parts \in Seq(Seq(C)), AllWithout(parts, sep),
           parts # << <<>> >>
    PROVE  Split(Join(parts, sep), sep) = parts
<1> DEFINE n == Len(parts)
           s == <<Ch(sep)>>
<1>1. CASE parts = <<>>
  <2>1. Join(parts, sep) = <<>>
    BY <1>1, JoinEmpty
  <2> QED
    BY <1>1, <2>1 DEF Split
<1>2. CASE parts # <<>>
  <2>1. PICK F : Joins(F, parts, sep, C) /\ Join(parts, sep) = F[n]
    BY JoinSteps
  <2>2. n \in Nat /\ n # 0 /\ \A i \in 1..n : parts[i] \in Seq(C) /\ Without(parts[i], sep)
    BY <1>2 DEF AllWithout
  <2>3. /\ F[1] = parts[1] /\ \A i \in 0..n : F[i] \in Seq(C)
        /\ \A i \in 2..n : F[i] = F[i - 1] \o (s \o parts[i])
    BY <1>2, <2>1 DEF Joins
  <2>4. /\ Prefix(parts, n) = parts
        /\ \A i \in 0..(n - 1) : Prefix(parts, i + 1) = Append(Prefix(parts, i), parts[i + 1])
    <3>1. ASSUME NEW S, NEW q \in Seq(S)
          PROVE  /\ Prefix(q, Len(q)) = q
                 /\ \A i \in 0..(Len(q) - 1) : Prefix(q, i + 1) = Append(Prefix(q, i), q[i + 1])
      BY PrefixSteps
    <3> QED
      BY <3>1
  <2> DEFINE good == {0} \cup {i \in 1..n : SplitsInto(F[i], Prefix(parts, i), sep, C)}
  <2> HIDE DEF n
  <2>5. ASSUME NEW i \in 0..(n - 1), i \in good
        PROVE  i + 1 \in good
    <3>1. i + 1 \in 1..n /\ i \in 0..n /\ i \in Nat /\ (i + 1) - 1 = i
      BY <2>2
    <3>2. CASE i = 0
      <4> DEFINE u == parts[1]
                 b == << <<>> >>
      <4>1. u \in Seq(C) /\ Without(u, sep)
        BY <2>2, <3>1, <3>2
      <4>2. SplitsInto(<<>>, b, sep, C) /\ <<>> \in Seq(C)
        BY IntoNone
      <4> HIDE DEF u
      <4>3. SplitsInto(<<>> \o u, WithLast(b, u), sep, C)
        BY <4>1, <4>2, IntoWord
      <4>4. <<>> \o u = u
        BY <4>1
      <4>5. WithLast(b, u) = <<u>>
        BY <4>4 DEF WithLast
      <4>6. Prefix(parts, 1) = <<u>>
        <5>1. Prefix(parts, 0) = <<>>
          BY DEF Prefix
        <5>2. 0 \in 0..(n - 1)
          BY <3>2
        <5>3. Prefix(parts, 0 + 1) = Append(Prefix(parts, 0), parts[0 + 1]) /\ 0 + 1 = 1
          BY <2>4, <5>2
        <5>4. Append(<<>>, u) = <<u>>
          OBVIOUS
        <5> QED
          BY <5>1, <5>3, <5>4 DEF u
      <4>7. SplitsInto(F[1], Prefix(parts, 1), sep, C)
        BY <2>3, <4>3, <4>4, <4>5, <4>6 DEF u
      <4> QED
        BY <3>1, <3>2, <4>7
    <3>3. CASE i # 0
      <4>1. i \in 1..n /\ i + 1 \in 2..n
        BY <3>1, <3>3
      <4>2. SplitsInto(F[i], Prefix(parts, i), sep, C)
        BY <2>5, <3>3
      <4>3. F[i + 1] = F[i] \o (s \o parts[i + 1]) /\ F[i] \in Seq(C)
        BY <2>3, <3>1, <4>1
      <4>4. parts[i + 1] \in Seq(C) /\ Without(parts[i + 1], sep)
        BY <2>2, <3>1
      <4>5. SplitsInto(F[i] \o (s \o parts[i + 1]), Append(Prefix(parts, i), parts[i + 1]), sep, C)
        BY <4>2, <4>3, <4>4, IntoNext
      <4>6. SplitsInto(F[i + 1], Prefix(parts, i + 1), sep, C)
        BY <2>4, <4>3, <4>5
      <4> QED
        BY <3>1, <4>6
    <3> QED
      BY <3>2, <3>3
  <2>6. 0 \in good
    OBVIOUS
  <2> HIDE DEF good
  <2>7. \A i \in 0..n : i \in good
    BY <2>2, <2>5, <2>6, Induction
  <2>8. SplitsInto(F[n], parts, sep, C) /\ F[n] \in Seq(C)
    BY <2>2, <2>3, <2>4, <2>7 DEF good
  <2>9. F[n] # <<>>
    BY <1>2, <2>1, JoinEmpty
  <2> QED
    BY <2>1, <2>8, <2>9, IntoOnly
<1> QED
  BY <1>1, <1>2

-----------------------------------------------------------------------------
(* What a receiver reads of texts that were sent *)

\* Texts over C are sent, none of which becomes one with sep in it when d decodes it.
Channel(C, sep, d) ==
    /\ Ch(sep) \in C /\ Ch("=") \in C /\ sep # "=" /\ d \in [Seq(C) -> Coded]
    /\ \A t \in Seq(C) : Without(t, sep) => Without(d[t], sep)

\* t is sent for m: as it is read again, unless it has the separator in it.
Sends(C, sep, d, m, t) ==
    /\ t \in Seq(C) /\ (t = <<>> <=> m = <<>>)
    /\ Without(m, sep) => Without(t, sep) /\ d[t] = m

AllSent(C, sep, d, ms, es) ==
    /\ es \in Seq(Seq(C)) /\ Len(es) = Len(ms)
    /\ \A i \in 1..Len(ms) : Sends(C, sep, d, ms[i], es[i])

\* texts are what es are found to be after they were joined.
Rejoined(texts, es, sep) == texts = Split(Join(es, sep), sep)

\* Whatever is joined, no text that is read has the separator in it.
LEMMA ReadWithout ==
    ASSUME NEW C, NEW sep, NEW d, Channel(C, sep, d), NEW t \in Seq(C), NEW texts, texts = Split(t, sep)
    PROVE  /\ texts \in Seq(Seq(C)) /\ Len(texts) \in Nat
           /\ \A i \in 1..Len(texts) : texts[i] \in Seq(C) /\ Without(texts[i], sep) /\ Without(d[texts[i]], sep)
<1>1. texts \in Seq(Seq(C)) /\ \A i \in 1..Len(texts) : texts[i] \in Seq(C) /\ Without(texts[i], sep)
  BY PartsWithout
<1> QED
  BY <1>1 DEF Channel

\* Texts without it are read as they were meant, unless there is one and it is empty.
LEMMA ReadAgain ==
    ASSUME NEW C, NEW sep, NEW d, Channel(C, sep, d), NEW S, NEW ms \in Seq(S), NEW es,
           AllSent(C, sep, d, ms, es), AllWithout(ms, sep), ms # << <<>> >>
    PROVE  Split(Join(es, sep), sep) = es /\ Each(d, es) = ms
<1>1. Ch(sep) \in C
  BY DEF Channel
<1>2. /\ es \in Seq(Seq(C)) /\ Len(es) = Len(ms) /\ Len(ms) \in Nat /\ DOMAIN es = 1..Len(ms)
      /\ ms = [i \in 1..Len(ms) |-> ms[i]]
      /\ \A i \in 1..Len(ms) : Without(es[i], sep) /\ d[es[i]] = ms[i] /\ (es[i] = <<>> => ms[i] = <<>>)
  BY DEF AllSent, AllWithout, Sends
<1>3. es # << <<>> >>
  <2> DEFINE one == << <<>> >>
  <2>1. Len(one) = 1 /\ one[1] = <<>> /\ \A q \in Seq(S) : Len(q) = 1 => q = <<q[1]>>
    OBVIOUS
  <2> HIDE DEF one
  <2>2. ASSUME es = one PROVE ms = one
    <3>1. Len(ms) = 1 /\ es[1] = <<>>
      BY <1>2, <2>1, <2>2
    <3>2. ms[1] = <<>> /\ ms = <<ms[1]>>
      BY <1>2, <2>1, <3>1
    <3> QED
      BY <3>2 DEF one
  <2> QED
    BY <2>2 DEF one
<1>4. AllWithout(es, sep)
  BY <1>2 DEF AllWithout
<1>5. Split(Join(es, sep), sep) = es
  BY <1>1, <1>2, <1>3, <1>4, SplitJoin
<1>6. Each(d, es) = ms
  BY <1>2 DEF Each
<1> QED
  BY <1>5, <1>6

\* A list is read as it was meant exactly if no text has the separator in it and it is not
\* one empty text.
LEMMA ListRead ==
    ASSUME NEW C, NEW sep, NEW d, Channel(C, sep, d), NEW S, NEW ms \in Seq(S), NEW es,
           AllSent(C, sep, d, ms, es), NEW texts, Rejoined(texts, es, sep)
    PROVE  Each(d, texts) = ms <=> ms # << <<>> >> /\ AllWithout(ms, sep)
<1> USE DEF Rejoined
<1> DEFINE j == Join(es, sep)
<1>1. Ch(sep) \in C /\ es \in Seq(Seq(C)) /\ Len(es) = Len(ms)
  BY DEF Channel, AllSent
<1>2. j \in Seq(C) /\ (j = <<>> <=> es = <<>> \/ es = << <<>> >>)
  BY <1>1, JoinEmpty
<1>3. ASSUME ms # << <<>> >>, AllWithout(ms, sep)
      PROVE  Each(d, texts) = ms
  BY <1>3, ReadAgain
<1> HIDE DEF j
<1>4. /\ texts \in Seq(Seq(C)) /\ Len(texts) \in Nat
      /\ \A i \in 1..Len(texts) : Without(d[texts[i]], sep)
  BY <1>2, ReadWithout DEF j
<1>5. Each(d, texts) = ms => AllWithout(ms, sep)
  <2> SUFFICES ASSUME Each(d, texts) = ms PROVE AllWithout(ms, sep)
    OBVIOUS
  <2>1. DOMAIN texts = 1..Len(texts) /\ DOMAIN ms = 1..Len(ms)
    BY <1>4
  <2>2. DOMAIN ms = DOMAIN texts /\ \A i \in DOMAIN texts : ms[i] = d[texts[i]]
    BY DEF Each
  <2> QED
    BY <1>4, <2>1, <2>2 DEF AllWithout
<1>6. ASSUME ms = << <<>> >>
      PROVE  Each(d, texts) # ms
  <2>1. Len(ms) = 1 /\ ms[1] = <<>> /\ 1 \in 1..1
    BY <1>6
  <2>2. Len(es) = 1 /\ es[1] = <<>>
    BY <2>1 DEF AllSent, Sends
  <2>3. es = << <<>> >>
    <3>1. es = <<es[1]>>
      BY <1>1, <2>2
    <3> QED
      BY <2>2, <3>1
  <2>4. texts = <<>>
    BY <1>2, <2>3 DEF Split, j
  <2>5. Each(d, texts) = <<>>
    BY <2>4, EachFew
  <2> QED
    BY <2>1, <2>5
<1> QED
  BY <1>3, <1>5, <1>6

-----------------------------------------------------------------------------
(* Keys and values *)

LEMMA SubWithout ==
    ASSUME NEW C, NEW t \in Seq(C), NEW a \in 1..(Len(t) + 1), NEW b \in Int, b <= Len(t), NEW sep
    PROVE  SubSeq(t, a, b) \in Seq(C) /\ (Without(t, sep) => Without(SubSeq(t, a, b), sep))
<1> DEFINE s == SubSeq(t, a, b)
<1>1. s \in Seq(C) /\ \A i \in 1..Len(s) : a + i - 1 \in 1..Len(t) /\ s[i] = t[a + i - 1]
  <2>1. CASE a > b
    <3>1. s = <<>>
      BY <2>1
    <3> QED
      BY <3>1
  <2>2. CASE a <= b
    <3>1. s \in Seq(C) /\ Len(s) = b - a + 1 /\ \A i \in 1..(b - a + 1) : s[i] = t[a + i - 1]
      BY <2>2
    <3> QED
      BY <2>2, <3>1
  <2> QED
    BY <2>1, <2>2
<1> HIDE DEF s
<1>2. ToSet(s) \subseteq ToSet(t)
  <2>1. DOMAIN s = 1..Len(s) /\ DOMAIN t = 1..Len(t)
    BY <1>1
  <2>2. \A i \in DOMAIN s : \E j \in DOMAIN t : s[i] = t[j]
    BY <1>1, <2>1
  <2> QED
    BY <2>2 DEF ToSet
<1>3. s \in Seq(C) /\ (Without(t, sep) => Without(s, sep))
  BY <1>1, <1>2 DEF Without
<1> QED
  BY <1>3 DEF s

\* Neither the key nor the value of a text has a separator in it that the text has not.
LEMMA KeyValueType ==
    ASSUME NEW C, NEW t \in Seq(C), NEW sep
    PROVE  /\ KeyValue(t).key \in Seq(C) /\ KeyValue(t).value \in Seq(C)
           /\ Without(t, sep) => Without(KeyValue(t).key, sep) /\ Without(KeyValue(t).value, sep)
<1> DEFINE n == Len(t)
           at == {j \in 1..n : t[j] = Ch("=")}
           i == IF at # {} THEN Min(at) ELSE 0
<1>1. n \in Nat
  OBVIOUS
<1>2. KeyValue(t).key = SubSeq(t, 1, i - 1) /\ KeyValue(t).value = SubSeq(t, i + 1, n)
  BY DEF KeyValue, SelectInSeq
<1>3. i \in 0..n
  <2>1. at \in SUBSET Nat /\ at \subseteq 1..n
    OBVIOUS
  <2>2. at # {} => Min(at) \in at
    BY <2>1, MinIsLeast
  <2> HIDE DEF at
  <2>3. CASE at = {}
    BY <1>1, <2>3
  <2>4. CASE at # {}
    <3>1. i = Min(at) /\ i \in 1..n
      BY <2>1, <2>2, <2>4
    <3> HIDE DEF i
    <3> QED
      BY <1>1, <3>1
  <2> QED
    BY <2>3, <2>4
<1> HIDE DEF i, at
<1>4. /\ 1 \in 1..(n + 1) /\ i - 1 \in Int /\ i - 1 <= n
      /\ i + 1 \in 1..(n + 1) /\ n \in Int /\ n <= n
  BY <1>1, <1>3
<1>5. SubSeq(t, 1, i - 1) \in Seq(C) /\ (Without(t, sep) => Without(SubSeq(t, 1, i - 1), sep))
  BY <1>4, SubWithout
<1>6. SubSeq(t, i + 1, n) \in Seq(C) /\ (Without(t, sep) => Without(SubSeq(t, i + 1, n), sep))
  BY <1>4, SubWithout
<1> QED
  BY <1>2, <1>5, <1>6

KeyedText(k, v) == (k \o <<Ch("=")>>) \o v

\* A key without an equals sign is found again, and its value.
LEMMA KeyValueRead ==
    ASSUME NEW C, Ch("=") \in C, NEW k \in Seq(C), Without(k, "="), NEW v \in Seq(C)
    PROVE  LET t == KeyedText(k, v) IN
           /\ KeyValue(t).key = k /\ KeyValue(t).value = v /\ t \in Seq(C) /\ t # <<>>
           /\ \A sep : sep # "=" => (Without(t, sep) <=> Without(k, sep) /\ Without(v, sep))
<1> DEFINE s == <<Ch("=")>>
           n == Len(k)
           m == Len(v)
           t == KeyedText(k, v)
           ks == k \o s
           at == {j \in 1..Len(t) : t[j] = Ch("=")}
<1>1. s \in Seq(C) /\ Len(s) = 1 /\ s[1] = Ch("=") /\ ToSet(s) = {Ch("=")}
  BY DEF ToSet
<1>2. n \in Nat /\ m \in Nat /\ \A j \in 1..n : k[j] # Ch("=")
  BY DEF Without, ToSet
<1> HIDE DEF s
<1>3. /\ ks \in Seq(C) /\ Len(ks) = n + 1 /\ ks[n + 1] = Ch("=") /\ \A j \in 1..n : ks[j] = k[j]
      /\ ToSet(ks) = ToSet(k) \cup {Ch("=")}
  <2>1. ToSet(ks) = ToSet(k) \cup ToSet(s)
    BY <1>1, ConcatMembers
  <2>5. n = Len(k)
    OBVIOUS
  <2> HIDE DEF n, m, t, at
  <2>2. ks = Append(k, Ch("="))
    BY AppendIsConcat DEF ks, s
  <2> HIDE DEF ks
  <2>3. ks \in Seq(C) /\ Len(ks) = n + 1 /\ ks[n + 1] = Ch("=") /\ \A j \in 1..n : ks[j] = k[j]
    BY <1>2, <2>2, <2>5
  <2> QED
    BY <1>1, <2>1, <2>3
<1> HIDE DEF ks, n
<1>4. t = ks \o v
  BY DEF KeyedText, ks, s
<1>5. /\ t \in Seq(C) /\ Len(t) = n + 1 + m /\ t[n + 1] = Ch("=") /\ (\A j \in 1..n : t[j] = k[j])
      /\ (\A j \in 1..m : t[n + 1 + j] = v[j]) /\ ToSet(t) = ToSet(ks) \cup ToSet(v)
  <2>1. ToSet(ks \o v) = ToSet(ks) \cup ToSet(v)
    BY <1>3, ConcatMembers
  <2>2. (ks \o v) \in Seq(C) /\ Len(ks \o v) = n + 1 + m
    BY <1>2, <1>3
  <2>3. \A j \in 1..(n + 1) : (ks \o v)[j] = ks[j]
    BY <1>2, <1>3
  <2>4. \A j \in 1..m : (ks \o v)[n + 1 + j] = v[j]
    BY <1>2, <1>3
  <2>5. n + 1 \in 1..(n + 1) /\ \A j \in 1..n : j \in 1..(n + 1)
    BY <1>2
  <2> QED
    BY <1>3, <1>4, <2>1, <2>2, <2>3, <2>4, <2>5
<1> HIDE DEF t, m
<1>6. at # {} /\ Min(at) = n + 1
  <2>1. n + 1 \in at /\ at \in SUBSET Nat
    BY <1>2, <1>5
  <2>2. Min(at) \in at /\ Min(at) <= n + 1
    BY <2>1, MinIsLeast
  <2>3. Min(at) \in Nat /\ Min(at) >= 1 /\ t[Min(at)] = Ch("=")
    <3>1. \A j \in at : j \in Nat /\ j >= 1 /\ t[j] = Ch("=")
      BY <1>2, <1>5
    <3> HIDE DEF at
    <3> QED
      BY <2>2, <3>1
  <2> HIDE DEF at
  <2>4. ASSUME Min(at) # n + 1 PROVE FALSE
    <3>1. Min(at) \in 1..n
      BY <1>2, <2>2, <2>3, <2>4
    <3> QED
      BY <1>2, <1>5, <2>3, <3>1
  <2> QED
    BY <2>1, <2>4
<1>7. KeyValue(t).key = SubSeq(t, 1, n) /\ KeyValue(t).value = SubSeq(t, n + 2, Len(t))
  <2>1. SelectInSeq(t, LAMBDA c : c = Ch("=")) = n + 1
    BY <1>6 DEF SelectInSeq
  <2>2. KeyValue(t).key = SubSeq(t, 1, (n + 1) - 1) /\ KeyValue(t).value = SubSeq(t, (n + 1) + 1, Len(t))
    BY <2>1, Zenon DEF KeyValue
  <2>3. (n + 1) - 1 = n /\ (n + 1) + 1 = n + 2
    BY <1>2
  <2> QED
    BY <2>2, <2>3
<1>8. SubSeq(t, 1, n) = k
  <2> DEFINE l == SubSeq(t, 1, n)
  <2>1. l \in Seq(C) /\ Len(l) = n /\ \A j \in 1..n : l[j] = k[j]
    BY <1>2, <1>5
  <2> HIDE DEF l
  <2>2. l = k
    BY <2>1 DEF n
  <2> QED
    BY <2>2 DEF l
<1>9. SubSeq(t, n + 2, Len(t)) = v
  <2> DEFINE l == SubSeq(t, n + 2, Len(t))
  <2>1. l \in Seq(C) /\ Len(l) = m /\ \A j \in 1..m : l[j] = t[n + 2 + j - 1]
    BY <1>2, <1>5
  <2> HIDE DEF l
  <2>2. \A j \in 1..m : n + 2 + j - 1 = n + 1 + j
    BY <1>2
  <2>3. l = v
    <3>1. \A j \in 1..m : l[j] = v[j]
      BY <1>5, <2>1, <2>2
    <3> QED
      BY <2>1, <3>1 DEF m
  <2> QED
    BY <2>3 DEF l
<1>10. t # <<>>
  BY <1>2, <1>5
<1>11. ASSUME NEW sep, sep # "="
       PROVE  Without(t, sep) <=> Without(k, sep) /\ Without(v, sep)
  <2>1. Ch(sep) # Ch("=")
    BY <1>11, CharTypes
  <2> QED
    BY <1>3, <1>5, <2>1 DEF Without
<1> QED
  BY <1>5, <1>7, <1>8, <1>9, <1>10, <1>11 DEF t

-----------------------------------------------------------------------------
(* What is read of an object *)

\* s has a[1], b[1], a[2], b[2], ...
Alternates(s, a, b, n) ==
    Len(s) = 2 * n /\ \A i \in 1..n : s[2 * i - 1] = a[i] /\ s[2 * i] = b[i]

\* Each of the lists is one of a[i] and b[i].
TwoEach(seqs, a, b, n) == seqs = [i \in 1..n |-> <<a[i], b[i]>>]

LEMMA AlternatesStep ==
    ASSUME NEW S, NEW n \in Nat, NEW a, NEW b, NEW i \in 0..(n - 1), NEW s \in Seq(S), Alternates(s, a, b, i),
           a[i + 1] \in S, b[i + 1] \in S
    PROVE  Alternates(s \o <<a[i + 1], b[i + 1]>>, a, b, i + 1)
<1> DEFINE u == <<a[i + 1], b[i + 1]>>
           t == s \o u
<1>1. u \in Seq(S) /\ Len(u) = 2 /\ u[1] = a[i + 1] /\ u[2] = b[i + 1]
  OBVIOUS
<1>2. Len(s) = 2 * i /\ (\A j \in 1..i : s[2 * j - 1] = a[j] /\ s[2 * j] = b[j]) /\ i \in Nat
  BY DEF Alternates
<1> HIDE DEF u
<1>3. /\ Len(t) = Len(s) + Len(u) /\ (\A j \in 1..Len(s) : t[j] = s[j])
      /\ \A j \in 1..Len(u) : t[Len(s) + j] = u[j]
  <2>1. s \in Seq(S) /\ u \in Seq(S)
    BY <1>1
  <2> QED
    BY <2>1, ConcatParts
<1> HIDE DEF t
<1>4. Len(t) = 2 * (i + 1) /\ t[2 * i + 1] = a[i + 1] /\ t[2 * i + 2] = b[i + 1]
  BY <1>1, <1>2, <1>3
<1>5. \A j \in 1..i : t[2 * j - 1] = a[j] /\ t[2 * j] = b[j]
  BY <1>2, <1>3
<1>6. \A j \in 1..(i + 1) : t[2 * j - 1] = a[j] /\ t[2 * j] = b[j]
  <2> SUFFICES ASSUME NEW j \in 1..(i + 1) PROVE t[2 * j - 1] = a[j] /\ t[2 * j] = b[j]
    OBVIOUS
  <2>1. CASE j \in 1..i
    BY <1>5, <2>1
  <2>2. CASE j = i + 1
    BY <1>2, <1>4, <2>2
  <2> QED
    BY <1>2, <2>1, <2>2
<1> QED
  BY <1>4, <1>6 DEF Alternates, t, u

\* Lists of two, put together, alternate.
LEMMA FlattenTwoEach ==
    ASSUME NEW S, NEW n \in Nat, NEW a, NEW b, \A i \in 1..n : a[i] \in S /\ b[i] \in S, NEW seqs,
           TwoEach(seqs, a, b, n)
    PROVE  FlattenSeq(seqs) \in Seq(S) /\ Alternates(FlattenSeq(seqs), a, b, n)
<1>1. /\ seqs \in Seq(Seq(S)) /\ Len(seqs) = n
      /\ \A i \in 1..n : seqs[i] = <<a[i], b[i]>>
  BY DEF TwoEach
<1>2. PICK F : Flattens(F, seqs, S) /\ FlattenSeq(seqs) = F[Len(seqs)]
  BY <1>1, FlattenSteps
<1>3. /\ F \in [0..n -> Seq(S)] /\ F[0] = <<>>
      /\ \A i \in 1..n : F[i] = F[i - 1] \o seqs[i]
  BY <1>1, <1>2 DEF Flattens
<1> DEFINE G == {i \in 0..n : Alternates(F[i], a, b, i)}
<1>4. 0 \in G
  BY <1>3 DEF Alternates
<1>5. ASSUME NEW i \in 0..(n - 1), i \in G PROVE i + 1 \in G
  <2>1. F[i] \in Seq(S) /\ Alternates(F[i], a, b, i) /\ i + 1 \in 1..n /\ (i + 1) - 1 = i
    BY <1>3, <1>5
  <2>2. Alternates(F[i] \o <<a[i + 1], b[i + 1]>>, a, b, i + 1)
    BY <2>1, AlternatesStep
  <2>3. F[i + 1] = F[i] \o seqs[i + 1] /\ seqs[i + 1] = <<a[i + 1], b[i + 1]>>
    BY <1>1, <1>3, <2>1
  <2>4. Alternates(F[i + 1], a, b, i + 1)
    BY <2>2, <2>3
  <2> QED
    BY <2>1, <2>4
<1> HIDE DEF G
<1>6. n \in G
  <2>1. \A i \in 0..n : i \in G
    BY <1>4, <1>5, Induction
  <2> QED
    BY <2>1
<1> QED
  BY <1>1, <1>2, <1>3, <1>6 DEF G

Properties == [key : Unencoded, value : Unencoded]

PropertiesWithout(ps, sep) == \A i \in 1..Len(ps) : Without(ps[i].key, sep) /\ Without(ps[i].value, sep)

\* The key of ps[i] is sent as ks[i], and its value as vs[i].
BothSent(C, sep, d, ps, ks, vs) ==
    \A i \in 1..Len(ps) : Sends(C, sep, d, ps[i].key, ks[i]) /\ Sends(C, sep, d, ps[i].value, vs[i])

ReadFlat(d, texts) ==
    [i \in 1..(Len(texts) \div 2) |-> [key |-> d[texts[2 * i - 1]], value |-> d[texts[2 * i]]]]

ReadKeyed(d, texts) ==
    [i \in DOMAIN texts |-> [key |-> d[KeyValue(texts[i]).key], value |-> d[KeyValue(texts[i]).value]]]

\* The places of a list that alternates.
LEMMA Odd ==
    ASSUME NEW n \in Nat, NEW j \in 1..(2 * n)
    PROVE  \E i \in 1..n : j = 2 * i - 1 \/ j = 2 * i
<1> WITNESS (j + 1) \div 2 \in 1..n
<1> QED
  OBVIOUS

LEMMA HalfPlaces ==
    ASSUME NEW l \in Nat, NEW n, l \div 2 = n
    PROVE  \A i \in 1..n : 2 * i - 1 \in 1..l /\ 2 * i \in 1..l
OBVIOUS

\* Two texts each are read as the properties, and one text each.
Halves(d, texts, ps) ==
    /\ Len(texts) \div 2 = Len(ps)
    /\ \A i \in 1..Len(ps) : ps[i].key = d[texts[2 * i - 1]] /\ ps[i].value = d[texts[2 * i]]

KeysAndValues(d, texts, ps) ==
    /\ Len(texts) = Len(ps)
    /\ \A i \in 1..Len(ps) : /\ ps[i].key = d[KeyValue(texts[i]).key]
                             /\ ps[i].value = d[KeyValue(texts[i]).value]

LEMMA FlatIs ==
    ASSUME NEW d, NEW texts, Len(texts) \in Nat, NEW ps \in Seq(Properties)
    PROVE  ReadFlat(d, texts) = ps <=> Halves(d, texts, ps)
<1> DEFINE r == ReadFlat(d, texts)
           n == Len(texts) \div 2
<1>1. n \in Nat
  OBVIOUS
<1>2. /\ DOMAIN r = 1..n /\ r = [i \in 1..n |-> r[i]]
      /\ \A i \in 1..n : r[i] = [key |-> d[texts[2 * i - 1]], value |-> d[texts[2 * i]]]
  BY DEF ReadFlat
<1>3. /\ DOMAIN ps = 1..Len(ps) /\ Len(ps) \in Nat /\ ps = [i \in 1..Len(ps) |-> ps[i]]
      /\ \A i \in 1..Len(ps) : ps[i] = [key |-> ps[i].key, value |-> ps[i].value]
  <2>1. \A i \in 1..Len(ps) : ps[i] \in Properties
    OBVIOUS
  <2>2. \A p \in Properties : p = [key |-> p.key, value |-> p.value]
    BY DEF Properties
  <2> QED
    BY <2>1, <2>2, SeqIsFunction
<1> HIDE DEF r, n
<1>4. ASSUME r = ps PROVE n = Len(ps) /\ \A i \in 1..Len(ps) : ps[i].key = d[texts[2 * i - 1]] /\ ps[i].value = d[texts[2 * i]]
  BY <1>1, <1>2, <1>3, <1>4
<1>5. ASSUME n = Len(ps), \A i \in 1..Len(ps) : ps[i].key = d[texts[2 * i - 1]] /\ ps[i].value = d[texts[2 * i]]
      PROVE  r = ps
  <2>1. \A i \in 1..n : r[i] = ps[i]
    BY <1>2, <1>3, <1>5
  <2> QED
    BY <1>2, <1>3, <1>5, <2>1
<1> QED
  BY <1>4, <1>5 DEF r, n, Halves

LEMMA KeyedIs ==
    ASSUME NEW C, NEW d, NEW texts \in Seq(C), NEW ps \in Seq(Properties)
    PROVE  ReadKeyed(d, texts) = ps <=> KeysAndValues(d, texts, ps)
<1> DEFINE r == ReadKeyed(d, texts)
           n == Len(texts)
<1>1. n \in Nat /\ DOMAIN texts = 1..n
  OBVIOUS
<1>2. /\ DOMAIN r = 1..n /\ r = [i \in 1..n |-> r[i]]
      /\ \A i \in 1..n : r[i] = [key |-> d[KeyValue(texts[i]).key], value |-> d[KeyValue(texts[i]).value]]
  BY <1>1 DEF ReadKeyed
<1>3. /\ DOMAIN ps = 1..Len(ps) /\ Len(ps) \in Nat /\ ps = [i \in 1..Len(ps) |-> ps[i]]
      /\ \A i \in 1..Len(ps) : ps[i] = [key |-> ps[i].key, value |-> ps[i].value]
  <2>1. \A i \in 1..Len(ps) : ps[i] \in Properties
    OBVIOUS
  <2>2. \A p \in Properties : p = [key |-> p.key, value |-> p.value]
    BY DEF Properties
  <2> QED
    BY <2>1, <2>2, SeqIsFunction
<1> HIDE DEF r, n
<1>4. ASSUME r = ps
      PROVE  n = Len(ps) /\ \A i \in 1..Len(ps) : /\ ps[i].key = d[KeyValue(texts[i]).key]
                                                  /\ ps[i].value = d[KeyValue(texts[i]).value]
  BY <1>1, <1>2, <1>3, <1>4
<1>5. ASSUME n = Len(ps), \A i \in 1..Len(ps) : /\ ps[i].key = d[KeyValue(texts[i]).key]
                                                 /\ ps[i].value = d[KeyValue(texts[i]).value]
      PROVE  r = ps
  <2>1. \A i \in 1..n : r[i] = ps[i]
    BY <1>2, <1>3, <1>5
  <2> QED
    BY <1>2, <1>3, <1>5, <2>1
<1> QED
  BY <1>4, <1>5 DEF r, n, KeysAndValues

\* An object whose keys and values are joined is read as it was meant exactly if none of
\* them has the separator in it.
LEMMA FlatRead ==
    ASSUME NEW C, NEW sep, NEW d, Channel(C, sep, d), NEW ps \in Seq(Properties), NEW ks, NEW vs,
           BothSent(C, sep, d, ps, ks, vs), NEW es \in Seq(Seq(C)), Alternates(es, ks, vs, Len(ps)),
           NEW texts, Rejoined(texts, es, sep)
    PROVE  ReadFlat(d, texts) = ps <=> PropertiesWithout(ps, sep)
<1> USE DEF Rejoined
<1> DEFINE n == Len(ps)
<1>1. n \in Nat /\ Len(es) = 2 * n /\ \A i \in 1..n : es[2 * i - 1] = ks[i] /\ es[2 * i] = vs[i]
  BY DEF Alternates
<1>2. Ch(sep) \in C /\ Join(es, sep) \in Seq(C)
  BY JoinEmpty DEF Channel
<1>3. /\ texts \in Seq(Seq(C)) /\ Len(texts) \in Nat
      /\ \A i \in 1..Len(texts) : Without(d[texts[i]], sep)
  BY <1>2, ReadWithout
<1>4. ASSUME ReadFlat(d, texts) = ps PROVE PropertiesWithout(ps, sep)
  <2>1. /\ Len(texts) \div 2 = n
        /\ \A i \in 1..n : ps[i].key = d[texts[2 * i - 1]] /\ ps[i].value = d[texts[2 * i]]
    <3>1. Halves(d, texts, ps)
      BY <1>3, <1>4, FlatIs
    <3> QED
      BY <3>1 DEF Halves
  <2>2. \A i \in 1..n : 2 * i - 1 \in 1..Len(texts) /\ 2 * i \in 1..Len(texts)
    BY <1>1, <1>3, <2>1, HalfPlaces
  <2> QED
    BY <1>3, <2>1, <2>2 DEF PropertiesWithout
<1>5. ASSUME PropertiesWithout(ps, sep) PROVE ReadFlat(d, texts) = ps
  <2> DEFINE a == [i \in 1..n |-> ps[i].key]
             b == [i \in 1..n |-> ps[i].value]
             two == [i \in 1..n |-> <<a[i], b[i]>>]
             ms == FlattenSeq(two)
  <2>1. \A i \in 1..n : a[i] = ps[i].key /\ b[i] = ps[i].value /\ a[i] \in Unencoded /\ b[i] \in Unencoded
    <3> SUFFICES ASSUME NEW i \in 1..n PROVE ps[i].key \in Unencoded /\ ps[i].value \in Unencoded
      OBVIOUS
    <3>1. ps[i] \in Properties
      OBVIOUS
    <3> HIDE DEF n
    <3> QED
      BY <3>1 DEF Properties
  <2>2. TwoEach(two, a, b, n)
    BY DEF TwoEach
  <2> HIDE DEF a, b, two
  <2>3. ms \in Seq(Unencoded) /\ Alternates(ms, a, b, n)
    BY <1>1, <2>1, <2>2, FlattenTwoEach
  <2> HIDE DEF ms
  <2>4. Len(ms) = 2 * n /\ \A i \in 1..n : ms[2 * i - 1] = ps[i].key /\ ms[2 * i] = ps[i].value
    BY <2>1, <2>3 DEF Alternates
  <2>5. AllSent(C, sep, d, ms, es)
    <3> SUFFICES ASSUME NEW j \in 1..(2 * n) PROVE Sends(C, sep, d, ms[j], es[j])
      BY <1>1, <2>4 DEF AllSent
    <3>1. PICK i \in 1..n : j = 2 * i - 1 \/ j = 2 * i
      BY <1>1, Odd
    <3>2. Sends(C, sep, d, ps[i].key, ks[i]) /\ Sends(C, sep, d, ps[i].value, vs[i])
      BY DEF BothSent
    <3> QED
      BY <1>1, <2>4, <3>1, <3>2
  <2>6. AllWithout(ms, sep)
    <3> SUFFICES ASSUME NEW j \in 1..(2 * n) PROVE Without(ms[j], sep)
      BY <2>4 DEF AllWithout
    <3>1. PICK i \in 1..n : j = 2 * i - 1 \/ j = 2 * i
      BY <1>1, Odd
    <3>2. Without(ps[i].key, sep) /\ Without(ps[i].value, sep)
      BY <1>5 DEF PropertiesWithout
    <3> QED
      BY <1>1, <2>4, <3>1, <3>2
  <2>7. ASSUME ms = << <<>> >> PROVE FALSE
    <3>1. Len(ms) = 1
      BY <2>7
    <3>2. \A k \in Nat : 2 * k # 1
      OBVIOUS
    <3> HIDE DEF n
    <3> QED
      BY <1>1, <2>4, <3>1, <3>2
  <2>8. texts = es /\ Each(d, es) = ms
    BY <2>3, <2>5, <2>6, <2>7, ReadAgain
  <2>9. Len(texts) \div 2 = n
    BY <1>1, <2>8
  <2>10. ASSUME NEW i \in 1..n PROVE ps[i].key = d[texts[2 * i - 1]] /\ ps[i].value = d[texts[2 * i]]
    <3>1. 2 * i - 1 \in DOMAIN es /\ 2 * i \in DOMAIN es
      BY <1>1
    <3>2. ms[2 * i - 1] = d[es[2 * i - 1]] /\ ms[2 * i] = d[es[2 * i]]
      BY <2>8, <3>1 DEF Each
    <3> QED
      BY <2>4, <2>8, <3>2
  <2>11. Halves(d, texts, ps)
    BY <2>9, <2>10 DEF Halves
  <2> QED
    BY <1>3, <2>11, FlatIs
<1> QED
  BY <1>4, <1>5

NoEquals(ks, n) == \A i \in 1..n : Without(ks[i], "=")

\* es has "key=value" for each property.
KeyedEach(es, ks, vs, n) == Len(es) = n /\ \A i \in 1..n : es[i] = KeyedText(ks[i], vs[i])

\* An exploded object is read as it was meant exactly if no key or value has the separator
\* in it.
LEMMA KeyedRead ==
    ASSUME NEW C, NEW sep, NEW d, Channel(C, sep, d), NEW ps \in Seq(Properties), NEW ks, NEW vs,
           BothSent(C, sep, d, ps, ks, vs), NoEquals(ks, Len(ps)),
           NEW es \in Seq(Seq(C)), KeyedEach(es, ks, vs, Len(ps)), NEW texts, Rejoined(texts, es, sep)
    PROVE  ReadKeyed(d, texts) = ps <=> PropertiesWithout(ps, sep)
<1> USE DEF Rejoined
<1> DEFINE n == Len(ps)
<1>1. n \in Nat /\ Len(es) = n /\ \A i \in 1..n : es[i] = KeyedText(ks[i], vs[i])
  BY DEF KeyedEach
<1>2. Ch(sep) \in C /\ Ch("=") \in C /\ sep # "=" /\ Join(es, sep) \in Seq(C)
  BY JoinEmpty DEF Channel
<1>3. /\ texts \in Seq(Seq(C)) /\ Len(texts) \in Nat
      /\ \A i \in 1..Len(texts) : texts[i] \in Seq(C) /\ Without(texts[i], sep)
  BY <1>2, ReadWithout
<1>4. ASSUME ReadKeyed(d, texts) = ps PROVE PropertiesWithout(ps, sep)
  <2>1. KeysAndValues(d, texts, ps)
    BY <1>3, <1>4, KeyedIs
  <2>2. /\ Len(texts) = n
        /\ \A i \in 1..n : ps[i].key = d[KeyValue(texts[i]).key] /\ ps[i].value = d[KeyValue(texts[i]).value]
    BY <2>1 DEF KeysAndValues
  <2>3. ASSUME NEW i \in 1..n PROVE Without(ps[i].key, sep) /\ Without(ps[i].value, sep)
    <3>1. texts[i] \in Seq(C) /\ Without(texts[i], sep)
      BY <1>3, <2>2
    <3> DEFINE kv == KeyValue(texts[i])
    <3>2. kv.key \in Seq(C) /\ kv.value \in Seq(C) /\ Without(kv.key, sep) /\ Without(kv.value, sep)
      BY <3>1, KeyValueType
    <3>3. Without(d[kv.key], sep) /\ Without(d[kv.value], sep)
      BY <3>2 DEF Channel
    <3> QED
      BY <2>2, <3>3
  <2> QED
    BY <2>3 DEF PropertiesWithout
<1>5. ASSUME PropertiesWithout(ps, sep) PROVE ReadKeyed(d, texts) = ps
  <2>1. ASSUME NEW i \in 1..n
        PROVE  /\ KeyValue(es[i]).key = ks[i] /\ KeyValue(es[i]).value = vs[i] /\ es[i] # <<>>
               /\ Without(es[i], sep) /\ ps[i].key = d[ks[i]] /\ ps[i].value = d[vs[i]]
    <3>1. Without(ps[i].key, sep) /\ Without(ps[i].value, sep)
      BY <1>5 DEF PropertiesWithout
    <3>2. Sends(C, sep, d, ps[i].key, ks[i]) /\ Sends(C, sep, d, ps[i].value, vs[i])
      BY DEF BothSent
    <3>3. /\ ks[i] \in Seq(C) /\ vs[i] \in Seq(C) /\ Without(ks[i], sep) /\ Without(vs[i], sep)
          /\ d[ks[i]] = ps[i].key /\ d[vs[i]] = ps[i].value
      BY <3>1, <3>2 DEF Sends
    <3>4. Without(ks[i], "=")
      BY DEF NoEquals
    <3> DEFINE t == KeyedText(ks[i], vs[i])
    <3>5. /\ KeyValue(t).key = ks[i] /\ KeyValue(t).value = vs[i] /\ t # <<>>
          /\ \A s : s # "=" => (Without(t, s) <=> Without(ks[i], s) /\ Without(vs[i], s))
      BY <1>2, <3>3, <3>4, KeyValueRead
    <3> HIDE DEF t
    <3>6. Without(t, sep)
      BY <1>2, <3>3, <3>5
    <3>7. es[i] = t
      BY <1>1 DEF t
    <3> QED
      BY <3>3, <3>5, <3>6, <3>7
  <2>2. AllWithout(es, sep)
    BY <1>1, <2>1 DEF AllWithout
  <2>3. ASSUME es = << <<>> >> PROVE FALSE
    <3>1. Len(es) = 1 /\ es[1] = <<>>
      BY <2>3
    <3>2. 1 \in 1..n
      BY <1>1, <3>1
    <3> QED
      BY <2>1, <3>1, <3>2
  <2>4. texts = es
    BY <1>2, <2>2, <2>3, SplitJoin
  <2>5. KeysAndValues(d, texts, ps)
    <3>1. \A i \in 1..n : ps[i].key = d[KeyValue(es[i]).key] /\ ps[i].value = d[KeyValue(es[i]).value]
      BY <2>1
    <3>2. KeysAndValues(d, es, ps)
      BY <1>1, <3>1 DEF KeysAndValues
    <3> QED
      BY <2>4, <3>2
  <2> QED
    BY <1>3, <2>5, KeyedIs
<1> QED
  BY <1>4, <1>5

ReadValues(d, texts) == [i \in DOMAIN texts |-> d[KeyValue(texts[i]).value]]

\* es has "name=value" for each text.
NamedEach(es, name, vs) == Len(es) = Len(vs) /\ \A i \in 1..Len(vs) : es[i] = KeyedText(name, vs[i])

\* A list that repeats a name is read as it was meant exactly if no text has the separator
\* in it.
LEMMA NamedRead ==
    ASSUME NEW C, NEW sep, NEW d, Channel(C, sep, d), NEW S, NEW ms \in Seq(S), NEW vs, AllSent(C, sep, d, ms, vs),
           NEW name \in Seq(C), Without(name, "="), Without(name, sep), NEW es \in Seq(Seq(C)),
           NamedEach(es, name, vs), NEW texts, Rejoined(texts, es, sep)
    PROVE  ReadValues(d, texts) = ms <=> AllWithout(ms, sep)
<1> USE DEF Rejoined
<1> DEFINE n == Len(ms)
<1>1. /\ n \in Nat /\ Len(vs) = n /\ Len(es) = n /\ DOMAIN ms = 1..n /\ ms = [i \in 1..n |-> ms[i]]
      /\ vs \in Seq(Seq(C)) /\ \A i \in 1..n : es[i] = KeyedText(name, vs[i]) /\ Sends(C, sep, d, ms[i], vs[i])
  BY SeqIsFunction DEF NamedEach, AllSent
<1>2. Ch(sep) \in C /\ Ch("=") \in C /\ sep # "=" /\ Join(es, sep) \in Seq(C)
  BY JoinEmpty DEF Channel
<1>3. /\ texts \in Seq(Seq(C)) /\ Len(texts) \in Nat /\ DOMAIN texts = 1..Len(texts)
      /\ \A i \in 1..Len(texts) : texts[i] \in Seq(C) /\ Without(texts[i], sep)
  BY <1>2, ReadWithout
<1> DEFINE r == ReadValues(d, texts)
<1>4. DOMAIN r = 1..Len(texts) /\ r = [i \in 1..Len(texts) |-> r[i]]
      /\ \A i \in 1..Len(texts) : r[i] = d[KeyValue(texts[i]).value]
  BY <1>3 DEF ReadValues
<1> HIDE DEF n, r
<1>5. ASSUME r = ms PROVE AllWithout(ms, sep)
  <2>1. Len(texts) = n
    BY <1>1, <1>3, <1>4, <1>5
  <2>2. ASSUME NEW i \in 1..n PROVE Without(ms[i], sep)
    <3>1. texts[i] \in Seq(C) /\ Without(texts[i], sep)
      BY <1>3, <2>1
    <3> DEFINE v == KeyValue(texts[i]).value
    <3>2. v \in Seq(C) /\ Without(v, sep)
      BY <3>1, KeyValueType
    <3>3. Without(d[v], sep)
      BY <3>2 DEF Channel
    <3> QED
      BY <1>4, <1>5, <2>1, <3>3
  <2> QED
    BY <2>2 DEF AllWithout, n
<1>6. ASSUME AllWithout(ms, sep) PROVE r = ms
  <2>1. ASSUME NEW i \in 1..n
        PROVE  KeyValue(es[i]).value = vs[i] /\ es[i] # <<>> /\ Without(es[i], sep) /\ ms[i] = d[vs[i]]
    <3>1. Without(ms[i], sep)
      BY <1>6 DEF AllWithout, n
    <3>2. vs[i] \in Seq(C) /\ Without(vs[i], sep) /\ d[vs[i]] = ms[i]
      BY <1>1, <3>1 DEF Sends
    <3> DEFINE t == KeyedText(name, vs[i])
    <3>3. /\ KeyValue(t).value = vs[i] /\ t # <<>>
          /\ \A s : s # "=" => (Without(t, s) <=> Without(name, s) /\ Without(vs[i], s))
      BY <1>2, <3>2, KeyValueRead
    <3> HIDE DEF t
    <3>4. Without(t, sep)
      BY <1>2, <3>2, <3>3
    <3>5. es[i] = t
      BY <1>1 DEF t
    <3> QED
      BY <3>2, <3>3, <3>4, <3>5
  <2>2. AllWithout(es, sep)
    BY <1>1, <2>1 DEF AllWithout
  <2>3. ASSUME es = << <<>> >> PROVE FALSE
    <3>1. Len(es) = 1 /\ es[1] = <<>>
      BY <2>3
    <3>2. 1 \in 1..n
      BY <1>1, <3>1
    <3> QED
      BY <2>1, <3>1, <3>2
  <2>4. texts = es
    BY <1>2, <2>2, <2>3, SplitJoin
  <2>5. Len(texts) = n /\ \A i \in 1..n : r[i] = ms[i]
    <3>1. Len(texts) = n
      BY <1>1, <2>4
    <3>2. ASSUME NEW i \in 1..n PROVE r[i] = ms[i]
      <4>1. i \in 1..Len(texts)
        BY <3>1
      <4>2. r[i] = d[KeyValue(es[i]).value]
        BY <1>4, <2>4, <4>1
      <4> QED
        BY <2>1, <4>2
    <3> QED
      BY <3>1, <3>2
  <2> QED
    BY <1>1, <1>4, <2>5
<1> QED
  BY <1>5, <1>6 DEF r

-----------------------------------------------------------------------------
(* What a parameter is serialized to *)

Delimiters == {",", " ", "|"}

\* The receiver of a header, or of a query that is decoded, takes texts as they are.
AsSent == [t \in Coded |-> t]

LEMMA ChannelAsSent ==
    ASSUME NEW sep \in Delimiters
    PROVE  Channel(Codes, sep, AsSent)
<1>1. \A x \in Reserved : Ch(x) \in Codes
  BY DEF Codes, Letters
<1>2. sep \in Reserved /\ "=" \in Reserved /\ sep # "="
  BY DEF Reserved, Delimiters
<1>3. AsSent \in [Coded -> Coded] /\ \A t \in Coded : AsSent[t] = t
  BY DEF AsSent
<1> QED
  BY <1>1, <1>2, <1>3 DEF Channel, Coded

\* Only the separator is escaped: a text without it is left as it is.
LEMMA EscapeText ==
    ASSUME NEW t \in Unencoded, NEW sep \in Reserved
    PROVE  /\ Escape(t, sep) \in Coded /\ Len(Escape(t, sep)) = Len(t)
           /\ Without(t, sep) => Escape(t, sep) = t
<1> DEFINE e == Escape(t, sep)
           n == Len(t)
<1>1. n \in Nat /\ DOMAIN t = 1..n /\ t = [i \in 1..n |-> t[i]] /\ \A i \in 1..n : \E x \in STRING : t[i] = Ch(x)
  BY RawText
<1>2. /\ e = [i \in 1..n |-> e[i]] /\ DOMAIN e = 1..n
      /\ \A i \in 1..n : e[i] = EscapeChar(t[i], sep)
  BY <1>1 DEF Escape
<1>3. EncodeChar(Ch(sep)) = <<sep, 1>> /\ <<sep, 1>> \in Codes /\ \A x \in STRING : Ch(x) \in Codes
  BY Characters DEF Codes, Letters
<1> HIDE DEF n, e
<1>4. \A i \in 1..n : e[i] \in Codes
  BY <1>1, <1>2, <1>3 DEF EscapeChar
<1>5. e \in Coded /\ Len(e) = n
  BY <1>1, <1>2, <1>4, FunctionIsSeq DEF Coded
<1>6. ASSUME Without(t, sep) PROVE e = t
  <2>1. \A i \in 1..n : t[i] # Ch(sep)
    BY <1>1, <1>6 DEF Without, ToSet
  <2>2. \A i \in 1..n : e[i] = t[i]
    BY <1>2, <2>1 DEF EscapeChar
  <2> QED
    BY <1>1, <1>2, <2>2
<1> QED
  BY <1>5, <1>6 DEF e, n

LEMMA EmptyLength ==
    ASSUME NEW S, NEW T, NEW s \in Seq(S), NEW t \in Seq(T), Len(s) = Len(t)
    PROVE  s = <<>> <=> t = <<>>
OBVIOUS

LEMMA RawCoded == Unencoded \subseteq Coded
BY RawText

LEMMA RawSent ==
    ASSUME NEW t \in Unencoded, NEW sep
    PROVE  Sends(Codes, sep, AsSent, t, t)
BY RawCoded DEF Sends, AsSent, Coded

LEMMA EscapeSent ==
    ASSUME NEW t \in Unencoded, NEW sep \in Reserved
    PROVE  Sends(Codes, sep, AsSent, t, Escape(t, sep))
<1> DEFINE e == Escape(t, sep)
<1>1. e \in Coded /\ Len(e) = Len(t) /\ (Without(t, sep) => e = t)
  BY EscapeText
<1> HIDE DEF e
<1>2. e = <<>> <=> t = <<>>
  BY <1>1, EmptyLength DEF Unencoded, Coded
<1>3. e \in Seq(Codes) /\ AsSent[e] = e
  BY <1>1 DEF AsSent, Coded
<1> QED
  BY <1>1, <1>2, <1>3 DEF Sends, e

LEMMA PlainType ==
    \A t \in Elements : PlainText(t) \in Unencoded /\ (t # Null => PlainText(t) = t)
<1>1. <<>> \in Unencoded
  BY DEF Unencoded
<1> QED
  BY <1>1 DEF Elements, PlainText

\* The properties that have a value.
LEMMA PresentType ==
    ASSUME NEW v, IsObject(v)
    PROVE  /\ Present(v) \in Seq(Properties)
           /\ \A i \in 1..Len(Present(v)) : Present(v)[i].key \in Keys /\ Present(v)[i].value \in Unencoded
<1> DEFINE there == {p \in ToSet(v.items) : p.value # Null}
<1>1. v.items \in Seq(KeyValues)
  BY DEF IsObject
<1>2. Present(v) \in Seq(KeyValues \cap there)
  BY <1>1, OnlyType DEF Present
<1>3. \A p \in KeyValues \cap there : p \in Properties /\ p.key \in Keys /\ p.value \in Unencoded
  BY DEF KeyValues, Properties, Elements, Keys
<1> HIDE DEF there
<1>4. \A i \in 1..Len(Present(v)) : Present(v)[i] \in KeyValues \cap there
  BY <1>2
<1>5. Present(v) \in Seq(Properties)
  BY <1>2, <1>3
<1> QED
  BY <1>3, <1>4, <1>5

Element(t, sep, path) == Escape(IF path THEN PathText(t) ELSE PlainText(t), sep)

KeysOf(ps) == [i \in 1..Len(ps) |-> ps[i].key]
ElementsOf(ps, sep, path) == [i \in 1..Len(ps) |-> Element(ps[i].value, sep, path)]

\* The parts of an object are over C.
PartsOver(C, ps, sep, path) ==
    \A i \in 1..Len(ps) : ps[i].key \in Seq(C) /\ Element(ps[i].value, sep, path) \in Seq(C)

OneEach(seqs, s) == seqs = [i \in 1..Len(s) |-> <<s[i]>>]

LEMMA FlattenOnes ==
    ASSUME NEW S, NEW s \in Seq(S), NEW seqs, OneEach(seqs, s)
    PROVE  FlattenSeq(seqs) = s
<1> DEFINE g == [x \in S |-> x]
           all == [i \in 1..Len(s) |-> IF s[i] \in S THEN <<g[s[i]]>> ELSE <<>>]
<1>1. \A i \in 1..Len(s) : s[i] \in S /\ g[s[i]] = s[i]
  OBVIOUS
<1>2. seqs = all
  <2>1. seqs = [i \in 1..Len(s) |-> seqs[i]] /\ \A i \in 1..Len(s) : seqs[i] = <<s[i]>>
    BY DEF OneEach
  <2>2. \A i \in 1..Len(s) : seqs[i] = all[i]
    BY <1>1, <2>1
  <2>3. all = [i \in 1..Len(s) |-> all[i]]
    OBVIOUS
  <2> HIDE DEF all
  <2> QED
    BY <2>1, <2>2, <2>3
<1>3. OneOrNone(seqs, s, S, g)
  BY <1>2 DEF OneOrNone
<1>4. g \in Mappings(S, S)
  BY DEF Mappings
<1> HIDE DEF g
<1>5. FlattenSeq(seqs) = Each(g, Only(s, S))
  BY <1>3, <1>4, FlattenOnly
<1>6. Only(s, S) = s
  BY <1>1, OnlyAll
<1>7. Each(g, s) = s
  <2> DEFINE r == Each(g, s)
  <2>1. r = [i \in 1..Len(s) |-> r[i]] /\ (\A i \in 1..Len(s) : r[i] = s[i]) /\ s = [i \in 1..Len(s) |-> s[i]]
    BY <1>1, SeqIsFunction DEF Each
  <2> HIDE DEF r
  <2>2. r = s
    BY <2>1
  <2> QED
    BY <2>2 DEF r
<1> QED
  BY <1>5, <1>6, <1>7

SerializedParts(es, ks, vs, n, explode) ==
    IF explode THEN KeyedEach(es, ks, vs, n) ELSE Alternates(es, ks, vs, n)

\* An object is serialized to its keys and escaped values, joined.
LEMMA ObjectSerialized ==
    ASSUME NEW v, IsObject(v), v.kind = "object", NEW sep, NEW explode \in BOOLEAN, NEW path \in BOOLEAN, NEW C, Ch("=") \in C,
           PartsOver(C, Present(v), sep, path)
    PROVE  \E es : /\ es \in Seq(Seq(C)) /\ Serialize(v, sep, explode, path) = Join(es, sep)
                   /\ SerializedParts(es, KeysOf(Present(v)), ElementsOf(Present(v), sep, path),
                                      Len(Present(v)), explode)
<1> DEFINE ps == Present(v)
           n == Len(ps)
           ks == KeysOf(ps)
           vs == ElementsOf(ps, sep, path)
<1>1. n \in Nat /\ DOMAIN ps = 1..n
  BY PresentType
<1>2. \A i \in 1..n : /\ ks[i] = ps[i].key /\ vs[i] = Element(ps[i].value, sep, path)
                      /\ ks[i] \in Seq(C) /\ vs[i] \in Seq(C)
  BY DEF KeysOf, ElementsOf, PartsOver
<1> DEFINE PropertyOf(p) == IF explode THEN <<p.key \o <<Ch("=")>> \o Element(p.value, sep, path)>>
                            ELSE <<p.key, Element(p.value, sep, path)>>
           seqs == [i \in 1..n |-> PropertyOf(ps[i])]
           es == FlattenSeq(seqs)
<1>3. Serialize(v, sep, explode, path) = Join(es, sep)
  <2>1. Serialize(v, sep, explode, path) = Join(FlattenSeq([i \in DOMAIN ps |-> PropertyOf(ps[i])]), sep)
    BY Zenon DEF Serialize, Element
  <2> QED
    BY <1>1, <2>1
<1>4. CASE explode
  <2> DEFINE t == [i \in 1..n |-> KeyedText(ks[i], vs[i])]
  <2>1. \A i \in 1..n : KeyedText(ks[i], vs[i]) \in Seq(C)
    <3> TAKE i \in 1..n
    <3> HIDE DEF ks, vs
    <3> QED
      BY <1>2 DEF KeyedText
  <2>2. t \in Seq(Seq(C)) /\ Len(t) = n /\ \A i \in 1..n : t[i] = KeyedText(ks[i], vs[i])
    BY <1>1, <2>1
  <2>3. \A i \in 1..n : PropertyOf(ps[i]) = <<t[i]>>
    BY <1>2, <1>4, <2>2 DEF KeyedText
  <2>4. OneEach(seqs, t)
    BY <2>2, <2>3 DEF OneEach
  <2> HIDE DEF t, seqs, n, ks, vs
  <2>5. es = t
    BY <2>2, <2>4, FlattenOnes
  <2>6. KeyedEach(es, ks, vs, n)
    BY <2>2, <2>5 DEF KeyedEach
  <2> QED
    BY <1>3, <1>4, <2>2, <2>5, <2>6 DEF SerializedParts, n, ks, vs
<1>5. CASE ~explode
  <2>1. TwoEach(seqs, ks, vs, n)
    <3>1. \A i \in 1..n : PropertyOf(ps[i]) = <<ks[i], vs[i]>>
      BY <1>2, <1>5
    <3> QED
      BY <3>1 DEF TwoEach
  <2> HIDE DEF seqs, n, ks, vs
  <2>2. es \in Seq(Seq(C)) /\ Alternates(es, ks, vs, n)
    BY <1>1, <1>2, <2>1, FlattenTwoEach
  <2> QED
    BY <1>3, <1>5, <2>2 DEF SerializedParts, n, ks, vs
<1> QED
  BY <1>4, <1>5

-----------------------------------------------------------------------------
(* What a receiver should read *)

LEMMA MeantList ==
    ASSUME NEW v, v.kind = "list", v.items \in Seq(Elements), NEW sep
    PROVE  /\ Meant(v) = PlainTexts(v.items)
           /\ Joinable(v, sep) <=> Meant(v) # << <<>> >> /\ AllWithout(Meant(v), sep)
<1>1. Meant(v) = PlainTexts(v.items)
  BY DEF Meant, PlainTexts
<1>2. Texts(v) = ToSet(Meant(v))
  BY DEF Texts
<1> DEFINE ms == Meant(v)
<1>3. ms \in Seq(Unencoded)
  BY <1>1, PlainTextsType
<1> HIDE DEF ms
<1>4. (\A t \in ToSet(ms) : Without(t, sep)) <=> AllWithout(ms, sep)
  BY <1>3 DEF ToSet, AllWithout
<1> QED
  BY <1>1, <1>2, <1>4 DEF Joinable, ms

LEMMA MeantObject ==
    ASSUME NEW v, v.kind = "object", IsObject(v), NEW sep
    PROVE  Meant(v) = Present(v) /\ (Joinable(v, sep) <=> PropertiesWithout(Present(v), sep))
<1> DEFINE ps == Present(v)
<1>1. Meant(v) = ps
  BY DEF Meant
<1>2. Texts(v) = UNION {{p.key, p.value} : p \in ToSet(ps)}
  BY <1>1 DEF Texts
<1>3. ps \in Seq(Properties)
  BY PresentType
<1> HIDE DEF ps
<1>4. ToSet(ps) = {ps[i] : i \in 1..Len(ps)}
  BY <1>3 DEF ToSet
<1>5. (\A t \in Texts(v) : Without(t, sep)) <=> PropertiesWithout(ps, sep)
  BY <1>2, <1>4 DEF PropertiesWithout
<1> QED
  BY <1>1, <1>5 DEF Joinable, ps

\* The reader that takes texts as they are.
LEMMA ReadAsSent ==
    ASSUME NEW texts \in Seq(Coded), NEW explode \in BOOLEAN
    PROVE  /\ Read("list", texts, explode, AsItIs) = Each(AsSent, texts)
           /\ Read("object", texts, TRUE, AsItIs) = ReadKeyed(AsSent, texts)
           /\ Read("object", texts, FALSE, AsItIs) = ReadFlat(AsSent, texts)
<1>1. \A t \in Coded : AsSent[t] = t
  BY DEF AsSent
<1>2. \A i \in DOMAIN texts : texts[i] \in Coded
  OBVIOUS
<1>3. Len(texts) \in Nat /\ DOMAIN texts = 1..Len(texts)
  OBVIOUS
<1>4. Read("list", texts, explode, AsItIs) = Each(AsSent, texts)
  <2>1. Read("list", texts, explode, AsItIs) = [i \in DOMAIN texts |-> texts[i]]
    BY DEF Read, AsItIs
  <2> QED
    BY <1>1, <1>2, <2>1 DEF Each
<1>5. Read("object", texts, TRUE, AsItIs) = ReadKeyed(AsSent, texts)
  <2>1. Read("object", texts, TRUE, AsItIs) =
          [i \in DOMAIN texts |-> [key |-> KeyValue(texts[i]).key, value |-> KeyValue(texts[i]).value]]
    BY DEF Read, AsItIs
  <2>2. ASSUME NEW i \in DOMAIN texts
        PROVE  AsSent[KeyValue(texts[i]).key] = KeyValue(texts[i]).key /\ AsSent[KeyValue(texts[i]).value] = KeyValue(texts[i]).value
    <3>1. KeyValue(texts[i]).key \in Seq(Codes) /\ KeyValue(texts[i]).value \in Seq(Codes)
      BY <1>2, KeyValueType DEF Coded
    <3> QED
      BY <1>1, <3>1 DEF Coded
  <2> QED
    BY <2>1, <2>2 DEF ReadKeyed
<1>6. Read("object", texts, FALSE, AsItIs) = ReadFlat(AsSent, texts)
  <2>1. Read("object", texts, FALSE, AsItIs) =
          [i \in 1..(Len(texts) \div 2) |-> [key |-> texts[2 * i - 1], value |-> texts[2 * i]]]
    BY DEF Read, AsItIs
  <2>2. ASSUME NEW i \in 1..(Len(texts) \div 2)
        PROVE  AsSent[texts[2 * i - 1]] = texts[2 * i - 1] /\ AsSent[texts[2 * i]] = texts[2 * i]
    <3>1. 2 * i - 1 \in 1..Len(texts) /\ 2 * i \in 1..Len(texts)
      BY <1>3
    <3> QED
      BY <1>1, <1>2, <1>3, <3>1
  <2> QED
    BY <2>1, <2>2 DEF ReadFlat
<1> QED
  BY <1>4, <1>5, <1>6

LEMMA JoinOne ==
    ASSUME NEW C, NEW t \in Seq(C), NEW sep
    PROVE  Join(<<t>>, sep) = t
<1> DEFINE s == <<t>>
<1>1. [i \in DOMAIN s |-> IF i = 1 THEN s[i] ELSE <<Ch(sep)>> \o s[i]] = <<t>>
  OBVIOUS
<1>2. FlattenSeq(<<t>>) = t
  BY FlattenFew
<1> QED
  BY <1>1, <1>2 DEF Join

\* The keys and values of an object are sent, for a receiver that takes texts as they are.
LEMMA ObjectPartsSent ==
    ASSUME NEW v, IsObject(v), NEW sep \in Reserved, NEW ps, ps = Present(v)
    PROVE  /\ PartsOver(Codes, ps, sep, FALSE) /\ NoEquals(KeysOf(ps), Len(ps))
           /\ BothSent(Codes, sep, AsSent, ps, KeysOf(ps), ElementsOf(ps, sep, FALSE))
<1>1. ASSUME NEW i \in 1..Len(ps)
      PROVE  /\ KeysOf(ps)[i] = ps[i].key /\ ElementsOf(ps, sep, FALSE)[i] = Element(ps[i].value, sep, FALSE)
             /\ Sends(Codes, sep, AsSent, ps[i].key, ps[i].key) /\ Without(ps[i].key, "=")
             /\ Sends(Codes, sep, AsSent, ps[i].value, Element(ps[i].value, sep, FALSE))
  <2>1. ps[i].key \in Keys /\ ps[i].value \in Unencoded
    BY PresentType
  <2>2. ps[i].key \in Unencoded /\ Without(ps[i].key, "=")
    BY <2>1 DEF Keys
  <2>3. Element(ps[i].value, sep, FALSE) = Escape(ps[i].value, sep)
    BY <2>1, NameAssumption DEF Element, PlainText
  <2>4. Sends(Codes, sep, AsSent, ps[i].value, Escape(ps[i].value, sep))
    BY <2>1, EscapeSent
  <2>5. Sends(Codes, sep, AsSent, ps[i].key, ps[i].key)
    BY <2>2, RawSent
  <2> QED
    BY <2>2, <2>3, <2>4, <2>5 DEF KeysOf, ElementsOf
<1>2. PartsOver(Codes, ps, sep, FALSE)
  BY <1>1 DEF PartsOver, Sends
<1>3. NoEquals(KeysOf(ps), Len(ps))
  BY <1>1 DEF NoEquals
<1>4. BothSent(Codes, sep, AsSent, ps, KeysOf(ps), ElementsOf(ps, sep, FALSE))
  BY <1>1 DEF BothSent
<1> QED
  BY <1>2, <1>3, <1>4

PlainSerialize(v, sep, explode) == Serialize(v, sep, explode, FALSE)

\* An object that is sent as one text is read as it was meant exactly if no part of it has
\* the separator in it.
LEMMA ObjectRead ==
    ASSUME NEW v, IsObject(v), v.kind = "object", NEW sep \in Delimiters, NEW explode \in BOOLEAN, NEW t,
           t = PlainSerialize(v, sep, explode), NEW texts, texts = Split(t, sep)
    PROVE  t \in Coded /\ (Read("object", texts, explode, AsItIs) = Meant(v) <=> Joinable(v, sep))
<1> DEFINE ps == Present(v)
           ks == KeysOf(ps)
           vs == ElementsOf(ps, sep, FALSE)
<1>1. Channel(Codes, sep, AsSent)
  BY ChannelAsSent
<1>2. Ch(sep) \in Codes /\ Ch("=") \in Codes
  BY <1>1 DEF Channel
<1>3. sep \in Reserved
  BY DEF Reserved, Delimiters
<1>4. BothSent(Codes, sep, AsSent, ps, ks, vs)
  BY <1>3, ObjectPartsSent
<1>13. NoEquals(ks, Len(ps))
  BY <1>3, ObjectPartsSent
<1>14. PartsOver(Codes, ps, sep, FALSE)
  BY <1>3, ObjectPartsSent
<1>5. PICK es : /\ es \in Seq(Seq(Codes)) /\ t = Join(es, sep)
                /\ SerializedParts(es, ks, vs, Len(ps), explode)
  BY <1>2, <1>14, ObjectSerialized DEF PlainSerialize
<1>15. es \in Seq(Seq(Codes))
  BY <1>5
<1>6. ps \in Seq(Properties)
  BY PresentType
<1>7. Meant(v) = ps /\ (Joinable(v, sep) <=> PropertiesWithout(ps, sep))
  BY MeantObject
<1> HIDE DEF ps, ks, vs
<1>8. t \in Seq(Codes)
  BY <1>2, <1>5, JoinEmpty
<1>9. texts \in Seq(Seq(Codes)) /\ Rejoined(texts, es, sep)
  BY <1>1, <1>5, <1>8, ReadWithout DEF Rejoined
<1>10. texts \in Seq(Coded)
  BY <1>9 DEF Coded
<1>11. CASE explode
  <2>1. KeyedEach(es, ks, vs, Len(ps))
    BY <1>5, <1>11 DEF SerializedParts
  <2>2. ReadKeyed(AsSent, texts) = ps <=> PropertiesWithout(ps, sep)
    BY <1>1, <1>4, <1>13, <1>15, <1>6, <1>9, <2>1, KeyedRead
  <2>3. Read("object", texts, TRUE, AsItIs) = ReadKeyed(AsSent, texts)
    BY <1>10, ReadAsSent
  <2>4. explode = TRUE
    BY <1>11
  <2> QED
    BY <1>7, <1>8, <2>2, <2>3, <2>4 DEF Coded
<1>12. CASE ~explode
  <2>1. Alternates(es, ks, vs, Len(ps))
    BY <1>5, <1>12 DEF SerializedParts
  <2>2. ReadFlat(AsSent, texts) = ps <=> PropertiesWithout(ps, sep)
    BY <1>1, <1>4, <1>15, <1>6, <1>9, <2>1, FlatRead
  <2>3. Read("object", texts, FALSE, AsItIs) = ReadFlat(AsSent, texts)
    BY <1>10, ReadAsSent
  <2>4. explode = FALSE
    BY <1>12
  <2> QED
    BY <1>7, <1>8, <2>2, <2>3, <2>4 DEF Coded
<1> QED
  BY <1>11, <1>12

\* A list whose texts are sent is read as it was meant exactly if it can be joined.
LEMMA SentListRead ==
    ASSUME NEW v, v.kind = "list", v.items \in Seq(Elements), NEW sep \in Delimiters, NEW explode \in BOOLEAN,
           NEW es, AllSent(Codes, sep, AsSent, PlainTexts(v.items), es), NEW texts, Rejoined(texts, es, sep)
    PROVE  Read("list", texts, explode, AsItIs) = Meant(v) <=> Joinable(v, sep)
<1> DEFINE ms == PlainTexts(v.items)
<1>1. Channel(Codes, sep, AsSent)
  BY ChannelAsSent
<1>2. ms \in Seq(Unencoded)
  BY PlainTextsType
<1>3. AllSent(Codes, sep, AsSent, ms, es)
  OBVIOUS
<1>4. Meant(v) = ms /\ (Joinable(v, sep) <=> ms # << <<>> >> /\ AllWithout(ms, sep))
  BY MeantList
<1> HIDE DEF ms
<1>5. Each(AsSent, texts) = ms <=> ms # << <<>> >> /\ AllWithout(ms, sep)
  BY <1>1, <1>2, <1>3, ListRead
<1>6. Ch(sep) \in Codes /\ es \in Seq(Seq(Codes))
  BY <1>1, <1>3 DEF Channel, AllSent
<1>7. Join(es, sep) \in Seq(Codes)
  BY <1>6, JoinEmpty
<1>8. texts \in Seq(Coded)
  BY <1>1, <1>7, ReadWithout DEF Coded, Rejoined
<1>9. Read("list", texts, explode, AsItIs) = Each(AsSent, texts)
  BY <1>8, ReadAsSent
<1> QED
  BY <1>4, <1>5, <1>9

-----------------------------------------------------------------------------
(* The header *)

TextsOf(pairs) == [i \in DOMAIN pairs |-> pairs[i].text]

LEMMA TextsOfNamed ==
    ASSUME NEW S, NEW texts \in Seq(S), NEW name
    PROVE  TextsOf(TextsNamed(name, texts)) = texts
<1> DEFINE r == TextsOf(TextsNamed(name, texts))
<1>1. DOMAIN r = DOMAIN texts /\ r = [i \in DOMAIN texts |-> r[i]] /\ \A i \in DOMAIN texts : r[i] = texts[i]
  BY DEF TextsOf, TextsNamed, Pair
<1>2. texts = [i \in DOMAIN texts |-> texts[i]]
  OBVIOUS
<1> HIDE DEF r
<1>3. r = texts
  BY <1>1, <1>2
<1> QED
  BY <1>3 DEF r

LEMMA TextsOfFew == TextsOf(<<>>) = <<>> /\ \A n, t : TextsOf(<<Pair(n, t)>>) = <<t>>
BY DEF TextsOf, Pair

LEMMA OptionTypes ==
    ASSUME NEW kind \in {"path", "query", "header"}, NEW a, IsAsked(kind, a)
    PROVE  /\ a.options.explode \in BOOLEAN \cup {Null}
           /\ Explode(a, FALSE) \in BOOLEAN /\ Explode(a, TRUE) \in BOOLEAN
<1>1. a.options.explode \in BOOLEAN \cup {Null}
  BY OptionAssumption DEF IsAsked
<1> QED
  BY <1>1 DEF Explode, OptionOr

LEMMA HeaderFieldsOf ==
    \A a : HeaderOf(a).value = a.value /\ HeaderOf(a).explode = Explode(a, FALSE)
BY DEF HeaderOf, HeaderParameter, Param, Explode, OptionOr

\* The reader of a header.
ReadHeader(a, own) == Read(a.value.kind, Split(Join(own, ","), ","), Explode(a, FALSE), AsItIs)

\* A header that is read of its texts.
LEMMA HeaderRead ==
    ASSUME NEW a, IsAsked("header", a), NEW own, own = TextsOf(HeaderPairs(HeaderOf(a)))
    PROVE  /\ a.value.kind = "null" => own = <<>>
           /\ a.value.kind = "text" => own = <<a.value.text>>
           /\ a.value.kind \in {"list", "object"} => (ReadHeader(a, own) = Meant(a.value) <=> Joinable(a.value, ","))
<1> DEFINE pairs == HeaderPairs(HeaderOf(a))
           v == a.value
           explode == Explode(a, FALSE)
<1>1. v \in Values /\ explode \in BOOLEAN /\ HeaderOf(a).explode = explode
  BY OptionTypes, HeaderFieldsOf DEF IsAsked
<1>2. /\ v.kind = "null" => pairs = <<>>
      /\ v.kind = "list" => pairs = TextsNamed(Name, PlainTexts(v.items))
      /\ v.kind \in {"text", "object"} => pairs = <<Pair(Name, Serialize(v, ",", explode, FALSE))>>
  BY <1>1, AskedHeader
<1>3. CASE v.kind = "null"
  BY <1>2, <1>3, TextsOfFew
<1>4. CASE v.kind = "text"
  <2>1. v.text \in Unencoded
    BY <1>1, <1>4, ValueKinds
  <2>2. Serialize(v, ",", explode, FALSE) = v.text
    BY <1>4, <2>1, NameAssumption DEF Serialize, PlainText
  <2> QED
    BY <1>2, <1>4, <2>2, TextsOfFew
<1>5. CASE v.kind = "list"
  <2> DEFINE ms == PlainTexts(v.items)
             sep == ","
  <2>1. v.items \in Seq(Elements)
    BY <1>1, <1>5, ValueKinds
  <2>2. ms \in Seq(Unencoded)
    BY <2>1, PlainTextsType
  <2>3. own = ms
    BY <1>2, <1>5, <2>2, TextsOfNamed
  <2>4. sep \in Delimiters
    BY DEF Delimiters
  <2> HIDE DEF sep
  <2>5. AllSent(Codes, sep, AsSent, ms, ms)
    <3>1. ms \in Seq(Seq(Codes))
      BY <2>2, RawCoded DEF Coded
    <3> HIDE DEF ms
    <3>2. \A i \in 1..Len(ms) : Sends(Codes, sep, AsSent, ms[i], ms[i])
      BY <2>2, RawSent
    <3> QED
      BY <3>1, <3>2 DEF AllSent
  <2> DEFINE texts == Split(Join(ms, sep), sep)
  <2>6. Rejoined(texts, ms, sep)
    BY DEF Rejoined
  <2> HIDE DEF texts
  <2>7. Read("list", texts, explode, AsItIs) = Meant(v) <=> Joinable(v, sep)
    <3> HIDE DEF ms, explode, v
    <3>1. explode \in BOOLEAN
      BY <1>1
    <3> QED
      BY <1>5, <2>1, <2>4, <2>5, <2>6, <3>1, SentListRead DEF ms
  <2> QED
    BY <1>5, <2>3, <2>7 DEF sep, texts, ReadHeader
<1>6. CASE v.kind = "object"
  <2> DEFINE sep == ","
             t == PlainSerialize(v, sep, explode)
  <2>1. IsObject(v)
    BY <1>1, <1>6, ValueKinds
  <2>2. sep \in Delimiters
    BY DEF Delimiters
  <2>3. own = <<t>>
    BY <1>2, <1>6, TextsOfFew DEF PlainSerialize
  <2> HIDE DEF sep, t
  <2> DEFINE texts == Split(t, sep)
  <2>6. t = PlainSerialize(v, sep, explode)
    BY DEF t
  <2>7. texts = Split(t, sep) /\ explode \in BOOLEAN
    BY <1>1
  <2> HIDE DEF texts, explode, v
  <2>4. t \in Coded /\ (Read("object", texts, explode, AsItIs) = Meant(v) <=> Joinable(v, sep))
    BY <1>6, <2>1, <2>2, <2>6, <2>7, ObjectRead
  <2>5. Join(own, sep) = t
    BY <2>3, <2>4, JoinOne DEF Coded
  <2> QED
    BY <1>6, <2>4, <2>5, <2>7 DEF sep, ReadHeader, explode, v
<1> QED
  BY <1>1, <1>3, <1>4, <1>5, <1>6

\* What is built of an invariant state has the header.
LEMMA HeaderKept == CallerInv => HeaderRecovered
<1> SUFFICES ASSUME CallerInv, Built, asked["header"] # Null PROVE HeaderRecovered
  BY DEF HeaderRecovered
<1> DEFINE a == asked["header"]
           own == Only(request.headers, Named(request.headers, Name))
<1>1. IsAsked("header", a) /\ builder.header = <<HeaderOf(a)>>
  BY DEF CallerInv, HeaderHeld
<1>2. own = HeldPairs
  BY RequestHeaders
<1>3. builder.header # <<>>
  BY <1>1
<1>4. own = HeaderPairs(HeaderOf(a))
  BY <1>2, <1>3 DEF HeldPairs
<1>5. HeaderTexts = TextsOf(own)
  BY DEF HeaderTexts, TextsOf, Named
<1>6. HeaderTexts = TextsOf(HeaderPairs(HeaderOf(a)))
  BY <1>4, <1>5
<1> HIDE DEF a
<1>7. /\ a.value.kind = "null" => HeaderTexts = <<>>
      /\ a.value.kind = "text" => HeaderTexts = <<a.value.text>>
      /\ a.value.kind \in {"list", "object"} =>
            (ReadHeader(a, HeaderTexts) = Meant(a.value) <=> Joinable(a.value, ","))
  BY <1>1, <1>6, HeaderRead
<1>8. a.value.kind \in {"null", "text", "list", "object"}
  BY <1>1, ValueKinds DEF IsAsked
<1> QED
  BY <1>7, <1>8 DEF HeaderRecovered, ReadHeader, a

-----------------------------------------------------------------------------
(* The query *)

\* items, each escaped.
Escaped(items, sep) == [i \in DOMAIN items |-> Escape(PlainText(items[i]), sep)]

LEMMA EscapedSent ==
    ASSUME NEW items \in Seq(Elements), NEW sep \in Reserved
    PROVE  AllSent(Codes, sep, AsSent, PlainTexts(items), Escaped(items, sep))
<1> DEFINE ms == PlainTexts(items)
           es == Escaped(items, sep)
           n == Len(items)
<1>1. /\ n \in Nat /\ DOMAIN items = 1..n /\ ms \in Seq(Unencoded) /\ Len(ms) = n
      /\ \A i \in 1..n : ms[i] \in Unencoded
  BY PlainTextsType
<1>2. /\ DOMAIN es = 1..n /\ es = [i \in 1..n |-> es[i]]
      /\ \A i \in 1..n : es[i] = Escape(ms[i], sep)
  BY <1>1 DEF Escaped, PlainTexts
<1> HIDE DEF n, ms, es
<1>3. \A i \in 1..n : Sends(Codes, sep, AsSent, ms[i], es[i])
  BY <1>1, <1>2, EscapeSent
<1>4. \A i \in 1..n : es[i] \in Seq(Codes)
  BY <1>3 DEF Sends
<1>5. es \in Seq(Seq(Codes)) /\ Len(es) = n
  BY <1>1, <1>2, <1>4, FunctionIsSeq
<1> QED
  BY <1>1, <1>3, <1>5 DEF AllSent, ms, es

LEMMA ListSerialized ==
    ASSUME NEW v, v.kind = "list", NEW sep
    PROVE  Serialize(v, sep, FALSE, FALSE) = Join(Escaped(v.items, sep), sep)
BY Zenon DEF Serialize, Escaped

\* Keys and values of an object, one after the other.
FlatOf(ps) == FlattenSeq([i \in DOMAIN ps |-> <<ps[i].key, ps[i].value>>])

ValuesOf(ps) == [i \in 1..Len(ps) |-> ps[i].value]

LEMMA FlatAlternates ==
    ASSUME NEW ps \in Seq(Properties)
    PROVE  FlatOf(ps) \in Seq(Unencoded) /\ Alternates(FlatOf(ps), KeysOf(ps), ValuesOf(ps), Len(ps))
<1> DEFINE n == Len(ps)
           seqs == [i \in DOMAIN ps |-> <<ps[i].key, ps[i].value>>]
           ks == KeysOf(ps)
           vs == ValuesOf(ps)
<1>1. n \in Nat /\ DOMAIN ps = 1..n /\ \A i \in 1..n : ps[i] \in Properties
  OBVIOUS
<1>2. \A i \in 1..n : ks[i] = ps[i].key /\ vs[i] = ps[i].value /\ ks[i] \in Unencoded /\ vs[i] \in Unencoded
  BY <1>1 DEF KeysOf, ValuesOf, Properties
<1>3. TwoEach(seqs, ks, vs, n)
  BY <1>1, <1>2 DEF TwoEach
<1> HIDE DEF n, seqs, ks, vs
<1>4. FlattenSeq(seqs) \in Seq(Unencoded) /\ Alternates(FlattenSeq(seqs), ks, vs, n)
  BY <1>1, <1>2, <1>3, FlattenTwoEach
<1> QED
  BY <1>4 DEF FlatOf, n, seqs, ks, vs

\* An object whose keys and values are joined like a list.
LEMMA FlatObjectRead ==
    ASSUME NEW v, IsObject(v), v.kind = "object", NEW sep \in Delimiters, NEW es,
           es = Escaped(FlatOf(Present(v)), sep), NEW texts, Rejoined(texts, es, sep)
    PROVE  /\ es \in Seq(Seq(Codes))
           /\ Read("object", texts, FALSE, AsItIs) = Meant(v) <=> Joinable(v, sep)
<1> DEFINE ps == Present(v)
           n == Len(ps)
           flat == FlatOf(ps)
           ks == [i \in 1..n |-> Escape(ps[i].key, sep)]
           vs == [i \in 1..n |-> Escape(ps[i].value, sep)]
<1>1. ps \in Seq(Properties) /\ \A i \in 1..n : ps[i].key \in Unencoded /\ ps[i].value \in Unencoded
  BY PresentType DEF Keys
<1>2. n \in Nat
  BY <1>1
<1>3. Meant(v) = ps /\ (Joinable(v, sep) <=> PropertiesWithout(ps, sep))
  BY MeantObject
<1>4. sep \in Reserved /\ Channel(Codes, sep, AsSent)
  BY ChannelAsSent DEF Reserved, Delimiters
<1>5. flat \in Seq(Unencoded) /\ Alternates(flat, KeysOf(ps), ValuesOf(ps), n)
  BY <1>1, FlatAlternates
<1> HIDE DEF ps, flat
<1>6. Len(flat) = 2 * n /\ \A i \in 1..n : flat[2 * i - 1] = ps[i].key /\ flat[2 * i] = ps[i].value
  BY <1>2, <1>5 DEF Alternates, KeysOf, ValuesOf
<1> HIDE DEF n
<1>7. flat \in Seq(Elements) /\ PlainTexts(flat) = flat
  <2>1. flat \in Seq(Elements)
    BY <1>5 DEF Elements
  <2>2. \A i \in DOMAIN flat : PlainText(flat[i]) = flat[i]
    <3>1. \A i \in DOMAIN flat : flat[i] \in Unencoded
      BY <1>5
    <3> QED
      BY <3>1, NameAssumption DEF PlainText
  <2>3. flat = [i \in DOMAIN flat |-> flat[i]]
    BY <1>5
  <2> QED
    BY <2>1, <2>2, <2>3 DEF PlainTexts
<1>8. es = Escaped(flat, sep)
  BY DEF flat, ps
<1>9. AllSent(Codes, sep, AsSent, flat, es)
  BY <1>4, <1>7, <1>8, EscapedSent
<1>10. es \in Seq(Seq(Codes)) /\ Len(es) = 2 * n
  BY <1>6, <1>9 DEF AllSent
<1>11. \A j \in 1..(2 * n) : es[j] = Escape(flat[j], sep)
  <2>1. DOMAIN flat = 1..(2 * n)
    BY <1>5, <1>6
  <2>2. \A j \in DOMAIN flat : flat[j] \in Unencoded
    BY <1>5
  <2> QED
    BY <1>8, <2>1, <2>2, NameAssumption DEF Escaped, PlainText
<1>12. Alternates(es, ks, vs, n)
  <2>1. \A i \in 1..n : 2 * i - 1 \in 1..(2 * n) /\ 2 * i \in 1..(2 * n)
    BY <1>2
  <2> QED
    BY <1>6, <1>10, <1>11, <2>1 DEF Alternates
<1>13. BothSent(Codes, sep, AsSent, ps, ks, vs)
  <2>1. \A i \in 1..n : /\ Sends(Codes, sep, AsSent, ps[i].key, Escape(ps[i].key, sep))
                        /\ Sends(Codes, sep, AsSent, ps[i].value, Escape(ps[i].value, sep))
    BY <1>1, <1>4, EscapeSent
  <2> QED
    BY <2>1 DEF BothSent, n
<1> HIDE DEF ks, vs
<1>14. ReadFlat(AsSent, texts) = ps <=> PropertiesWithout(ps, sep)
  BY <1>1, <1>4, <1>10, <1>12, <1>13, FlatRead DEF n
<1>15. Join(es, sep) \in Seq(Codes)
  BY <1>4, <1>10, JoinEmpty DEF Channel
<1>16. texts \in Seq(Coded)
  BY <1>4, <1>15, ReadWithout DEF Coded, Rejoined
<1>17. Read("object", texts, FALSE, AsItIs) = ReadFlat(AsSent, texts)
  BY <1>16, ReadAsSent
<1> QED
  BY <1>3, <1>10, <1>14, <1>17

LEMMA QueryFieldsOf ==
    \A a : /\ QueryOf(a).name = Name /\ QueryOf(a).value = a.value /\ QueryOf(a).explode = Explode(a, TRUE)
           /\ QueryOf(a).style = IF a.options.style = Null THEN "form" ELSE a.options.style
BY DEF QueryOf, QueryParameter, Param, Explode, OptionOr

\* The text of a pair that stands for all of a value, and its reader.
JoinedText(a) ==
    IF a.value.kind = "list" THEN Serialize(a.value, QuerySep(a), FALSE, FALSE)
    ELSE Serialize(List(FlatOf(Present(a.value))), ",", FALSE, FALSE)

ReadJoined(a, t) == Read(a.value.kind, Split(t, QuerySep(a)), FALSE, AsItIs)

LEMMA QuerySeparators ==
    ASSUME NEW a
    PROVE  /\ QuerySep(a) \in Delimiters /\ (a.value.kind # "list" => QuerySep(a) = ",")
           /\ a.value.kind = "list" => QuerySeparator(QueryOf(a).style) = QuerySep(a)
<1>1. QuerySep(a) \in Delimiters
  BY DEF QuerySep, Delimiters
<1>2. a.value.kind # "list" => QuerySep(a) = ","
  BY DEF QuerySep
<1>3. ASSUME a.value.kind = "list" PROVE QuerySeparator(QueryOf(a).style) = QuerySep(a)
  <2>1. CASE a.options.style = Null
    <3>1. QueryOf(a).style = "form"
      BY <2>1, QueryFieldsOf
    <3>2. Null # "spaceDelimited" /\ Null # "pipeDelimited"
      BY OptionAssumption
    <3> QED
      BY <1>3, <2>1, <3>1, <3>2 DEF QuerySeparator, QuerySep
  <2>2. CASE a.options.style # Null
    <3>1. QueryOf(a).style = a.options.style
      BY <2>2, QueryFieldsOf
    <3> QED
      BY <1>3, <3>1 DEF QuerySeparator, QuerySep
  <2> QED
    BY <2>1, <2>2
<1> QED
  BY <1>1, <1>2, <1>3

\* A value that is sent in one pair is read as it was meant exactly if it can be joined.
LEMMA JoinedRead ==
    ASSUME NEW a, IsAsked("query", a), a.value.kind \in {"list", "object"}, NEW t, t = JoinedText(a)
    PROVE  t \in Coded /\ (ReadJoined(a, t) = Meant(a.value) <=> Joinable(a.value, QuerySep(a)))
<1> DEFINE v == a.value
           sep == QuerySep(a)
           texts == Split(t, sep)
<1>1. v \in Values
  BY DEF IsAsked
<1>2. sep \in Delimiters /\ (v.kind # "list" => sep = ",")
  BY QuerySeparators
<1>3. sep \in Reserved /\ Channel(Codes, sep, AsSent)
  BY <1>2, ChannelAsSent DEF Reserved, Delimiters
<1> HIDE DEF sep
<1>4. ASSUME NEW es \in Seq(Seq(Codes)) PROVE Join(es, sep) \in Coded
  <2>1. Join(es, sep) \in Seq(Codes)
    BY <1>3, JoinEmpty DEF Channel
  <2> QED
    BY <2>1 DEF Coded
<1>5. CASE v.kind = "list"
  <2> DEFINE es == Escaped(v.items, sep)
  <2>1. v.items \in Seq(Elements)
    BY <1>1, <1>5, ValueKinds
  <2>2. t = Join(es, sep)
    BY <1>5, ListSerialized DEF JoinedText, sep
  <2>3. AllSent(Codes, sep, AsSent, PlainTexts(v.items), es)
    BY <1>3, <2>1, EscapedSent
  <2>4. es \in Seq(Seq(Codes))
    BY <2>3 DEF AllSent
  <2>5. Rejoined(texts, es, sep)
    BY <2>2 DEF Rejoined
  <2> HIDE DEF es, texts
  <2>6. Read("list", texts, FALSE, AsItIs) = Meant(v) <=> Joinable(v, sep)
    BY <1>2, <1>5, <2>1, <2>3, <2>5, SentListRead
  <2> QED
    BY <1>4, <1>5, <2>2, <2>4, <2>6 DEF ReadJoined, texts, sep
<1>6. CASE v.kind = "object"
  <2> DEFINE flat == FlatOf(Present(v))
             es == Escaped(flat, sep)
  <2>1. IsObject(v)
    BY <1>1, <1>6, ValueKinds
  <2>2. t = Join(es, sep)
    <3>1. t = Serialize(List(flat), sep, FALSE, FALSE)
      BY <1>2, <1>6 DEF JoinedText
    <3>2. List(flat).kind = "list" /\ List(flat).items = flat
      BY DEF List
    <3> HIDE DEF flat
    <3> QED
      BY <3>1, <3>2, ListSerialized
  <2>3. Rejoined(texts, es, sep)
    BY <2>2 DEF Rejoined
  <2> HIDE DEF es, texts
  <2>4. es = Escaped(FlatOf(Present(v)), sep)
    BY DEF es
  <2>5. /\ es \in Seq(Seq(Codes))
        /\ Read("object", texts, FALSE, AsItIs) = Meant(v) <=> Joinable(v, sep)
    BY <1>2, <1>6, <2>1, <2>3, <2>4, FlatObjectRead
  <2> QED
    BY <1>4, <1>6, <2>2, <2>5 DEF ReadJoined, texts, sep
<1> QED
  BY <1>5, <1>6

\* A deepObject's key is put in brackets.
Bracketed(key) == Name \o <<Ch("[")>> \o key \o <<Ch("]")>>

LEMMA BracketedType ==
    ASSUME NEW key \in Unencoded
    PROVE  Bracketed(key) \in Coded
<1>1. Ch("[") \in Codes /\ Ch("]") \in Codes
  BY DEF Codes, Letters
<1>2. Name \in Seq(Codes) /\ key \in Seq(Codes)
  BY NameAssumption, RawCoded DEF Coded
<1> QED
  BY <1>1, <1>2 DEF Bracketed, Coded

\* The pairs of an object whose properties are sent one by one, and those of a list.
PairsAsked(a) ==
    LET v == a.value IN
    IF v.kind = "list" THEN [i \in DOMAIN v.items |-> Pair(Name, Meant(v)[i])]
    ELSE [i \in DOMAIN Meant(v) |->
            Pair(IF a.options.style = "deepObject" THEN Bracketed(Meant(v)[i].key) ELSE Meant(v)[i].key,
                 Meant(v)[i].value)]

LEMMA PairsAskedType ==
    ASSUME NEW a, IsAsked("query", a), a.value.kind \in {"list", "object"}
    PROVE  PairsAsked(a) \in Seq(Pairs)
<1> DEFINE v == a.value
<1>1. v \in Values
  BY DEF IsAsked
<1>2. \A n \in Coded, t \in Coded : Pair(n, t) \in Pairs
  BY DEF Pair, Pairs
<1>3. Name \in Coded
  BY NameAssumption, RawCoded
<1>4. CASE v.kind = "list"
  <2>1. v.items \in Seq(Elements) /\ Meant(v) = PlainTexts(v.items)
    BY <1>1, <1>4, ValueKinds, MeantList
  <2>2. Meant(v) \in Seq(Unencoded) /\ Len(Meant(v)) = Len(v.items)
    BY <2>1, PlainTextsType
  <2>3. \A i \in DOMAIN v.items : Meant(v)[i] \in Coded
    BY <2>1, <2>2, RawCoded
  <2>4. \A i \in DOMAIN v.items : Pair(Name, Meant(v)[i]) \in Pairs
    BY <1>2, <1>3, <2>3
  <2>5. PairsAsked(a) = [i \in DOMAIN v.items |-> Pair(Name, Meant(v)[i])]
    BY <1>4 DEF PairsAsked
  <2> HIDE DEF v
  <2> QED
    BY <2>1, <2>4, <2>5
<1>5. CASE v.kind = "object"
  <2> DEFINE ps == Meant(v)
             PairOf(i) == Pair(IF a.options.style = "deepObject" THEN Bracketed(ps[i].key) ELSE ps[i].key, ps[i].value)
  <2>1. IsObject(v)
    BY <1>1, <1>5, ValueKinds
  <2>2. ps = Present(v)
    BY <1>5, <2>1, MeantObject
  <2>3. ps \in Seq(Properties) /\ \A i \in 1..Len(ps) : ps[i].key \in Unencoded /\ ps[i].value \in Unencoded
    BY <2>1, <2>2, PresentType DEF Keys
  <2>4. PairsAsked(a) = [i \in DOMAIN ps |-> PairOf(i)]
    BY <1>5 DEF PairsAsked
  <2> HIDE DEF v, ps
  <2>5. ASSUME NEW i \in DOMAIN ps PROVE PairOf(i) \in Pairs
    <3>1. ps[i].key \in Unencoded /\ ps[i].value \in Unencoded
      BY <2>3
    <3>2. ps[i].key \in Coded /\ ps[i].value \in Coded /\ Bracketed(ps[i].key) \in Coded
      BY <3>1, BracketedType, RawCoded
    <3> QED
      BY <1>2, <3>2
  <2> HIDE DEF PairOf
  <2> QED
    BY <2>3, <2>4, <2>5
<1> QED
  BY <1>4, <1>5

\* What is sent in one pair.
OnePair(a) ==
    \/ a.value.kind = "list" /\ ~Explode(a, TRUE)
    \/ a.value.kind = "object" /\ a.options.style # "deepObject" /\ ~Explode(a, TRUE)

\* The pairs of a query, by what was asked for.
LEMMA AskedQuery ==
    ASSUME NEW a, IsAsked("query", a), NEW pairs, pairs = QueryPairs(QueryOf(a))
    PROVE  /\ a.value.kind = "null" => pairs = <<>>
           /\ a.value.kind = "text" => pairs = <<Pair(Name, a.value.text)>> /\ a.value.text \in Unencoded
           /\ a.value.kind \in {"list", "object"} =>
                 pairs = IF OnePair(a) THEN <<Pair(Name, JoinedText(a))>> ELSE PairsAsked(a)
<1> DEFINE v == a.value
           p == QueryOf(a)
           explode == Explode(a, TRUE)
           deep == a.options.style = "deepObject"
<1>1. v \in Values
  BY DEF IsAsked
<1>2. p.name = Name /\ p.value = v /\ p.explode = explode
  BY QueryFieldsOf
<1>3. p.style = "deepObject" <=> deep
  <2>1. Null # "deepObject"
    BY OptionAssumption
  <2> QED
    BY <2>1, QueryFieldsOf
<1>4. explode \in BOOLEAN
  BY OptionTypes
<1> HIDE DEF v, p, explode
<1>5. CASE v.kind = "null"
  BY <1>2, <1>5 DEF QueryPairs, v, p
<1>6. CASE v.kind = "text"
  <2>1. v.text \in Unencoded
    BY <1>1, <1>6, ValueKinds
  <2> QED
    BY <1>2, <1>6, <2>1 DEF QueryPairs, v, p
<1>7. CASE v.kind = "list"
  <2>1. v.items \in Seq(Elements) /\ Meant(v) = PlainTexts(v.items)
    BY <1>1, <1>7, ValueKinds, MeantList
  <2>2. CASE explode
    <3>1. pairs = [i \in DOMAIN v.items |-> Pair(Name, PlainText(v.items[i]))]
      BY <1>2, <1>7, <2>2 DEF QueryPairs, p
    <3>2. \A i \in DOMAIN v.items : Meant(v)[i] = PlainText(v.items[i])
      BY <2>1 DEF PlainTexts
    <3>3. PairsAsked(a) = [i \in DOMAIN v.items |-> Pair(Name, Meant(v)[i])]
      BY <1>7 DEF PairsAsked, v
    <3>4. pairs = PairsAsked(a)
      BY <3>1, <3>2, <3>3
    <3>5. ~OnePair(a)
      BY <1>7, <2>2 DEF OnePair, v, explode
    <3> QED
      BY <1>7, <3>4, <3>5 DEF v
  <2>3. CASE ~explode
    <3>1. pairs = <<Pair(Name, Serialize(v, QuerySeparator(p.style), FALSE, FALSE))>>
      BY <1>2, <1>7, <2>3 DEF QueryPairs, p
    <3>2. QuerySeparator(p.style) = QuerySep(a)
      BY <1>7, QuerySeparators DEF p, v
    <3>3. OnePair(a)
      BY <1>7, <2>3 DEF OnePair, v, explode
    <3> QED
      BY <1>7, <3>1, <3>2, <3>3 DEF JoinedText, v
  <2> QED
    BY <2>2, <2>3
<1>8. CASE v.kind = "object"
  <2>1. IsObject(v)
    BY <1>1, <1>8, ValueKinds
  <2>2. Meant(v) = Present(v) /\ Present(v) \in Seq(Properties)
    BY <1>8, <2>1, MeantObject, PresentType
  <2>3. \A i \in DOMAIN Present(v) : PlainText(Present(v)[i].value) = Present(v)[i].value
    <3>1. \A i \in DOMAIN Present(v) : Present(v)[i].value \in Unencoded
      BY <2>1, <2>2, PresentType
    <3> QED
      BY <3>1, NameAssumption DEF PlainText
  <2>4. CASE deep
    <3>1. pairs = [i \in DOMAIN Present(v) |->
                      Pair(Name \o <<Ch("[")>> \o Present(v)[i].key \o <<Ch("]")>>, PlainText(Present(v)[i].value))]
      BY <1>2, <1>3, <1>8, <2>4 DEF QueryPairs, p
    <3>2. PairsAsked(a) = [i \in DOMAIN Present(v) |-> Pair(Bracketed(Present(v)[i].key), Present(v)[i].value)]
      BY <1>8, <2>2, <2>4 DEF PairsAsked, v
    <3>3. pairs = PairsAsked(a)
      BY <2>3, <3>1, <3>2 DEF Bracketed
    <3>4. ~OnePair(a)
      BY <1>8, <2>4 DEF OnePair, v
    <3> QED
      BY <1>8, <3>3, <3>4 DEF v
  <2>5. CASE ~deep /\ explode
    <3>1. pairs = [i \in DOMAIN Present(v) |-> Pair(Present(v)[i].key, PlainText(Present(v)[i].value))]
      BY <1>2, <1>3, <1>8, <2>5 DEF QueryPairs, p
    <3>2. PairsAsked(a) = [i \in DOMAIN Present(v) |-> Pair(Present(v)[i].key, Present(v)[i].value)]
      BY <1>8, <2>2, <2>5 DEF PairsAsked, v
    <3>3. pairs = PairsAsked(a)
      BY <2>3, <3>1, <3>2
    <3>4. ~OnePair(a)
      BY <1>8, <2>5 DEF OnePair, v, explode
    <3> QED
      BY <1>8, <3>3, <3>4 DEF v
  <2>6. CASE ~deep /\ ~explode
    <3>1. pairs = <<Pair(Name, Serialize(List(FlatOf(Present(v))), ",", FALSE, FALSE))>>
      BY <1>2, <1>3, <1>8, <2>6 DEF QueryPairs, p, FlatOf
    <3>2. OnePair(a)
      BY <1>8, <2>6 DEF OnePair, v, explode
    <3> QED
      BY <1>8, <3>1, <3>2 DEF JoinedText, v
  <2> QED
    BY <2>4, <2>5, <2>6
<1> QED
  BY <1>1, <1>5, <1>6, <1>7, <1>8 DEF v

\* The pairs of a query may be encoded and decoded.
LEMMA AskedQueryType ==
    ASSUME NEW a, IsAsked("query", a)
    PROVE  QueryPairs(QueryOf(a)) \in Seq(Pairs)
<1> DEFINE pairs == QueryPairs(QueryOf(a))
           v == a.value
<1>1. v \in Values
  BY DEF IsAsked
<1>2. /\ v.kind = "null" => pairs = <<>>
      /\ v.kind = "text" => pairs = <<Pair(Name, v.text)>> /\ v.text \in Unencoded
      /\ v.kind \in {"list", "object"} =>
            pairs = IF OnePair(a) THEN <<Pair(Name, JoinedText(a))>> ELSE PairsAsked(a)
  BY AskedQuery
<1> SUFFICES pairs \in Seq(Pairs)
  OBVIOUS
<1> HIDE DEF pairs
<1>3. ASSUME NEW t \in Coded PROVE <<Pair(Name, t)>> \in Seq(Pairs)
  <2>1. Name \in Coded
    BY NameAssumption, RawCoded
  <2>2. Pair(Name, t) \in Pairs
    BY <2>1 DEF Pair, Pairs
  <2> QED
    BY <2>2
<1>4. CASE v.kind = "null"
  BY <1>2, <1>4
<1>5. CASE v.kind = "text"
  BY <1>2, <1>3, <1>5, RawCoded
<1>6. CASE v.kind \in {"list", "object"}
  <2>1. JoinedText(a) \in Coded
    BY <1>6, JoinedRead
  <2>2. PairsAsked(a) \in Seq(Pairs)
    BY <1>6, PairsAskedType
  <2> QED
    BY <1>2, <1>3, <1>6, <2>1, <2>2
<1>7. v.kind \in {"null", "text", "list", "object"}
  BY <1>1, ValueKinds
<1> QED
  BY <1>4, <1>5, <1>6, <1>7

LEMMA QueryReceived ==
    ASSUME CallerInv, Built, asked["query"] # Null
    PROVE  IsAsked("query", asked["query"]) /\ Received = QueryPairs(QueryOf(asked["query"]))
<1> DEFINE a == asked["query"]
           pairs == QueryPairs(QueryOf(a))
           e == EncodePairs(pairs)
<1>1. IsAsked("query", a) /\ builder.query = <<QueryOf(a)>> /\ request = Build(builder, "application/json")
  BY DEF CallerInv, QueryHeld, Built
<1> HIDE DEF a
<1>2. pairs \in Seq(Pairs)
  BY <1>1, AskedQueryType
<1>3. request.params = e
  BY <1>1, <1>2, BuiltParams
<1>4. [i \in DOMAIN e |-> Pair(Decode(e[i].name), Decode(e[i].text))] = pairs
  BY <1>2, PairsDecoded
<1> HIDE DEF e
<1>5. Received = pairs
  BY <1>3, <1>4 DEF Received
<1> QED
  BY <1>1, <1>5 DEF a

\* What is built of an invariant state has the query.
LEMMA QueryKept == CallerInv => QueryRecovered
<1> SUFFICES ASSUME CallerInv, Built, asked["query"] # Null PROVE QueryRecovered
  BY DEF QueryRecovered
<1> DEFINE a == asked["query"]
           v == a.value
           explode == Explode(a, TRUE)
           deep == v.kind = "object" /\ a.options.style = "deepObject"
<1>1. IsAsked("query", a) /\ Received = QueryPairs(QueryOf(a))
  BY QueryReceived
<1> HIDE DEF a
<1>2. /\ v.kind = "null" => Received = <<>>
      /\ v.kind = "text" => Received = <<Pair(Name, v.text)>>
      /\ v.kind \in {"list", "object"} =>
            Received = IF OnePair(a) THEN <<Pair(Name, JoinedText(a))>> ELSE PairsAsked(a)
  BY <1>1, AskedQuery
<1>3. v.kind \in {"null", "text", "list", "object"}
  BY <1>1, ValueKinds DEF IsAsked
<1>4. explode \in BOOLEAN
  BY <1>1, OptionTypes
<1> HIDE DEF explode
<1>5. CASE v.kind \in {"null", "text"}
  BY <1>2, <1>5 DEF QueryRecovered, a
<1>6. CASE v.kind = "list" /\ explode
  <2>1. ~OnePair(a)
    BY <1>6 DEF OnePair, explode
  <2>2. Received = [i \in DOMAIN v.items |-> Pair(Name, Meant(v)[i])]
    BY <1>2, <1>6, <2>1 DEF PairsAsked
  <2> QED
    BY <1>6, <2>2 DEF QueryRecovered, a, explode
<1>7. CASE v.kind = "object" /\ deep
  <2>1. ~OnePair(a)
    BY <1>7 DEF OnePair
  <2>2. Received = [i \in DOMAIN Meant(v) |-> Pair(Bracketed(Meant(v)[i].key), Meant(v)[i].value)]
    BY <1>2, <1>7, <2>1 DEF PairsAsked
  <2> QED
    BY <1>7, <2>2 DEF QueryRecovered, a, Bracketed
<1>8. CASE v.kind = "object" /\ ~deep /\ explode
  <2>1. ~OnePair(a)
    BY <1>8 DEF OnePair, explode
  <2>2. Received = [i \in DOMAIN Meant(v) |-> Pair(Meant(v)[i].key, Meant(v)[i].value)]
    BY <1>2, <1>8, <2>1 DEF PairsAsked
  <2> QED
    BY <1>8, <2>2 DEF QueryRecovered, a, explode
<1>9. CASE OnePair(a)
  <2>1. v.kind \in {"list", "object"} /\ ~explode /\ ~deep
    BY <1>9 DEF OnePair, explode
  <2>2. Received = <<Pair(Name, JoinedText(a))>>
    BY <1>2, <1>9, <2>1
  <2>3. Len(Received) = 1 /\ Received[1].name = Name /\ Received[1].text = JoinedText(a)
    BY <2>2 DEF Pair
  <2>4. ReadJoined(a, JoinedText(a)) = Meant(v) <=> Joinable(v, QuerySep(a))
    BY <1>1, <2>1, JoinedRead
  <2> QED
    BY <2>1, <2>3, <2>4 DEF QueryRecovered, ReadJoined, a, explode
<1>10. OnePair(a) \/ v.kind \in {"null", "text"} \/ (v.kind = "list" /\ explode) \/ (v.kind = "object" /\ deep)
       \/ (v.kind = "object" /\ ~deep /\ explode)
  BY <1>3 DEF OnePair, explode
<1> QED
  BY <1>5, <1>6, <1>7, <1>8, <1>9, <1>10

\* No pair of a query or a header is lost, added or garbled, whatever is asked for in which
\* order; a joined value is read as it was meant exactly if no part of it has the separator
\* in it.
THEOREM PairsAlwaysRecovered == Spec => []PairsRecovered
<1>1. CallerInv => PairsRecovered
  BY HeaderKept, QueryKept DEF PairsRecovered
<1> QED
  BY <1>1, CallerInvariant, PTL

-----------------------------------------------------------------------------
(* The texts of a path *)

\* The characters of a segment: those that break a path are always encoded, and =, ; and
\* , never are.
Once == Breaking \cup {"|", " "}
PathCodes == {Ch(x) : x \in Letters \ Breaking} \cup {<<x, 1>> : x \in Once}

PathSeps == {",", ";", "."}

\* The receiver of a path decodes what it split.
AsDecoded == [t \in Seq(PathCodes) |-> Decode(t)]

LEMMA PathDecode ==
    ASSUME NEW t \in Seq(PathCodes)
    PROVE  /\ AsDecoded[t] = Decode(t) /\ Decode(t) \in Coded
           /\ \A sep \in PathSeps : Without(t, sep) => Without(Decode(t), sep)
<1> DEFINE e == Decode(t)
           n == Len(t)
<1>1. n \in Nat /\ DOMAIN t = 1..n /\ \A i \in 1..n : t[i] \in PathCodes
  OBVIOUS
<1>2. e = [i \in 1..n |-> e[i]] /\ DOMAIN e = 1..n /\ \A i \in 1..n : e[i] = DecodeChar(t[i])
  BY <1>1 DEF Decode
<1> HIDE DEF e, n
<1>3. ASSUME NEW c \in PathCodes
      PROVE  DecodeChar(c) \in Codes /\ \A sep \in PathSeps : DecodeChar(c) = Ch(sep) => c = Ch(sep)
  <2>1. CASE c \in {Ch(x) : x \in Letters \ Breaking}
    <3>1. PICK x \in Letters : c = Ch(x)
      BY <2>1
    <3>2. DecodeChar(c) = c
      BY <3>1, Characters
    <3> QED
      BY <3>1, <3>2 DEF Codes
  <2>2. CASE c \in {<<x, 1>> : x \in Once}
    <3>1. PICK x \in Once : c = <<x, 1>>
      BY <2>2
    <3>2. DecodeChar(c) = Ch(x)
      BY <3>1, Characters
    <3>3. x \in Reserved /\ x \notin PathSeps
      BY DEF Reserved, PathSeps, Once, Breaking
    <3>4. Ch(x) \in Codes
      BY <3>3 DEF Codes, Letters
    <3>5. \A sep \in PathSeps : Ch(x) # Ch(sep)
      BY <3>3, CharTypes
    <3> QED
      BY <3>2, <3>4, <3>5
  <2> QED
    BY <2>1, <2>2 DEF PathCodes
<1>4. \A i \in 1..n : e[i] \in Codes
  BY <1>1, <1>2, <1>3
<1>5. e \in Coded
  BY <1>1, <1>2, <1>4, FunctionIsSeq DEF Coded
<1>6. ASSUME NEW sep \in PathSeps, Without(t, sep) PROVE Without(e, sep)
  <2>1. \A i \in 1..n : t[i] # Ch(sep)
    BY <1>1, <1>6 DEF Without, ToSet
  <2>2. \A i \in 1..n : e[i] # Ch(sep)
    BY <1>1, <1>2, <1>3, <2>1
  <2> QED
    BY <1>2, <2>2 DEF Without, ToSet
<1>7. AsDecoded[t] = e
  BY DEF AsDecoded, e
<1> QED
  BY <1>5, <1>6, <1>7 DEF e

LEMMA PathChannel ==
    ASSUME NEW sep \in PathSeps
    PROVE  Channel(PathCodes, sep, AsDecoded)
<1>1. sep \in Letters \ Breaking /\ "=" \in Letters \ Breaking /\ sep # "="
  BY DEF PathSeps, Letters, Reserved, Breaking
<1>2. Ch(sep) \in PathCodes /\ Ch("=") \in PathCodes
  BY <1>1 DEF PathCodes
<1>3. AsDecoded \in [Seq(PathCodes) -> Coded]
  <2>1. \A t \in Seq(PathCodes) : Decode(t) \in Coded
    BY PathDecode
  <2> QED
    BY <2>1 DEF AsDecoded
<1>4. \A t \in Seq(PathCodes) : Without(t, sep) => Without(AsDecoded[t], sep)
  BY PathDecode
<1> QED
  BY <1>1, <1>2, <1>3, <1>4 DEF Channel

\* What a path makes of a text: it can be decoded.
LEMMA PathTextSent ==
    ASSUME NEW t \in Unencoded, NEW sep
    PROVE  PathText(t) \in Seq(PathCodes) /\ Sends(PathCodes, sep, AsDecoded, t, PathText(t))
<1> DEFINE e == Unescape(Encode(t))
           n == Len(t)
<1>1. PathText(t) = e
  BY NameAssumption DEF PathText
<1>2. /\ n \in Nat /\ DOMAIN t = 1..n /\ (\A i \in 1..n : \E x \in STRING : t[i] = Ch(x))
      /\ t \in Seq(STRING \X {0})
  BY RawText DEF Unencoded
<1>3. Decode(e) = t /\ e \in Coded /\ Len(e) = n /\ e = [i \in 1..n |-> PathChar(t[i])]
  BY <1>2, DecodePathText
<1>4. e = [i \in 1..n |-> e[i]] /\ DOMAIN e = 1..n /\ \A i \in 1..n : e[i] = PathChar(t[i])
  BY <1>3
<1> HIDE DEF e, n
<1>5. ASSUME NEW x \in STRING
      PROVE  PathChar(Ch(x)) \in PathCodes /\ \A y : PathChar(Ch(x)) = Ch(y) => Ch(x) = Ch(y)
  <2>1. CASE x \in Reserved \ {"=", ";", ","}
    <3>1. PathChar(Ch(x)) = <<x, 1>>
      BY <2>1, PathCharacters
    <3>2. x \in Once
      BY <2>1 DEF Reserved, Once, Breaking
    <3> QED
      BY <3>1, <3>2, CharTypes DEF PathCodes
  <2>2. CASE x \notin Reserved \ {"=", ";", ","}
    <3>1. PathChar(Ch(x)) = Ch(x)
      BY <2>2, PathCharacters
    <3>2. x \in Letters \ Breaking
      BY <2>2 DEF Reserved, Letters, Breaking
    <3> QED
      BY <3>1, <3>2 DEF PathCodes
  <2> QED
    BY <2>1, <2>2
<1>6. \A i \in 1..n : e[i] \in PathCodes
  BY <1>2, <1>4, <1>5
<1>7. e \in Seq(PathCodes)
  BY <1>2, <1>4, <1>6, FunctionIsSeq
<1>8. e = <<>> <=> t = <<>>
  BY <1>2, <1>3, <1>7, EmptyLength DEF n
<1>9. ASSUME Without(t, sep) PROVE Without(e, sep)
  <2>1. \A i \in 1..n : t[i] # Ch(sep)
    BY <1>2, <1>9 DEF Without, ToSet
  <2>2. \A i \in 1..n : e[i] # Ch(sep)
    BY <1>2, <1>4, <1>5, <2>1
  <2> QED
    BY <1>4, <2>2 DEF Without, ToSet
<1>10. AsDecoded[e] = t
  BY <1>3, <1>7, PathDecode
<1> QED
  BY <1>1, <1>7, <1>8, <1>9, <1>10 DEF Sends

\* An element that is null is an empty text.
LEMMA PathElementSent ==
    ASSUME NEW t \in Elements, NEW sep
    PROVE  PathText(t) \in Seq(PathCodes) /\ Sends(PathCodes, sep, AsDecoded, PlainText(t), PathText(t))
<1>1. CASE t = Null
  <2> DEFINE e == <<>>
  <2>1. PathText(t) = e /\ PlainText(t) = e
    BY <1>1 DEF PathText, PlainText
  <2>2. e \in Seq(PathCodes) /\ Decode(e) = e
    BY DEF Decode
  <2>3. AsDecoded[e] = e
    BY <2>2, PathDecode
  <2> HIDE DEF e
  <2> QED
    BY <2>1, <2>2, <2>3 DEF Sends, e
<1>2. CASE t # Null
  <2>1. t \in Unencoded /\ PlainText(t) = t
    BY <1>2 DEF Elements, PlainText
  <2> QED
    BY <2>1, PathTextSent
<1> QED
  BY <1>1, <1>2

\* Keys, and the name of the parameter, stand in a path as they are.
LEMMA KeySent ==
    ASSUME NEW key \in Keys, NEW sep
    PROVE  /\ key \in Seq(PathCodes) /\ Sends(PathCodes, sep, AsDecoded, key, key)
           /\ Unescape(key) = key /\ Without(key, "=")
<1> DEFINE n == Len(key)
<1>1. key \in Unencoded /\ (\A c \in Breaking : Without(key, c)) /\ Without(key, "=")
  BY DEF Keys
<1>2. /\ n \in Nat /\ DOMAIN key = 1..n /\ key = [i \in 1..n |-> key[i]]
      /\ \A i \in 1..n : \E x \in STRING : key[i] = Ch(x)
  BY <1>1, RawText
<1> HIDE DEF n
<1>3. ASSUME NEW i \in 1..n
      PROVE  key[i] \in PathCodes /\ DecodeChar(key[i]) = key[i] /\ UnescapeChar(key[i]) = key[i]
  <2>1. PICK x \in STRING : key[i] = Ch(x)
    BY <1>2
  <2>2. \A c \in Breaking : key[i] # Ch(c)
    BY <1>1, <1>2 DEF Without, ToSet
  <2>3. x \in Letters \ Breaking
    BY <2>1, <2>2 DEF Letters
  <2> QED
    BY <2>1, <2>3, Characters DEF PathCodes
<1>4. key \in Seq(PathCodes)
  BY <1>2, <1>3, FunctionIsSeq
<1>5. Decode(key) = key /\ Unescape(key) = key
  BY <1>2, <1>3 DEF Decode, Unescape
<1>6. AsDecoded[key] = key
  BY <1>4, <1>5, PathDecode
<1> QED
  BY <1>1, <1>4, <1>5, <1>6 DEF Sends

LEMMA NameIsKey == Name \in Keys /\ Without(Name, ";")
BY NameAssumption DEF Keys

LEMMA PathCodesCoded == PathCodes \subseteq Codes /\ Seq(PathCodes) \subseteq Seq(Codes)
<1>1. PathCodes \subseteq Codes
  BY DEF PathCodes, Codes, Reserved, Once, Breaking
<1> QED
  BY <1>1

\* What was escaped in a path is put back.
LEMMA UnescapeEscape ==
    ASSUME NEW u \in Seq(PathCodes), NEW sep \in PathSeps
    PROVE  Escape(u, sep) \in Seq(Codes) /\ Unescape(Escape(u, sep)) = u
<1> DEFINE n == Len(u)
           e == Escape(u, sep)
           r == Unescape(e)
<1>1. n \in Nat /\ DOMAIN u = 1..n /\ u = [i \in 1..n |-> u[i]] /\ \A i \in 1..n : u[i] \in PathCodes
  BY SeqIsFunction
<1>2. e = [i \in 1..n |-> e[i]] /\ DOMAIN e = 1..n /\ \A i \in 1..n : e[i] = EscapeChar(u[i], sep)
  BY <1>1 DEF Escape
<1> HIDE DEF e
<1>3. r = [i \in 1..n |-> r[i]] /\ \A i \in 1..n : r[i] = UnescapeChar(e[i])
  BY <1>2 DEF Unescape
<1> HIDE DEF n, r
<1>4. ASSUME NEW c \in PathCodes
      PROVE  EscapeChar(c, sep) \in Codes /\ UnescapeChar(EscapeChar(c, sep)) = c
  <2>1. CASE c = Ch(sep)
    <3>1. EscapeChar(c, sep) = IF sep \in Reserved THEN <<sep, 1>> ELSE Ch(sep)
      BY <2>1, Characters DEF EscapeChar
    <3>2. sep \in Reserved => sep \in {"=", ";", ","}
      BY DEF PathSeps, Reserved
    <3>3. Ch(sep) \in Codes
      BY <2>1, PathCodesCoded
    <3> QED
      BY <2>1, <3>1, <3>2, <3>3, Characters DEF Codes
  <2>2. CASE c # Ch(sep)
    <3>1. EscapeChar(c, sep) = c
      BY <2>2 DEF EscapeChar
    <3>2. CASE c \in {Ch(x) : x \in Letters \ Breaking}
      <4>1. PICK x : c = Ch(x)
        BY <3>2
      <4> QED
        BY <3>1, <4>1, PathCodesCoded, Characters
    <3>3. CASE c \in {<<x, 1>> : x \in Once}
      <4>1. PICK x \in Once : c = <<x, 1>>
        BY <3>3
      <4>2. x \notin {"=", ";", ","}
        BY DEF Once, Breaking
      <4> QED
        BY <3>1, <4>1, <4>2, PathCodesCoded, Characters
    <3> QED
      BY <3>2, <3>3 DEF PathCodes
  <2> QED
    BY <2>1, <2>2
<1>5. \A i \in 1..n : e[i] \in Codes /\ r[i] = u[i]
  BY <1>1, <1>2, <1>3, <1>4
<1>6. e \in Seq(Codes)
  BY <1>1, <1>2, <1>5, FunctionIsSeq
<1>7. r = u
  BY <1>1, <1>3, <1>5
<1> QED
  BY <1>6, <1>7 DEF e, r

Unescapes == [c \in Codes |-> UnescapeChar(c)]

LEMMA UnescapesType ==
    /\ Unescapes \in Mappings(Codes, Codes)
    /\ \A t \in Seq(Codes) : Each(Unescapes, t) = Unescape(t) /\ Unescape(t) \in Seq(Codes)
    /\ \A x : Unescape(<<Ch(x)>>) = <<Ch(x)>>
<1>1. ASSUME NEW c \in Codes PROVE UnescapeChar(c) \in Codes
  <2>1. CASE c \in {Ch(x) : x \in Letters}
    BY <2>1, Characters DEF Codes
  <2>2. CASE c \in {<<x, 1>> : x \in Reserved}
    <3>1. PICK x \in Reserved : c = <<x, 1>>
      BY <2>2
    <3>2. Ch(x) \in Codes
      BY DEF Codes, Letters
    <3> QED
      BY <3>1, <3>2, Characters
  <2> QED
    BY <2>1, <2>2 DEF Codes
<1>2. Unescapes \in Mappings(Codes, Codes)
  BY <1>1 DEF Unescapes, Mappings
<1>3. ASSUME NEW t \in Seq(Codes)
      PROVE  Each(Unescapes, t) = Unescape(t) /\ Unescape(t) \in Seq(Codes)
  <2>1. \A i \in DOMAIN t : t[i] \in Codes
    OBVIOUS
  <2>2. Each(Unescapes, t) = Unescape(t)
    BY <2>1 DEF Each, Unescapes, Unescape
  <2>3. \A i \in DOMAIN t : UnescapeChar(t[i]) \in Codes
    BY <1>1, <2>1
  <2>4. Unescape(t) \in Seq(Codes)
    BY <2>3 DEF Unescape
  <2> QED
    BY <2>2, <2>4
<1>4. ASSUME NEW x PROVE Unescape(<<Ch(x)>>) = <<Ch(x)>>
  <2> DEFINE c == Ch(x)
  <2>1. UnescapeChar(c) = c
    BY Characters
  <2> HIDE DEF c
  <2>2. Unescape(<<c>>) = <<c>>
    BY <2>1 DEF Unescape
  <2> QED
    BY <2>2 DEF c
<1> QED
  BY <1>2, <1>3, <1>4

\* What is put together is unescaped part by part.
LEMMA UnescapeConcat ==
    ASSUME NEW t \in Seq(Codes), NEW u \in Seq(Codes)
    PROVE  Unescape(t \o u) = Unescape(t) \o Unescape(u)
<1>1. Each(Unescapes, t \o u) = Each(Unescapes, t) \o Each(Unescapes, u)
  BY EachConcat
<1>2. t \o u \in Seq(Codes)
  OBVIOUS
<1> QED
  BY <1>1, <1>2, UnescapesType

UnescapedEach(es) == [i \in DOMAIN es |-> Unescape(es[i])]

Pieces(es, sep) == [i \in DOMAIN es |-> IF i = 1 THEN es[i] ELSE <<Ch(sep)>> \o es[i]]

LEMMA UnescapeJoin ==
    ASSUME NEW es \in Seq(Seq(Codes)), NEW sep, Ch(sep) \in Codes
    PROVE  Unescape(Join(es, sep)) = Join(UnescapedEach(es), sep)
<1> DEFINE us == UnescapedEach(es)
           n == Len(es)
           c == <<Ch(sep)>>
           pe == Pieces(es, sep)
           pu == Pieces(us, sep)
<1>1. n \in Nat /\ DOMAIN es = 1..n /\ c \in Seq(Codes) /\ \A i \in 1..n : es[i] \in Seq(Codes)
  OBVIOUS
<1>2. DOMAIN us = 1..n /\ \A i \in 1..n : us[i] = Unescape(es[i])
  BY <1>1 DEF UnescapedEach
<1> HIDE DEF us
<1>3. /\ DOMAIN pe = 1..n /\ pe = [i \in 1..n |-> pe[i]]
      /\ \A i \in 1..n : pe[i] = IF i = 1 THEN es[i] ELSE c \o es[i]
  BY <1>1 DEF Pieces
<1>4. /\ DOMAIN pu = 1..n /\ pu = [i \in 1..n |-> pu[i]]
      /\ \A i \in 1..n : pu[i] = IF i = 1 THEN us[i] ELSE c \o us[i]
  BY <1>2 DEF Pieces
<1>5. Join(es, sep) = FlattenSeq(pe) /\ Join(us, sep) = FlattenSeq(pu)
  BY DEF Join, Pieces
<1>6. Unescape(c) = c
  BY UnescapesType
<1> HIDE DEF n, c, pe, pu
<1>7. \A i \in 1..n : pe[i] \in Seq(Codes)
  <2> SUFFICES ASSUME NEW i \in 1..n PROVE pe[i] \in Seq(Codes)
    OBVIOUS
  <2>1. es[i] \in Seq(Codes) /\ c \o es[i] \in Seq(Codes)
    BY <1>1, ConcatParts
  <2> QED
    BY <1>3, <2>1
<1>8. pe \in Seq(Seq(Codes)) /\ Len(pe) = n
  BY <1>1, <1>3, <1>7, FunctionIsSeq
<1>9. \A i \in 1..n : pu[i] = Unescape(pe[i])
  <2>1. ASSUME NEW i \in 1..n, i # 1 PROVE Unescape(c \o es[i]) = c \o us[i]
    BY <1>1, <1>2, <1>6, UnescapeConcat
  <2> SUFFICES ASSUME NEW i \in 1..n PROVE pu[i] = Unescape(pe[i])
    OBVIOUS
  <2>2. CASE i = 1
    BY <1>2, <1>3, <1>4, <2>2
  <2>3. CASE i # 1
    <3>1. pe[i] = c \o es[i] /\ pu[i] = c \o us[i]
      BY <1>3, <1>4, <2>3
    <3> QED
      BY <2>1, <2>3, <3>1
  <2> QED
    BY <2>2, <2>3
<1>10. \A i \in 1..n : pu[i] = Each(Unescapes, pe[i])
  BY <1>7, <1>9, UnescapesType
<1>11. EachOfEach(pu, Unescapes, pe)
  BY <1>4, <1>8, <1>10 DEF EachOfEach
<1>12. FlattenSeq(pu) = Each(Unescapes, FlattenSeq(pe)) /\ FlattenSeq(pe) \in Seq(Codes)
  BY <1>8, <1>11, UnescapesType, FlattenEach
<1> QED
  BY <1>5, <1>12, UnescapesType DEF us

PathTexts(items) == [i \in DOMAIN items |-> PathText(items[i])]

LEMMA PathTextsSent ==
    ASSUME NEW items \in Seq(Elements), NEW sep
    PROVE  AllSent(PathCodes, sep, AsDecoded, PlainTexts(items), PathTexts(items))
<1> DEFINE ms == PlainTexts(items)
           es == PathTexts(items)
           n == Len(items)
<1>1. n \in Nat /\ DOMAIN items = 1..n /\ Len(ms) = n /\ \A i \in 1..n : items[i] \in Elements
  BY PlainTextsType
<1>2. DOMAIN es = 1..n /\ es = [i \in 1..n |-> es[i]] /\ \A i \in 1..n : es[i] = PathText(items[i]) /\ ms[i] = PlainText(items[i])
  BY <1>1 DEF PathTexts, PlainTexts
<1> HIDE DEF n, ms, es
<1>3. \A i \in 1..n : es[i] \in Seq(PathCodes) /\ Sends(PathCodes, sep, AsDecoded, ms[i], es[i])
  BY <1>1, <1>2, PathElementSent
<1>4. es \in Seq(Seq(PathCodes)) /\ Len(es) = n
  BY <1>1, <1>2, <1>3, FunctionIsSeq
<1> QED
  BY <1>1, <1>3, <1>4 DEF AllSent, ms, es

\* Of a list, a path has its texts, joined.
LEMMA PathList ==
    ASSUME NEW v, v.kind = "list", v.items \in Seq(Elements), NEW sep \in PathSeps, NEW explode
    PROVE  PathSerialize(v, sep, explode) = Join(PathTexts(v.items), sep)
<1> DEFINE items == v.items
           n == Len(items)
           es == [i \in DOMAIN items |-> Escape(PathText(items[i]), sep)]
           us == PathTexts(items)
<1>1. n \in Nat /\ DOMAIN items = 1..n /\ \A i \in 1..n : items[i] \in Elements
  OBVIOUS
<1>2. \A i \in 1..n : Escape(PathText(items[i]), sep) \in Seq(Codes) /\ Unescape(Escape(PathText(items[i]), sep)) = PathText(items[i])
  BY <1>1, PathElementSent, UnescapeEscape
<1>3. es \in Seq(Seq(Codes)) /\ DOMAIN es = 1..n /\ \A i \in 1..n : es[i] = Escape(PathText(items[i]), sep)
  BY <1>1, <1>2
<1>4. Serialize(v, sep, explode, TRUE) = Join(es, sep)
  BY Zenon DEF Serialize
<1> HIDE DEF es
<1>5. UnescapedEach(es) = us
  BY <1>1, <1>2, <1>3 DEF UnescapedEach, PathTexts
<1>6. Ch(sep) \in Codes
  BY PathChannel, PathCodesCoded DEF Channel
<1>7. Unescape(Join(es, sep)) = Join(UnescapedEach(es), sep)
  BY <1>3, <1>6, UnescapeJoin
<1> QED
  BY <1>4, <1>5, <1>7 DEF PathSerialize

PathValuesOf(ps) == [i \in 1..Len(ps) |-> PathText(ps[i].value)]

\* The keys and values of an object are sent in a path.
LEMMA PathPartsSent ==
    ASSUME NEW v, IsObject(v), NEW sep, NEW ps, ps = Present(v)
    PROVE  /\ NoEquals(KeysOf(ps), Len(ps))
           /\ BothSent(PathCodes, sep, AsDecoded, ps, KeysOf(ps), PathValuesOf(ps))
<1>1. ASSUME NEW i \in 1..Len(ps)
      PROVE  /\ KeysOf(ps)[i] = ps[i].key /\ PathValuesOf(ps)[i] = PathText(ps[i].value)
             /\ Sends(PathCodes, sep, AsDecoded, ps[i].key, ps[i].key) /\ Without(ps[i].key, "=")
             /\ Sends(PathCodes, sep, AsDecoded, ps[i].value, PathText(ps[i].value))
  <2>1. ps[i].key \in Keys /\ ps[i].value \in Unencoded
    BY PresentType
  <2>2. Sends(PathCodes, sep, AsDecoded, ps[i].key, ps[i].key) /\ Without(ps[i].key, "=")
    BY <2>1, KeySent
  <2>3. Sends(PathCodes, sep, AsDecoded, ps[i].value, PathText(ps[i].value))
    BY <2>1, PathTextSent
  <2> QED
    BY <2>2, <2>3 DEF KeysOf, PathValuesOf
<1>2. NoEquals(KeysOf(ps), Len(ps))
  BY <1>1 DEF NoEquals
<1>3. BothSent(PathCodes, sep, AsDecoded, ps, KeysOf(ps), PathValuesOf(ps))
  BY <1>1 DEF BothSent
<1> QED
  BY <1>2, <1>3

\* A key and its value, escaped and put back.
LEMMA UnescapeKeyed ==
    ASSUME NEW key \in Keys, NEW u \in Seq(PathCodes), NEW sep \in PathSeps
    PROVE  /\ KeyedText(key, u) \in Seq(PathCodes)
           /\ Unescape(KeyedText(key, Escape(u, sep))) = KeyedText(key, u)
<1> DEFINE s == <<Ch("=")>>
           e == Escape(u, sep)
<1>1. /\ key \in Seq(PathCodes) /\ Unescape(key) = key /\ s \in Seq(PathCodes)
      /\ e \in Seq(Codes) /\ Unescape(e) = u
  <2>1. key \in Seq(PathCodes) /\ Unescape(key) = key
    BY KeySent
  <2>2. Ch("=") \in PathCodes
    BY PathChannel DEF Channel
  <2>3. s \in Seq(PathCodes)
    BY <2>2
  <2> QED
    BY <2>1, <2>3, UnescapeEscape
<1>2. Unescape(s) = s
  BY UnescapesType
<1>3. key \in Seq(Codes) /\ s \in Seq(Codes)
  BY <1>1, PathCodesCoded
<1> HIDE DEF s, e
<1>4. key \o s \in Seq(Codes) /\ key \o s \in Seq(PathCodes)
  BY <1>1, <1>3, ConcatParts
<1>5. Unescape((key \o s) \o e) = Unescape(key \o s) \o Unescape(e)
  BY <1>1, <1>4, UnescapeConcat
<1>6. Unescape(key \o s) = key \o s
  BY <1>1, <1>2, <1>3, UnescapeConcat
<1>7. (key \o s) \o u \in Seq(PathCodes)
  BY <1>4, ConcatParts
<1> QED
  BY <1>1, <1>5, <1>6, <1>7 DEF KeyedText, s, e

\* Of an object, a path has its keys and values, joined.
LEMMA PathObject ==
    ASSUME NEW v, IsObject(v), v.kind = "object", NEW sep \in PathSeps, NEW explode \in BOOLEAN
    PROVE  \E us : /\ us \in Seq(Seq(PathCodes)) /\ PathSerialize(v, sep, explode) = Join(us, sep)
                   /\ SerializedParts(us, KeysOf(Present(v)), PathValuesOf(Present(v)), Len(Present(v)), explode)
<1> DEFINE ps == Present(v)
           n == Len(ps)
           ks == KeysOf(ps)
           vs == ElementsOf(ps, sep, TRUE)
           pvs == PathValuesOf(ps)
<1>1. ps \in Seq(Properties) /\ n \in Nat
  BY PresentType
<1>2. ASSUME NEW i \in 1..n
      PROVE  /\ ks[i] = ps[i].key /\ ks[i] \in Keys /\ ps[i].key \in Seq(Codes) /\ ks[i] \in Seq(PathCodes)
             /\ pvs[i] = PathText(ps[i].value) /\ pvs[i] \in Seq(PathCodes)
             /\ vs[i] = Escape(pvs[i], sep) /\ vs[i] \in Seq(Codes)
             /\ Element(ps[i].value, sep, TRUE) \in Seq(Codes) /\ Unescape(vs[i]) = pvs[i] /\ Unescape(ks[i]) = ks[i]
  <2>1. ps[i].key \in Keys /\ ps[i].value \in Unencoded
    BY PresentType
  <2>2. ps[i].key \in Seq(PathCodes) /\ Unescape(ps[i].key) = ps[i].key
    BY <2>1, KeySent
  <2>3. PathText(ps[i].value) \in Seq(PathCodes)
    BY <2>1, PathTextSent
  <2>4. /\ Escape(PathText(ps[i].value), sep) \in Seq(Codes)
        /\ Unescape(Escape(PathText(ps[i].value), sep)) = PathText(ps[i].value)
    BY <2>3, UnescapeEscape
  <2>5. Element(ps[i].value, sep, TRUE) = Escape(PathText(ps[i].value), sep)
    BY DEF Element
  <2>6. ks[i] = ps[i].key /\ pvs[i] = PathText(ps[i].value) /\ vs[i] = Element(ps[i].value, sep, TRUE)
    BY DEF KeysOf, PathValuesOf, ElementsOf
  <2> HIDE DEF ks, pvs, vs
  <2> QED
    BY <2>1, <2>2, <2>3, <2>4, <2>5, <2>6, PathCodesCoded
<1>3. PartsOver(Codes, ps, sep, TRUE)
  BY <1>2 DEF PartsOver
<1>4. Ch(sep) \in PathCodes /\ Ch("=") \in PathCodes /\ Ch(sep) \in Codes /\ Ch("=") \in Codes
  BY PathChannel, PathCodesCoded DEF Channel
<1>5. PICK es : /\ es \in Seq(Seq(Codes)) /\ Serialize(v, sep, explode, TRUE) = Join(es, sep)
                /\ SerializedParts(es, ks, vs, n, explode)
  BY <1>3, <1>4, ObjectSerialized
<1> DEFINE us == UnescapedEach(es)
           m == Len(es)
<1>6. PathSerialize(v, sep, explode) = Join(us, sep)
  <2>1. Unescape(Join(es, sep)) = Join(us, sep)
    BY <1>4, <1>5, UnescapeJoin
  <2> QED
    BY <1>5, <2>1 DEF PathSerialize
<1>7. m \in Nat /\ DOMAIN us = 1..m /\ us = [j \in 1..m |-> us[j]] /\ \A j \in 1..m : us[j] = Unescape(es[j])
  BY <1>5 DEF UnescapedEach
<1> HIDE DEF us, ks, vs, pvs
<1>8. CASE explode
  <2>1. m = n /\ \A i \in 1..n : es[i] = KeyedText(ks[i], vs[i])
    BY <1>5, <1>8 DEF SerializedParts, KeyedEach
  <2>2. \A i \in 1..n : /\ KeyedText(ks[i], pvs[i]) \in Seq(PathCodes)
                        /\ Unescape(KeyedText(ks[i], Escape(pvs[i], sep))) = KeyedText(ks[i], pvs[i])
    BY <1>2, UnescapeKeyed
  <2> HIDE DEF m, n
  <2>3. \A i \in 1..n : us[i] = KeyedText(ks[i], pvs[i]) /\ us[i] \in Seq(PathCodes)
    <3> SUFFICES ASSUME NEW i \in 1..n PROVE us[i] = KeyedText(ks[i], pvs[i]) /\ us[i] \in Seq(PathCodes)
      OBVIOUS
    <3>1. vs[i] = Escape(pvs[i], sep)
      BY <1>2
    <3>2. us[i] = Unescape(es[i]) /\ es[i] = KeyedText(ks[i], vs[i])
      BY <1>7, <2>1
    <3> QED
      BY <2>2, <3>1, <3>2
  <2>4. us \in Seq(Seq(PathCodes)) /\ Len(us) = n
    BY <1>1, <1>7, <2>1, <2>3, FunctionIsSeq
  <2>5. KeyedEach(us, ks, pvs, n)
    BY <2>3, <2>4 DEF KeyedEach
  <2> QED
    BY <1>6, <1>8, <2>4, <2>5 DEF SerializedParts, ks, pvs, n
<1>9. CASE ~explode
  <2>1. m = 2 * n /\ \A i \in 1..n : es[2 * i - 1] = ks[i] /\ es[2 * i] = vs[i]
    BY <1>5, <1>9 DEF SerializedParts, Alternates
  <2> HIDE DEF m, n
  <2>2. \A i \in 1..n : 2 * i - 1 \in 1..m /\ 2 * i \in 1..m
    BY <1>1, <2>1
  <2>3. \A i \in 1..n : us[2 * i - 1] = ks[i] /\ us[2 * i] = pvs[i]
    BY <1>2, <1>7, <2>1, <2>2
  <2>4. \A j \in 1..m : us[j] \in Seq(PathCodes)
    <3> SUFFICES ASSUME NEW j \in 1..m PROVE us[j] \in Seq(PathCodes)
      OBVIOUS
    <3>1. PICK i \in 1..n : j = 2 * i - 1 \/ j = 2 * i
      BY <1>1, <2>1, Odd
    <3>2. ks[i] \in Seq(PathCodes) /\ pvs[i] \in Seq(PathCodes)
      BY <1>2
    <3> QED
      BY <2>3, <3>1, <3>2
  <2>5. us \in Seq(Seq(PathCodes)) /\ Len(us) = m
    BY <1>7, <2>4, FunctionIsSeq
  <2>6. Alternates(us, ks, pvs, n)
    BY <2>1, <2>3, <2>5 DEF Alternates
  <2> QED
    BY <1>6, <1>9, <2>5, <2>6 DEF SerializedParts, ks, pvs, n
<1> QED
  BY <1>8, <1>9

\* The reader that decodes what it split.
LEMMA ReadDecoded ==
    ASSUME NEW texts \in Seq(Seq(PathCodes)), NEW explode \in BOOLEAN
    PROVE  /\ Read("list", texts, explode, Decode) = Each(AsDecoded, texts)
           /\ Read("object", texts, TRUE, Decode) = ReadKeyed(AsDecoded, texts)
           /\ Read("object", texts, FALSE, Decode) = ReadFlat(AsDecoded, texts)
<1>1. \A t \in Seq(PathCodes) : AsDecoded[t] = Decode(t)
  BY PathDecode
<1>2. \A i \in DOMAIN texts : texts[i] \in Seq(PathCodes)
  OBVIOUS
<1>3. Len(texts) \in Nat /\ DOMAIN texts = 1..Len(texts)
  OBVIOUS
<1>4. Read("list", texts, explode, Decode) = Each(AsDecoded, texts)
  <2>1. Read("list", texts, explode, Decode) = [i \in DOMAIN texts |-> Decode(texts[i])]
    BY DEF Read
  <2> QED
    BY <1>1, <1>2, <2>1 DEF Each
<1>5. Read("object", texts, TRUE, Decode) = ReadKeyed(AsDecoded, texts)
  <2>1. Read("object", texts, TRUE, Decode) =
          [i \in DOMAIN texts |-> [key |-> Decode(KeyValue(texts[i]).key), value |-> Decode(KeyValue(texts[i]).value)]]
    BY DEF Read
  <2>2. ASSUME NEW i \in DOMAIN texts
        PROVE  /\ AsDecoded[KeyValue(texts[i]).key] = Decode(KeyValue(texts[i]).key)
               /\ AsDecoded[KeyValue(texts[i]).value] = Decode(KeyValue(texts[i]).value)
    <3>1. KeyValue(texts[i]).key \in Seq(PathCodes) /\ KeyValue(texts[i]).value \in Seq(PathCodes)
      BY <1>2, KeyValueType
    <3> QED
      BY <1>1, <3>1
  <2> QED
    BY <2>1, <2>2 DEF ReadKeyed
<1>6. Read("object", texts, FALSE, Decode) = ReadFlat(AsDecoded, texts)
  <2>1. Read("object", texts, FALSE, Decode) =
          [i \in 1..(Len(texts) \div 2) |-> [key |-> Decode(texts[2 * i - 1]), value |-> Decode(texts[2 * i])]]
    BY DEF Read
  <2>2. ASSUME NEW i \in 1..(Len(texts) \div 2)
        PROVE  AsDecoded[texts[2 * i - 1]] = Decode(texts[2 * i - 1]) /\ AsDecoded[texts[2 * i]] = Decode(texts[2 * i])
    <3>1. 2 * i - 1 \in 1..Len(texts) /\ 2 * i \in 1..Len(texts)
      BY <1>3
    <3> QED
      BY <1>1, <1>2, <1>3, <3>1
  <2> QED
    BY <2>1, <2>2 DEF ReadFlat
<1> QED
  BY <1>4, <1>5, <1>6

-----------------------------------------------------------------------------
(* What is read of the segment *)

\* t, without what comes before the parts, is read as a decoded list.
LEMMA PathListRead ==
    ASSUME NEW v, v.kind = "list", v.items \in Seq(Elements), NEW sep \in PathSeps, NEW explode \in BOOLEAN, NEW t,
           t = PathSerialize(v, sep, explode), NEW texts, texts = Split(t, sep)
    PROVE  t \in Seq(PathCodes) /\ (Read("list", texts, explode, Decode) = Meant(v) <=> Joinable(v, sep))
<1> DEFINE ms == PlainTexts(v.items)
           es == PathTexts(v.items)
<1>1. Channel(PathCodes, sep, AsDecoded)
  BY PathChannel
<1>2. ms \in Seq(Unencoded)
  BY PlainTextsType
<1>3. AllSent(PathCodes, sep, AsDecoded, ms, es)
  BY PathTextsSent
<1>4. Meant(v) = ms /\ (Joinable(v, sep) <=> ms # << <<>> >> /\ AllWithout(ms, sep))
  BY MeantList
<1>5. t = Join(es, sep)
  BY PathList
<1> HIDE DEF ms, es
<1>6. Rejoined(texts, es, sep)
  BY <1>5 DEF Rejoined
<1>7. Each(AsDecoded, texts) = ms <=> ms # << <<>> >> /\ AllWithout(ms, sep)
  BY <1>1, <1>2, <1>3, <1>6, ListRead
<1>8. t \in Seq(PathCodes)
  <2>1. Ch(sep) \in PathCodes /\ es \in Seq(Seq(PathCodes))
    BY <1>1, <1>3 DEF Channel, AllSent
  <2> QED
    BY <1>5, <2>1, JoinEmpty
<1>9. texts \in Seq(Seq(PathCodes))
  BY <1>1, <1>8, ReadWithout
<1>10. Read("list", texts, explode, Decode) = Each(AsDecoded, texts)
  BY <1>9, ReadDecoded
<1> QED
  BY <1>4, <1>7, <1>8, <1>10

LEMMA PropertiesNotEmpty ==
    ASSUME NEW ps \in Seq(Properties)
    PROVE  ps # << <<>> >>
<1> SUFFICES ASSUME ps = << <<>> >> PROVE FALSE
  OBVIOUS
<1>1. Len(ps) = 1 /\ ps[1] = <<>>
  OBVIOUS
<1>2. ps[1] \in Properties
  BY <1>1
<1>3. DOMAIN ps[1] = {"key", "value"}
  BY <1>2 DEF Properties
<1>4. DOMAIN ps[1] = {}
  BY <1>1
<1> QED
  BY <1>3, <1>4

LEMMA PathObjectRead ==
    ASSUME NEW v, IsObject(v), v.kind = "object", NEW sep \in PathSeps, NEW explode \in BOOLEAN, NEW t,
           t = PathSerialize(v, sep, explode), NEW texts, texts = Split(t, sep)
    PROVE  t \in Seq(PathCodes) /\ (Read("object", texts, explode, Decode) = Meant(v) <=> Joinable(v, sep))
<1> DEFINE ps == Present(v)
           ks == KeysOf(ps)
           vs == PathValuesOf(ps)
<1>1. Channel(PathCodes, sep, AsDecoded)
  BY PathChannel
<1>2. Ch(sep) \in PathCodes
  BY <1>1 DEF Channel
<1>3. NoEquals(ks, Len(ps)) /\ BothSent(PathCodes, sep, AsDecoded, ps, ks, vs)
  BY PathPartsSent
<1>4. PICK es : /\ es \in Seq(Seq(PathCodes)) /\ t = Join(es, sep)
                /\ SerializedParts(es, ks, vs, Len(ps), explode)
  BY PathObject
<1>5. es \in Seq(Seq(PathCodes)) /\ t = Join(es, sep)
  BY <1>4
<1>6. ps \in Seq(Properties)
  BY PresentType
<1>7. Meant(v) = ps /\ (Joinable(v, sep) <=> PropertiesWithout(ps, sep))
  BY MeantObject
<1> HIDE DEF ps, ks, vs
<1>8. t \in Seq(PathCodes)
  BY <1>2, <1>5, JoinEmpty
<1>9. texts \in Seq(Seq(PathCodes)) /\ Rejoined(texts, es, sep)
  BY <1>1, <1>5, <1>8, ReadWithout DEF Rejoined
<1>10. CASE explode
  <2>1. KeyedEach(es, ks, vs, Len(ps))
    BY <1>4, <1>10 DEF SerializedParts
  <2>2. ReadKeyed(AsDecoded, texts) = ps <=> PropertiesWithout(ps, sep)
    BY <1>1, <1>3, <1>5, <1>6, <1>9, <2>1, KeyedRead
  <2>3. Read("object", texts, TRUE, Decode) = ReadKeyed(AsDecoded, texts)
    BY <1>9, ReadDecoded
  <2>4. explode = TRUE
    BY <1>10
  <2> QED
    BY <1>7, <1>8, <2>2, <2>3, <2>4
<1>11. CASE ~explode
  <2>1. Alternates(es, ks, vs, Len(ps))
    BY <1>4, <1>11 DEF SerializedParts
  <2>2. ReadFlat(AsDecoded, texts) = ps <=> PropertiesWithout(ps, sep)
    BY <1>1, <1>3, <1>5, <1>6, <1>9, <2>1, FlatRead
  <2>3. Read("object", texts, FALSE, Decode) = ReadFlat(AsDecoded, texts)
    BY <1>9, ReadDecoded
  <2>4. explode = FALSE
    BY <1>11
  <2> QED
    BY <1>7, <1>8, <2>2, <2>3, <2>4
<1> QED
  BY <1>10, <1>11

\* The parts of a list that repeats the name.
NamedTexts(items) == [i \in DOMAIN items |-> Name \o <<Ch("=")>> \o PathText(items[i])]

LEMMA NamedTextsType ==
    ASSUME NEW items \in Seq(Elements)
    PROVE  NamedTexts(items) \in Seq(Seq(PathCodes)) /\ NamedEach(NamedTexts(items), Name, PathTexts(items))
<1> DEFINE n == Len(items)
           es == NamedTexts(items)
           vs == PathTexts(items)
           s == <<Ch("=")>>
<1>1. n \in Nat /\ DOMAIN items = 1..n /\ \A i \in 1..n : items[i] \in Elements
  OBVIOUS
<1>2. /\ es = [i \in 1..n |-> es[i]] /\ \A i \in 1..n : es[i] = KeyedText(Name, vs[i])
      /\ vs = [i \in 1..n |-> vs[i]] /\ \A i \in 1..n : vs[i] = PathText(items[i])
  BY <1>1 DEF NamedTexts, PathTexts, KeyedText
<1>3. Name \in Seq(PathCodes)
  BY NameIsKey, KeySent
<1>4. ";" \in PathSeps
  BY DEF PathSeps
<1>5. s \in Seq(PathCodes)
  <2>1. Ch("=") \in PathCodes
    BY <1>4, PathChannel DEF Channel
  <2> QED
    BY <2>1
<1> HIDE DEF n, es, vs, s
<1>6. ASSUME NEW i \in 1..n PROVE vs[i] \in Seq(PathCodes) /\ es[i] \in Seq(PathCodes)
  <2>1. vs[i] \in Seq(PathCodes)
    BY <1>1, <1>2, PathElementSent
  <2>2. Name \o s \in Seq(PathCodes)
    BY <1>3, <1>5, ConcatParts
  <2>3. (Name \o s) \o vs[i] \in Seq(PathCodes)
    BY <2>1, <2>2, ConcatParts
  <2> QED
    BY <1>2, <2>1, <2>3 DEF KeyedText, s
<1>7. es \in Seq(Seq(PathCodes)) /\ Len(es) = n /\ vs \in Seq(Seq(PathCodes)) /\ Len(vs) = n
  BY <1>1, <1>2, <1>6, FunctionIsSeq
<1> QED
  BY <1>2, <1>7 DEF NamedEach, es, vs

LEMMA EmptyWithout == \A sep : Without(<<>>, sep)
<1>1. ToSet(<<>>) = {}
  BY DEF ToSet
<1> QED
  BY <1>1 DEF Without

IsSemicolon(sep) == sep = ";"

LEMMA PathNamedRead ==
    ASSUME NEW v, v.kind = "list", v.items \in Seq(Elements), NEW sep, IsSemicolon(sep), NEW t,
           t = Join(NamedTexts(v.items), sep), NEW texts, texts = Split(t, sep)
    PROVE  /\ t \in Seq(PathCodes)
           /\ Read("list", [i \in DOMAIN texts |-> KeyValue(texts[i]).value], TRUE, Decode) = Meant(v) <=>
                 Joinable(v, sep) \/ Meant(v) = << <<>> >>
<1> DEFINE ms == PlainTexts(v.items)
           vs == PathTexts(v.items)
           es == NamedTexts(v.items)
<1>1. sep \in PathSeps
  BY DEF PathSeps, IsSemicolon
<1>2. Channel(PathCodes, sep, AsDecoded)
  BY <1>1, PathChannel
<1>3. ms \in Seq(Unencoded)
  BY PlainTextsType
<1>4. AllSent(PathCodes, sep, AsDecoded, ms, vs)
  BY PathTextsSent
<1>5. es \in Seq(Seq(PathCodes)) /\ NamedEach(es, Name, vs)
  BY NamedTextsType
<1>6. Meant(v) = ms /\ (Joinable(v, sep) <=> ms # << <<>> >> /\ AllWithout(ms, sep))
  BY MeantList
<1>7. Name \in Seq(PathCodes) /\ Without(Name, "=") /\ Without(Name, sep)
  BY NameIsKey, KeySent DEF IsSemicolon
<1>8. Rejoined(texts, es, sep) /\ t = Join(es, sep)
  BY DEF Rejoined
<1> HIDE DEF ms, vs, es
<1>9. t \in Seq(PathCodes)
  <2>1. Ch(sep) \in PathCodes
    BY <1>2 DEF Channel
  <2> QED
    BY <1>5, <1>8, <2>1, JoinEmpty
<1>10. texts \in Seq(Seq(PathCodes))
  BY <1>2, <1>9, ReadWithout
<1> DEFINE r == Read("list", [i \in DOMAIN texts |-> KeyValue(texts[i]).value], TRUE, Decode)
<1>11. r = ReadValues(AsDecoded, texts)
  <2>1. r = [i \in DOMAIN texts |-> Decode(KeyValue(texts[i]).value)]
    BY DEF Read
  <2>2. ASSUME NEW i \in DOMAIN texts
        PROVE  AsDecoded[KeyValue(texts[i]).value] = Decode(KeyValue(texts[i]).value)
    <3>1. texts[i] \in Seq(PathCodes)
      BY <1>10
    <3>2. KeyValue(texts[i]).value \in Seq(PathCodes)
      BY <3>1, KeyValueType
    <3> QED
      BY <3>2, PathDecode
  <2> HIDE DEF r
  <2> QED
    BY <2>1, <2>2 DEF ReadValues
<1> HIDE DEF r
<1>12. ReadValues(AsDecoded, texts) = ms <=> AllWithout(ms, sep)
  BY <1>2, <1>3, <1>4, <1>5, <1>7, <1>8, NamedRead
<1>13. ms = << <<>> >> => AllWithout(ms, sep)
  <2>1. ASSUME ms = << <<>> >> PROVE Len(ms) = 1 /\ ms[1] = <<>>
    BY <2>1
  <2>2. Without(<<>>, sep)
    BY EmptyWithout
  <2> QED
    BY <2>1, <2>2 DEF AllWithout
<1>14. r = Meant(v) <=> Joinable(v, sep) \/ Meant(v) = << <<>> >>
  BY <1>6, <1>11, <1>12, <1>13
<1> QED
  BY <1>9, <1>14 DEF r

\* The parameter of a path, and what comes before its parts and between them.
LEMMA PathFieldsOf ==
    ASSUME NEW a, IsAsked("path", a)
    PROVE  /\ PathOf(a).name = Name /\ PathOf(a).value = a.value /\ PathOf(a).explode = Explode(a, FALSE)
           /\ Structured(PathOf(a)) <=> Explode(a, FALSE) /\ Many(a)
           /\ a.options.style \in {"simple", "label", "matrix", Null} /\ Null \notin {"simple", "label", "matrix"}
           /\ PathOf(a).style = IF a.options.style = Null THEN "simple" ELSE a.options.style
<1>1. /\ PathOf(a).name = Name /\ PathOf(a).value = a.value /\ PathOf(a).explode = Explode(a, FALSE)
      /\ PathOf(a).style = IF a.options.style = Null THEN "simple" ELSE a.options.style
  BY DEF PathOf, PathParameter, Param, Explode, OptionOr
<1>2. a.options \in Options["path"]
  BY DEF IsAsked
<1>3. a.options.style \in {"simple", "label", "matrix", Null} /\ Null \notin {"simple", "label", "matrix"}
  BY <1>2, OptionAssumption
<1>4. Structured(PathOf(a)) <=> Explode(a, FALSE) /\ Many(a)
  BY <1>1 DEF Structured, Many
<1> QED
  BY <1>1, <1>3, <1>4

LEMMA PathSeparatorOf ==
    ASSUME NEW a, IsAsked("path", a)
    PROVE  PathSep(a) \in PathSeps /\ (Many(a) => PathSeparator(PathOf(a)) = PathSep(a))
<1>1. PathSep(a) \in PathSeps
  BY DEF PathSep, PathSeps
<1>2. ASSUME Many(a) PROVE PathSeparator(PathOf(a)) = PathSep(a)
  <2>1. CASE a.options.style = "label"
    BY <1>2, <2>1, PathFieldsOf DEF PathSep, PathSeparator
  <2>2. CASE a.options.style = "matrix"
    BY <1>2, <2>2, PathFieldsOf DEF PathSep, PathSeparator
  <2>3. CASE a.options.style \in {"simple", Null}
    BY <1>2, <2>3, PathFieldsOf DEF PathSep, PathSeparator
  <2> QED
    BY <2>1, <2>2, <2>3, PathFieldsOf
<1> QED
  BY <1>1, <1>2

LEMMA PathPrefixOf ==
    ASSUME NEW a, IsAsked("path", a), NEW t, t = PathPrefix(PathOf(a))
    PROVE  /\ t \in Seq(PathCodes) /\ Len(t) = Lead(a)
           /\ a.options.style = "label" => t = <<Ch(".")>>
           /\ a.options.style = "matrix" /\ Explode(a, FALSE) /\ Many(a) => t = <<Ch(";")>>
           /\ a.options.style = "matrix" /\ ~(Explode(a, FALSE) /\ Many(a)) =>
                 Len(t) \notin {0, 1} /\ t[1] = Ch(";")
           /\ a.options.style \in {"simple", Null} => t = <<>>
<1> DEFINE semi == <<Ch(";")>>
           eq == <<Ch("=")>>
           dot == <<Ch(".")>>
<1>1. ";" \in Letters \ Breaking /\ "." \in Letters \ Breaking /\ "=" \in Letters \ Breaking
  BY DEF Letters, Reserved, Breaking
<1>2. semi \in Seq(PathCodes) /\ dot \in Seq(PathCodes) /\ eq \in Seq(PathCodes) /\ Name \in Seq(PathCodes)
  <2>1. Ch(";") \in PathCodes /\ Ch(".") \in PathCodes /\ Ch("=") \in PathCodes
    BY <1>1 DEF PathCodes
  <2>2. Name \in Seq(PathCodes)
    BY NameIsKey, KeySent
  <2>3. semi \in Seq(PathCodes) /\ dot \in Seq(PathCodes) /\ eq \in Seq(PathCodes)
    <3>1. \A c \in PathCodes : <<c>> \in Seq(PathCodes)
      OBVIOUS
    <3> QED
      BY <2>1, <3>1, Zenon
  <2> QED
    BY <2>2, <2>3
<1>3. Len(semi) = 1 /\ Len(eq) = 1 /\ Len(dot) = 1
  OBVIOUS
<1>9. semi[1] = Ch(";")
  OBVIOUS
<1> HIDE DEF semi, eq, dot
<1>4. (semi \o Name) \o eq \in Seq(PathCodes) /\ Len((semi \o Name) \o eq) = Len(Name) + 2
  <2>1. semi \o Name \in Seq(PathCodes) /\ Len(semi \o Name) = 1 + Len(Name)
    <3>1. semi \o Name \in Seq(PathCodes) /\ Len(semi \o Name) = Len(semi) + Len(Name)
      BY <1>2, ConcatParts
    <3> QED
      BY <1>3, <3>1
  <2>2. Len((semi \o Name) \o eq) = Len(semi \o Name) + 1 /\ (semi \o Name) \o eq \in Seq(PathCodes)
    BY <1>2, <1>3, <2>1, ConcatParts
  <2>3. Len(Name) \in Nat
    BY <1>2
  <2> QED
    BY <2>1, <2>2, <2>3
<1>5. CASE a.options.style = "label"
  <2>1. t = dot /\ Lead(a) = 1
    BY <1>5, PathFieldsOf DEF PathPrefix, Lead, dot
  <2> QED
    BY <1>2, <1>3, <1>5, <2>1, PathFieldsOf DEF dot
<1>6. CASE a.options.style = "matrix" /\ Explode(a, FALSE) /\ Many(a)
  <2>1. t = semi /\ Lead(a) = 1
    BY <1>6, PathFieldsOf DEF PathPrefix, Lead, semi
  <2> QED
    BY <1>2, <1>3, <1>6, <2>1, PathFieldsOf DEF semi
<1>7. CASE a.options.style = "matrix" /\ ~(Explode(a, FALSE) /\ Many(a))
  <2>1. t = (semi \o Name) \o eq /\ Lead(a) = Len(Name) + 2
    BY <1>7, PathFieldsOf DEF PathPrefix, Lead, semi, eq
  <2>2. Len(Name) \in Nat
    BY <1>2
  <2>3. Len(t) \notin {0, 1}
    BY <1>4, <2>1, <2>2
  <2>4. t[1] = Ch(";")
    <3>1. /\ \A i \in 1..Len(semi) : (semi \o Name)[i] = semi[i]
          /\ semi \o Name \in Seq(PathCodes) /\ Len(semi \o Name) = Len(semi) + Len(Name)
      BY <1>2, ConcatParts
    <3>2. \A i \in 1..Len(semi \o Name) : ((semi \o Name) \o eq)[i] = (semi \o Name)[i]
      BY <1>2, <3>1, ConcatParts
    <3>3. 1 \in 1..Len(semi) /\ 1 \in 1..Len(semi \o Name)
      BY <1>3, <2>2, <3>1
    <3>4. ((semi \o Name) \o eq)[1] = semi[1]
      BY <3>1, <3>2, <3>3
    <3> QED
      BY <1>9, <2>1, <3>4
  <2> QED
    BY <1>4, <1>7, <2>1, <2>3, <2>4, PathFieldsOf
<1>8. CASE a.options.style \in {"simple", Null}
  <2>1. t = <<>> /\ Lead(a) = 0
    BY <1>8, PathFieldsOf DEF PathPrefix, Lead
  <2>2. t \in Seq(PathCodes) /\ Len(t) = 0
    BY <2>1
  <2> QED
    BY <1>8, <2>1, <2>2, PathFieldsOf
<1> QED
  BY <1>5, <1>6, <1>7, <1>8, PathFieldsOf

\* The reader of a segment without what comes before its parts.
ReadRest(rest, a) ==
    LET texts == Split(rest, PathSep(a)) IN
    IF ~Many(a) THEN Decode(rest)
    ELSE IF a.options.style = "matrix" /\ Explode(a, FALSE) /\ a.value.kind = "list"
    THEN Read("list", [i \in DOMAIN texts |-> KeyValue(texts[i]).value], TRUE, Decode)
    ELSE Read(a.value.kind, texts, Explode(a, FALSE), Decode)

\* What may be read.
IsRead(r, a) ==
    IF Many(a) THEN r = Meant(a.value) <=> \/ Joinable(a.value, PathSep(a))
                                           \/ PathSep(a) = ";" /\ Meant(a.value) = << <<>> >>
    ELSE r = AskedText(a)

\* A single text of a path, encoded.
LEMMA PathBodyText ==
    ASSUME NEW a, IsAsked("path", a), ~Many(a)
    PROVE  /\ AskedText(a) \in Unencoded
           /\ PathBody(PathOf(a)) = PathText(AskedText(a))
           /\ PathText(AskedText(a)) = Unescape(Encode(AskedText(a)))
<1> DEFINE v == a.value
           p == PathOf(a)
           text == AskedText(a)
<1>1. v \in Values /\ p.name = Name /\ p.value = v /\ v.kind \notin {"list", "object"}
  BY PathFieldsOf DEF IsAsked, Many
<1>2. text \in Unencoded
  <2>1. CASE v = NullValue
    <3>1. text = <<>>
      BY <2>1 DEF AskedText
    <3> QED
      BY <3>1 DEF Unencoded
  <2>2. CASE v # NullValue
    BY <1>1, <2>2, ValueKinds DEF AskedText
  <2> QED
    BY <2>1, <2>2
<1>3. PathText(text) = Unescape(Encode(text))
  BY <1>2, NameAssumption DEF PathText
<1>4. CASE v = NullValue
  <2> DEFINE e == <<>>
  <2>1. text = e
    BY <1>4 DEF AskedText
  <2>2. Encode(e) = e /\ Unescape(e) = e
    BY DEF Encode, Unescape
  <2>3. PathBody(p) = Unescape(e)
    <3>1. p.value.kind = "null"
      BY <1>1, <1>4 DEF NullValue
    <3> QED
      BY <3>1 DEF PathBody, PathSerialize, Serialize
  <2> HIDE DEF e, text, p
  <2>4. PathText(text) = e /\ PathBody(p) = e
    BY <1>3, <2>1, <2>2, <2>3
  <2> QED
    BY <1>2, <1>3, <2>4 DEF text, p
<1>5. CASE v # NullValue
  <2>1. v.kind = "text" /\ text = v.text
    BY <1>1, <1>5, ValueKinds DEF AskedText
  <2>2. PathBody(p) = Unescape(PathText(v.text))
    BY <1>1, <2>1 DEF PathBody, PathSerialize, Serialize
  <2> QED
    BY <1>2, <1>3, <2>1, <2>2, UnescapedOnce
<1> QED
  BY <1>2, <1>3, <1>4, <1>5

LEMMA PathBodyRead ==
    ASSUME NEW a, IsAsked("path", a), NEW t, t = PathBody(PathOf(a))
    PROVE  t \in Seq(PathCodes) /\ IsRead(ReadRest(t, a), a)
<1> DEFINE v == a.value
           p == PathOf(a)
           sep == PathSep(a)
           explode == Explode(a, FALSE)
           texts == Split(t, sep)
<1>1. v \in Values
  BY DEF IsAsked
<1>2. p.name = Name /\ p.value = v /\ p.explode = explode
  BY PathFieldsOf
<1>3. p.style = "matrix" <=> a.options.style = "matrix"
  BY PathFieldsOf
<1>4. explode \in BOOLEAN
  BY OptionTypes
<1>5. sep \in PathSeps /\ (Many(a) => PathSeparator(p) = sep)
  BY PathSeparatorOf
<1>6. a.options.style = "matrix" /\ v.kind = "list" /\ explode <=> sep = ";" /\ v.kind = "list"
  BY PathFieldsOf DEF PathSep
<1>7. CASE v.kind \in {"null", "text"}
  <2>1. ~Many(a)
    BY <1>7 DEF Many
  <2>2. AskedText(a) \in Unencoded /\ t = PathText(AskedText(a)) /\ t = Unescape(Encode(AskedText(a)))
    BY <2>1, PathBodyText
  <2>3. t \in Seq(PathCodes)
    BY <2>2, PathTextSent
  <2>4. Decode(t) = AskedText(a)
    BY <2>2, DecodePathText
  <2>5. ReadRest(t, a) = AskedText(a)
    BY <2>1, <2>4 DEF ReadRest
  <2> QED
    BY <2>1, <2>3, <2>5 DEF IsRead
<1>8. CASE v.kind = "list" /\ ~(p.style = "matrix" /\ explode)
  <2>1. v.items \in Seq(Elements) /\ Many(a) /\ sep # ";"
    BY <1>1, <1>3, <1>6, <1>8, ValueKinds DEF Many
  <2>2. t = PathSerialize(v, sep, explode)
    BY <1>2, <1>5, <1>8, <2>1 DEF PathBody
  <2>3. texts = Split(t, sep)
    OBVIOUS
  <2> HIDE DEF texts, sep, explode, p
  <2>4. t \in Seq(PathCodes) /\ (Read("list", texts, explode, Decode) = Meant(v) <=> Joinable(v, sep))
    <3>1. v.kind = "list" /\ v.items \in Seq(Elements) /\ sep \in PathSeps
      BY <1>5, <1>8, <2>1
    <3> QED
      BY <1>4, <2>2, <2>3, <3>1, PathListRead
  <2>5. ReadRest(t, a) = Read("list", texts, explode, Decode)
    BY <1>3, <1>8, <2>1 DEF ReadRest, texts, sep, explode
  <2> QED
    BY <2>1, <2>4, <2>5 DEF IsRead, sep
<1>9. CASE v.kind = "list" /\ p.style = "matrix" /\ explode
  <2>1. v.items \in Seq(Elements) /\ Many(a) /\ IsSemicolon(sep)
    BY <1>1, <1>3, <1>6, <1>9, ValueKinds DEF Many, IsSemicolon
  <2>2. t = Join(NamedTexts(v.items), sep)
    <3>1. t = Join(NamedTexts(v.items), ";")
      BY <1>2, <1>9 DEF PathBody, NamedTexts
    <3> QED
      BY <2>1, <3>1 DEF IsSemicolon
  <2>3. texts = Split(t, sep)
    OBVIOUS
  <2> DEFINE values == [i \in DOMAIN texts |-> KeyValue(texts[i]).value]
  <2>4. ReadRest(t, a) = Read("list", values, TRUE, Decode)
    BY <1>3, <1>9, <2>1 DEF ReadRest
  <2> HIDE DEF sep, explode, p, texts
  <2>5. /\ t \in Seq(PathCodes)
        /\ Read("list", values, TRUE, Decode) = Meant(v) <=>
              Joinable(v, sep) \/ Meant(v) = << <<>> >>
    BY <1>9, <2>1, <2>2, <2>3, PathNamedRead
  <2> QED
    BY <2>1, <2>4, <2>5 DEF IsRead, IsSemicolon, sep
<1>10. CASE v.kind = "object"
  <2>1. IsObject(v) /\ Many(a)
    BY <1>1, <1>10, ValueKinds DEF Many
  <2>2. t = PathSerialize(v, sep, explode)
    BY <1>2, <1>5, <1>10, <2>1 DEF PathBody
  <2>3. texts = Split(t, sep)
    OBVIOUS
  <2>4. Meant(v) # << <<>> >>
    BY <1>10, <2>1, MeantObject, PresentType, PropertiesNotEmpty
  <2> HIDE DEF texts, sep, explode, p
  <2>5. t \in Seq(PathCodes) /\ (Read("object", texts, explode, Decode) = Meant(v) <=> Joinable(v, sep))
    BY <1>4, <1>5, <1>10, <2>1, <2>2, <2>3, PathObjectRead
  <2>6. ReadRest(t, a) = Read("object", texts, explode, Decode)
    BY <1>10, <2>1 DEF ReadRest, texts, sep, explode
  <2> QED
    BY <2>1, <2>4, <2>5, <2>6 DEF IsRead, sep
<1>11. v.kind \in {"null", "text", "list", "object"}
  BY <1>1, ValueKinds
<1> QED
  BY <1>7, <1>8, <1>9, <1>10, <1>11

\* What is after a prefix.
LEMMA AfterPrefix ==
    ASSUME NEW C, NEW b \in Seq(C), NEW t \in Seq(C), NEW n
    PROVE  n = Len(b) => SubSeq(b \o t, n + 1, Len(b \o t)) = t
<1> DEFINE u == b \o t
           m == Len(t)
           r == SubSeq(u, Len(b) + 1, Len(u))
<1>1. u \in Seq(C) /\ Len(u) = Len(b) + m /\ \A i \in 1..m : u[Len(b) + i] = t[i]
  BY ConcatParts
<1>2. Len(b) \in Nat /\ m \in Nat /\ t = [i \in 1..m |-> t[i]]
  BY SeqIsFunction
<1> HIDE DEF u
<1>3. r \in Seq(C) /\ Len(r) = m /\ \A i \in 1..m : r[i] = u[Len(b) + i]
  BY <1>1, <1>2
<1>4. r = [i \in 1..m |-> r[i]]
  BY <1>3, SeqIsFunction
<1> HIDE DEF r, m
<1>5. r = t
  BY <1>1, <1>2, <1>3, <1>4
<1> QED
  BY <1>5 DEF r, u

\* The pieces of a path.
PathPieces == [kind : {"literal"}, text : Unencoded]
                \cup [kind : {"placeholder"}, name : Unencoded, star : BOOLEAN,
                      prefix : {<<>>, <<Ch(".")>>, <<Ch(";")>>}]

\* A placeholder is for the parameter if it is one of the two that it fills.
IsHole(hole) ==
    /\ hole = Placeholder(Name, hole.prefix, hole.star) /\ hole.kind = "placeholder" /\ hole.star \in BOOLEAN
    /\ hole.prefix \in {<<>>, <<Ch(".")>>, <<Ch(";")>>}

LEMMA HolesFilled ==
    ASSUME NEW a, IsAsked("path", a), NEW hole, IsHole(hole), NEW t, t = PathPrefix(PathOf(a))
    PROVE  hole \in {Placeholder(Name, <<>>, FALSE), Placeholder(Name, t, PathOf(a).explode)} <=> IsFor(hole, a)
<1> DEFINE x == hole.prefix
           star == hole.star
           explode == Explode(a, FALSE)
           dot == <<Ch(".")>>
           semi == <<Ch(";")>>
<1>1. PathOf(a).explode = explode /\ explode \in BOOLEAN /\ star \in BOOLEAN
  BY PathFieldsOf, OptionTypes DEF IsHole
<1>2. \A y, s : hole = Placeholder(Name, y, s) <=> x = y /\ star = s
  <2>1. hole = Placeholder(Name, x, star)
    BY DEF IsHole
  <2>2. \A y, s : Placeholder(Name, y, s).prefix = y /\ Placeholder(Name, y, s).star = s
    BY DEF Placeholder
  <2> QED
    BY <2>1, <2>2
<1>3. hole \in {Placeholder(Name, <<>>, FALSE), Placeholder(Name, t, PathOf(a).explode)} <=>
        (x = <<>> /\ star = FALSE) \/ (x = t /\ star = explode)
  BY <1>1, <1>2
<1>4. x \in {<<>>, dot, semi}
  BY DEF IsHole
<1>5. Len(dot) = 1 /\ Len(semi) = 1 /\ Len(<<>>) = 0
  OBVIOUS
<1>6. dot # semi
  <2>1. dot[1] = Ch(".") /\ semi[1] = Ch(";")
    OBVIOUS
  <2> QED
    BY <2>1, CharTypes
<1>7. /\ a.options.style = "label" => t = dot
      /\ a.options.style = "matrix" /\ explode /\ Many(a) => t = semi
      /\ a.options.style = "matrix" /\ ~(explode /\ Many(a)) => Len(t) \notin {0, 1}
      /\ a.options.style \in {"simple", Null} => t = <<>>
  BY PathPrefixOf
<1>8. a.options.style \in {"simple", "label", "matrix", Null} /\ Null \notin {"simple", "label", "matrix"}
  BY PathFieldsOf
<1>9. IsFor(hole, a) <=>
        \/ x = <<>> /\ ~star
        \/ /\ star = explode
           /\ \/ a.options.style = "label" /\ x = dot
              \/ a.options.style = "matrix" /\ explode /\ Many(a) /\ x = semi
              \/ a.options.style \in {Null, "simple"} /\ x = <<>>
  BY DEF IsFor
<1> HIDE DEF x, star, explode, dot, semi
<1>10. CASE a.options.style = "label"
  BY <1>1, <1>3, <1>7, <1>8, <1>9, <1>10
<1>11. CASE a.options.style = "matrix" /\ explode /\ Many(a)
  BY <1>1, <1>3, <1>7, <1>8, <1>9, <1>11
<1>12. CASE a.options.style = "matrix" /\ ~(explode /\ Many(a))
  <2>1. t \notin {<<>>, dot, semi}
    <3>1. Len(t) \notin {0, 1}
      BY <1>7, <1>12
    <3>2. t = <<>> => Len(t) = 0
      BY <1>5
    <3>3. t = dot \/ t = semi => Len(t) = 1
      BY <1>5
    <3> QED
      BY <3>1, <3>2, <3>3, Zenon
  <2>2. x # t
    BY <1>4, <2>1
  <2> QED
    BY <1>1, <1>3, <1>8, <1>9, <1>12, <2>2
<1>13. CASE a.options.style \in {"simple", Null}
  BY <1>1, <1>3, <1>7, <1>8, <1>9, <1>13
<1> QED
  BY <1>8, <1>10, <1>11, <1>12, <1>13

\* The last piece of a path is a placeholder for the parameter, and no other.
LEMMA TemplatePieces ==
    ASSUME NEW path \in Templates
    PROVE  /\ path \in Seq(PathPieces) /\ path # <<>> /\ IsHole(path[Len(path)])
           /\ \A i \in 1..(Len(path) - 1) : path[i].kind # "placeholder" \/ path[i].name # Name
<1> DEFINE n == Len(path)
           hole == path[n]
<1>1. path \in Seq(PathPieces) /\ path # <<>>
  <2>1. path \in Seq(PathPieces) /\ Len(path) > 1
    BY TemplateAssumption, Zenon DEF PathPieces
  <2> QED
    BY <2>1
<1>2. \A i \in DOMAIN path : path[i].kind = "placeholder" /\ path[i].name = Name <=> i = n
  BY TemplateAssumption
<1>3. n \in Nat /\ n # 0 /\ DOMAIN path = 1..n
  BY <1>1
<1> HIDE DEF n
<1>4. hole \in PathPieces /\ hole.kind = "placeholder" /\ hole.name = Name
  BY <1>1, <1>2, <1>3
<1> HIDE DEF hole
<1>5. hole \in [kind : {"placeholder"}, name : Unencoded, star : BOOLEAN,
                prefix : {<<>>, <<Ch(".")>>, <<Ch(";")>>}]
  <2>1. \A x \in [kind : {"literal"}, text : Unencoded] : x.kind = "literal"
    OBVIOUS
  <2> QED
    BY <1>4, <2>1 DEF PathPieces
<1>6. IsHole(hole)
  <2>1. hole.star \in BOOLEAN /\ hole.prefix \in {<<>>, <<Ch(".")>>, <<Ch(";")>>}
    BY <1>5
  <2>2. hole = [kind |-> "placeholder", name |-> Name, prefix |-> hole.prefix, star |-> hole.star]
    BY <1>4, <1>5
  <2> QED
    BY <1>4, <2>1, <2>2 DEF IsHole, Placeholder
<1>7. \A i \in 1..(n - 1) : path[i].kind # "placeholder" \/ path[i].name # Name
  BY <1>2, <1>3
<1> QED
  BY <1>1, <1>6, <1>7 DEF hole, n

\* A root and a path, and a path whose last piece is another one.
UrlOf(root, path) == <<root>> \o path
Ending(path, piece) == [path EXCEPT ![Len(path)] = piece]

\* The last piece of the url.
LEMMA LastPiece ==
    ASSUME NEW path, NEW S, path \in Seq(S), path # <<>>, NEW x
    PROVE  /\ Last(UrlOf(x, path)) = path[Len(path)] /\ Last(path) = path[Len(path)]
           /\ \A y : Last(UrlOf(x, Ending(path, y))) = y
<1> DEFINE n == Len(path)
           s == <<x>>
           T == S \cup {x}
<1>1. n \in Nat /\ n # 0 /\ path \in Seq(T) /\ s \in Seq(T) /\ Len(s) = 1
  OBVIOUS
<1>2. ASSUME NEW U, NEW u \in Seq(U), Len(u) = n PROVE Last(s \o u) = u[n]
  <2> DEFINE W == U \cup {x}
  <2>1. u \in Seq(W) /\ s \in Seq(W)
    BY <1>2
  <2> HIDE DEF s, n, W
  <2>2. Len(s \o u) = Len(s) + Len(u) /\ \A i \in 1..Len(u) : (s \o u)[Len(s) + i] = u[i]
    BY <2>1, ConcatParts
  <2>3. Len(s \o u) = Len(s) + n /\ n \in 1..Len(u)
    BY <1>1, <1>2, <2>2
  <2>4. (s \o u)[Len(s) + n] = u[n]
    BY <2>2, <2>3
  <2> QED
    BY <2>3, <2>4 DEF Last
<1>3. Last(path) = path[n]
  BY DEF Last
<1>4. ASSUME NEW y PROVE Last(s \o Ending(path, y)) = y
  <2> DEFINE u == Ending(path, y)
             U == S \cup {y}
  <2>1. u \in Seq(U) /\ Len(u) = n /\ u[n] = y
    BY <1>1 DEF Ending
  <2> HIDE DEF u, U, s, n
  <2>2. Last(s \o u) = u[n]
    BY <1>2, <2>1
  <2> QED
    BY <2>1, <2>2 DEF u
<1>5. Last(s \o path) = path[n]
  BY <1>2
<1> QED
  BY <1>3, <1>4, <1>5 DEF s, n, UrlOf

\* Nothing in a segment breaks the path.
LEMMA NoBreak ==
    ASSUME NEW t \in Seq(PathCodes), NEW c \in Breaking
    PROVE  Without(t, c)
<1>1. Ch(c) \notin PathCodes
  <2>1. \A x \in Letters \ Breaking : Ch(c) # Ch(x)
    BY CharTypes
  <2>2. \A x : Ch(c) # <<x, 1>>
    BY CharTypes
  <2> QED
    BY <2>1, <2>2 DEF PathCodes
<1>2. ToSet(t) \subseteq PathCodes
  BY DEF ToSet
<1> QED
  BY <1>1, <1>2 DEF Without

-----------------------------------------------------------------------------
(* The segments that do not arrive *)

OneDot == <<Dot>>

\* With a dot before it, a text is one dot or two if it is empty or a dot.
LEMMA DotBefore ==
    ASSUME NEW S, NEW u \in Seq(S)
    PROVE  OneDot \o u \in DotSegments <=> Len(u) \in {0, 1} /\ \A i \in 1..Len(u) : u[i] = Dot
<1> DEFINE T == S \cup {Dot}
           w == OneDot \o u
<1>1. u \in Seq(T) /\ OneDot \in Seq(T) /\ Len(OneDot) = 1 /\ OneDot[1] = Dot /\ Len(u) \in Nat
  BY DEF OneDot
<1> HIDE DEF T
<1>2. w \in Seq(T) /\ Len(w) = 1 + Len(u) /\ w[1] = Dot /\ \A i \in 1..Len(u) : w[1 + i] = u[i]
  BY <1>1, ConcatParts
<1> HIDE DEF w
<1>3. w \in DotSegments <=> Len(w) \in {1, 2} /\ \A i \in 1..Len(w) : w[i] = Dot
  BY <1>2, IsDots
<1>4. (\A i \in 1..Len(w) : w[i] = Dot) <=> \A i \in 1..Len(u) : u[i] = Dot
  <2>1. ASSUME \A i \in 1..Len(w) : w[i] = Dot, NEW i \in 1..Len(u) PROVE u[i] = Dot
    <3>1. 1 + i \in 1..Len(w) /\ w[1 + i] = u[i]
      BY <1>1, <1>2
    <3> QED
      BY <2>1, <3>1
  <2>2. ASSUME \A i \in 1..Len(u) : u[i] = Dot, NEW i \in 1..Len(w) PROVE w[i] = Dot
    <3>1. i = 1 \/ (i - 1 \in 1..Len(u) /\ w[1 + (i - 1)] = u[i - 1] /\ 1 + (i - 1) = i)
      BY <1>1, <1>2
    <3> QED
      BY <1>2, <2>2, <3>1
  <2> QED
    BY <2>1, <2>2
<1>5. Len(w) \in {1, 2} <=> Len(u) \in {0, 1}
  BY <1>1, <1>2
<1> QED
  BY <1>3, <1>4, <1>5 DEF w

\* The segment of a single text is lost if the text has nothing but the dots for it.
LEMMA DotsLost ==
    ASSUME NEW a, IsAsked("path", a), ~Many(a), NEW before, before = PathPrefix(PathOf(a)),
           NEW after, after = PathBody(PathOf(a))
    PROVE  before \o after \in DotSegments <=> DotsOnly(a)
<1> DEFINE t == AskedText(a)
<1>1. t \in Unencoded /\ after = Unescape(Encode(t))
  BY PathBodyText
<1>2. DotsOnly(a) <=> \/ a.options.style = "label" /\ OneDot \o t \in DotSegments
                      \/ a.options.style \in {"simple", Null} /\ t \in DotSegments
  BY DEF DotsOnly, OneDot, Dot
<1> HIDE DEF t
<1>3. /\ after \in Coded /\ t \in Coded /\ Len(after) = Len(t) /\ Len(t) \in Nat
      /\ \A i \in 1..Len(t) : after[i] = Dot <=> t[i] = Dot
  BY <1>1, DotsStay
<1>4. after \in DotSegments <=> t \in DotSegments
  BY <1>3, IsDots DEF Coded
<1>5. OneDot \o after \in DotSegments <=> OneDot \o t \in DotSegments
  BY <1>3, DotBefore DEF Coded
<1>6. a.options.style \in {"simple", "label", "matrix", Null} /\ Null \notin {"simple", "label", "matrix"}
  BY PathFieldsOf
<1>7. CASE a.options.style = "label"
  <2>1. before = OneDot
    BY <1>7, PathPrefixOf DEF OneDot, Dot
  <2> QED
    BY <1>2, <1>5, <1>6, <1>7, <2>1
<1>8. CASE a.options.style = "matrix"
  <2>1. before \in Seq(PathCodes) /\ Len(before) \notin {0, 1} /\ before[1] = Ch(";")
    BY <1>8, PathPrefixOf
  <2>2. before \in Seq(Codes) /\ after \in Seq(Codes)
    BY <1>3, <2>1, PathCodesCoded DEF Coded
  <2> DEFINE w == before \o after
  <2>3. w \in Seq(Codes) /\ Len(w) = Len(before) + Len(after) /\ \A i \in 1..Len(before) : w[i] = before[i]
    BY <2>2, ConcatParts
  <2>4. Len(before) \in Nat /\ Len(after) \in Nat
    BY <2>2
  <2> HIDE DEF w
  <2>5. 1 \in 1..Len(w) /\ w[1] = Ch(";")
    <3>1. 1 \in 1..Len(before)
      <4>1. \A k \in Nat : k \notin {0, 1} => 1 \in 1..k
        OBVIOUS
      <4> QED
        BY <2>1, <2>4, <4>1
    <3>2. 1 \in 1..Len(w)
      BY <2>3, <2>4, <3>1
    <3> QED
      BY <2>1, <2>3, <3>1, <3>2
  <2>6. Ch(";") # Dot
    BY CharTypes DEF Dot
  <2>7. w \notin DotSegments
    BY <2>3, <2>5, <2>6, IsDots
  <2> QED
    BY <1>2, <1>6, <1>8, <2>7 DEF w
<1>9. CASE a.options.style \in {"simple", Null}
  <2>1. before = <<>>
    BY <1>9, PathPrefixOf
  <2>2. before \o after = after
    BY <1>3, <2>1 DEF Coded
  <2> QED
    BY <1>2, <1>4, <1>6, <1>9, <2>2
<1> QED
  BY <1>6, <1>7, <1>8, <1>9

\* What is built of an invariant state has the path.
LEMMA PathKept == CallerInv => PathRecovered
<1> SUFFICES ASSUME CallerInv, Built, asked["path"] # Null PROVE PathRecovered
  BY DEF PathRecovered
<1> DEFINE a == asked["path"]
           path == builder.operationPath
           n == Len(path)
           hole == path[n]
           p == PathOf(a)
           before == PathPrefix(p)
           after == PathBody(p)
           t == before \o after
           holes == {Placeholder(Name, <<>>, FALSE), Placeholder(Name, before, p.explode)}
           segment == Last(request.url)
<1>1. IsAsked("path", a) /\ builder.path = <<p>> /\ path \in Templates /\ request = Build(builder, "application/json")
  BY DEF CallerInv, PathHeld, Built
<1> HIDE DEF a
<1>2. /\ path \in Seq(PathPieces) /\ path # <<>> /\ IsHole(hole)
      /\ \A i \in 1..(n - 1) : path[i].kind # "placeholder" \/ path[i].name # Name
  BY <1>1, TemplatePieces
<1>3. request.url = UrlOf(Literal(builder.rootUrl), AppendPath(path, p))
  BY <1>1, BuiltUrl DEF UrlOf
<1>4. p.name = Name
  BY <1>1, PathFieldsOf
<1>5. AppendPath(path, p) = IF hole \in holes THEN Ending(path, Literal(t)) ELSE path
  BY <1>2, <1>4, AppendPathLast DEF Ending
<1>6. hole \in holes <=> IsFor(hole, a)
  BY <1>1, <1>2, HolesFilled
<1>7. Last(path) = hole
  BY <1>2, LastPiece
<1>8. CASE ~IsFor(hole, a)
  <2>1. segment = hole
    <3>1. request.url = UrlOf(Literal(builder.rootUrl), path)
      BY <1>3, <1>5, <1>6, <1>8
    <3> QED
      BY <1>2, <3>1, LastPiece
  <2>2. segment.kind = "placeholder"
    BY <1>2, <2>1 DEF IsHole
  <2> QED
    BY <1>7, <1>8, <2>2 DEF PathRecovered, a
<1>9. CASE IsFor(hole, a)
  <2>1. AppendPath(path, p) = Ending(path, Literal(t))
    BY <1>5, <1>6, <1>9
  <2>2. segment = Literal(t)
    BY <1>2, <1>3, <2>1, LastPiece
  <2>3. segment.text = t
    BY <2>2 DEF Literal
  <2>4. before \in Seq(PathCodes) /\ Len(before) = Lead(a)
    BY <1>1, PathPrefixOf
  <2>5. after \in Seq(PathCodes) /\ IsRead(ReadRest(after, a), a)
    BY <1>1, PathBodyRead
  <2>10. ~Many(a) => (t \in DotSegments <=> DotsOnly(a))
    BY <1>1, DotsLost
  <2> HIDE DEF before, after
  <2>6. t \in Seq(PathCodes) /\ SubSeq(t, Lead(a) + 1, Len(t)) = after
    BY <2>4, <2>5, AfterPrefix, ConcatParts
  <2>7. \A c \in Breaking : Without(t, c)
    BY <2>6, NoBreak
  <2>8. ReadPath(t, a) = ReadRest(after, a)
    BY <2>6 DEF ReadPath, ReadRest
  <2>9. IsRead(ReadPath(t, a), a)
    BY <2>5, <2>8
  <2> HIDE DEF t
  <2> QED
    BY <1>7, <1>9, <2>3, <2>7, <2>9, <2>10 DEF PathRecovered, IsRead, Arrives, a
<1> QED
  BY <1>8, <1>9

\* No value, whatever it is made of, breaks the path it is put in.  A single text is read
\* as it was asked for last unless nothing but dots is left of its segment, which a browser
\* takes out; a list or an object, if its segment arrives, exactly when no part of it has
\* the separator in it.
THEOREM PathAlwaysRecovered == Spec => []PathRecovered
BY CallerInvariant, PathKept, PTL

=============================================================================
