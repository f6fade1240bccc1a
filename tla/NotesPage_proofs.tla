--------------------------- MODULE NotesPage_proofs ---------------------------
(***************************************************************************)
(* Proofs about Interceptors and NotesPage, for any number of operations,  *)
(* any operations of the script and any origins.  What may happen to one   *)
(* request is a relation between its record before and after, Moves; the   *)
(* steps of the page move requests the way the steps of Interceptors do,   *)
(* so its properties hold on the page too.                                 *)
(***************************************************************************)
EXTENDS NotesPage, Operators_proofs, FiniteSetTheorems

\* The records of TypeOK.
Records ==
    [outer : OuterStates, inner : InnerStates, target : Targets \cup {NoTarget},
     headers : SUBSET {"dev", "bearer"}, status : {"none", "ok", "401", "error"},
     login : {"none", "pending", "settled"}, sends : Nat]

\* A subscription that is in flight is one the caller waits on, and nothing is known of
\* its end yet; one that was cancelled has taken the interceptor's with it.
InFlight(q) ==
    /\ q.inner \in {"token", "wire"} => q.outer \in {"open", "value"}
    /\ q.outer \in {"idle", "open", "value"} => q.status = "none" /\ q.login = "none"
    /\ q.outer = "idle" => q.headers = {}
    /\ q.outer = "cancelled" => q.inner = "closed" /\ q.status = "none" /\ q.login = "none"

\* Only a request to an allowed origin gets headers, or waits for a token to get them.
AtHome(q) == q.headers # {} \/ q.inner = "token" => Allowed(q.target)

Sound(q) == InFlight(q) /\ AtHome(q)

\* The inductive invariant.
IInv == TypeOK /\ \A r \in Requests : Sound(req[r])

\* getToken rejects.
TokenFailed(q) == [q EXCEPT !.inner = "closed", !.outer = "errored"]

\* What one step may make of a request.
Moves(q, p) ==
    \/ p = q
    \/ q.outer = "idle" /\ \E t \in Targets : p = Subscribed(q, t)
    \/ q.inner = "token" /\ (p = Authorized(q) \/ p = TokenFailed(q))
    \/ q.inner = "wire" /\ (p = [q EXCEPT !.outer = "value"] \/ p = Completed(q))
    \/ q.inner = "wire" /\ \E s \in {"401", "error"} : p = Errored(q, s)
    \/ q.outer \in {"open", "value"} /\ p = Cancelled(q)
    \/ q.login = "pending" /\ p = [q EXCEPT !.login = "settled"]

-----------------------------------------------------------------------------
(* The operators on a request *)

\* A request that is subscribed to gets the dev headers where they are allowed, and waits
\* for the token there.
LEMMA SubscribedSound ==
    ASSUME NEW q \in Records, Sound(q), q.outer = "idle", NEW t \in Targets
    PROVE  Subscribed(q, t) \in Records /\ Sound(Subscribed(q, t))
<1>1. DevAuth(t) \in SUBSET {"dev", "bearer"} /\ (DevAuth(t) # {} => Allowed(t)) /\ "bearer" \notin DevAuth(t)
  BY DEF DevAuth
<1>2. q.status = "none" /\ q.login = "none" /\ q.sends + 1 \in Nat
  BY DEF Sound, InFlight, Records
<1> QED
  BY <1>1, <1>2 DEF Subscribed, Records, OuterStates, InnerStates, Sound, InFlight, AtHome

\* The token is put on a request that waited for it, and its origin is allowed.
LEMMA AuthorizedSound ==
    ASSUME NEW q \in Records, Sound(q), q.inner = "token"
    PROVE  Authorized(q) \in Records /\ Sound(Authorized(q))
<1>1. q.status = "none" /\ q.login = "none" /\ q.sends + 1 \in Nat /\ Allowed(q.target)
      /\ q.outer \in {"open", "value"}
  BY DEF Sound, InFlight, AtHome, Records
<1>2. q.headers \cup {"bearer"} \in SUBSET {"dev", "bearer"}
  BY DEF Records
<1> QED
  BY <1>1, <1>2 DEF Authorized, Records, OuterStates, InnerStates, Sound, InFlight, AtHome

\* A request that ends, well or badly, ends for its caller too.
LEMMA EndedSound ==
    ASSUME NEW q \in Records, Sound(q),
           NEW p \in {TokenFailed(q), Completed(q), Errored(q, "401"), Errored(q, "error")},
           q.inner \in {"token", "wire"}
    PROVE  p \in Records /\ Sound(p)
<1>1. q.status = "none" /\ q.login = "none"
  BY DEF Sound, InFlight
<1>2. CASE p = TokenFailed(q)
  BY <1>1, <1>2 DEF TokenFailed, Records, OuterStates, InnerStates, Sound, InFlight, AtHome
<1>3. CASE p = Completed(q)
  BY <1>1, <1>3 DEF Completed, Records, OuterStates, InnerStates, Sound, InFlight, AtHome
<1>4. CASE p = Errored(q, "401")
  BY <1>1, <1>4 DEF Errored, Records, OuterStates, InnerStates, Sound, InFlight, AtHome
<1>5. CASE p = Errored(q, "error")
  BY <1>1, <1>5 DEF Errored, Records, OuterStates, InnerStates, Sound, InFlight, AtHome
<1> QED
  BY <1>2, <1>3, <1>4, <1>5

\* A cancelled request is closed before it was heard of.
LEMMA CancelledSound ==
    ASSUME NEW q \in Records, Sound(q), q.outer \in {"open", "value"}
    PROVE  Cancelled(q) \in Records /\ Sound(Cancelled(q))
  BY DEF Cancelled, Records, OuterStates, InnerStates, Sound, InFlight, AtHome

\* Whatever moves a request keeps it sound, and nothing moves a cancelled one.
LEMMA MovesSound ==
    ASSUME NEW q \in Records, Sound(q), NEW p, Moves(q, p)
    PROVE  p \in Records /\ Sound(p) /\ (q.outer = "cancelled" => p = q)
<1>1. CASE q.outer = "idle" /\ \E t \in Targets : p = Subscribed(q, t)
  BY <1>1, SubscribedSound
<1>2. CASE q.inner = "token" /\ (p = Authorized(q) \/ p = TokenFailed(q))
  BY <1>2, AuthorizedSound, EndedSound DEF Sound, InFlight
<1>3. CASE q.inner = "wire" /\ p = [q EXCEPT !.outer = "value"]
  BY <1>3 DEF Records, OuterStates, Sound, InFlight, AtHome
<1>4. CASE q.inner = "wire" /\ p \in {Completed(q), Errored(q, "401"), Errored(q, "error")}
  BY <1>4, EndedSound DEF Sound, InFlight
<1>5. CASE q.outer \in {"open", "value"} /\ p = Cancelled(q)
  BY <1>5, CancelledSound
<1>6. CASE q.login = "pending" /\ p = [q EXCEPT !.login = "settled"]
  BY <1>6 DEF Records, Sound, InFlight, AtHome
<1> QED
  BY <1>1, <1>2, <1>3, <1>4, <1>5, <1>6 DEF Moves

-----------------------------------------------------------------------------
(* The steps *)

\* Every request is moved, or stays.
AllMove == req' = [r \in Requests |-> req'[r]] /\ \A r \in Requests : Moves(req[r], req'[r])

\* Requests that move keep the invariant, and the cancelled ones stay as they are.
LEMMA AllMoveInv ==
    ASSUME IInv, AllMove
    PROVE  IInv' /\ \A r \in Requests : req[r].outer = "cancelled" => req'[r] = req[r]
<1>1. \A r \in Requests : req[r] \in Records /\ Sound(req[r])
  BY DEF IInv, TypeOK, Records
<1>2. \A r \in Requests :
        /\ req'[r] \in Records /\ Sound(req'[r])
        /\ req[r].outer = "cancelled" => req'[r] = req[r]
  BY <1>1, MovesSound DEF AllMove
<1>3. req' \in [Requests -> Records]
  BY <1>2 DEF AllMove
<1>4. TypeOK'
  BY <1>3 DEF TypeOK, Records
<1> QED
  BY <1>2, <1>4 DEF IInv

\* A step of one request moves it, and no other.
LEMMA StepMoves ==
    ASSUME IInv, NEW r \in Requests, RequestStep(r)
    PROVE  /\ \E p : Moves(req[r], p) /\ req' = [req EXCEPT ![r] = p]
<1>1. req \in [Requests -> Records]
  BY DEF IInv, TypeOK, Records
<1>2. CASE Subscribe(r)
  BY <1>1, <1>2 DEF Subscribe, Moves
<1>3. CASE TokenArrives(r)
  BY <1>1, <1>3 DEF TokenArrives, Moves
<1>4. CASE TokenFails(r)
  BY <1>1, <1>4 DEF TokenFails, Moves, TokenFailed
<1>5. CASE Emit(r)
  BY <1>1, <1>5 DEF Emit, Moves
<1>6. CASE Complete(r)
  BY <1>1, <1>6 DEF Complete, Moves
<1>7. CASE Error(r)
  BY <1>1, <1>7 DEF Error, Moves
<1>8. CASE Unsubscribe(r)
  BY <1>1, <1>8 DEF Unsubscribe, Live, Moves
<1>9. CASE LoginSettles(r)
  BY <1>1, <1>9 DEF LoginSettles, Moves
<1> QED
  BY <1>2, <1>3, <1>4, <1>5, <1>6, <1>7, <1>8, <1>9 DEF RequestStep

\* The steps of Interceptors move requests.
LEMMA NextMoves == IInv /\ [Next]_req => AllMove
<1> SUFFICES ASSUME IInv, [Next]_req PROVE AllMove
  OBVIOUS
<1>1. req \in [Requests -> Records]
  BY DEF IInv, TypeOK, Records
<1>2. CASE UNCHANGED req
  BY <1>1, <1>2 DEF AllMove, Moves
<1>3. ASSUME NEW r \in Requests, RequestStep(r) PROVE AllMove
  <2>1. PICK p : Moves(req[r], p) /\ req' = [req EXCEPT ![r] = p]
    BY <1>3, StepMoves
  <2>2. \A q \in Requests \ {r} : req'[q] = req[q] /\ Moves(req[q], req'[q])
    BY <1>1, <2>1 DEF Moves
  <2> QED
    BY <1>1, <2>1, <2>2 DEF AllMove
<1> QED
  BY <1>2, <1>3 DEF Next

-----------------------------------------------------------------------------
(* Theorems *)

\* Requests nobody has subscribed to are sound.
LEMMA InitInv == Init => IInv
  BY DEF Init, IInv, TypeOK, OuterStates, InnerStates, Idle, Sound, InFlight, AtHome

\* The invariant holds: what a request is to its caller and what it is to the interceptor
\* agree, whatever is cancelled when.
THEOREM Invariant == Spec => []IInv
<1>1. IInv /\ [Next]_req => IInv'
  BY NextMoves, AllMoveInv
<1> QED
  BY InitInv, <1>1, PTL DEF Spec

\* Every request's record stays in its type.
THEOREM TypeCorrect == Spec => []TypeOK
<1>1. IInv => TypeOK
  BY DEF IInv
<1> QED
  BY <1>1, Invariant, PTL

\* The invariant is stronger than the property of a state.
LEMMA InvSafe == IInv => IdentityStaysHome
<1> SUFFICES ASSUME IInv, NEW r \in Requests
             PROVE  req[r].headers # {} => OriginOf(req[r].target) \in ApiOrigins \ {NoOrigin}
  BY DEF IdentityStaysHome
<1> QED
  BY DEF IInv, Sound, AtHome, Allowed, IsAllowedOrigin

\* Whatever origins a page's configuration lists, no header that tells who the user is
\* leaves for another one.
THEOREM IdentityAtHome == Spec => []IdentityStaysHome
  BY InvSafe, Invariant, PTL

\* Nothing happens to a request whose caller has left.
THEOREM CancelledStaysQuiet == Spec => CancelledIsQuiet
<1>1. IInv /\ [Next]_req =>
        [\A r \in Requests : req[r].outer = "cancelled" => req'[r] = req[r]]_req
  BY NextMoves, AllMoveInv
<1> QED
  BY <1>1, Invariant, PTL DEF Spec, CancelledIsQuiet

-----------------------------------------------------------------------------
(* The page *)

Free    == Made("none")
Scripts == Made("script")
Lists   == {r \in Requests : IsView(r, "list")}
Creates == {r \in Requests : IsView(r, "create")}
Done    == {r \in Creates : req[r].outer = "completed"}

\* The calls there may be.
PageCalls == {NoCall, ListCall} \cup {CreateCall(n) : n \in 1..MaxOperations} \cup ScriptCalls
CallTypes == call \in [Requests -> PageCalls] /\ loading \in BOOLEAN /\ saving \in BOOLEAN

\* A request is made when, and only when, it is subscribed to.
MadeAreBegun == \A r \in Requests : call[r].by = "none" <=> req[r].outer = "idle"

\* There is a request for every call to come: the view asks for one list, and for one more
\* after each note that was created.
Counts ==
    /\ Cardinality(Free) + Cardinality(Lists) + Cardinality(Creates) + Cardinality(Scripts)
          = 1 + 2 * MaxOperations
    /\ Cardinality(Lists) <= 1 + Cardinality(Done)
    /\ Cardinality(Creates) + Cardinality(Scripts) <= MaxOperations

\* What the flags say, without counting.
Flags ==
    /\ saving => \E r \in Requests : LiveOf("create") = {r}
    /\ ~saving => LiveOf("create") = {}
    /\ loading => LiveOf("list") # {}

\* The inductive invariant of the requests and the flags.
PageInv == IInv /\ CallTypes /\ MadeAreBegun /\ Counts /\ Flags

\* The note a create request brings, and whether the view's requests reach notesd.
NoteOf(r) == call[r].params.body.note
Reaches == OriginOf(ApiBase) = NotesdOrigin

\* Requests are used in order.  A list is asked for when no note is being saved, and after
\* each note that was created.
Order ==
    /\ \A x \in Free, y \in Requests \ Free : y < x
    /\ \A l \in Lists, r \in Creates : r < l => ~Live(r)
    /\ \A r \in Done : \E l \in Lists : r < l

\* The notes the user submits are different ones.
Numbers ==
    /\ \A r \in Creates : NoteOf(r) \in 1..Cardinality(Creates)
    /\ \A r, s \in Creates : NoteOf(r) = NoteOf(s) => r = s

\* What notesd has served, and where the notes it has come from.
Service ==
    /\ DOMAIN answer = Requests
    /\ \A r \in Lists \cup Creates : req[r].target = ApiBase
    /\ \A r \in Requests : answer[r].served => r \notin Free
    /\ \A r \in Lists \cup Creates : answer[r].served => Reaches
    /\ \A r \in Done : Reaches => answer[r].served
    /\ \A n \in stored \cap (1..MaxOperations) : \E r \in Creates : answer[r].served /\ NoteOf(r) = n

\* A list asked for after a note was created has the note, if that is still there and the
\* list is all there is.
ListsAreWhole ==
    \A l \in Lists, r \in Done :
        r < l /\ answer[l].served /\ ~answer[l].more /\ NoteOf(r) \in stored => NoteOf(r) \in answer[l].notes

\* What is shown is the answer of the request shown names.
Shown ==
    shown # 0 =>
        /\ shown \in Lists /\ req[shown].outer = "completed"
        /\ notes = answer[shown].notes /\ (Reaches => answer[shown].served)

\* The inductive invariant of what is shown.
ShowInv == Order /\ Numbers /\ Service /\ ListsAreWhole /\ Shown

-----------------------------------------------------------------------------
(* Calls and how many there are *)

\* The requests are finitely many, so every set of them can be counted.
LEMMA Finite ==
    ASSUME NEW S \in SUBSET Requests
    PROVE  IsFiniteSet(S) /\ Cardinality(S) \in Nat
<1>1. 1 + 2 * MaxOperations \in Int
  BY PageAssumption
<1>2. IsFiniteSet(Requests)
  BY <1>1, FS_Interval, PageAssumption
<1> QED
  BY <1>2, FS_Subset, FS_CardinalityType

\* One more, and one less.
LEMMA Counted ==
    ASSUME NEW S \in SUBSET Requests, NEW r \in Requests
    PROVE  /\ r \notin S => Cardinality(S \cup {r}) = Cardinality(S) + 1
           /\ r \in S => Cardinality(S \ {r}) = Cardinality(S) - 1
<1>1. IsFiniteSet(S)
  BY Finite
<1> QED
  BY <1>1, FS_AddElement, FS_RemoveElement

\* The request that is used next is the first that nobody has made.
LEMMA UnusedIsFree == Free # {} => Unused \in Free /\ \A x \in Free : Unused <= x
<1> SUFFICES ASSUME Free # {} PROVE Unused \in Free /\ \A x \in Free : Unused <= x
  OBVIOUS
<1>1. Free \in SUBSET Nat
  BY PageAssumption DEF Free, Made
<1>2. PICK m \in Free : \A x \in Free : ~ (<<x, m>> \in OpToRel(<, Nat))
  BY <1>1, NatLessThanWellFounded, WFMin
<1>3. \A x \in Free : ~ (x < m)
  BY <1>1, <1>2 DEF OpToRel
<1>4. \A x \in Free : m <= x
  BY <1>1, <1>3
<1> QED
  BY <1>4 DEF Unused, Min, Free

\* The kinds of calls are told apart by who makes them.
LEMMA Kinds ==
    /\ NoCall.by = "none" /\ ListCall.by = "view" /\ ListCall.op = "list"
    /\ \A n \in 1..MaxOperations : CreateCall(n).by = "view" /\ CreateCall(n).op = "create"
    /\ \A c \in ScriptCalls : c.by = "script"
  BY PageAssumption DEF NoCall, ListCall, CreateCall

\* The sets of requests, by their calls.
LEMMA SetsOfCalls ==
    ASSUME CallTypes
    PROVE  /\ Free \subseteq Requests /\ Scripts \subseteq Requests
           /\ Lists \subseteq Requests /\ Creates \subseteq Requests /\ Done \subseteq Creates
           /\ Made("view") = Lists \cup Creates /\ Creates \cap Lists = {}
           /\ Free \cap (Lists \cup Creates \cup Scripts) = {}
<1>1. \A r \in Requests : call[r] \in PageCalls
  BY DEF CallTypes
<1>2. \A r \in Requests : call[r].by = "view" => call[r].op \in {"list", "create"}
  BY <1>1, Kinds DEF PageCalls
<1> QED
  BY <1>2 DEF Free, Scripts, Lists, Creates, Done, Made, IsView

\* The request that is used next is there: the budget of the requests is not spent, as
\* long as an operation is left, or a list is missing.
LEMMA Spare ==
    ASSUME CallTypes, Counts,
           \/ InBounds
           \/ Made("view") = {}
           \/ \E r \in Creates : req[r].outer # "completed"
    PROVE  Unused \in Free /\ Submitted = Cardinality(Creates) /\ Cardinality(Creates) \in Nat
<1> DEFINE f == Cardinality(Free)
           l == Cardinality(Lists)
           c == Cardinality(Creates)
           s == Cardinality(Scripts)
           d == Cardinality(Done)
<1>1. f \in Nat /\ l \in Nat /\ c \in Nat /\ s \in Nat /\ d \in Nat
  BY SetsOfCalls, Finite
<1>2. Submitted = c
  BY DEF Submitted, Creates
<1>3. /\ f + l + c + s = 1 + 2 * MaxOperations /\ l <= 1 + d /\ c + s <= MaxOperations
      /\ MaxOperations \in Nat
  BY PageAssumption DEF Counts
<1>4. d <= c
  BY SetsOfCalls, Finite, FS_Subset
<1>5. \/ c + s < MaxOperations
      \/ l = 0 /\ c = 0
      \/ d < c
  <2>1. CASE InBounds
    BY <1>2, <2>1 DEF InBounds, Scripts
  <2>2. CASE Made("view") = {}
    BY <2>2, SetsOfCalls, FS_EmptySet
  <2>3. CASE \E r \in Creates : req[r].outer # "completed"
    <3>1. PICK r \in Creates : req[r].outer # "completed"
      BY <2>3
    <3>2. Done \subseteq Creates \ {r} /\ r \in Requests /\ Creates \subseteq Requests
      BY <3>1, SetsOfCalls DEF Done
    <3>3. Cardinality(Creates \ {r}) = c - 1
      BY <3>1, <3>2, Counted
    <3>4. IsFiniteSet(Creates \ {r})
      BY <3>2, Finite
    <3>5. d <= c - 1
      BY <3>2, <3>3, <3>4, FS_Subset
    <3> QED
      BY <1>1, <3>5
  <2> QED
    BY <2>1, <2>2, <2>3
<1> HIDE DEF f, l, c, s, d
<1>6. f # 0
  BY <1>1, <1>3, <1>4, <1>5
<1>7. Free # {}
  BY <1>6, FS_EmptySet DEF f
<1> QED
  BY <1>1, <1>2, <1>7, UnusedIsFree DEF c


-----------------------------------------------------------------------------
(* What the steps do to requests *)

\* A request that was begun, or that has completed, is so ever after; it goes where it
\* went, and is not taken up again.
LEMMA BegunForGood ==
    ASSUME NEW q \in Records, Sound(q), NEW p, Moves(q, p), q.outer # "idle"
    PROVE  /\ p.outer # "idle" /\ p.target = q.target
           /\ q.outer = "completed" => p.outer = "completed"
           /\ p.outer \in {"open", "value"} => q.outer \in {"open", "value"}
<1>1. CASE q.inner = "token" /\ (p = Authorized(q) \/ p = TokenFailed(q))
  BY <1>1 DEF Authorized, TokenFailed, Records, Sound, InFlight
<1>2. CASE q.inner = "wire" /\ p \in {[q EXCEPT !.outer = "value"], Completed(q)}
  BY <1>2 DEF Completed, Records, Sound, InFlight
<1>3. CASE q.inner = "wire" /\ \E s \in {"401", "error"} : p = Errored(q, s)
  BY <1>3 DEF Errored, Records, Sound, InFlight
<1>4. CASE q.outer \in {"open", "value"} /\ p = Cancelled(q)
  BY <1>4 DEF Cancelled, Records
<1>5. CASE q.login = "pending" /\ p = [q EXCEPT !.login = "settled"]
  BY <1>5 DEF Records
<1> QED
  BY <1>1, <1>2, <1>3, <1>4, <1>5 DEF Moves

\* What becomes of a request that fails: its caller sees an error.
LEMMA FailuresMove ==
    ASSUME NEW r \in Requests, req[r] \in Records, Sound(req[r]), NEW q \in Failures(r)
    PROVE  Moves(req[r], q) /\ q.outer = "errored" /\ Live(r)
<1>1. CASE req[r].inner = "token" /\ q = TokenFailed(req[r])
  BY <1>1 DEF TokenFailed, Moves, Records, Sound, InFlight, Live
<1>2. CASE req[r].inner = "wire" /\ \E s \in {"401", "error"} : q = Errored(req[r], s)
  BY <1>2 DEF Errored, Moves, Records, Sound, InFlight, Live
<1>3. \/ req[r].inner = "token" /\ q = TokenFailed(req[r])
      \/ req[r].inner = "wire" /\ \E s \in {"401", "error"} : q = Errored(req[r], s)
  BY DEF Failures, TokenFailed
<1> QED
  BY <1>1, <1>2, <1>3

\* A request that gets a good response has waited for it.
LEMMA AnswerMoves ==
    ASSUME NEW r \in Requests, req[r] \in Records, Sound(req[r]), CanAnswer(r)
    PROVE  Moves(req[r], Completed(req[r])) /\ Completed(req[r]).outer = "completed" /\ Live(r)
  BY DEF CanAnswer, Completed, Moves, Records, Sound, InFlight, Live

\* Request r, which was begun, becomes q.
Moved(r, q) ==
    /\ req[r].outer # "idle" /\ Moves(req[r], q)
    /\ req' = [req EXCEPT ![r] = q] /\ call' = call

\* Request u begins, as call c, to target t.
Begins(u, c, t) ==
    /\ u \in Free /\ t \in Targets /\ c \in PageCalls \ {NoCall}
    /\ call' = [call EXCEPT ![u] = c] /\ req' = [req EXCEPT ![u] = Subscribed(@, t)]

\* What IInv says of a request.
LEMMA OfRequests ==
    ASSUME IInv
    PROVE  req \in [Requests -> Records] /\ \A r \in Requests : req[r] \in Records /\ Sound(req[r])
  BY DEF IInv, TypeOK, Records

\* A request that moves: the calls are the same, so is what they count, and no request is
\* live that was not.
LEMMA MovedInv ==
    ASSUME PageInv, NEW r \in Requests, NEW q, Moved(r, q)
    PROVE  /\ AllMove /\ IInv' /\ MadeAreBegun' /\ Counts'
           /\ \A x \in Requests : x # r => (Live(x)' <=> Live(x))
           /\ Live(r)' <=> q.outer \in {"open", "value"}
<1>1. /\ req \in [Requests -> Records] /\ req[r] \in Records /\ Sound(req[r])
      /\ req' = [req EXCEPT ![r] = q] /\ call' = call /\ Moves(req[r], q) /\ req[r].outer # "idle"
  BY OfRequests DEF PageInv, Moved
<1>2. req'[r] = q /\ \A x \in Requests : x # r => req'[x] = req[x]
  BY <1>1
<1>3. AllMove
  BY <1>1, <1>2 DEF AllMove, Moves
<1>4. IInv'
  BY <1>3, AllMoveInv DEF PageInv
<1>5. q.outer # "idle" /\ (req[r].outer = "completed" => q.outer = "completed")
  BY <1>1, BegunForGood
<1>6. MadeAreBegun'
  BY <1>1, <1>2, <1>5 DEF PageInv, MadeAreBegun
<1>7. Counts'
  <2>1. Free' = Free /\ Lists' = Lists /\ Creates' = Creates /\ Scripts' = Scripts
    BY <1>1 DEF Free, Lists, Creates, Scripts, Made, IsView
  <2>2. Done \subseteq Done' /\ Done' \subseteq Requests
    BY <1>2, <1>5, <2>1 DEF Done, Creates
  <2>3. Cardinality(Done) \in Nat /\ Cardinality(Done') \in Nat /\ Cardinality(Lists) \in Nat
        /\ Cardinality(Done) <= Cardinality(Done')
    <3>1. Done' \in SUBSET Requests /\ Done \in SUBSET Done' /\ Lists \in SUBSET Requests
      BY <2>2 DEF Lists
    <3>2. IsFiniteSet(Done') /\ Cardinality(Done') \in Nat /\ Cardinality(Lists) \in Nat
      BY <3>1, Finite
    <3> QED
      BY <3>1, <3>2, FS_Subset, FS_CardinalityType
  <2> QED
    BY <2>1, <2>3 DEF PageInv, Counts
<1> QED
  BY <1>2, <1>3, <1>4, <1>6, <1>7 DEF Live

\* The sets of calls, with one call more.
LEMMA OneCallMore ==
    ASSUME CallTypes, NEW u \in Free, NEW c \in PageCalls \ {NoCall}, call' = [call EXCEPT ![u] = c]
    PROVE  /\ call' \in [Requests -> PageCalls] /\ Free' = Free \ {u} /\ u \in Requests
           /\ Lists' = IF c = ListCall THEN Lists \cup {u} ELSE Lists
           /\ Creates' = IF c.by = "view" /\ c.op = "create" THEN Creates \cup {u} ELSE Creates
           /\ Scripts' = IF c \in ScriptCalls THEN Scripts \cup {u} ELSE Scripts
<1>1. u \in Requests /\ call[u].by = "none"
  BY DEF Free, Made
<1>2. call' \in [Requests -> PageCalls] /\ call'[u] = c /\ \A x \in Requests : x # u => call'[x] = call[x]
  BY <1>1 DEF CallTypes
<1>3. /\ c.by # "none"
      /\ c = ListCall <=> c.by = "view" /\ c.op = "list"
      /\ c \in ScriptCalls <=> c.by = "script"
  BY Kinds DEF PageCalls
<1>4. Free' = Free \ {u}
  BY <1>1, <1>2, <1>3 DEF Free, Made
<1>5. Lists' = IF c = ListCall THEN Lists \cup {u} ELSE Lists
  BY <1>1, <1>2, <1>3 DEF Lists, IsView
<1>6. Creates' = IF c.by = "view" /\ c.op = "create" THEN Creates \cup {u} ELSE Creates
  BY <1>1, <1>2 DEF Creates, IsView
<1>7. Scripts' = IF c \in ScriptCalls THEN Scripts \cup {u} ELSE Scripts
  BY <1>1, <1>2, <1>3 DEF Scripts, Made
<1> QED
  BY <1>1, <1>2, <1>4, <1>5, <1>6, <1>7


\* A request that begins: it is live, and no other becomes so.
LEMMA BeginsInv ==
    ASSUME PageInv, NEW u, NEW c, NEW t, Begins(u, c, t)
    PROVE  /\ AllMove /\ IInv' /\ MadeAreBegun' /\ u \in Requests /\ ~Live(u) /\ Live(u)' /\ Done' = Done
           /\ \A x \in Requests : x # u => (Live(x)' <=> Live(x)) /\ call'[x] = call[x]
           /\ call'[u] = c /\ call[u].by = "none"
<1>1. /\ u \in Requests /\ call[u].by = "none" /\ t \in Targets /\ c \in PageCalls \ {NoCall}
      /\ call' = [call EXCEPT ![u] = c] /\ req' = [req EXCEPT ![u] = Subscribed(@, t)]
      /\ call \in [Requests -> PageCalls]
  BY DEF Begins, Free, Made, PageInv, CallTypes
<1>2. req \in [Requests -> Records] /\ req[u] \in Records /\ req[u].outer = "idle"
  BY <1>1, OfRequests DEF PageInv, MadeAreBegun
<1>3. req'[u] = Subscribed(req[u], t) /\ \A x \in Requests : x # u => req'[x] = req[x]
  BY <1>1, <1>2
<1>4. call'[u] = c /\ \A x \in Requests : x # u => call'[x] = call[x]
  BY <1>1
<1>5. Subscribed(req[u], t).outer = "open"
  BY <1>2 DEF Subscribed, Records
<1>6. Moves(req[u], req'[u]) /\ \A x \in Requests : x # u => Moves(req[x], req'[x])
  BY <1>1, <1>2, <1>3 DEF Moves
<1>7. AllMove
  BY <1>1, <1>2, <1>6 DEF AllMove
<1>8. IInv'
  BY <1>7, AllMoveInv DEF PageInv
<1>9. c.by # "none"
  BY <1>1, Kinds DEF PageCalls
<1>10. MadeAreBegun'
  BY <1>3, <1>4, <1>5, <1>9 DEF PageInv, MadeAreBegun
<1>11. Done' = Done
  BY <1>1, <1>2, <1>3, <1>4, <1>5 DEF Done, Creates, IsView
<1> QED
  BY <1>1, <1>2, <1>3, <1>4, <1>5, <1>7, <1>8, <1>10, <1>11 DEF Live

\* A call of the view's or the script's that begins within the bound is counted.
LEMMA BeginsCounts ==
    ASSUME PageInv, NEW u, NEW c, NEW t, Begins(u, c, t),
           \/ c = ListCall /\ Made("view") = {}
           \/ InBounds /\ c \in ScriptCalls
           \/ InBounds /\ c \in {CreateCall(n) : n \in 1..MaxOperations}
    PROVE  Counts'
<1>1. /\ CallTypes /\ Counts /\ u \in Free /\ c \in PageCalls \ {NoCall} /\ call' = [call EXCEPT ![u] = c]
      /\ Done' = Done
  BY BeginsInv DEF PageInv, Begins
<1>2. /\ Free \in SUBSET Requests /\ Lists \in SUBSET Requests /\ Creates \in SUBSET Requests
      /\ Scripts \in SUBSET Requests /\ Done \in SUBSET Requests /\ u \in Requests
      /\ u \notin Lists /\ u \notin Creates /\ u \notin Scripts
  BY <1>1, SetsOfCalls
<1> DEFINE f == Cardinality(Free)
           l == Cardinality(Lists)
           k == Cardinality(Creates)
           s == Cardinality(Scripts)
           d == Cardinality(Done)
<1>3. f \in Nat /\ l \in Nat /\ k \in Nat /\ s \in Nat /\ d \in Nat /\ MaxOperations \in Nat
  BY <1>2, Finite, PageAssumption
<1>4. f + l + k + s = 1 + 2 * MaxOperations /\ l <= 1 + d /\ k + s <= MaxOperations
  BY <1>1 DEF Counts
<1>5. /\ Cardinality(Free \ {u}) = f - 1 /\ Cardinality(Lists \cup {u}) = l + 1
      /\ Cardinality(Creates \cup {u}) = k + 1 /\ Cardinality(Scripts \cup {u}) = s + 1
  BY <1>1, <1>2, Counted
<1>6. InBounds => k + s < MaxOperations
  BY DEF InBounds, Submitted, Creates, Scripts
<1>7. Free' = Free \ {u}
  BY <1>1, OneCallMore
<1>8. CASE c = ListCall /\ Made("view") = {}
  <2>1. Lists' = Lists \cup {u} /\ Creates' = Creates /\ Scripts' = Scripts
    BY <1>1, <1>8, OneCallMore, Kinds
  <2>2. l = 0
    BY <1>1, <1>8, SetsOfCalls, FS_EmptySet
  <2>3. Cardinality(Free') = f - 1 /\ Cardinality(Lists') = l + 1 /\ Cardinality(Creates') = k
        /\ Cardinality(Scripts') = s /\ Cardinality(Done') = d
    BY <1>1, <1>5, <1>7, <2>1
  <2> HIDE DEF f, l, k, s, d
  <2> QED
    BY <1>3, <1>4, <2>2, <2>3 DEF Counts
<1>9. CASE InBounds /\ c \in ScriptCalls
  <2>1. Lists' = Lists /\ Creates' = Creates /\ Scripts' = Scripts \cup {u}
    BY <1>1, <1>9, OneCallMore, Kinds
  <2>2. Cardinality(Free') = f - 1 /\ Cardinality(Lists') = l /\ Cardinality(Creates') = k
        /\ Cardinality(Scripts') = s + 1 /\ Cardinality(Done') = d
    BY <1>1, <1>5, <1>7, <2>1
  <2> HIDE DEF f, l, k, s, d
  <2> QED
    BY <1>3, <1>4, <1>6, <1>9, <2>2 DEF Counts
<1>10. CASE InBounds /\ c \in {CreateCall(n) : n \in 1..MaxOperations}
  <2>1. Lists' = Lists /\ Creates' = Creates \cup {u} /\ Scripts' = Scripts
    BY <1>1, <1>10, OneCallMore, Kinds
  <2>2. Cardinality(Free') = f - 1 /\ Cardinality(Lists') = l /\ Cardinality(Creates') = k + 1
        /\ Cardinality(Scripts') = s /\ Cardinality(Done') = d
    BY <1>1, <1>5, <1>7, <2>1
  <2> HIDE DEF f, l, k, s, d
  <2> QED
    BY <1>3, <1>4, <1>6, <1>10, <2>2 DEF Counts
<1> QED
  BY <1>8, <1>9, <1>10

-----------------------------------------------------------------------------
(* The steps of the page *)

\* The page as it is loaded.
LEMMA PageInitInv == PageInit => PageInv
<1> SUFFICES ASSUME PageInit PROVE PageInv
  OBVIOUS
<1>1. Init
  BY DEF PageInit, Init
<1>2. CallTypes /\ MadeAreBegun
  BY Kinds DEF PageInit, CallTypes, PageCalls, MadeAreBegun, Idle
<1>3. Free = Requests /\ Lists = {} /\ Creates = {} /\ Scripts = {} /\ Done = {}
  BY Kinds DEF PageInit, Free, Lists, Creates, Scripts, Done, Made, IsView
<1>4. Cardinality(Requests) = 1 + 2 * MaxOperations /\ Cardinality({}) = 0 /\ MaxOperations \in Nat
  BY FS_Interval, FS_EmptySet, PageAssumption
<1>5. Counts
  BY <1>3, <1>4 DEF Counts
<1>6. Flags
  BY <1>3 DEF PageInit, Flags, LiveOf, Creates
<1> QED
  BY <1>1, <1>2, <1>5, <1>6, InitInv DEF PageInv

\* A request of the page that moves without ending for the view.
LEMMA QuietInv ==
    ASSUME PageInv, NEW r \in Requests,
           \/ TokenComes(r)
           \/ ScriptHears(r)
           \/ ScriptLeaves(r)
    PROVE  AllMove /\ PageInv'
<1>1. req[r] \in Records /\ Sound(req[r])
  BY OfRequests DEF PageInv
<1>2. PICK q : /\ Moved(r, q) /\ UNCHANGED view
               /\ call[r].by = "script" \/ (q.outer \in {"open", "value"} <=> Live(r))
  <2>1. CASE TokenComes(r)
    <3>1. Moves(req[r], Authorized(req[r])) /\ Authorized(req[r]).outer = req[r].outer
          /\ req[r].outer # "idle"
      BY <1>1, <2>1 DEF TokenComes, TokenArrives, Moves, Authorized, Records, Sound, InFlight
    <3> QED
      BY <2>1, <3>1 DEF TokenComes, TokenArrives, Moved, Live
  <2>2. CASE ScriptHears(r) /\ CanAnswer(r) /\ Complete(r)
    <3>1. Moves(req[r], Completed(req[r])) /\ req[r].outer # "idle"
      BY <1>1, <2>2, AnswerMoves DEF Live
    <3> QED
      BY <2>2, <3>1 DEF ScriptHears, Complete, Moved
  <2>3. CASE ScriptHears(r) /\ \E q \in Failures(r) : req' = [req EXCEPT ![r] = q]
    <3>1. PICK q \in Failures(r) : req' = [req EXCEPT ![r] = q]
      BY <2>3
    <3>2. Moves(req[r], q) /\ req[r].outer # "idle"
      BY <1>1, FailuresMove DEF Live
    <3> QED
      BY <2>3, <3>1, <3>2 DEF ScriptHears, Moved
  <2>4. CASE ScriptLeaves(r)
    BY <2>4 DEF ScriptLeaves, Unsubscribe, Live, Moves, Moved
  <2> QED
    BY <2>1, <2>2, <2>3, <2>4 DEF ScriptHears
<1>3. /\ AllMove /\ IInv' /\ MadeAreBegun' /\ Counts'
      /\ \A x \in Requests : x # r => (Live(x)' <=> Live(x))
      /\ Live(r)' <=> q.outer \in {"open", "value"}
  BY <1>2, MovedInv
<1>4. call' = call /\ loading' = loading /\ saving' = saving
  BY <1>2 DEF Moved, view
<1>5. CallTypes'
  BY <1>4 DEF PageInv, CallTypes
<1>6. \A op \in {"list", "create"} : LiveOf(op)' = LiveOf(op)
  BY <1>2, <1>3, <1>4 DEF LiveOf, IsView
<1>7. Flags'
  BY <1>4, <1>6 DEF PageInv, Flags
<1> QED
  BY <1>3, <1>5, <1>7 DEF PageInv


\* notesd serves a request: nothing changes on the page.
LEMMA HandleInv ==
    ASSUME PageInv, NEW r \in Requests, Handle(r) \/ UNCHANGED pageVars
    PROVE  AllMove /\ PageInv'
<1>1. UNCHANGED <<req, call, loading, saving>>
  BY DEF Handle, pageVars, view
<1>2. AllMove
  BY <1>1, OfRequests DEF PageInv, AllMove, Moves
<1>3. IInv'
  BY <1>2, AllMoveInv DEF PageInv
<1>4. CallTypes' /\ MadeAreBegun'
  BY <1>1 DEF PageInv, CallTypes, MadeAreBegun
<1>5. Free' = Free /\ Lists' = Lists /\ Creates' = Creates /\ Scripts' = Scripts /\ Done' = Done
  BY <1>1 DEF Free, Lists, Creates, Scripts, Done, Made, IsView
<1>6. Counts'
  BY <1>5 DEF PageInv, Counts
<1>7. Flags'
  BY <1>1 DEF PageInv, Flags, LiveOf, IsView, Live
<1> QED
  BY <1>2, <1>3, <1>4, <1>6, <1>7 DEF PageInv

\* A list ends, well or badly, and nothing is loading; or a note fails, and none is saved.
LEMMA EndsInv ==
    ASSUME PageInv, NEW r \in Requests, ListArrives(r) \/ ListFails(r) \/ CreateFails(r)
    PROVE  AllMove /\ PageInv'
<1>1. req[r] \in Records /\ Sound(req[r])
  BY OfRequests DEF PageInv
<1>2. PICK q : Moved(r, q) /\ Live(r) /\ q.outer \notin {"open", "value"}
  <2>1. CASE ListArrives(r)
    <3>1. /\ Moves(req[r], Completed(req[r])) /\ Completed(req[r]).outer = "completed"
          /\ req[r].outer # "idle" /\ Live(r)
      BY <1>1, <2>1, AnswerMoves DEF ListArrives, Live
    <3> QED
      BY <2>1, <3>1 DEF ListArrives, Moved
  <2>2. CASE ListFails(r) \/ CreateFails(r)
    <3>1. PICK q \in Failures(r) : req' = [req EXCEPT ![r] = q] /\ call' = call
      BY <2>2 DEF ListFails, CreateFails
    <3>2. Moves(req[r], q) /\ q.outer = "errored" /\ req[r].outer # "idle" /\ Live(r)
      BY <1>1, FailuresMove DEF Live
    <3> QED
      BY <3>1, <3>2 DEF Moved
  <2> QED
    BY <2>1, <2>2
<1>3. /\ AllMove /\ IInv' /\ MadeAreBegun' /\ Counts'
      /\ \A x \in Requests : x # r => (Live(x)' <=> Live(x))
      /\ ~Live(r)'
  BY <1>2, MovedInv
<1>4. call' = call
  BY <1>2 DEF Moved
<1>5. CallTypes'
  BY <1>4 DEF PageInv, CallTypes, ListArrives, ListFails, CreateFails
<1>6. Flags'
  <2>1. CASE IsView(r, "list") /\ loading' = FALSE /\ saving' = saving
    <3>1. LiveOf("create")' = LiveOf("create")
      BY <1>3, <1>4, <2>1 DEF LiveOf, IsView
    <3> QED
      BY <2>1, <3>1 DEF PageInv, Flags
  <2>2. CASE IsView(r, "create") /\ saving' = FALSE /\ loading' = loading
    <3>1. LiveOf("list")' = LiveOf("list")
      BY <1>3, <1>4, <2>2 DEF LiveOf, IsView
    <3>2. r \in LiveOf("create")
      BY <1>2, <2>2 DEF LiveOf
    <3>3. LiveOf("create") = {r}
      BY <3>2 DEF PageInv, Flags
    <3>4. LiveOf("create")' = {}
      BY <1>3, <1>4, <3>3 DEF LiveOf, IsView
    <3> QED
      BY <2>2, <3>1, <3>4 DEF PageInv, Flags
  <2> QED
    BY <2>1, <2>2 DEF ListArrives, ListFails, CreateFails
<1> QED
  BY <1>3, <1>5, <1>6 DEF PageInv

\* The view is opened, a note is submitted, or the script calls.
LEMMA BeginInv ==
    ASSUME PageInv, NgOnInit \/ Submit \/ Invoke
    PROVE  AllMove /\ PageInv'
<1>1. Unused \in Free /\ (Submit => Submitted + 1 \in 1..MaxOperations)
  <2>1. InBounds \/ Made("view") = {}
    BY DEF NgOnInit, Submit, Invoke
  <2>2. Unused \in Free /\ Submitted = Cardinality(Creates) /\ Cardinality(Creates) \in Nat
    BY <2>1, Spare DEF PageInv
  <2>3. Cardinality(Scripts) \in Nat
    BY SetsOfCalls, Finite DEF PageInv
  <2> QED
    BY <2>2, <2>3, PageAssumption DEF Submit, InBounds, Scripts
<1>2. PICK c, t :
        /\ Begins(Unused, c, t)
        /\ \/ NgOnInit /\ c = ListCall /\ Made("view") = {}
           \/ Invoke /\ InBounds /\ c \in ScriptCalls
           \/ Submit /\ InBounds /\ c \in {CreateCall(n) : n \in 1..MaxOperations}
  <2>1. CASE NgOnInit
    <3>1. ListCall \in PageCalls \ {NoCall} /\ ApiBase \in Targets
      BY Kinds, PageAssumption DEF PageCalls
    <3> QED
      BY <1>1, <2>1, <3>1 DEF NgOnInit, Begins
  <2>2. CASE Submit
    <3>1. CreateCall(Submitted + 1) \in PageCalls \ {NoCall} /\ ApiBase \in Targets
      BY <1>1, <2>2, Kinds, PageAssumption DEF PageCalls
    <3> QED
      BY <1>1, <2>2, <3>1 DEF Submit, Begins
  <2>3. CASE Invoke
    <3>1. \A c \in ScriptCalls : c \in PageCalls \ {NoCall} /\ Root(c) \in Targets
      BY Kinds, PageAssumption DEF PageCalls, Root
    <3> QED
      BY <1>1, <2>3, <3>1 DEF Invoke, Begins
  <2> QED
    BY <2>1, <2>2, <2>3
<1> DEFINE u == Unused
<1>3. PICK v : v = u
  OBVIOUS
<1>4. /\ AllMove /\ IInv' /\ MadeAreBegun' /\ v \in Requests /\ ~Live(v) /\ Live(v)'
      /\ \A x \in Requests : x # v => (Live(x)' <=> Live(x)) /\ call'[x] = call[x]
      /\ call'[v] = c /\ call[v].by = "none"
  BY <1>2, <1>3, BeginsInv
<1>5. Counts'
  BY <1>2, BeginsCounts
<1>6. CallTypes'
  <2>1. call' \in [Requests -> PageCalls]
    BY <1>2, OneCallMore DEF PageInv, Begins
  <2> QED
    BY <2>1 DEF PageInv, CallTypes, NgOnInit, Submit, Invoke, view
<1>7. Flags'
  <2>1. CASE NgOnInit /\ c = ListCall /\ Made("view") = {}
    <3>1. LiveOf("create")' = LiveOf("create")
      BY <1>4, <2>1, Kinds DEF LiveOf, IsView
    <3>2. v \in LiveOf("list")'
      BY <1>4, <2>1, Kinds DEF LiveOf, IsView
    <3>3. saving' = saving
      BY <2>1 DEF NgOnInit
    <3> QED
      BY <3>1, <3>2, <3>3 DEF PageInv, Flags
  <2>2. CASE Invoke /\ c \in ScriptCalls
    <3>1. \A op \in {"list", "create"} : LiveOf(op)' = LiveOf(op)
      BY <1>4, <2>2, Kinds DEF LiveOf, IsView
    <3>2. saving' = saving /\ loading' = loading
      BY <2>2 DEF Invoke, view
    <3> QED
      BY <3>1, <3>2 DEF PageInv, Flags
  <2>3. CASE Submit /\ c \in {CreateCall(n) : n \in 1..MaxOperations}
    <3>1. saving' = TRUE /\ loading' = loading /\ LiveOf("create") = {}
      BY <2>3 DEF Submit, PageInv, Flags
    <3>2. c.by = "view" /\ c.op = "create"
      BY <2>3, Kinds
    <3>3. LiveOf("create")' = {v}
      BY <1>4, <3>1, <3>2 DEF LiveOf, IsView
    <3>4. LiveOf("list")' = LiveOf("list")
      BY <1>4, <3>2 DEF LiveOf, IsView
    <3> QED
      BY <1>4, <3>1, <3>3, <3>4 DEF PageInv, Flags
  <2> QED
    BY <1>2, <2>1, <2>2, <2>3
<1> QED
  BY <1>4, <1>5, <1>6, <1>7 DEF PageInv


\* A note is created, and the list is asked for again, with the first request that nobody
\* has made: there is one to spare.
CreatedAndListed(r, u) ==
    /\ r \in Creates /\ Live(r) /\ CanAnswer(r) /\ u \in Free /\ u = Unused /\ u \in Requests /\ u # r
    /\ req'[r].outer = "completed" /\ req'[r].target = req[r].target
    /\ req'[u].outer = "open" /\ req'[u].target = ApiBase
    /\ \A x \in Requests \ {r, u} : req'[x] = req[x]
    /\ call'[u] = ListCall /\ \A x \in Requests : x # u => call'[x] = call[x]
    /\ Free' = Free \ {u} /\ Lists' = Lists \cup {u} /\ Creates' = Creates /\ Scripts' = Scripts
    /\ Done' = Done \cup {r} /\ r \notin Done

LEMMA CreateArrivesMoves ==
    ASSUME PageInv, NEW r \in Requests, CreateArrives(r)
    PROVE  AllMove /\ call' \in [Requests -> PageCalls] /\ \E u : CreatedAndListed(r, u)
<1>1. /\ req[r] \in Records /\ Sound(req[r]) /\ req \in [Requests -> Records]
      /\ call \in [Requests -> PageCalls] /\ CallTypes /\ Counts
  BY OfRequests DEF PageInv, CallTypes
<1>2. /\ Moves(req[r], Completed(req[r])) /\ Completed(req[r]).outer = "completed" /\ Live(r)
      /\ r \in Creates /\ req[r].outer # "completed" /\ req[r].outer # "idle" /\ call[r].by = "view"
      /\ CanAnswer(r) /\ Completed(req[r]).target = req[r].target
  BY <1>1, AnswerMoves, BegunForGood DEF CreateArrives, Live, Creates, IsView
<1>3. PICK u \in Free : u = Unused
  BY <1>1, <1>2, Spare
<1>4. u \in Requests /\ call[u].by = "none" /\ u # r /\ req[u].outer = "idle" /\ req[u] \in Records
  BY <1>1, <1>2, <1>3 DEF Free, Made, PageInv, MadeAreBegun
<1>5. /\ call' = [call EXCEPT ![u] = ListCall]
      /\ req' = [req EXCEPT ![r] = Completed(@), ![u] = Subscribed(@, ApiBase)]
  BY <1>3 DEF CreateArrives
<1>6. /\ req'[r] = Completed(req[r]) /\ req'[u] = Subscribed(req[u], ApiBase)
      /\ \A x \in Requests \ {r, u} : req'[x] = req[x]
      /\ call'[u] = ListCall /\ \A x \in Requests : x # u => call'[x] = call[x]
  BY <1>1, <1>4, <1>5
<1>7. /\ req'[u].outer = "open" /\ req'[u].target = ApiBase
      /\ req'[r].outer = "completed" /\ req'[r].target = req[r].target
  BY <1>2, <1>4, <1>6 DEF Subscribed, Records
<1>8. AllMove
  <2>1. Moves(req[u], req'[u])
    BY <1>4, <1>6, PageAssumption DEF Moves
  <2>2. \A x \in Requests : Moves(req[x], req'[x])
    BY <1>2, <1>6, <2>1 DEF Moves
  <2> QED
    BY <1>1, <1>5, <2>2 DEF AllMove
<1>9. ListCall \in PageCalls \ {NoCall} /\ ListCall.by = "view" /\ ListCall.op = "list"
      /\ ListCall \notin ScriptCalls
  BY Kinds DEF PageCalls
<1>10. /\ Free' = Free \ {u} /\ Lists' = Lists \cup {u} /\ Creates' = Creates /\ Scripts' = Scripts
       /\ call' \in [Requests -> PageCalls]
  BY <1>1, <1>3, <1>5, <1>9, OneCallMore
<1>11. Done' = Done \cup {r} /\ r \notin Done
  <2>1. Done' = {x \in Creates : req'[x].outer = "completed"}
    BY <1>10 DEF Done
  <2>2. u \notin Creates
    BY <1>4 DEF Creates, IsView
  <2> QED
    BY <1>2, <1>6, <1>7, <2>1, <2>2 DEF Done, Creates
<1> QED
  BY <1>2, <1>3, <1>4, <1>6, <1>7, <1>8, <1>10, <1>11 DEF CreatedAndListed

\* One request completes as another begins: the counts are right, no note is being saved,
\* and a list is on its way.
LEMMA CreateArrivesInv ==
    ASSUME PageInv, NEW r \in Requests, CreateArrives(r)
    PROVE  AllMove /\ PageInv'
<1>1. PICK u : CreatedAndListed(r, u)
  BY CreateArrivesMoves
<1>2. AllMove /\ IInv'
  BY CreateArrivesMoves, AllMoveInv DEF PageInv
<1>3. CallTypes /\ Counts /\ call[r].by = "view" /\ call[u].by = "none" /\ ListCall.by = "view"
      /\ ListCall.op = "list"
  BY <1>1, Kinds DEF PageInv, CreatedAndListed, Creates, Free, Made, IsView
<1>4. saving' = FALSE /\ loading' = TRUE
  BY DEF CreateArrives
<1>5. CallTypes'
  BY <1>4, CreateArrivesMoves DEF CallTypes
<1>6. MadeAreBegun'
  BY <1>1, <1>3 DEF CreatedAndListed, PageInv, MadeAreBegun
<1>7. Counts'
  <2> DEFINE f == Cardinality(Free)
             l == Cardinality(Lists)
             k == Cardinality(Creates)
             s == Cardinality(Scripts)
             d == Cardinality(Done)
  <2>1. /\ Free \in SUBSET Requests /\ Lists \in SUBSET Requests /\ Creates \in SUBSET Requests
        /\ Scripts \in SUBSET Requests /\ Done \in SUBSET Requests /\ u \notin Lists
    BY <1>1, <1>3, SetsOfCalls DEF CreatedAndListed
  <2>2. f \in Nat /\ l \in Nat /\ k \in Nat /\ s \in Nat /\ d \in Nat
    BY <2>1, Finite
  <2>3. f + l + k + s = 1 + 2 * MaxOperations /\ l <= 1 + d /\ k + s <= MaxOperations
        /\ MaxOperations \in Nat
    BY <1>3, PageAssumption DEF Counts
  <2>4. /\ Cardinality(Free') = f - 1 /\ Cardinality(Lists') = l + 1 /\ Cardinality(Creates') = k
        /\ Cardinality(Scripts') = s /\ Cardinality(Done') = d + 1
    BY <1>1, <2>1, Counted DEF CreatedAndListed
  <2> HIDE DEF f, l, k, s, d
  <2> QED
    BY <2>2, <2>3, <2>4 DEF Counts
<1>8. Flags'
  <2>1. LiveOf("create") = {r}
    BY <1>1 DEF PageInv, Flags, LiveOf, Creates, CreatedAndListed
  <2>2. LiveOf("create")' = {}
    BY <1>1, <1>3, <2>1 DEF CreatedAndListed, LiveOf, IsView, Live
  <2>3. u \in LiveOf("list")'
    BY <1>1, <1>3 DEF CreatedAndListed, LiveOf, IsView, Live
  <2> QED
    BY <1>4, <2>2, <2>3 DEF Flags
<1> QED
  BY <1>2, <1>5, <1>6, <1>7, <1>8 DEF PageInv

\* A step of the page moves its requests, and keeps the invariant.
LEMMA PageStepInv == PageInv /\ [PageNext]_pageVars => AllMove /\ PageInv'
<1> SUFFICES ASSUME PageInv, [PageNext]_pageVars PROVE AllMove /\ PageInv'
  OBVIOUS
<1>1. CASE \E r \in Requests : TokenComes(r) \/ ScriptHears(r) \/ ScriptLeaves(r)
  BY <1>1, QuietInv
<1>2. CASE (\E r \in Requests : Handle(r)) \/ UNCHANGED pageVars
  <2>1. CASE \E r \in Requests : Handle(r)
    BY <2>1, HandleInv
  <2>2. CASE UNCHANGED pageVars
    <3>1. 1 \in Requests
      BY PageAssumption
    <3> QED
      BY <2>2, <3>1, HandleInv
  <2> QED
    BY <1>2, <2>1, <2>2
<1>3. CASE \E r \in Requests : ListArrives(r) \/ ListFails(r) \/ CreateFails(r)
  BY <1>3, EndsInv
<1>4. CASE \E r \in Requests : CreateArrives(r)
  BY <1>4, CreateArrivesInv
<1>5. CASE NgOnInit \/ Submit \/ Invoke
  BY <1>5, BeginInv
<1> QED
  BY <1>1, <1>2, <1>3, <1>4, <1>5 DEF PageNext

-----------------------------------------------------------------------------
(* What notesd understands of the view's calls *)

\* A request for the collection is served by its method.
LEMMA CollectionServed ==
    ASSUME NEW root, NEW request, request.url = <<Literal(root)>> \o NotesPath
    PROVE  /\ request.method = "GET" => Understood(request).op = "list"
           /\ request.method = "POST" => Understood(request).op = "create"
           /\ Understood(request).body = request.body
<1>1. Len(request.url) = 2
  BY DEF NotesPath
<1>2. ~HasId(request)
  BY <1>1 DEF HasId
<1> QED
  BY <1>1, <1>2 DEF Understood

\* notesd understands the view's calls.
LEMMA ViewUnderstood ==
    /\ AtNotesd[ListCall].op = "list"
    /\ \A n \in 1..MaxOperations :
          AtNotesd[CreateCall(n)].op = "create" /\ AtNotesd[CreateCall(n)].body.note = n
<1>1. AtNotesd[ListCall].op = "list"
  <2>1. PICK b : b = NewBuilder(Root(ListCall), NotesPath, "GET")
    OBVIOUS
  <2>2. b.path = <<>> /\ b.method = "GET" /\ b.operationPath = NotesPath
    BY <2>1 DEF NewBuilder
  <2>3. Operation(ListCall) = Build(b, Json)
    BY <2>1 DEF Operation, ListCall, ListNotes
  <2>4. AtNotesd[ListCall] = Understood(Build(b, Json))
    BY <2>3 DEF AtNotesd
  <2>5. Build(b, Json).method = "GET" /\ Build(b, Json).url = <<Literal(b.rootUrl)>> \o NotesPath
    BY <2>2, BuiltUrl
  <2> QED
    BY <2>4, <2>5, CollectionServed
<1>2. ASSUME NEW n \in 1..MaxOperations
      PROVE  AtNotesd[CreateCall(n)].op = "create" /\ AtNotesd[CreateCall(n)].body.note = n
  <2> DEFINE value == [kind |-> "plain", note |-> n]
             new == NewBuilder(Root(CreateCall(n)), NotesPath, "POST")
  <2>1. PICK b : b = SetBody(new, value, Json)
    OBVIOUS
  <2>2. BodyContent(value, Json) = value /\ value.kind # "blob"
    BY DEF BodyContent, Json, UrlEncoded, Multipart
  <2>3. b = [new EXCEPT !.bodyContentType = Json, !.bodyContent = value]
    BY <2>1, <2>2 DEF SetBody
  <2>4. b.path = <<>> /\ b.method = "POST" /\ b.operationPath = NotesPath /\ b.bodyContent = value
    BY <2>3 DEF NewBuilder
  <2>5. Operation(CreateCall(n)) = Build(b, Json)
    BY <2>1 DEF Operation, CreateCall, CreateNote
  <2>6. AtNotesd[CreateCall(n)] = Understood(Build(b, Json))
    BY <2>5 DEF AtNotesd
  <2>7. /\ Build(b, Json).method = "POST" /\ Build(b, Json).body = value
        /\ Build(b, Json).url = <<Literal(b.rootUrl)>> \o NotesPath
    BY <2>2, <2>4, BuiltUrl
  <2> QED
    BY <2>6, <2>7, CollectionServed
<1> QED
  BY <1>1, <1>2

-----------------------------------------------------------------------------
(* What notesd understands of a script's calls *)

\* The parameters of a request are understood as they were asked for.
LEMMA ParamsUnderstood ==
    ASSUME NEW request, NEW pairs \in Seq(Pairs), request.params = EncodePairs(pairs)
    PROVE  Understood(request).params = pairs
<1>1. Understood(request).params =
        [i \in DOMAIN EncodePairs(pairs) |-> Pair(Decode(EncodePairs(pairs)[i].name),
                                                  Decode(EncodePairs(pairs)[i].text))]
  BY DEF Understood
<1> QED
  BY <1>1, PairsDecoded

LEMMA NoParamsUnderstood ==
    ASSUME NEW request, request.params = <<>>
    PROVE  Understood(request).params = <<>>
  BY DEF Understood

\* An id fills the path of a note, encoded.
LEMMA NotePathFilled ==
    ASSUME NEW name, NEW id \in Unencoded, Null \notin Unencoded
    PROVE  AppendPath(NotePath(name), PathParameter(name, Text(id), NoOptions)) =
             NotesPath \o <<Literal(<<Ch("/")>>), Literal(Unescape(Encode(id)))>>
<1> DEFINE p == PathParameter(name, Text(id), NoOptions)
           e == Unescape(Encode(id))
           path == NotePath(name)
           hole == Placeholder(name, <<>>, FALSE)
           slash == Literal(<<Ch("/")>>)
           first == Literal(<<Ch("/v1/notes")>>)
<1>1. p.name = name /\ p.value = Text(id) /\ p.style = "simple" /\ p.explode = FALSE
  BY DEF Param, PathParameter, QueryParameter, NoOptions
<1>2. PathPrefix(p) = <<>>
  BY <1>1 DEF PathPrefix
<1>3. PathBody(p) = e
  <2>1. PathBody(p) = PathSerialize(Text(id), PathSeparator(p), FALSE)
    BY <1>1 DEF PathBody
  <2>2. PathSerialize(Text(id), PathSeparator(p), FALSE) = Unescape(PathText(id))
    BY DEF PathSerialize, Serialize, Text
  <2>3. PathText(id) = e
    BY DEF PathText
  <2> QED
    BY <2>1, <2>2, <2>3, UnescapedOnce
<1>4. path = <<first, slash, hole>>
  BY Concatenated DEF NotePath, NotesPath
<1>5. first.kind = "literal" /\ slash.kind = "literal"
  BY DEF Literal
<1> HIDE DEF p, path, first, slash, hole
<1>6. path \in Seq({first, slash, hole}) /\ Len(path) = 3 /\ path # <<>> /\ path[3] = hole
  BY <1>4
<1>7. \A i \in 1..(Len(path) - 1) : path[i].kind # "placeholder" \/ path[i].name # p.name
  BY <1>4, <1>5, <1>6
<1>8. path[Len(path)] \in {Placeholder(p.name, <<>>, FALSE),
                           Placeholder(p.name, PathPrefix(p), p.explode)}
  BY <1>1, <1>6 DEF hole
<1>9. AppendPath(path, p) = [path EXCEPT ![3] = Literal(PathPrefix(p) \o PathBody(p))]
  BY <1>6, <1>7, <1>8, AppendPathLast
<1>10. PathPrefix(p) \o PathBody(p) = e
  <2>1. e \in Coded
    BY DecodePathText
  <2> HIDE DEF e
  <2>2. <<>> \o e = e
    BY <2>1 DEF Coded
  <2> QED
    BY <1>2, <1>3, <2>2
<1>11. AppendPath(path, p) = <<first, slash, Literal(e)>>
  BY <1>4, <1>9, <1>10
<1>12. NotesPath \o <<slash, Literal(e)>> = <<first, slash, Literal(e)>>
  <2>1. NotesPath = <<first>>
    BY DEF NotesPath, first
  <2> QED
    BY <2>1, Concatenated
<1> QED
  BY <1>11, <1>12 DEF p, path, slash

\* The ids that are in no path that gets to notesd.
NoNote == {<<>>} \cup DotSegments

\* How a request of this method, with this id and body, is understood.
ServedAs(what, method, id, body) ==
    /\ what.body = body
    /\ id \in NoNote => what.op = "none"
    /\ id \notin NoNote => /\ what.id = id
                           /\ method = "GET" => what.op = "get"
                           /\ method = "PATCH" => what.op = "update"
                           /\ method = "DELETE" => what.op = "delete"

\* A request for a note is understood with its id, by its method; one with no id, or with
\* one that gets lost, is not.
LEMMA NoteServed ==
    ASSUME NEW b, NEW name, NEW id \in Unencoded, Null \notin Unencoded, b.operationPath = NotePath(name),
           b.path = <<PathParameter(name, Text(id), NoOptions)>>
    PROVE  ServedAs(Understood(Build(b, Json)), b.method, id, b.bodyContent)
<1> DEFINE r == Build(b, Json)
           e == Unescape(Encode(id))
           p == PathParameter(name, Text(id), NoOptions)
           root == Literal(b.rootUrl)
           first == Literal(<<Ch("/v1/notes")>>)
           slash == Literal(<<Ch("/")>>)
           last == Literal(e)
<1>1. AppendPath(NotePath(name), p) = NotesPath \o <<slash, last>>
  BY NotePathFilled
<1> HIDE DEF r, e, p, root, first, slash, last
<1>2. r.method = b.method /\ r.body = b.bodyContent /\ r.url = <<root>> \o (NotesPath \o <<slash, last>>)
  <2>1. b.path = <<p>>
    BY DEF p
  <2> QED
    BY <1>1, <2>1, BuiltUrl DEF r, root
<1>3. r.url = <<root, first, slash, last>>
  <2>1. NotesPath \o <<slash, last>> = <<first, slash, last>>
    BY Concatenated DEF NotesPath, first
  <2>2. <<root>> \o <<first, slash, last>> = <<root, first, slash, last>>
    BY Concatenated
  <2> QED
    BY <1>2, <2>1, <2>2
<1>4. Len(r.url) = 4 /\ Last(r.url) = last
  BY <1>3 DEF Last
<1>5. Last(r.url).kind = "literal" /\ Segment(r) = e
  BY <1>4 DEF Literal, Segment, last
<1>6. Decode(e) = id /\ Len(e) = Len(id) /\ e \in Coded /\ Ch("/") \notin ToSet(e)
  BY DecodePathText DEF e
<1>7. e = <<>> <=> id = <<>>
  BY <1>6, RawText DEF Coded
<1>14. e \in DotSegments <=> id \in DotSegments
  <2>1. /\ e \in Seq(Codes) /\ id \in Seq(Codes) /\ Len(e) = Len(id) /\ Len(id) \in Nat
        /\ \A i \in 1..Len(id) : e[i] = Dot <=> id[i] = Dot
    BY DotsStay DEF e, Coded
  <2> QED
    BY <2>1, IsDots
<1>8. HasId(r) <=> id \notin NoNote
  <2>1. HasId(r) <=> Segment(r) # <<>> /\ Segment(r) \notin DotSegments /\ Ch("/") \notin ToSet(Segment(r))
    <3>1. Len(r.url) > 2
      BY <1>4
    <3> QED
      BY <1>5, <3>1 DEF HasId
  <2> QED
    BY <1>5, <1>6, <1>7, <1>14, <2>1 DEF NoNote
<1>9. Understood(r).body = b.bodyContent
  BY <1>2 DEF Understood
<1>10. ~(Len(r.url) = 2)
  BY <1>4
<1>11. Understood(r).id = IF HasId(r) THEN id ELSE <<>>
  BY <1>5, <1>6 DEF Understood
<1>12. ASSUME id \in NoNote
       PROVE  Understood(r).op = "none"
  <2>1. ~HasId(r)
    BY <1>8, <1>12
  <2> QED
    BY <1>10, <2>1 DEF Understood
<1>13. ASSUME id \notin NoNote
       PROVE  /\ r.method = "GET" => Understood(r).op = "get"
              /\ r.method = "PATCH" => Understood(r).op = "update"
              /\ r.method = "DELETE" => Understood(r).op = "delete"
  <2>1. HasId(r)
    BY <1>8, <1>13
  <2>2. r.method = "GET" => Understood(r).op = "get"
    BY <1>10, <2>1 DEF Understood
  <2>3. r.method = "PATCH" => Understood(r).op = "update"
    BY <1>10, <2>1 DEF Understood
  <2>4. r.method = "DELETE" => Understood(r).op = "delete"
    BY <1>10, <2>1 DEF Understood
  <2> QED
    BY <2>2, <2>3, <2>4
<1> QED
  BY <1>2, <1>8, <1>9, <1>11, <1>12, <1>13 DEF r, ServedAs

\* The pairs of a parameter with the defaults of a query.
LEMMA QueryOf ==
    ASSUME NEW name \in Unencoded, Null \notin Unencoded
    PROVE  LET p(v) == QueryParameter(name, v, NoOptions) IN
           /\ QueryPairs(p(NullValue)) = <<>>
           /\ \A t \in Unencoded : QueryPairs(p(Text(t))) = <<Pair(name, t)>> /\ <<Pair(name, t)>> \in Seq(Pairs)
           /\ \A s \in Seq(Unencoded) :
                 /\ QueryPairs(p(List(s))) = [i \in DOMAIN s |-> Pair(name, s[i])]
                 /\ [i \in DOMAIN s |-> Pair(name, s[i])] \in Seq(Pairs)
<1> DEFINE p(v) == QueryParameter(name, v, NoOptions)
<1>1. \A v : p(v).name = name /\ p(v).value = v /\ p(v).explode = TRUE
  BY DEF Param, PathParameter, QueryParameter, NoOptions
<1> HIDE DEF p
<1>2. \A t \in Unencoded : Pair(name, t) \in Pairs
  BY RawText DEF Pair, Pairs
<1>3. QueryPairs(p(NullValue)) = <<>>
  BY <1>1 DEF QueryPairs, NullValue
<1>4. ASSUME NEW t \in Unencoded
      PROVE  QueryPairs(p(Text(t))) = <<Pair(name, t)>> /\ <<Pair(name, t)>> \in Seq(Pairs)
  <2>1. Text(t).kind = "text" /\ Text(t).text = t
    BY DEF Text
  <2>2. QueryPairs(p(Text(t))) = <<Pair(name, t)>>
    BY <1>1, <2>1 DEF QueryPairs
  <2> QED
    BY <1>2, <2>2
<1>5. ASSUME NEW s \in Seq(Unencoded)
      PROVE  /\ QueryPairs(p(List(s))) = [i \in DOMAIN s |-> Pair(name, s[i])]
             /\ [i \in DOMAIN s |-> Pair(name, s[i])] \in Seq(Pairs)
  <2>1. \A i \in DOMAIN s : s[i] \in Unencoded /\ PlainText(s[i]) = s[i]
    BY DEF PlainText
  <2>2. QueryPairs(p(List(s))) = [i \in DOMAIN s |-> Pair(name, PlainText(s[i]))]
    <3>1. List(s).kind = "list" /\ List(s).items = s
      BY DEF List
    <3> QED
      BY <1>1, <3>1 DEF QueryPairs
  <2>3. DOMAIN s = 1..Len(s) /\ Len(s) \in Nat
    OBVIOUS
  <2> DEFINE f == [i \in DOMAIN s |-> Pair(name, s[i])]
  <2>4. f = [i \in 1..Len(s) |-> f[i]] /\ \A i \in 1..Len(s) : f[i] \in Pairs
    BY <1>2, <2>1, <2>3
  <2> HIDE DEF f
  <2>5. f \in Seq(Pairs)
    BY <2>3, <2>4, FunctionIsSeq
  <2> QED
    BY <2>1, <2>2, <2>5 DEF f
<1> QED
  BY <1>3, <1>4, <1>5 DEF p

\* The builder of a request for a note, before it has a query or a body.
LEMMA NoteBuilder ==
    ASSUME NEW root, NEW name, NEW method, NEW id
    PROVE  LET b == PathParam(NewBuilder(root, NotePath(name), method), name, Text(id), NoOptions) IN
           /\ IsBuilder(b) /\ b.operationPath = NotePath(name) /\ b.method = method
           /\ b.path = <<PathParameter(name, Text(id), NoOptions)>>
           /\ b.query = <<>> /\ b.bodyContent = NullValue
<1> DEFINE n == NewBuilder(root, NotePath(name), method)
           p == PathParameter(name, Text(id), NoOptions)
<1>1. /\ IsBuilder(n) /\ n.operationPath = NotePath(name) /\ n.method = method
      /\ n.path = <<>> /\ n.query = <<>> /\ n.bodyContent = NullValue
  BY NewFields
<1>2. Put(<<>>, p) = <<p>>
  BY PutFirst
<1> HIDE DEF n
<1> QED
  BY <1>1, <1>2, PathFields DEF n

\* The fields an update asks to change that notesd knows.
MaskedFields(c) == IF c.params.mask = Null THEN {} ELSE ToSet(c.params.mask) \cap FieldNames

\* What notesd understands of call c is what c asks for.
Faithful(c) ==
    LET what == Understood(Operation(c))
        ofNote == c.op \in {"get", "update", "delete"}
    IN  IF ofNote /\ c.params.id \in NoNote THEN what.op = "none"
        ELSE /\ what.op = c.op
             /\ ofNote => what.id = c.params.id
             /\ what.params = Given(c)
             /\ c.op = "update" => what.changes = MaskedFields(c)
             /\ c.op \in {"create", "update"} => what.body = c.params.body

LEMMA DeleteFaithful ==
    ASSUME NEW c, c.op = "delete", c.params.id \in Unencoded, Null \notin Unencoded
    PROVE  Faithful(c)
<1> DEFINE id == c.params.id
           b == PathParam(NewBuilder(Root(c), NotePath(Id), "DELETE"), Id, Text(id), NoOptions)
           r == Build(b, Json)
<1>1. Operation(c) = r
  BY DEF Operation, DeleteNote
<1>2. Given(c) = <<>>
  BY DEF Given
<1>3. /\ IsBuilder(b) /\ b.operationPath = NotePath(Id) /\ b.method = "DELETE" /\ b.query = <<>>
      /\ b.path = <<PathParameter(Id, Text(id), NoOptions)>>
  BY NoteBuilder
<1> HIDE DEF b
<1>4. r.params = <<>>
  BY <1>3, BuiltParams
<1>5. /\ id \in NoNote => Understood(r).op = "none"
      /\ id \notin NoNote => Understood(r).id = id /\ Understood(r).op = "delete"
  <2>1. ServedAs(Understood(r), b.method, id, b.bodyContent)
    BY <1>3, NoteServed
  <2> HIDE DEF r
  <2> QED
    BY <1>3, <2>1 DEF ServedAs
<1> HIDE DEF r
<1>6. Understood(r).params = <<>>
  BY <1>4, NoParamsUnderstood
<1> QED
  BY <1>1, <1>2, <1>5, <1>6 DEF Faithful

LEMMA GetFaithful ==
    ASSUME NEW c, c.op = "get", c.params.id \in Unencoded, c.params.mask \in Unencoded \cup {Null},
           Null \notin Unencoded
    PROVE  Faithful(c)
<1> DEFINE id == c.params.id
           a == PathParam(NewBuilder(Root(c), NotePath(Id), "GET"), Id, Text(id), NoOptions)
           b == QueryParam(a, ReadMask, Optional(c.params.mask), NoOptions)
           p == QueryParameter(ReadMask, Optional(c.params.mask), NoOptions)
           r == Build(b, Json)
<1>1. Operation(c) = r
  BY DEF Operation, GetNote
<1>2. /\ IsBuilder(a) /\ a.operationPath = NotePath(Id) /\ a.method = "GET" /\ a.query = <<>>
      /\ a.path = <<PathParameter(Id, Text(id), NoOptions)>>
  BY NoteBuilder
<1> HIDE DEF a
<1>3. /\ b.operationPath = NotePath(Id) /\ b.method = "GET" /\ b.query = <<p>>
      /\ b.path = <<PathParameter(Id, Text(id), NoOptions)>>
  BY <1>2, QueryFields, PutFirst
<1>4. QueryPairs(p) = Given(c) /\ QueryPairs(p) \in Seq(Pairs)
  <2>1. ReadMask \in Unencoded
    BY NamesAreTexts
  <2>2. CASE c.params.mask = Null
    <3>1. QueryPairs(p) = <<>>
      BY <2>1, <2>2, QueryOf DEF Optional
    <3> QED
      BY <2>2, <3>1 DEF Given
  <2>3. CASE c.params.mask # Null
    <3>1. QueryPairs(p) = <<Pair(ReadMask, c.params.mask)>> /\ QueryPairs(p) \in Seq(Pairs)
      BY <2>1, <2>3, QueryOf DEF Optional
    <3> QED
      BY <2>3, <3>1 DEF Given
  <2> QED
    BY <2>2, <2>3
<1> HIDE DEF b, p
<1>5. r.params = EncodePairs(Given(c))
  BY <1>3, <1>4, BuiltParams
<1>6. /\ id \in NoNote => Understood(r).op = "none"
      /\ id \notin NoNote => Understood(r).id = id /\ Understood(r).op = "get"
  <2>1. ServedAs(Understood(r), b.method, id, b.bodyContent)
    BY <1>3, NoteServed
  <2> HIDE DEF r
  <2> QED
    BY <1>3, <2>1 DEF ServedAs
<1> HIDE DEF r
<1>7. Understood(r).params = Given(c)
  BY <1>4, <1>5, ParamsUnderstood
<1> QED
  BY <1>1, <1>6, <1>7 DEF Faithful

\* An update changes the fields its mask names.
LEMMA MaskGiven ==
    ASSUME NEW c, c.op = "update", c.params.mask = Null \/ c.params.mask \in Seq(Unencoded)
    PROVE  Changes(Given(c)) = MaskedFields(c)
<1> DEFINE mask == c.params.mask
           given == Given(c)
<1>1. CASE mask = Null
  <2>1. given = <<>>
    BY <1>1 DEF Given
  <2>2. ToSet(given) = {}
    BY <2>1 DEF ToSet
  <2> QED
    BY <1>1, <2>2 DEF Changes, MaskedFields
<1>2. CASE mask # Null
  <2>1. given = [i \in DOMAIN mask |-> Pair(UpdateMask, mask[i])]
    BY <1>2 DEF Given
  <2>2. \A i \in DOMAIN mask : given[i].name = UpdateMask /\ given[i].text = mask[i]
    BY <2>1 DEF Pair
  <2>3. DOMAIN given = DOMAIN mask
    BY <2>1
  <2> HIDE DEF given, mask
  <2>4. {p.text : p \in {p \in ToSet(given) : p.name = UpdateMask}} = ToSet(mask)
    BY <2>2, <2>3 DEF ToSet
  <2> QED
    BY <1>2, <2>4 DEF Changes, MaskedFields, given, mask
<1> QED
  BY <1>1, <1>2

LEMMA UpdateFaithful ==
    ASSUME NEW c, c.op = "update", c.params.id \in Unencoded, c.params.body.kind = "plain",
           c.params.mask = Null \/ c.params.mask \in Seq(Unencoded), Null \notin Unencoded
    PROVE  Faithful(c)
<1> DEFINE id == c.params.id
           v == IF c.params.mask = Null THEN NullValue ELSE List(c.params.mask)
           n == NewBuilder(Root(c), NotePath(NoteId), "PATCH")
           a == PathParam(n, NoteId, Text(id), NoOptions)
           m == QueryParam(a, UpdateMask, v, NoOptions)
           b == SetBody(m, c.params.body, Json)
           p == QueryParameter(UpdateMask, v, NoOptions)
           r == Build(b, Json)
<1>1. Operation(c) = r
  BY DEF Operation, UpdateNote
<1>2. /\ IsBuilder(a) /\ a.operationPath = NotePath(NoteId) /\ a.method = "PATCH" /\ a.query = <<>>
      /\ a.path = <<PathParameter(NoteId, Text(id), NoOptions)>>
  BY NoteBuilder
<1> HIDE DEF n, a, v
<1>3. /\ IsBuilder(m) /\ m.operationPath = NotePath(NoteId) /\ m.method = "PATCH" /\ m.query = <<p>>
      /\ m.path = <<PathParameter(NoteId, Text(id), NoOptions)>>
  BY <1>2, QueryFields, PutFirst
<1> HIDE DEF m
<1>4. BodyContent(c.params.body, Json) = c.params.body
  BY DEF BodyContent, Json, UrlEncoded, Multipart
<1>5. /\ b.operationPath = NotePath(NoteId) /\ b.method = "PATCH" /\ b.query = <<p>>
      /\ b.path = <<PathParameter(NoteId, Text(id), NoOptions)>>
      /\ b.bodyContent = c.params.body
  BY <1>3, <1>4, BodyFields
<1>6. QueryPairs(p) = Given(c) /\ QueryPairs(p) \in Seq(Pairs)
  <2>1. UpdateMask \in Unencoded
    BY NamesAreTexts
  <2>2. CASE c.params.mask = Null
    <3>1. QueryPairs(p) = <<>>
      BY <2>1, <2>2, QueryOf DEF v
    <3> QED
      BY <2>2, <3>1 DEF Given
  <2>3. CASE c.params.mask # Null
    <3>1. /\ QueryPairs(p) = [i \in DOMAIN c.params.mask |-> Pair(UpdateMask, c.params.mask[i])]
          /\ QueryPairs(p) \in Seq(Pairs)
      BY <2>1, <2>3, QueryOf DEF v
    <3> QED
      BY <2>3, <3>1 DEF Given
  <2> QED
    BY <2>2, <2>3
<1> HIDE DEF b, p
<1>7. r.params = EncodePairs(Given(c))
  BY <1>5, <1>6, BuiltParams
<1>8. /\ id \in NoNote => Understood(r).op = "none"
      /\ id \notin NoNote => Understood(r).id = id /\ Understood(r).op = "update"
      /\ Understood(r).body = c.params.body
  <2>1. ServedAs(Understood(r), b.method, id, b.bodyContent)
    BY <1>5, NoteServed
  <2> HIDE DEF r
  <2> QED
    BY <1>5, <2>1 DEF ServedAs
<1> HIDE DEF r
<1>9. Understood(r).params = Given(c)
  BY <1>6, <1>7, ParamsUnderstood
<1>10. id \notin NoNote => Understood(r).changes = MaskedFields(c)
  <2>1. Understood(r).op = "update" => Understood(r).changes = Changes(Understood(r).params)
    BY DEF Understood
  <2>2. Changes(Given(c)) = MaskedFields(c)
    BY MaskGiven
  <2> QED
    BY <1>8, <1>9, <2>1, <2>2
<1> QED
  BY <1>1, <1>8, <1>9, <1>10 DEF Faithful

LEMMA CreateFaithful ==
    ASSUME NEW c, c.op = "create", c.params.body.kind = "plain"
    PROVE  Faithful(c)
<1> DEFINE n == NewBuilder(Root(c), NotesPath, "POST")
           b == SetBody(n, c.params.body, Json)
           r == Build(b, Json)
<1>1. Operation(c) = r
  BY DEF Operation, CreateNote
<1>2. IsBuilder(n) /\ n.operationPath = NotesPath /\ n.method = "POST" /\ n.path = <<>> /\ n.query = <<>>
  BY NewFields
<1> HIDE DEF n
<1>3. BodyContent(c.params.body, Json) = c.params.body
  BY DEF BodyContent, Json, UrlEncoded, Multipart
<1>4. /\ b.operationPath = NotesPath /\ b.method = "POST" /\ b.path = <<>> /\ b.query = <<>>
      /\ b.bodyContent = c.params.body
  BY <1>2, <1>3, BodyFields
<1> HIDE DEF b
<1>5. /\ r.method = "POST" /\ r.body = c.params.body /\ r.url = <<Literal(b.rootUrl)>> \o NotesPath
      /\ r.params = <<>>
  BY <1>4, BuiltUrl, BuiltParams
<1>6. Given(c) = <<>>
  BY DEF Given
<1> HIDE DEF r
<1>7. Understood(r).params = <<>>
  BY <1>5, NoParamsUnderstood
<1>8. Understood(r).op = "create" /\ Understood(r).body = c.params.body
  BY <1>5, CollectionServed
<1> QED
  BY <1>1, <1>6, <1>7, <1>8 DEF Faithful

\* One parameter is set, and the three of a list.
ListParameter(params, name) == QueryParameter(name, Optional(params[name]), NoOptions)
SetOne(params, b, name) == QueryParam(b, name, Optional(params[name]), NoOptions)
SetThree(params, n) ==
    FoldLeft(LAMBDA b, name : QueryParam(b, name, Optional(params[name]), NoOptions),
             n, <<PageSize, PageToken, ShowDeleted>>)

\* They are set one after the other.
LEMMA ThreeGiven ==
    ASSUME NEW n, NEW params
    PROVE  SetThree(params, n) =
             SetOne(params, SetOne(params, SetOne(params, n, PageSize), PageToken), ShowDeleted)
<1> DEFINE names == <<PageSize, PageToken, ShowDeleted>>
           H(f, s) == IF s = {} THEN n ELSE SetOne(params, f[s \ {Max(s)}], names[Max(s)])
           iter == CHOOSE f : f = [s \in SUBSET DOMAIN names |-> H(f, s)]
           A(s) == IF 1 \in s THEN SetOne(params, n, PageSize) ELSE n
           B(s) == IF 2 \in s THEN SetOne(params, A(s), PageToken) ELSE A(s)
           g == [s \in SUBSET (1..3) |-> IF 3 \in s THEN SetOne(params, B(s), ShowDeleted) ELSE B(s)]
<1>1. DOMAIN names = 1..3 /\ names[1] = PageSize /\ names[2] = PageToken /\ names[3] = ShowDeleted
  OBVIOUS
<1>2. SetThree(params, n) = iter[DOMAIN names]
  BY DEF SetThree, FoldLeft, MapThenFoldSet, SetOne
<1> HIDE DEF names
<1>3. ASSUME NEW s \in SUBSET (1..3)
      PROVE  g[s] = H(g, s)
  <2>1. CASE s = {}
    BY <2>1
  <2>2. CASE 3 \in s
    <3>1. Max(s) = 3
      BY <2>2, MaxIsGreatest
    <3>2. s \ {3} \in SUBSET (1..3) /\ A(s \ {3}) = A(s) /\ B(s \ {3}) = B(s)
      OBVIOUS
    <3> HIDE DEF A, B
    <3> QED
      BY <1>1, <2>2, <3>1, <3>2
  <2>3. CASE 3 \notin s /\ 2 \in s
    <3>1. Max(s) = 2
      BY <2>3, MaxIsGreatest
    <3>2. s \ {2} \in SUBSET (1..3) /\ A(s \ {2}) = A(s) /\ B(s \ {2}) = A(s \ {2})
      OBVIOUS
    <3>3. B(s) = SetOne(params, A(s), PageToken)
      BY <2>3
    <3> HIDE DEF A, B
    <3> QED
      BY <1>1, <2>3, <3>1, <3>2, <3>3
  <2>4. CASE s = {1}
    <3>1. Max(s) = 1
      BY <2>4, MaxIsGreatest
    <3>2. {1} \in SUBSET (1..3) /\ {} \in SUBSET (1..3) /\ {1} \ {1} = {}
      OBVIOUS
    <3>3. g[{1}] = SetOne(params, n, PageSize) /\ g[{}] = n
      BY <3>2
    <3> QED
      BY <1>1, <2>4, <3>1, <3>2, <3>3
  <2>5. ASSUME s # {}, 3 \notin s, 2 \notin s
        PROVE  s = {1}
    <3>1. \A e \in s : e = 1
      BY <2>5
    <3> QED
      BY <2>5, <3>1
  <2> QED
    BY <2>1, <2>2, <2>3, <2>4, <2>5
<1>4. g = [s \in SUBSET DOMAIN names |-> H(g, s)]
  <2>1. g = [s \in SUBSET DOMAIN names |-> g[s]]
    BY <1>1
  <2> HIDE DEF g, H
  <2> QED
    BY <1>1, <1>3, <2>1
<1>5. iter = [s \in SUBSET DOMAIN names |-> H(iter, s)]
  <2> HIDE DEF H, g
  <2> QED
    BY <1>4
<1> HIDE DEF iter
<1>6. iter[{}] = n
  BY <1>5
<1>7. ASSUME NEW i \in 1..3
      PROVE  iter[1..i] = SetOne(params, iter[1..(i - 1)], names[i])
  <2>1. 1..i # {} /\ Max(1..i) = i /\ (1..i) \ {i} = 1..(i - 1)
    BY UpTo
  <2>2. 1..i \in SUBSET DOMAIN names
    BY <1>1
  <2> QED
    BY <1>5, <2>1, <2>2
<1>8. /\ iter[1..1] = SetOne(params, iter[1..0], PageSize) /\ iter[1..2] = SetOne(params, iter[1..1], PageToken)
      /\ iter[1..3] = SetOne(params, iter[1..2], ShowDeleted) /\ 1..0 = {}
  <2>1. 1 \in 1..3 /\ 2 \in 1..3 /\ 3 \in 1..3 /\ 1 - 1 = 0 /\ 2 - 1 = 1 /\ 3 - 1 = 2
    OBVIOUS
  <2> QED
    BY <1>1, <1>7, <2>1
<1> QED
  BY <1>1, <1>2, <1>6, <1>8

LEMMA OneSet ==
    ASSUME NEW params, NEW b, IsBuilder(b), NEW name, NEW c, c = SetOne(params, b, name)
    PROVE  /\ IsBuilder(c) /\ c.rootUrl = b.rootUrl /\ c.operationPath = b.operationPath
           /\ c.method = b.method /\ c.path = b.path
           /\ c.query = Put(b.query, ListParameter(params, name))
           /\ ListParameter(params, name).name = name
<1>1. ListParameter(params, name).name = name
  BY DEF ListParameter, QueryParameter, Param
<1> QED
  BY <1>1, QueryFields DEF SetOne, ListParameter

\* The query of the three parameters of a list.
LEMMA ListQuery ==
    ASSUME NEW params, NEW n, IsBuilder(n), n.query = <<>>, NEW b, b = SetThree(params, n)
    PROVE  /\ b.rootUrl = n.rootUrl /\ b.operationPath = n.operationPath /\ b.method = n.method
           /\ b.path = n.path
           /\ b.query = <<ListParameter(params, PageSize), ListParameter(params, PageToken),
                          ListParameter(params, ShowDeleted)>>
<1> DEFINE p1 == ListParameter(params, PageSize)
           p2 == ListParameter(params, PageToken)
           p3 == ListParameter(params, ShowDeleted)
           one == SetOne(params, n, PageSize)
           two == SetOne(params, one, PageToken)
<1>1. b = SetOne(params, two, ShowDeleted)
  BY ThreeGiven
<1>2. PageSize # PageToken /\ PageSize # ShowDeleted /\ PageToken # ShowDeleted
  <2>1. "pageSize" # "pageToken" /\ "pageSize" # "showDeleted" /\ "pageToken" # "showDeleted"
    OBVIOUS
  <2>2. /\ Ch("pageSize") # Ch("pageToken") /\ Ch("pageSize") # Ch("showDeleted")
        /\ Ch("pageToken") # Ch("showDeleted")
    BY <2>1, CharTypes
  <2>3. \A x, y : <<x>> = <<y>> => x = y
    OBVIOUS
  <2> QED
    BY <2>2, <2>3 DEF PageSize, PageToken, ShowDeleted
<1>3. /\ IsBuilder(one) /\ one.rootUrl = n.rootUrl /\ one.operationPath = n.operationPath
      /\ one.method = n.method /\ one.path = n.path /\ one.query = <<p1>> /\ p1.name = PageSize
  BY OneSet, PutFirst
<1> HIDE DEF one
<1>4. /\ IsBuilder(two) /\ two.rootUrl = n.rootUrl /\ two.operationPath = n.operationPath
      /\ two.method = n.method /\ two.path = n.path /\ two.query = Put(<<p1>>, p2) /\ p2.name = PageToken
  BY <1>3, OneSet
<1> HIDE DEF two
<1>5. /\ b.rootUrl = n.rootUrl /\ b.operationPath = n.operationPath
      /\ b.method = n.method /\ b.path = n.path /\ b.query = Put(two.query, p3) /\ p3.name = ShowDeleted
  BY <1>1, <1>4, OneSet
<1> HIDE DEF p1, p2, p3
<1>6. Put(<<p1>>, p2) = <<p1, p2>>
  BY <1>2, <1>3, <1>4, PutSecond
<1>7. Put(<<p1, p2>>, p3) = <<p1, p2, p3>>
  BY <1>2, <1>3, <1>4, <1>5, PutThird
<1>8. b.query = <<p1, p2, p3>>
  BY <1>4, <1>5, <1>6, <1>7
<1> QED
  BY <1>5, <1>8 DEF p1, p2, p3

\* The parameters of a list that are given, and no others, are sent.
LEMMA ListPairs ==
    ASSUME NEW c, c.op = "list", c.params # Null, Null \notin Unencoded,
           DOMAIN c.params = {PageSize, PageToken, ShowDeleted},
           \A name \in DOMAIN c.params : c.params[name] \in Unencoded \cup {Null},
           NEW q, q = <<ListParameter(c.params, PageSize), ListParameter(c.params, PageToken),
                        ListParameter(c.params, ShowDeleted)>>
    PROVE  /\ FlattenSeq([i \in DOMAIN q |-> QueryPairs(q[i])]) = Given(c)
           /\ Given(c) \in Seq(Pairs)
<1> DEFINE params == c.params
           S == {PageSize, PageToken, ShowDeleted}
           s == <<PageSize, PageToken, ShowDeleted>>
           keep == {name \in DOMAIN params : params[name] # Null}
           g == [name \in S |-> Pair(name, IF params[name] = Null THEN <<>> ELSE params[name])]
           p(name) == ListParameter(params, name)
           seqs == [i \in DOMAIN q |-> QueryPairs(q[i])]
           names == Only(s, keep)
<1>1. s \in Seq(S) /\ Len(s) = 3
  OBVIOUS
<1>2. g \in Mappings(S, Pairs)
  <2>1. \A t \in Unencoded : t \in Coded
    BY RawText
  <2>2. <<>> \in Coded
    BY DEF Coded
  <2>3. \A name \in S : name \in Coded
    BY <2>1, NamesAreTexts
  <2>4. \A name \in S : g[name] \in Pairs
    BY <2>1, <2>2, <2>3 DEF Pair, Pairs
  <2> HIDE DEF S
  <2> QED
    BY <2>4 DEF Mappings
<1>3. ASSUME NEW name \in S
      PROVE  QueryPairs(p(name)) = IF name \in keep THEN <<g[name]>> ELSE <<>>
  <2>1. name \in Unencoded
    BY NamesAreTexts
  <2>2. CASE params[name] = Null
    <3>1. QueryPairs(QueryParameter(name, NullValue, NoOptions)) = <<>>
      BY <2>1, QueryOf
    <3> QED
      BY <2>2, <3>1 DEF Optional, ListParameter
  <2>3. CASE params[name] # Null
    <3>1. params[name] \in Unencoded
      BY <2>3
    <3>2. QueryPairs(QueryParameter(name, Text(params[name]), NoOptions)) = <<Pair(name, params[name])>>
      BY <2>1, <3>1, QueryOf
    <3> QED
      BY <2>3, <3>2 DEF Optional, ListParameter
  <2> QED
    BY <2>2, <2>3
<1>4. q = <<p(PageSize), p(PageToken), p(ShowDeleted)>>
  OBVIOUS
<1> HIDE DEF p, g, keep
<1>5. OneOrNone(seqs, s, keep, g)
  <2>1. DOMAIN q = 1..3 /\ q[1] = p(s[1]) /\ q[2] = p(s[2]) /\ q[3] = p(s[3])
    BY <1>4
  <2>2. \A i \in 1..3 : s[i] \in S /\ q[i] = p(s[i])
    BY <1>1, <2>1
  <2> HIDE DEF s, S
  <2>3. \A i \in 1..3 : QueryPairs(q[i]) = IF s[i] \in keep THEN <<g[s[i]]>> ELSE <<>>
    BY <1>3, <2>2
  <2> QED
    BY <1>1, <2>1, <2>3 DEF OneOrNone
<1> HIDE DEF s, S, seqs
<1>6. FlattenSeq(seqs) = Each(g, names) /\ FlattenSeq(seqs) \in Seq(Pairs)
  BY <1>1, <1>2, <1>5, FlattenOnly
<1>7. names \in Seq(S \cap keep)
  BY <1>1, OnlyType
<1>8. Given(c) = [i \in DOMAIN names |-> Pair(names[i], params[names[i]])]
  BY DEF Given, keep, s
<1> HIDE DEF names
<1>9. \A i \in DOMAIN names : g[names[i]] = Pair(names[i], params[names[i]])
  <2>1. \A i \in DOMAIN names : names[i] \in S \cap keep
    BY <1>7
  <2> QED
    BY <2>1 DEF keep, g
<1>10. Each(g, names) = Given(c)
  BY <1>8, <1>9 DEF Each
<1> QED
  BY <1>6, <1>10 DEF seqs

LEMMA ListFaithful ==
    ASSUME NEW c, c.op = "list", Null \notin Unencoded,
           c.params = Null \/ (/\ DOMAIN c.params = {PageSize, PageToken, ShowDeleted}
                               /\ \A name \in DOMAIN c.params : c.params[name] \in Unencoded \cup {Null})
    PROVE  Faithful(c)
<1> DEFINE n == NewBuilder(Root(c), NotesPath, "GET")
           folded == SetThree(c.params, n)
           b == IF c.params = Null THEN n ELSE folded
           r == Build(b, Json)
<1>1. Operation(c) = r
  BY DEF Operation, ListNotes, SetThree
<1>2. IsBuilder(n) /\ n.operationPath = NotesPath /\ n.method = "GET" /\ n.path = <<>> /\ n.query = <<>>
  BY NewFields
<1> HIDE DEF n
<1>3. b.operationPath = NotesPath /\ b.method = "GET" /\ b.path = <<>>
  BY <1>2, ListQuery
<1>4. r.params = EncodePairs(Given(c)) /\ Given(c) \in Seq(Pairs)
  <2>1. CASE c.params = Null
    <3>1. Given(c) = <<>> /\ EncodePairs(<<>>) = <<>>
      BY <2>1 DEF Given, EncodePairs
    <3>2. r.params = <<>>
      BY <1>2, <2>1, BuiltParams
    <3> QED
      BY <3>1, <3>2
  <2>2. CASE c.params # Null
    <3> DEFINE q == folded.query
    <3>1. q = <<ListParameter(c.params, PageSize), ListParameter(c.params, PageToken),
                ListParameter(c.params, ShowDeleted)>>
      BY <1>2, ListQuery
    <3> HIDE DEF q
    <3>2. /\ FlattenSeq([i \in DOMAIN q |-> QueryPairs(q[i])]) = Given(c)
          /\ Given(c) \in Seq(Pairs)
      BY <2>2, <3>1, ListPairs
    <3>3. r.params = EncodePairs(FlattenSeq([i \in DOMAIN q |-> QueryPairs(q[i])]))
      BY <2>2 DEF Build, q
    <3> QED
      BY <3>2, <3>3
  <2> QED
    BY <2>1, <2>2
<1> HIDE DEF b
<1>5. r.method = "GET" /\ r.url = <<Literal(b.rootUrl)>> \o NotesPath
  BY <1>3, BuiltUrl
<1> HIDE DEF r
<1>6. Understood(r).params = Given(c)
  BY <1>4, ParamsUnderstood
<1>7. Understood(r).op = "list"
  BY <1>5, CollectionServed
<1> QED
  BY <1>1, <1>6, <1>7 DEF Faithful

\* notesd understands of every call of a script what the script asks for.
LEMMA ScriptUnderstood ==
    ASSUME NEW c \in ScriptCalls
    PROVE  Faithful(c)
<1>1. Null \notin Unencoded
  BY ScriptAssumption
<1>2. CASE c.op = "list"
  BY <1>1, <1>2, ListFaithful, ScriptAssumption
<1>3. CASE c.op = "create"
  BY <1>3, CreateFaithful, ScriptAssumption
<1>4. CASE c.op = "get"
  BY <1>1, <1>4, GetFaithful, ScriptAssumption
<1>5. CASE c.op = "update"
  BY <1>1, <1>5, UpdateFaithful, ScriptAssumption
<1>6. CASE c.op = "delete"
  BY <1>1, <1>6, DeleteFaithful, ScriptAssumption
<1> QED
  BY <1>2, <1>3, <1>4, <1>5, <1>6, ScriptAssumption

-----------------------------------------------------------------------------
(* What is shown *)

\* The notes of the calls of the view are those that were submitted.
LEMMA SubmittedNotes ==
    ASSUME PageInv
    PROVE  /\ \A r \in Lists : call[r] = ListCall
           /\ \A r \in Creates : NoteOf(r) \in 1..MaxOperations /\ call[r] = CreateCall(NoteOf(r))
           /\ \A r \in Requests : Live(r) => r \notin Free
<1>1. \A r \in Requests : call[r] \in PageCalls
  BY DEF PageInv, CallTypes
<1>2. \A r \in Lists : call[r] = ListCall
  BY <1>1, Kinds DEF PageCalls, Lists, IsView
<1>3. \A n \in 1..MaxOperations : CreateCall(n).params.body.note = n
  BY DEF CreateCall
<1>4. \A r \in Creates : NoteOf(r) \in 1..MaxOperations /\ call[r] = CreateCall(NoteOf(r))
  BY <1>1, <1>3, Kinds DEF PageCalls, Creates, IsView, NoteOf
<1>5. \A r \in Requests : Live(r) => r \notin Free
  BY DEF PageInv, MadeAreBegun, Live, Free, Made
<1> QED
  BY <1>2, <1>4, <1>5

\* A request moves, and no note is created by it: the order, and what is known of the
\* answers, stay.
LEMMA MovedShow ==
    ASSUME PageInv, ShowInv, NEW r \in Requests, NEW q, Moved(r, q), UNCHANGED <<answer, stored>>,
           q.outer = "completed" => r \notin Creates
    PROVE  /\ Order' /\ Numbers' /\ Service' /\ ListsAreWhole' /\ Lists' = Lists
           /\ \A x \in Requests : req[x].outer = "completed" => req'[x].outer = "completed"
           /\ req'[r] = q
<1>1. /\ req \in [Requests -> Records] /\ req[r] \in Records /\ Sound(req[r])
      /\ req' = [req EXCEPT ![r] = q] /\ call' = call /\ Moves(req[r], q) /\ req[r].outer # "idle"
  BY OfRequests DEF PageInv, Moved
<1>2. req'[r] = q /\ \A x \in Requests : x # r => req'[x] = req[x]
  BY <1>1
<1>3. \A x \in Requests :
        /\ req'[x].target = req[x].target /\ (Live(x)' => Live(x))
        /\ req[x].outer = "completed" => req'[x].outer = "completed"
  BY <1>1, <1>2, BegunForGood DEF Live
<1>4. Free' = Free /\ Lists' = Lists /\ Creates' = Creates
  BY <1>1 DEF Free, Lists, Creates, Made, IsView
<1>5. Done' = Done
  BY <1>2, <1>3, <1>4 DEF Done, Creates
<1>6. \A x \in Requests : NoteOf(x)' = NoteOf(x)
  BY <1>1 DEF NoteOf
<1>7. Creates \subseteq Requests /\ Lists \subseteq Requests /\ Done \subseteq Creates
  BY DEF Creates, Lists, Done
<1>8. Order'
  BY <1>3, <1>4, <1>5, <1>7 DEF ShowInv, Order
<1>9. Numbers'
  BY <1>4, <1>6, <1>7 DEF ShowInv, Numbers
<1>10. Service'
  BY <1>3, <1>4, <1>5, <1>6, <1>7 DEF ShowInv, Service, Reaches
<1>11. ListsAreWhole'
  BY <1>4, <1>5, <1>6, <1>7 DEF ShowInv, ListsAreWhole
<1> QED
  BY <1>2, <1>3, <1>4, <1>8, <1>9, <1>10, <1>11

\* Requests that end without a note created, and those that go on: only a list that
\* arrives changes what is shown.
LEMMA RestShow ==
    ASSUME PageInv, ShowInv, NEW r \in Requests,
           \/ TokenComes(r) \/ ScriptHears(r) \/ ScriptLeaves(r)
           \/ ListArrives(r) \/ ListFails(r) \/ CreateFails(r)
    PROVE  ShowInv'
<1>1. req[r] \in Records /\ Sound(req[r])
  BY OfRequests DEF PageInv
<1>2. PICK q : /\ Moved(r, q) /\ UNCHANGED <<answer, stored>> /\ (q.outer = "completed" => r \notin Creates)
               /\ \/ UNCHANGED <<notes, shown>>
                  \/ ListArrives(r) /\ q.outer = "completed"
  <2>1. CASE TokenComes(r)
    <3>1. Moves(req[r], Authorized(req[r])) /\ Authorized(req[r]).outer = req[r].outer
          /\ req[r].outer \in {"open", "value"}
      BY <1>1, <2>1 DEF TokenComes, TokenArrives, Moves, Authorized, Records, Sound, InFlight
    <3> QED
      BY <2>1, <3>1 DEF TokenComes, TokenArrives, Moved, view
  <2>2. CASE ScriptHears(r) /\ CanAnswer(r) /\ Complete(r)
    <3>1. Moves(req[r], Completed(req[r])) /\ req[r].outer # "idle"
      BY <1>1, <2>2, AnswerMoves DEF Live
    <3>2. r \notin Creates
      BY <2>2 DEF ScriptHears, Creates, IsView
    <3> QED
      BY <2>2, <3>1, <3>2 DEF ScriptHears, Complete, Moved, view
  <2>3. CASE (ScriptHears(r) \/ ListFails(r) \/ CreateFails(r))
             /\ \E q \in Failures(r) : req' = [req EXCEPT ![r] = q]
    <3>1. PICK q \in Failures(r) : req' = [req EXCEPT ![r] = q]
      BY <2>3
    <3>2. Moves(req[r], q) /\ q.outer = "errored" /\ req[r].outer # "idle"
      BY <1>1, FailuresMove DEF Live
    <3> QED
      BY <2>3, <3>1, <3>2 DEF ScriptHears, ListFails, CreateFails, Moved, view
  <2>4. CASE ScriptLeaves(r)
    <3>1. Cancelled(req[r]).outer = "cancelled"
      BY <1>1 DEF Cancelled, Records
    <3> QED
      BY <2>4, <3>1 DEF ScriptLeaves, Unsubscribe, Live, Moves, Moved, view
  <2>5. CASE ListArrives(r)
    <3>1. /\ Moves(req[r], Completed(req[r])) /\ Completed(req[r]).outer = "completed"
          /\ req[r].outer # "idle"
      BY <1>1, <2>5, AnswerMoves DEF ListArrives, Live
    <3>2. r \notin Creates
      BY <2>5 DEF ListArrives, Creates, IsView
    <3> QED
      BY <2>5, <3>1, <3>2 DEF ListArrives, Moved
  <2> QED
    BY <2>1, <2>2, <2>3, <2>4, <2>5 DEF ScriptHears, ListFails, CreateFails
<1>3. /\ Order' /\ Numbers' /\ Service' /\ ListsAreWhole' /\ Lists' = Lists /\ req'[r] = q
      /\ \A x \in Requests : req[x].outer = "completed" => req'[x].outer = "completed"
  BY <1>2, MovedShow
<1>4. Shown'
  <2>1. CASE UNCHANGED <<notes, shown>>
    BY <1>2, <1>3, <2>1 DEF ShowInv, Shown, Lists, Reaches
  <2>2. CASE ListArrives(r) /\ q.outer = "completed"
    <3>1. shown' = r /\ notes' = answer[r].notes /\ r \in Lists /\ answer' = answer
      BY <2>2 DEF ListArrives, Lists
    <3>2. Reaches => answer[r].served
      BY <2>2, <3>1 DEF ListArrives, CanAnswer, ShowInv, Service, Reaches
    <3> QED
      BY <1>3, <2>2, <3>1, <3>2 DEF Shown, Reaches
  <2> QED
    BY <1>2, <2>1, <2>2
<1> QED
  BY <1>3, <1>4 DEF ShowInv

\* notesd serves a request: a list gets the notes there are, or is told of more, and a note that is added is
\* the one of that request, or none of the view's.
LEMMA HandleShow ==
    ASSUME PageInv, ShowInv, NEW r \in Requests, Handle(r)
    PROVE  ShowInv'
<1>1. /\ req[r].inner = "wire" /\ OriginOf(req[r].target) = NotesdOrigin /\ ~answer[r].served
      /\ req' = req /\ call' = call /\ notes' = notes /\ shown' = shown
  BY DEF Handle, view
<1>2. Live(r) /\ r \notin Free /\ r \notin Done
  <2>1. req[r].outer \in {"open", "value"}
    BY <1>1, OfRequests DEF PageInv, Sound, InFlight
  <2> QED
    BY <2>1, SubmittedNotes DEF Live, Done
<1>3. PICK e : /\ answer' = [answer EXCEPT ![r] = e] /\ e.served
               /\ r \in Lists /\ ~e.more => e.notes = stored
  <2> DEFINE other == [served |-> TRUE, notes |-> {}, more |-> FALSE]
  <2>1. PICK e \in IF IsView(r, "list") THEN Pages ELSE {other} : answer' = [answer EXCEPT ![r] = e]
    BY DEF Handle
  <2>2. other.served
    OBVIOUS
  <2>3. ASSUME NEW x \in Pages PROVE x.served /\ (~x.more => x.notes = stored)
    <3>1. CASE Cardinality(stored) <= PageLimit
      BY <2>3, <3>1 DEF Pages
    <3>2. CASE ~(Cardinality(stored) <= PageLimit)
      <4> DEFINE some == {page \in SUBSET stored : Cardinality(page) = PageLimit}
      <4>1. x \in [served : {TRUE}, more : {TRUE}, notes : some]
        BY <2>3, <3>2 DEF Pages
      <4> HIDE DEF some
      <4> QED
        BY <4>1
    <3> QED
      BY <3>1, <3>2
  <2> HIDE DEF other
  <2>4. r \in Lists => IsView(r, "list")
    BY DEF Lists
  <2> QED
    BY <2>1, <2>2, <2>3, <2>4
<1>4. /\ DOMAIN answer' = Requests /\ answer'[r] = e
      /\ \A x \in Requests : x # r => answer'[x] = answer[x]
  BY <1>3 DEF ShowInv, Service
<1>5. /\ Free' = Free /\ Lists' = Lists /\ Creates' = Creates /\ Done' = Done
      /\ \A x : NoteOf(x)' = NoteOf(x) /\ (Live(x)' <=> Live(x))
  BY <1>1 DEF Free, Lists, Creates, Done, Made, IsView, NoteOf, Live
<1>6. Creates \subseteq Requests /\ Lists \subseteq Requests /\ Done \subseteq Creates
  BY DEF Creates, Lists, Done
<1>7. \A n \in 1..MaxOperations :
        n \in stored' /\ n \notin stored => r \in Creates /\ NoteOf(r) = n
  <2>1. CASE AtNotesd[call[r]].op = "create"
    <3>1. stored' = stored \cup {AtNotesd[call[r]].body.note}
      BY <2>1 DEF Handle
    <3>2. CASE r \in Creates
      <4>1. AtNotesd[call[r]].body.note = NoteOf(r)
        BY <3>2, SubmittedNotes, ViewUnderstood
      <4> QED
        BY <3>1, <3>2, <4>1
    <3>3. CASE r \notin Creates
      <4>1. call[r] \in ScriptCalls
        <5>1. r \notin Lists
          BY <2>1, SubmittedNotes, ViewUnderstood
        <5>2. call[r].by # "none" /\ call[r] \in PageCalls
          BY <1>2 DEF Free, Made, PageInv, CallTypes
        <5> QED
          BY <3>3, <5>1, <5>2, Kinds DEF PageCalls, Lists, Creates, IsView
      <4> QED
        BY <2>1, <3>1, <4>1, NoteAssumption
    <3> QED
      BY <3>2, <3>3
  <2>2. CASE AtNotesd[call[r]].op = "delete"
    BY <2>2 DEF Handle
  <2>3. CASE AtNotesd[call[r]].op \notin {"create", "delete"}
    BY <2>3 DEF Handle
  <2> QED
    BY <2>1, <2>2, <2>3
<1>8. Order' /\ Numbers'
  BY <1>5, <1>6 DEF ShowInv, Order, Numbers
<1>9. Service'
  <2>1. \A x \in Requests : answer'[x].served => answer[x].served \/ x = r
    BY <1>4
  <2>2. \A x \in Requests : answer[x].served => answer'[x].served
    BY <1>3, <1>4
  <2>3. r \in Lists \cup Creates => Reaches
    BY <1>1 DEF ShowInv, Service, Reaches
  <2>4. \A n \in stored' \cap (1..MaxOperations) : \E x \in Creates : answer'[x].served /\ NoteOf(x) = n
    BY <1>3, <1>4, <1>6, <1>7, <2>2 DEF ShowInv, Service
  <2>5. \A x \in Requests : answer'[x].served => x \notin Free
    BY <1>2, <2>1 DEF ShowInv, Service
  <2>6. \A x \in Lists \cup Creates : answer'[x].served => Reaches
    BY <1>6, <2>1, <2>3 DEF ShowInv, Service
  <2>7. \A x \in Done : Reaches => answer'[x].served
    BY <1>6, <2>2 DEF ShowInv, Service
  <2>8. \A x \in Lists \cup Creates : req'[x].target = ApiBase
    BY <1>1 DEF ShowInv, Service
  <2> QED
    BY <1>4, <1>5, <2>4, <2>5, <2>6, <2>7, <2>8 DEF Service, Reaches
<1>10. ListsAreWhole'
  <2> SUFFICES ASSUME NEW l \in Lists, NEW x \in Done, x < l, answer'[l].served, ~answer'[l].more,
                      NoteOf(x) \in stored'
               PROVE  NoteOf(x) \in answer'[l].notes
    BY <1>5 DEF ListsAreWhole
  <2>1. NoteOf(x) \in stored
    <3>1. NoteOf(x) \in 1..MaxOperations /\ x \in Creates
      BY <1>6, SubmittedNotes
    <3>2. r \in Creates => NoteOf(r) # NoteOf(x)
      BY <1>2, <3>1 DEF ShowInv, Numbers
    <3> QED
      BY <1>7, <3>1, <3>2
  <2>2. CASE l = r
    BY <1>3, <1>4, <2>1, <2>2
  <2>3. CASE l # r
    BY <1>4, <1>6, <2>1, <2>3 DEF ShowInv, ListsAreWhole
  <2> QED
    BY <2>2, <2>3
<1>11. Shown'
  <2>1. req[r].outer # "completed"
    BY <1>2 DEF Live
  <2> QED
    BY <1>1, <1>4, <1>5, <1>6, <2>1 DEF ShowInv, Shown, Reaches
<1> QED
  BY <1>8, <1>9, <1>10, <1>11 DEF ShowInv

\* A request begins, as the first that nobody has made: it comes after all the others, and
\* has no answer yet.
LEMMA BeginShow ==
    ASSUME PageInv, ShowInv, NgOnInit \/ Submit \/ Invoke
    PROVE  ShowInv'
<1>1. /\ Unused \in Free /\ Submitted = Cardinality(Creates) /\ Cardinality(Creates) \in Nat
      /\ Submit => Submitted + 1 \in 1..MaxOperations
  <2>1. InBounds \/ Made("view") = {}
    BY DEF NgOnInit, Submit, Invoke
  <2>2. Unused \in Free /\ Submitted = Cardinality(Creates) /\ Cardinality(Creates) \in Nat
    BY <2>1, Spare DEF PageInv
  <2>3. Cardinality(Scripts) \in Nat
    BY SetsOfCalls, Finite DEF PageInv
  <2> QED
    BY <2>2, <2>3, PageAssumption DEF Submit, InBounds, Scripts
<1>2. PICK u, c, t :
        /\ u = Unused /\ Begins(u, c, t)
        /\ \/ NgOnInit /\ c = ListCall /\ t = ApiBase
           \/ Invoke /\ c \in ScriptCalls
           \/ Submit /\ c = CreateCall(Cardinality(Creates) + 1) /\ t = ApiBase
                     /\ Cardinality(Creates) + 1 \in 1..MaxOperations
  <2>1. CASE NgOnInit
    <3>1. ListCall \in PageCalls \ {NoCall} /\ ApiBase \in Targets
      BY Kinds, PageAssumption DEF PageCalls
    <3> QED
      BY <1>1, <2>1, <3>1 DEF NgOnInit, Begins
  <2>2. CASE Submit
    <3>1. CreateCall(Submitted + 1) \in PageCalls \ {NoCall} /\ ApiBase \in Targets
      BY <1>1, <2>2, Kinds, PageAssumption DEF PageCalls
    <3> QED
      BY <1>1, <2>2, <3>1 DEF Submit, Begins
  <2>3. CASE Invoke
    <3>1. \A c \in ScriptCalls : c \in PageCalls \ {NoCall} /\ Root(c) \in Targets
      BY Kinds, PageAssumption DEF PageCalls, Root
    <3> QED
      BY <1>1, <2>3, <3>1 DEF Invoke, Begins
  <2> QED
    BY <2>1, <2>2, <2>3
<1>3. /\ u \in Requests /\ ~Live(u) /\ Done' = Done
      /\ \A x \in Requests : x # u => (Live(x)' <=> Live(x)) /\ call'[x] = call[x]
      /\ call'[u] = c /\ req' = [req EXCEPT ![u] = Subscribed(@, t)]
  BY <1>2, BeginsInv DEF Begins
<1>4. /\ Free' = Free \ {u} /\ u \in Free
      /\ Lists' = IF c = ListCall THEN Lists \cup {u} ELSE Lists
      /\ Creates' = IF c.by = "view" /\ c.op = "create" THEN Creates \cup {u} ELSE Creates
  BY <1>2, OneCallMore DEF PageInv, Begins
<1>5. /\ Creates \subseteq Requests \ Free /\ Lists \subseteq Requests \ Free /\ Done \subseteq Creates
      /\ Free \subseteq Requests /\ Requests \subseteq Nat /\ u \in Requests
  BY <1>4, SetsOfCalls, PageAssumption DEF PageInv
<1>6. \A x \in Free : u <= x
  BY <1>1, <1>2, UnusedIsFree
<1>7. \A x \in Lists \cup Creates : x < u /\ x # u /\ NoteOf(x)' = NoteOf(x)
  BY <1>3, <1>4, <1>5 DEF ShowInv, Order, NoteOf
<1>8. req'[u].target = t /\ \A x \in Requests : x # u => req'[x] = req[x]
  <2>1. req \in [Requests -> Records] /\ req[u] \in Records
    BY <1>3, OfRequests DEF PageInv
  <2> QED
    BY <1>3, <2>1 DEF Subscribed, Records
<1>9. UNCHANGED <<answer, stored, notes, shown>> /\ ~answer[u].served
  BY <1>3, <1>4 DEF NgOnInit, Submit, Invoke, view, ShowInv, Service
<1>10. Order'
  <2>1. \A x \in Free', y \in Requests \ Free' : y < x
    BY <1>4, <1>5, <1>6 DEF ShowInv, Order
  <2>2. \A l \in Lists', r \in Creates' : r < l => ~Live(r)'
    <3>1. CASE NgOnInit /\ c = ListCall
      BY <1>4, <1>5, <3>1, SetsOfCalls, Kinds DEF NgOnInit, PageInv
    <3>2. CASE Invoke /\ c \in ScriptCalls
      <4>1. Lists' = Lists /\ Creates' = Creates
        BY <1>4, <3>2, Kinds
      <4> QED
        BY <1>3, <1>5, <1>7, <4>1 DEF ShowInv, Order
    <3>3. CASE c = CreateCall(Cardinality(Creates) + 1) /\ Cardinality(Creates) + 1 \in 1..MaxOperations
      <4>1. c.op = "create" /\ Lists' = Lists /\ Creates' \subseteq Creates \cup {u}
        BY <1>4, <3>3, Kinds
      <4> QED
        BY <1>3, <1>5, <1>7, <4>1 DEF ShowInv, Order
    <3> QED
      BY <1>2, <3>1, <3>2, <3>3
  <2>3. \A r \in Done' : \E l \in Lists' : r < l
    BY <1>3, <1>4 DEF ShowInv, Order
  <2> QED
    BY <2>1, <2>2, <2>3 DEF Order
<1>11. Numbers'
  <2>1. CASE c = ListCall \/ c \in ScriptCalls
    <3>1. Creates' = Creates
      BY <1>4, <2>1, Kinds
    <3> QED
      BY <1>7, <3>1 DEF ShowInv, Numbers
  <2>2. CASE c = CreateCall(Cardinality(Creates) + 1) /\ Cardinality(Creates) + 1 \in 1..MaxOperations
    <3> DEFINE k == Cardinality(Creates)
    <3>1. Creates' = Creates \cup {u} /\ Cardinality(Creates') = k + 1
      BY <1>4, <1>5, <2>2, Kinds, Counted
    <3>2. NoteOf(u)' = k + 1
      BY <1>3, <2>2 DEF NoteOf, CreateCall
    <3>3. \A x \in Creates : NoteOf(x) \in 1..k
      BY DEF ShowInv, Numbers
    <3>4. k \in Nat
      BY <1>1
    <3> HIDE DEF k
    <3> QED
      BY <1>7, <3>1, <3>2, <3>3, <3>4 DEF ShowInv, Numbers
  <2> QED
    BY <1>2, <2>1, <2>2
<1>12. Service'
  <2>1. \A x \in (Lists \cup Creates)' : x = u \/ x \in Lists \cup Creates
    BY <1>4
  <2>2. \A x \in (Lists \cup Creates)' : req'[x].target = ApiBase
    <3>1. u \in (Lists \cup Creates)' => t = ApiBase
      BY <1>2, <1>4, <1>5, Kinds
    <3> QED
      BY <1>5, <1>7, <1>8, <2>1, <3>1 DEF ShowInv, Service
  <2>3. Creates \subseteq Creates'
    BY <1>4
  <2>4. \A n \in stored \cap (1..MaxOperations) : \E r \in Creates' : answer[r].served /\ NoteOf(r)' = n
    BY <1>7, <2>3 DEF ShowInv, Service
  <2> QED
    BY <1>3, <1>4, <1>5, <1>9, <2>1, <2>2, <2>4 DEF ShowInv, Service, Reaches
<1>13. ListsAreWhole'
  BY <1>3, <1>4, <1>5, <1>7, <1>9 DEF ShowInv, ListsAreWhole
<1>14. Shown'
  BY <1>4, <1>5, <1>7, <1>8, <1>9 DEF ShowInv, Shown, Reaches
<1> QED
  BY <1>10, <1>11, <1>12, <1>13, <1>14 DEF ShowInv

\* The list that is asked for after a note was created comes after it.
LEMMA CreateArrivesShow ==
    ASSUME PageInv, ShowInv, NEW r \in Requests, CreateArrives(r)
    PROVE  ShowInv'
<1>1. PICK u : CreatedAndListed(r, u)
  BY CreateArrivesMoves
<1>2. UNCHANGED <<answer, stored, notes, shown>>
  BY DEF CreateArrives
<1>3. /\ Creates \subseteq Requests \ Free /\ Lists \subseteq Requests \ Free /\ Done \subseteq Creates
      /\ Free \subseteq Requests /\ Requests \subseteq Nat
  BY SetsOfCalls, PageAssumption DEF PageInv
<1>4. \A x \in Free : u <= x
  BY <1>1, UnusedIsFree DEF CreatedAndListed
<1>5. \A x \in Lists \cup Creates : x < u /\ x # u /\ NoteOf(x)' = NoteOf(x)
  BY <1>1, <1>3 DEF CreatedAndListed, ShowInv, Order, NoteOf
<1>6. \A x \in Creates : ~Live(x)'
  <2>1. ~saving' /\ Flags'
    BY CreateArrivesInv DEF PageInv, CreateArrives
  <2>2. LiveOf("create")' = {}
    BY <2>1 DEF Flags
  <2>3. Creates' = Creates
    BY <1>1 DEF CreatedAndListed
  <2> QED
    BY <1>3, <2>2, <2>3 DEF LiveOf, Creates
<1>7. \A x \in Lists \cup Creates : req'[x].target = req[x].target
  BY <1>1, <1>3, <1>5 DEF CreatedAndListed
<1>8. Order'
  <2>1. \A x \in Free', y \in Requests \ Free' : y < x
    BY <1>1, <1>3, <1>4 DEF CreatedAndListed, ShowInv, Order
  <2>2. \A l \in Lists', x \in Creates' : x < l => ~Live(x)'
    BY <1>1, <1>6 DEF CreatedAndListed
  <2>3. \A x \in Done' : \E l \in Lists' : x < l
    BY <1>1, <1>5 DEF CreatedAndListed, ShowInv, Order
  <2> QED
    BY <2>1, <2>2, <2>3 DEF Order
<1>9. Numbers'
  BY <1>1, <1>5 DEF CreatedAndListed, ShowInv, Numbers
<1>10. Service'
  <2>1. Reaches => answer[r].served
    BY <1>1 DEF CreatedAndListed, CanAnswer, ShowInv, Service, Reaches
  <2>2. \A n \in stored \cap (1..MaxOperations) : \E x \in Creates : answer[x].served /\ NoteOf(x)' = n
    BY <1>5 DEF ShowInv, Service
  <2>3. ~answer[u].served
    BY <1>1 DEF CreatedAndListed, ShowInv, Service
  <2> QED
    BY <1>1, <1>2, <1>3, <1>7, <2>1, <2>2, <2>3 DEF CreatedAndListed, ShowInv, Service, Reaches
<1>11. ListsAreWhole'
  <2> SUFFICES ASSUME NEW l \in Lists', NEW x \in Done', x < l, answer[l].served,
                      ~answer[l].more, NoteOf(x)' \in stored
               PROVE  NoteOf(x)' \in answer[l].notes
    BY <1>2 DEF ListsAreWhole
  <2>1. l \in Lists
    BY <1>1 DEF CreatedAndListed, ShowInv, Service
  <2>2. x # r
    BY <1>1, <2>1 DEF CreatedAndListed, ShowInv, Order
  <2> QED
    BY <1>1, <1>3, <1>5, <2>1, <2>2 DEF CreatedAndListed, ShowInv, ListsAreWhole
<1>12. Shown'
  BY <1>1, <1>2, <1>3, <1>5 DEF CreatedAndListed, ShowInv, Shown, Reaches, Creates, Live, Done
<1> QED
  BY <1>8, <1>9, <1>10, <1>11, <1>12 DEF ShowInv

\* The page as it is loaded shows nothing.
LEMMA ShowInitInv == PageInit => ShowInv
<1> SUFFICES ASSUME PageInit PROVE ShowInv
  OBVIOUS
<1>1. Free = Requests /\ Lists = {} /\ Creates = {} /\ Done = {}
  BY Kinds DEF PageInit, Free, Lists, Creates, Done, Made, IsView
<1>2. /\ DOMAIN answer = Requests /\ (\A r \in Requests : ~answer[r].served)
      /\ stored \cap (1..MaxOperations) = {} /\ shown = 0
  BY NoteAssumption DEF PageInit, NoAnswer
<1> QED
  BY <1>1, <1>2 DEF ShowInv, Order, Numbers, Service, ListsAreWhole, Shown

\* Every step of the page keeps the invariant of what is shown.
LEMMA ShowStepInv == PageInv /\ ShowInv /\ [PageNext]_pageVars => ShowInv'
<1> SUFFICES ASSUME PageInv, ShowInv, [PageNext]_pageVars PROVE ShowInv'
  OBVIOUS
<1>1. CASE \E r \in Requests : \/ TokenComes(r) \/ ScriptHears(r) \/ ScriptLeaves(r)
                              \/ ListArrives(r) \/ ListFails(r) \/ CreateFails(r)
  BY <1>1, RestShow
<1>2. CASE \E r \in Requests : Handle(r)
  BY <1>2, HandleShow
<1>3. CASE \E r \in Requests : CreateArrives(r)
  BY <1>3, CreateArrivesShow
<1>4. CASE NgOnInit \/ Submit \/ Invoke
  BY <1>4, BeginShow
<1>5. CASE UNCHANGED pageVars
  <2>1. UNCHANGED <<req, call, answer, stored, notes, shown>>
    BY <1>5 DEF pageVars, view
  <2>2. /\ Free' = Free /\ Lists' = Lists /\ Creates' = Creates /\ Done' = Done
        /\ \A x : NoteOf(x)' = NoteOf(x) /\ (Live(x)' <=> Live(x))
    BY <2>1 DEF Free, Lists, Creates, Done, Made, IsView, NoteOf, Live
  <2>3. Order' /\ Numbers'
    BY <2>2 DEF ShowInv, Order, Numbers
  <2>4. Service'
    BY <2>1, <2>2 DEF ShowInv, Service, Reaches
  <2>5. ListsAreWhole' /\ Shown'
    BY <2>1, <2>2 DEF ShowInv, ListsAreWhole, Shown, Reaches
  <2> QED
    BY <2>3, <2>4, <2>5 DEF ShowInv
<1> QED
  BY <1>1, <1>2, <1>3, <1>4, <1>5 DEF PageNext

-----------------------------------------------------------------------------
(* What the page shows *)

\* The invariant holds, whatever order the responses come in and whichever are lost.
THEOREM PageInvariant == PageSpec => []PageInv
  BY PageInitInv, PageStepInv, PTL DEF PageSpec

\* What the flags say, counted.
LEMMA FlagsCounted == PageInv => FlagsMatchRequests
<1> SUFFICES ASSUME PageInv PROVE FlagsMatchRequests
  OBVIOUS
<1>1. \A r : Cardinality({r}) = 1
  BY FS_Singleton
<1>2. Cardinality({}) = 0
  BY FS_EmptySet
<1>3. saving \in BOOLEAN
  BY DEF PageInv, CallTypes
<1>4. Cardinality(LiveOf("create")) = (IF saving THEN 1 ELSE 0)
  BY <1>1, <1>2, <1>3 DEF PageInv, Flags
<1> QED
  BY <1>4 DEF FlagsMatchRequests, PageInv, Flags

\* The button is disabled exactly while one note is being saved, and loading is shown only
\* while a list is on its way.
THEOREM FlagsAreTrue == PageSpec => []FlagsMatchRequests
  BY PageInvariant, FlagsCounted, PTL

\* On the page, too, no header that tells who the user is leaves for an origin off the list.
THEOREM PageIdentityAtHome == PageSpec => []IdentityStaysHome
<1>1. PageInv => IdentityStaysHome
  BY InvSafe DEF PageInv
<1> QED
  BY <1>1, PageInvariant, PTL

\* On the page, too, nothing happens to a request its caller has left.
THEOREM PageCancelledStaysQuiet == PageSpec => CancelledIsQuiet
<1>1. PageInv /\ [PageNext]_pageVars =>
        [\A r \in Requests : req[r].outer = "cancelled" => req'[r] = req[r]]_req
  BY PageStepInv, AllMoveInv DEF PageInv
<1> QED
  BY <1>1, PageInvariant, PTL DEF PageSpec, CancelledIsQuiet

\* The list asked for last comes after every note that was created.
LEMMA LastListIsWhole == PageInv /\ ShowInv => ShowsCreated
<1> SUFFICES ASSUME PageInv, ShowInv, shown \in Lists, shown = Max(Lists), ~answer[shown].more,
                    NEW r \in Done, NoteOf(r) \in stored
             PROVE  NoteOf(r) \in notes
  BY DEF ShowsCreated, Lists, Done, Creates, NoteOf
<1>1. PICK l \in Lists : r < l
  BY DEF ShowInv, Order
<1>2. Lists \subseteq 1..(1 + 2 * MaxOperations) /\ MaxOperations \in Nat /\ r \in Requests /\ r \in Creates
  BY PageAssumption DEF Lists, Done, Creates
<1>3. l <= shown
  <2> DEFINE top == 1 + 2 * MaxOperations
             S == Lists
             T == {top - x : x \in S}
  <2>1. top \in Nat /\ S \subseteq 0..top /\ T \in SUBSET Nat /\ T # {}
    BY <1>1, <1>2
  <2>2. PICK m \in T : \A x \in T : ~ (<<x, m>> \in OpToRel(<, Nat))
    BY <2>1, NatLessThanWellFounded, WFMin
  <2>3. \A x \in T : ~ (x < m)
    BY <2>1, <2>2 DEF OpToRel
  <2>4. PICK g \in S : m = top - g
    OBVIOUS
  <2>5. \A x \in S : g >= x
    <3> SUFFICES ASSUME NEW x \in S PROVE g >= x
      OBVIOUS
    <3>1. ~ (top - x < top - g)
      BY <2>3, <2>4
    <3>2. x \in Nat /\ g \in Nat /\ top \in Nat
      BY <2>1
    <3> HIDE DEF top, S
    <3> QED
      BY <3>1, <3>2
  <2>6. \A x \in S : Max(S) >= x
    BY <2>4, <2>5 DEF Max
  <2> QED
    BY <2>1, <2>6
<1>4. shown # 0
  BY <1>1, <1>2, <1>3, PageAssumption
<1>5. shown \in Lists /\ notes = answer[shown].notes /\ (Reaches => answer[shown].served)
  BY <1>4 DEF ShowInv, Shown
<1>6. r < shown
  BY <1>1, <1>2, <1>3, <1>5, PageAssumption
<1>7. Reaches
  <2>1. NoteOf(r) \in 1..MaxOperations
    BY <1>2, SubmittedNotes
  <2>2. PICK x \in Creates : answer[x].served
    BY <2>1 DEF ShowInv, Service
  <2> QED
    BY <2>2 DEF ShowInv, Service
<1> QED
  BY <1>5, <1>6, <1>7 DEF ShowInv, ListsAreWhole

\* Whatever order the responses come in and whichever are lost: if notesd had no more notes
\* than go into its answer, the list that was asked for last has every note the user was
\* told is created, unless that was deleted.
THEOREM CreatedIsShown == PageSpec => []ShowsCreated
<1>1. PageInv /\ ShowInv /\ [PageNext]_pageVars => (PageInv /\ ShowInv)'
  BY PageStepInv, ShowStepInv
<1>2. PageInit => PageInv /\ ShowInv
  BY PageInitInv, ShowInitInv
<1> QED
  BY <1>1, <1>2, LastListIsWhole, PTL DEF PageSpec

\* Whatever a script asks for, notesd does that, for that note, with the parameters that
\* were given, and changes what the mask names of the fields it knows; but for the ids of
\* no character, one dot or two, for which nothing is served.
THEOREM AskedIsServed == PageSpec => []AsAsked
<1>1. PageInv => AsAsked
  <2> SUFFICES ASSUME PageInv, NEW r \in Made("script")
               PROVE  Faithful(call[r]) /\ AtNotesd[call[r]] = Understood(Operation(call[r]))
    BY DEF AsAsked, Faithful, NoNote, MaskedFields
  <2>1. r \in Requests /\ call[r] \in PageCalls /\ call[r].by = "script"
    BY DEF Made, PageInv, CallTypes
  <2>2. call[r] \in ScriptCalls
    BY <2>1, Kinds DEF PageCalls
  <2>3. AtNotesd[call[r]] = Understood(Operation(call[r]))
    BY <2>2 DEF AtNotesd
  <2> QED
    BY <2>2, <2>3, ScriptUnderstood
<1> QED
  BY <1>1, PageInvariant, PTL

==============================================================================
