------------------------- MODULE AuthEventBus_proofs -------------------------
(***************************************************************************)
(* Proofs about AuthEventBus, for any handlers, bundles and bounds: there  *)
(* is one bus, and a subscriber that stays hears an event once.            *)
(***************************************************************************)
EXTENDS AuthEventBus, FiniteSetTheorems, TLAPS

\* Every bundle that has a bus has the pinned one.
Pinned == \A b \in Bundles : bus[b] # NoBus => bus[b] = pinned

\* A handler is in one place of the set.
Places == \A i, j \in DOMAIN subs : subs[i] = subs[j] /\ subs[i] # Hole => i = j

\* The loops under way stand in the set, an outer one at an earlier event.
Loops ==
    /\ \A k \in DOMAIN stack : stack[k].next <= Len(subs) + 1 /\ stack[k].event <= published
    /\ \A k, l \in DOMAIN stack : k < l => stack[k].event < stack[l].event

\* A loop for event e that is about to look at place n has called the handlers of the
\* places before n once, and nobody else, if we leave out who has unsubscribed meanwhile.
Called(e, n) ==
    \A h \in Handlers \ left[e] :
        /\ \A p \in DOMAIN subs :
              subs[p] = h => (p < n => Times(h, e) = 1) /\ (p >= n => Times(h, e) = 0)
        /\ h \notin Members => Times(h, e) = 0

Progress == \A k \in DOMAIN stack : Called(stack[k].event, stack[k].next)

\* The audience of an event that is being delivered is there until it unsubscribes.
Present == \A k \in DOMAIN stack :
              audience[stack[k].event] \ left[stack[k].event] \subseteq Members

\* Nobody has heard an event that was not published.
Unheard == \A e \in 1..MaxEvents : e > published => \A h \in Handlers : Times(h, e) = 0

\* The inductive invariant.
IInv ==
    /\ TypeOK /\ Pinned /\ Places /\ Loops /\ Progress /\ Present /\ Unheard
    /\ StayingSubscribersHearOnce /\ NoDuplicates

-----------------------------------------------------------------------------
(* How often an event was heard *)

Count(s, e) == Cardinality({i \in DOMAIN s : s[i] = e})

\* What one more event adds to the count.
LEMMA CountAppend ==
    ASSUME NEW S, NEW s \in Seq(S), NEW d \in S, NEW e
    PROVE  /\ Count(s, e) \in Nat
           /\ d = e => Count(Append(s, d), e) = Count(s, e) + 1
           /\ d # e => Count(Append(s, d), e) = Count(s, e)
<1> DEFINE at == {i \in DOMAIN s : s[i] = e}
           more == {i \in DOMAIN Append(s, d) : Append(s, d)[i] = e}
           n == Len(s) + 1
<1>1. /\ Len(s) \in Nat /\ n \in Nat /\ DOMAIN s = 1 .. Len(s) /\ DOMAIN Append(s, d) = 1 .. n
      /\ \A i \in 1 .. Len(s) : Append(s, d)[i] = s[i]
      /\ Append(s, d)[n] = d
  OBVIOUS
<1>2. IsFiniteSet(at)
  <2>1. IsFiniteSet(1 .. Len(s))
    BY <1>1, FS_Interval
  <2> QED
    BY <1>1, <2>1, FS_Subset
<1>3. Cardinality(at) \in Nat
  BY <1>2, FS_CardinalityType
<1>4. d = e => more = at \cup {n}
  BY <1>1
<1>5. d # e => more = at
  BY <1>1
<1>6. n \notin at
  BY <1>1
<1>7. Cardinality(at \cup {n}) = Cardinality(at) + 1
  BY <1>2, <1>6, FS_AddElement
<1> QED
  BY <1>3, <1>4, <1>5, <1>7 DEF Count

\* An event that nobody heard counts nothing.
LEMMA CountNothing == \A e : Count(<<>>, e) = 0
  BY FS_EmptySet DEF Count

-----------------------------------------------------------------------------
(* Facts about the stack and the set *)

\* The frames but the innermost.
LEMMA FrontIs ==
    ASSUME NEW S, NEW s \in Seq(S), s # <<>>
    PROVE  /\ Front(s) \in Seq(S) /\ Len(Front(s)) = Len(s) - 1
           /\ DOMAIN Front(s) = 1 .. (Len(s) - 1) /\ DOMAIN s = 1 .. Len(s) /\ Len(s) \in Nat \ {0}
           /\ \A k \in 1 .. (Len(s) - 1) : Front(s)[k] = s[k]
<1> DEFINE n == Len(s)
<1>1. n \in Nat /\ n # 0 /\ DOMAIN s = 1 .. n
  OBVIOUS
<1>2. \A k \in 1 .. n : s[k] \in S
  OBVIOUS
<1>3. Front(s) = [k \in 1 .. (n - 1) |-> s[k]]
  BY <1>1 DEF Front
<1> HIDE DEF n
<1>4. n - 1 \in Nat /\ \A k \in 1 .. (n - 1) : s[k] \in S
  BY <1>1, <1>2
<1>5. Front(s) \in Seq(S) /\ Len(Front(s)) = n - 1
  BY <1>3, <1>4
<1> QED
  BY <1>1, <1>3, <1>5 DEF n

\* What the types say of places and frames.
LEMMA Shapes ==
    ASSUME TypeOK
    PROVE  /\ DOMAIN subs = 1 .. Len(subs) /\ Len(subs) \in Nat
           /\ DOMAIN stack = 1 .. Len(stack) /\ Len(stack) \in Nat
           /\ \A k \in DOMAIN stack : stack[k].event \in 1 .. MaxEvents /\ stack[k].next \in Nat \ {0}
           /\ \A p \in DOMAIN subs : subs[p] = Hole \/ subs[p] \in Members
           /\ \A h \in Handlers : h \in Members <=> \E p \in DOMAIN subs : subs[p] = h
<1>1. /\ DOMAIN subs = 1 .. Len(subs) /\ Len(subs) \in Nat
      /\ DOMAIN stack = 1 .. Len(stack) /\ Len(stack) \in Nat
  BY DEF TypeOK
<1>2. ASSUME NEW k \in DOMAIN stack
      PROVE  stack[k].event \in 1 .. MaxEvents /\ stack[k].next \in Nat \ {0}
  <2>1. stack[k] \in Frames
    BY <1>1 DEF TypeOK
  <2> QED
    BY <2>1 DEF Frames
<1>3. /\ \A p \in DOMAIN subs : subs[p] = Hole \/ subs[p] \in Members
      /\ \A h \in Handlers : h \in Members <=> \E p \in DOMAIN subs : subs[p] = h
  BY BusAssumption DEF Members, ToSet
<1> QED
  BY <1>1, <1>2, <1>3

\* Events that are over stay so, and new ones become over, only as frames are dropped:
\* what was counted for them is as before.
LEMMA OverFrame ==
    ASSUME IInv, UNCHANGED <<heard, audience>>,
           \A e \in 1..MaxEvents : left[e] \subseteq left'[e], aborted \subseteq aborted',
           \A e \in 1..MaxEvents : Over(e)' /\ e \notin aborted' => Over(e)
    PROVE  StayingSubscribersHearOnce' /\ NoDuplicates'
  BY DEF IInv, StayingSubscribersHearOnce, NoDuplicates, Times

-----------------------------------------------------------------------------
(* The steps *)

\* A page without a bus satisfies the invariant.
LEMMA InitInv == Init => IInv
<1> SUFFICES ASSUME Init PROVE IInv
  OBVIOUS
<1>1. \A h \in Handlers : \A e : Times(h, e) = 0
  BY CountNothing DEF Init, Times, Count
<1>2. TypeOK
  BY BusAssumption DEF Init, TypeOK
<1>3. Pinned /\ Places /\ Loops /\ Progress /\ Present
  BY DEF Init, Pinned, Places, Loops, Progress, Present
<1>4. Unheard
  BY <1>1 DEF Unheard
<1>5. StayingSubscribersHearOnce
  BY DEF Init, StayingSubscribersHearOnce
<1>6. NoDuplicates
  BY <1>1 DEF NoDuplicates
<1> QED
  BY <1>2, <1>3, <1>4, <1>5, <1>6 DEF IInv

\* A bundle asks for the bus.
LEMMA CreateInv ==
    ASSUME IInv, NEW b \in Bundles, CreateAuthEventBus(b)
    PROVE  IInv'
<1>1. UNCHANGED <<subs, stack, published, heard, audience, left, aborted>>
  BY DEF CreateAuthEventBus
<1>2. TypeOK'
  BY DEF IInv, TypeOK, CreateAuthEventBus
<1>3. Pinned'
  BY BusAssumption DEF IInv, TypeOK, Pinned, CreateAuthEventBus
<1>4. Places' /\ Loops' /\ Progress' /\ Present' /\ Unheard'
  BY <1>1 DEF IInv, Places, Loops, Progress, Called, Present, Unheard, Times, Members
<1>5. StayingSubscribersHearOnce' /\ NoDuplicates'
  BY <1>1, OverFrame DEF Over, Delivering
<1> QED
  BY <1>2, <1>3, <1>4, <1>5 DEF IInv

\* A handler is added behind all others, where no loop has been.
LEMMA SubscribeInv ==
    ASSUME IInv, NEW h \in Handlers, Subscribe(h)
    PROVE  IInv'
<1>1. /\ h \notin Members /\ Len(subs) < MaxEntries /\ subs' = Append(subs, h)
      /\ UNCHANGED <<pinned, bus, stack, published, heard, audience, left, aborted>>
  BY DEF Subscribe
<1>2. /\ subs \in Seq(Handlers \cup {Hole}) /\ TypeOK
  BY DEF IInv, TypeOK
<1>3. /\ Len(subs') = Len(subs) + 1 /\ DOMAIN subs' = 1 .. (Len(subs) + 1)
      /\ \A p \in DOMAIN subs : subs'[p] = subs[p]
      /\ subs'[Len(subs) + 1] = h /\ subs' \in Seq(Handlers \cup {Hole})
  BY <1>1, <1>2
<1>4. TypeOK'
  BY <1>1, <1>3, Shapes, BusAssumption DEF IInv, TypeOK
<1>5. Members' = Members \cup {h}
  BY <1>2, <1>3, Shapes, BusAssumption DEF Members, ToSet
<1>6. Pinned' /\ Unheard' /\ Present'
  BY <1>1, <1>5 DEF IInv, Pinned, Unheard, Times, Present
<1>7. Places'
  BY <1>1, <1>2, <1>3, Shapes DEF IInv, Places
<1>8. Loops'
  BY <1>1, <1>2, <1>3, Shapes DEF IInv, Loops
<1>9. Progress'
  <2>1. ASSUME NEW k \in DOMAIN stack, NEW m \in Handlers \ left[stack[k].event]
        PROVE  LET e == stack[k].event  n == stack[k].next IN
               /\ \A p \in DOMAIN subs' :
                     subs'[p] = m => (p < n => Times(m, e) = 1) /\ (p >= n => Times(m, e) = 0)
               /\ m \notin Members' => Times(m, e) = 0
    <3>1. Called(stack[k].event, stack[k].next) /\ stack[k].next <= Len(subs) + 1
          /\ stack[k].next \in Nat
      BY <1>2, Shapes DEF IInv, Progress, Loops
    <3>2. CASE m = h
      <4>1. Times(m, stack[k].event) = 0
        BY <1>1, <2>1, <3>1, <3>2 DEF Called
      <4>2. \A p \in DOMAIN subs' : subs'[p] = m => p = Len(subs) + 1
        BY <1>1, <1>2, <1>3, <3>2, Shapes
      <4> QED
        BY <1>2, <3>1, <3>2, <4>1, <4>2, <1>5, Shapes
    <3>3. CASE m # h
      <4>1. \A p \in DOMAIN subs' : subs'[p] = m => p \in DOMAIN subs /\ subs[p] = m
        BY <1>2, <1>3, <3>3, Shapes
      <4> QED
        BY <1>5, <3>1, <3>3, <4>1, <2>1 DEF Called
    <3> QED
      BY <3>2, <3>3
  <2> QED
    BY <1>1, <2>1 DEF Progress, Called, Times
<1>10. StayingSubscribersHearOnce' /\ NoDuplicates'
  BY <1>1, OverFrame DEF Over, Delivering
<1> QED
  BY <1>4, <1>6, <1>7, <1>8, <1>9, <1>10 DEF IInv

\* A handler that leaves has no claim on any event that is being delivered.
LEMMA UnsubscribeInv ==
    ASSUME IInv, NEW h \in Handlers, Unsubscribe(h)
    PROVE  IInv'
<1>1. /\ subs' = [i \in DOMAIN subs |-> IF subs[i] = h THEN Hole ELSE subs[i]]
      /\ left' = [e \in 1..MaxEvents |-> IF e \in Delivering THEN left[e] \cup {h} ELSE left[e]]
      /\ UNCHANGED <<pinned, bus, stack, published, heard, audience, aborted>>
  BY DEF Unsubscribe
<1>2. TypeOK
  BY DEF IInv
<1>3. /\ Len(subs') = Len(subs) /\ DOMAIN subs' = DOMAIN subs /\ subs' \in Seq(Handlers \cup {Hole})
      /\ \A p \in DOMAIN subs : subs[p] = h => subs'[p] = Hole
      /\ \A p \in DOMAIN subs : subs[p] # h => subs'[p] = subs[p]
  <2>1. DOMAIN subs = 1 .. Len(subs) /\ Len(subs) \in Nat
        /\ \A p \in 1 .. Len(subs) : subs[p] \in Handlers \cup {Hole}
    BY <1>2 DEF TypeOK
  <2>2. \A p \in 1 .. Len(subs) : (IF subs[p] = h THEN Hole ELSE subs[p]) \in Handlers \cup {Hole}
    BY <2>1
  <2>3. subs' \in [1 .. Len(subs) -> Handlers \cup {Hole}]
    BY <1>1, <2>1, <2>2
  <2>4. subs' \in Seq(Handlers \cup {Hole}) /\ Len(subs') = Len(subs)
    BY <2>1, <2>3
  <2> QED
    BY <1>1, <2>4
<1>4. TypeOK'
  BY <1>1, <1>3 DEF IInv, TypeOK
<1>5. Members' = Members \ {h}
  BY <1>2, <1>3, Shapes, BusAssumption DEF Members, ToSet
<1>6. Pinned' /\ Unheard'
  BY <1>1 DEF IInv, Pinned, Unheard, Times
<1>7. Places'
  BY <1>3 DEF IInv, Places
<1>8. Loops'
  BY <1>1, <1>3 DEF IInv, Loops
<1>9. \A k \in DOMAIN stack : left'[stack[k].event] = left[stack[k].event] \cup {h}
  BY <1>1, <1>2, Shapes DEF Delivering
<1>10. Present'
  BY <1>1, <1>5, <1>9 DEF IInv, Present
<1>11. Progress'
  <2>1. ASSUME NEW k \in DOMAIN stack, NEW m \in Handlers \ left'[stack[k].event]
        PROVE  LET e == stack[k].event  n == stack[k].next IN
               /\ \A p \in DOMAIN subs' :
                     subs'[p] = m => (p < n => Times(m, e) = 1) /\ (p >= n => Times(m, e) = 0)
               /\ m \notin Members' => Times(m, e) = 0
    <3>1. m # h /\ m \in Handlers \ left[stack[k].event] /\ Called(stack[k].event, stack[k].next)
      BY <1>9, <2>1 DEF IInv, Progress
    <3>2. \A p \in DOMAIN subs' : subs'[p] = m => p \in DOMAIN subs /\ subs[p] = m
      BY <1>3, <2>1, <3>1, BusAssumption
    <3> QED
      BY <1>5, <3>1, <3>2 DEF Called
  <2> QED
    BY <1>1, <2>1 DEF Progress, Called, Times
<1>12. StayingSubscribersHearOnce' /\ NoDuplicates'
  <2>1. \A e \in 1..MaxEvents : left[e] \subseteq left'[e]
    BY <1>1
  <2>2. \A e \in 1..MaxEvents : Over(e)' => Over(e)
    BY <1>1 DEF Over, Delivering
  <2> QED
    BY <1>1, <2>1, <2>2, OverFrame
<1> QED
  BY <1>4, <1>6, <1>7, <1>8, <1>10, <1>11, <1>12 DEF IInv


\* A loop for the next event begins, which nobody has heard.
LEMMA PublishInv ==
    ASSUME IInv, Publish
    PROVE  IInv'
<1> DEFINE e == published + 1
           n == Len(stack) + 1
<1>1. /\ published < MaxEvents /\ Len(stack) < MaxDepth /\ published' = e
      /\ stack' = Append(stack, [event |-> e, next |-> 1])
      /\ audience' = [audience EXCEPT ![e] = Members]
      /\ UNCHANGED <<pinned, bus, subs, heard, left, aborted>>
  BY DEF Publish
<1>2. /\ TypeOK /\ published \in Nat /\ e \in 1 .. MaxEvents /\ stack \in Seq(Frames)
      /\ Len(stack) \in Nat /\ DOMAIN stack = 1 .. Len(stack)
  BY <1>1, BusAssumption DEF IInv, TypeOK
<1>3. [event |-> e, next |-> 1] \in Frames
  BY <1>2, BusAssumption DEF Frames
<1>4. /\ stack' \in Seq(Frames) /\ Len(stack') = n /\ DOMAIN stack' = 1 .. n
      /\ \A k \in DOMAIN stack : stack'[k] = stack[k]
      /\ stack'[n].event = e /\ stack'[n].next = 1
  BY <1>1, <1>2, <1>3
<1>5. TypeOK'
  <2>1. Members \subseteq Handlers
    BY DEF IInv, TypeOK, Members, ToSet
  <2>2. audience' \in [1..MaxEvents -> SUBSET Handlers]
    BY <1>1, <1>2, <2>1 DEF TypeOK
  <2> QED
    BY <1>1, <1>2, <1>4, <2>2, BusAssumption DEF TypeOK
<1>6. /\ \A d \in 1..MaxEvents : d # e => audience'[d] = audience[d]
      /\ audience'[e] = Members /\ Members' = Members
  BY <1>1, <1>2 DEF TypeOK, Members
<1>7. \A k \in DOMAIN stack : stack[k].event < e /\ stack[k].event \in 1..MaxEvents
  BY <1>2, Shapes DEF IInv, Loops
<1>8. Pinned' /\ Places'
  BY <1>1 DEF IInv, Pinned, Places
<1>9. Loops'
  BY <1>1, <1>2, <1>4, <1>7, Shapes DEF IInv, Loops
<1>10. Unheard'
  BY <1>1, <1>2 DEF IInv, Unheard, Times
<1>11. Progress'
  <2>1. ASSUME NEW k \in DOMAIN stack', k # n
        PROVE  Called(stack'[k].event, stack'[k].next)
    BY <1>2, <1>4, <2>1 DEF IInv, Progress
  <2>2. Called(e, 1)
    <3>1. \A h \in Handlers : Times(h, e) = 0
      BY <1>2 DEF IInv, Unheard
    <3> QED
      BY <1>2, <3>1, Shapes DEF Called
  <2>3. \A k \in DOMAIN stack' : Called(stack'[k].event, stack'[k].next)
    BY <1>4, <2>1, <2>2
  <2> QED
    BY <1>1, <1>6, <2>3 DEF Progress, Called, Times
<1>12. Present'
  BY <1>1, <1>2, <1>4, <1>6, <1>7 DEF IInv, Present
<1>13. ASSUME NEW d \in 1..MaxEvents, Over(d)' PROVE Over(d) /\ d # e
  <2>1. e \in Delivering' /\ Delivering \subseteq Delivering'
    BY <1>2, <1>4 DEF Delivering
  <2> QED
    BY <1>1, <1>2, <1>13, <2>1 DEF Over
<1>14. StayingSubscribersHearOnce'
  <2>1. ASSUME NEW d \in 1..MaxEvents, Over(d)', d \notin aborted, NEW h \in audience'[d] \ left[d]
        PROVE  Times(h, d) = 1
    <3>1. Over(d) /\ audience'[d] = audience[d]
      BY <1>6, <1>13, <2>1
    <3> QED
      BY <2>1, <3>1 DEF IInv, StayingSubscribersHearOnce
  <2>2. UNCHANGED <<heard, left, aborted>>
    BY <1>1
  <2> QED
    BY <2>1, <2>2 DEF StayingSubscribersHearOnce, Times, Over
<1>15. NoDuplicates'
  BY <1>1 DEF IInv, NoDuplicates, Times
<1> QED
  BY <1>5, <1>8, <1>9, <1>10, <1>11, <1>12, <1>14, <1>15 DEF IInv

\* The innermost loop calls the handler of the next place, which has not heard its event.
LEMMA DeliverInv ==
    ASSUME IInv, Deliver
    PROVE  IInv'
<1> DEFINE t == Len(stack)
           e == stack[t].event
           n == stack[t].next
           Now(h, d) == Count(heard'[h], d)
<1>1. PICK i \in DOMAIN subs :
        /\ i >= n /\ subs[i] # Hole
        /\ \A j \in DOMAIN subs : j >= n /\ subs[j] # Hole => i <= j
        /\ heard' = [heard EXCEPT ![subs[i]] = Append(@, e)]
        /\ stack' = [stack EXCEPT ![t].next = i + 1]
  BY DEF Deliver
<1>2. stack # <<>> /\ UNCHANGED <<pinned, bus, subs, published, audience, left, aborted>>
  BY DEF Deliver
<1> DEFINE g == subs[i]
<1>3. /\ TypeOK /\ t \in Nat \ {0} /\ DOMAIN stack = 1 .. t /\ stack \in Seq(Frames)
      /\ DOMAIN subs = 1 .. Len(subs) /\ Len(subs) \in Nat
  BY <1>2 DEF IInv, TypeOK
<1>4. /\ t \in DOMAIN stack /\ e \in 1 .. MaxEvents /\ n \in Nat \ {0} /\ stack[t] \in Frames
      /\ i \in Nat \ {0} /\ i <= Len(subs) /\ Len(subs) <= MaxEntries
      /\ g \in Handlers /\ g \in Members /\ Members' = Members
  BY <1>1, <1>2, <1>3, Shapes DEF TypeOK, Members
<1> HIDE DEF t
<1>5. /\ DOMAIN stack' = DOMAIN stack /\ \A k \in DOMAIN stack : k # t => stack'[k] = stack[k]
      /\ \A k \in DOMAIN stack : stack'[k].event = stack[k].event
      /\ stack'[t].next = i + 1
  BY <1>1, <1>3, <1>4 DEF Frames
<1>6. TypeOK'
  <2>1. i + 1 \in 1 .. (MaxEntries + 1)
    BY <1>4, BusAssumption
  <2>2. [stack[t] EXCEPT !.next = i + 1] \in Frames
    BY <1>4, <2>1 DEF Frames
  <2>3. stack' \in Seq(Frames) /\ Len(stack') = Len(stack)
    BY <1>1, <1>3, <1>4, <2>2
  <2>4. heard' \in [Handlers -> Seq(1..MaxEvents)]
    BY <1>1, <1>3, <1>4 DEF TypeOK
  <2> QED
    BY <1>2, <1>3, <2>3, <2>4 DEF TypeOK
<1>7. /\ Times(g, e) \in Nat /\ Now(g, e) = Times(g, e) + 1
      /\ \A d : d # e => Now(g, d) = Times(g, d)
  <2>1. heard[g] \in Seq(1..MaxEvents) /\ heard'[g] = Append(heard[g], e)
    BY <1>1, <1>3, <1>4 DEF TypeOK
  <2>2. \A d : Times(g, d) = Count(heard[g], d)
    BY DEF Times, Count
  <2>3. /\ Count(heard[g], e) \in Nat
        /\ Count(Append(heard[g], e), e) = Count(heard[g], e) + 1
        /\ \A d : d # e => Count(Append(heard[g], e), d) = Count(heard[g], d)
    <3> DEFINE s == heard[g]
    <3>1. s \in Seq(1..MaxEvents) /\ e \in 1..MaxEvents
      BY <1>4, <2>1
    <3> HIDE DEF s, e
    <3>2. /\ Count(s, e) \in Nat
          /\ Count(Append(s, e), e) = Count(s, e) + 1
          /\ \A d : d # e => Count(Append(s, e), d) = Count(s, d)
      BY <3>1, CountAppend
    <3> QED
      BY <3>2 DEF s, e
  <2>4. \A d : Now(g, d) = Count(Append(heard[g], e), d)
    BY <2>1
  <2> HIDE DEF Now
  <2> QED
    BY <2>2, <2>3, <2>4
<1>8. \A h \in Handlers : h # g => \A d : Now(h, d) = Times(h, d)
  BY <1>1, <1>3 DEF TypeOK, Times, Count
<1>9. g \notin left[e] => Times(g, e) = 0
  BY <1>1, <1>4 DEF IInv, Progress, Called
<1>10. Pinned' /\ Places' /\ Present'
  BY <1>2, <1>4, <1>5 DEF IInv, Pinned, Places, Present
<1>11. Loops'
  <2>1. \A k \in DOMAIN stack : stack'[k].next <= Len(subs) + 1
    BY <1>4, <1>5 DEF IInv, Loops
  <2> QED
    BY <1>2, <1>5, <2>1 DEF IInv, Loops
<1>12. \A d \in 1..MaxEvents : \A h \in Handlers : d # e => Now(h, d) = Times(h, d)
  BY <1>7, <1>8
<1>13. Unheard'
  <2>1. e <= published /\ published \in Nat
    BY <1>3, <1>4 DEF IInv, Loops, TypeOK
  <2>2. \A d \in 1..MaxEvents : d > published => \A h \in Handlers : Now(h, d) = 0
    BY <1>4, <1>12, <2>1 DEF IInv, Unheard
  <2> QED
    BY <1>2, <2>2 DEF Unheard, Times, Count
<1>14. Progress'
  <2>1. ASSUME NEW k \in DOMAIN stack, NEW h \in Handlers \ left[stack[k].event]
        PROVE  /\ \A p \in DOMAIN subs : subs[p] = h =>
                     /\ p < stack'[k].next => Now(h, stack[k].event) = 1
                     /\ p >= stack'[k].next => Now(h, stack[k].event) = 0
               /\ h \notin Members => Now(h, stack[k].event) = 0
    <3>1. Called(stack[k].event, stack[k].next) /\ stack[k].event \in 1..MaxEvents
      BY <1>3, Shapes DEF IInv, Progress
    <3>2. CASE k # t
      <4>1. stack[k].event < e
        BY <1>3, <1>4, <3>2 DEF IInv, Loops
      <4>2. Now(h, stack[k].event) = Times(h, stack[k].event)
        BY <1>4, <1>12, <3>1, <4>1
      <4> QED
        BY <1>5, <2>1, <3>1, <3>2, <4>2 DEF Called
    <3>3. CASE k = t /\ h = g
      <4>1. Now(h, e) = 1
        BY <1>7, <1>9, <2>1, <3>3
      <4>2. \A p \in DOMAIN subs : subs[p] = h => p = i
        BY <1>1, <3>3 DEF IInv, Places
      <4> QED
        BY <1>4, <1>5, <3>3, <4>1, <4>2
    <3>4. CASE k = t /\ h # g
      <4>1. Now(h, e) = Times(h, e)
        BY <1>8, <3>4
      <4>2. \A p \in DOMAIN subs : subs[p] = h => (p < i + 1 <=> p < n) /\ (p >= i + 1 <=> p >= n)
        BY <1>1, <1>3, <1>4, <3>4, BusAssumption
      <4> QED
        BY <1>5, <2>1, <3>1, <3>4, <4>1, <4>2 DEF Called
    <3> QED
      BY <3>2, <3>3, <3>4
  <2>2. \A k \in DOMAIN stack : \A h \in Handlers \ left[stack[k].event] :
               /\ \A p \in DOMAIN subs : subs[p] = h =>
                     /\ p < stack'[k].next => Now(h, stack[k].event) = 1
                     /\ p >= stack'[k].next => Now(h, stack[k].event) = 0
               /\ h \notin Members => Now(h, stack[k].event) = 0
    BY <2>1
  <2> QED
    BY <1>2, <1>4, <1>5, <2>2 DEF Progress, Called, Times, Count
<1>15. StayingSubscribersHearOnce'
  <2>1. \A d \in 1..MaxEvents : Over(d)' => Over(d) /\ d # e
    BY <1>2, <1>4, <1>5 DEF Over, Delivering
  <2>2. ASSUME NEW d \in 1..MaxEvents, Over(d)', d \notin aborted, NEW h \in audience[d] \ left[d]
        PROVE  Now(h, d) = 1
    <3>1. h \in Handlers /\ Times(h, d) = 1
      BY <2>1, <2>2 DEF IInv, TypeOK, StayingSubscribersHearOnce
    <3> QED
      BY <1>12, <2>1, <2>2, <3>1
  <2> QED
    BY <1>2, <2>2 DEF StayingSubscribersHearOnce, Over, Times, Count
<1>16. NoDuplicates'
  <2>1. ASSUME NEW d \in 1..MaxEvents, NEW h \in Handlers \ left[d]
        PROVE  Now(h, d) <= 1
    <3>1. Times(h, d) <= 1
      BY DEF IInv, NoDuplicates
    <3>2. CASE d = e /\ h = g
      BY <1>7, <1>9, <2>1, <3>2
    <3>3. CASE d # e \/ h # g
      BY <1>8, <1>12, <3>1, <3>3
    <3> QED
      BY <3>2, <3>3
  <2> QED
    BY <1>2, <2>1 DEF NoDuplicates, Times, Count
<1> QED
  BY <1>6, <1>10, <1>11, <1>13, <1>14, <1>15, <1>16 DEF IInv

\* The innermost loop is over: it has come to the end, or a handler broke it off.
LEMMA EndInv ==
    ASSUME IInv, Return \/ Throw
    PROVE  IInv'
<1> DEFINE t == Len(stack)
           e == stack[t].event
<1>1. /\ stack # <<>> /\ stack' = Front(stack)
      /\ UNCHANGED <<pinned, bus, subs, published, heard, audience, left>>
      /\ \/ aborted' = aborted /\ \A i \in DOMAIN subs : i < stack[t].next \/ subs[i] = Hole
         \/ aborted' = aborted \cup {e}
  BY DEF Return, Throw
<1>2. /\ TypeOK /\ stack \in Seq(Frames)
  BY DEF IInv, TypeOK
<1>3. /\ stack' \in Seq(Frames) /\ Len(stack') = t - 1 /\ t \in Nat \ {0}
      /\ DOMAIN stack' = 1 .. (t - 1) /\ DOMAIN stack = 1 .. t
      /\ \A k \in 1 .. (t - 1) : stack'[k] = stack[k]
  BY <1>1, <1>2, FrontIs
<1>4. t \in DOMAIN stack /\ e \in 1 .. MaxEvents
  BY <1>2, <1>3, Shapes
<1>5. TypeOK'
  <2>1. Len(stack') <= MaxDepth
    BY <1>2, <1>3, BusAssumption DEF TypeOK
  <2>2. aborted' \subseteq 1..MaxEvents
    BY <1>1, <1>2, <1>4 DEF TypeOK
  <2> QED
    BY <1>1, <1>2, <1>3, <2>1, <2>2 DEF TypeOK
<1>6. Pinned' /\ Places' /\ Unheard'
  BY <1>1 DEF IInv, Pinned, Places, Unheard, Times
<1>7. Loops' /\ Present'
  BY <1>1, <1>3 DEF IInv, Loops, Present, Members
<1>8. Progress'
  <2>1. \A k \in DOMAIN stack' : Called(stack'[k].event, stack'[k].next)
    BY <1>3 DEF IInv, Progress
  <2> QED
    BY <1>1, <2>1 DEF Progress, Called, Times, Members
<1>9. \A d \in 1..MaxEvents : Over(d)' => Over(d) \/ d = e
  <2>1. \A d \in Delivering : d \in Delivering' \/ d = e
    BY <1>3 DEF Delivering
  <2> QED
    BY <1>1, <2>1 DEF Over
<1>10. StayingSubscribersHearOnce'
  <2>1. ASSUME NEW d \in 1..MaxEvents, Over(d)', d \notin aborted', NEW h \in audience[d] \ left[d]
        PROVE  Times(h, d) = 1
    <3>1. CASE Over(d)
      BY <1>1, <2>1, <3>1 DEF IInv, StayingSubscribersHearOnce
    <3>2. CASE d = e
      <4>1. h \in Members /\ h \in Handlers \ left[e] /\ Called(e, stack[t].next)
        BY <1>4, <2>1, <3>2 DEF IInv, TypeOK, Present, Progress
      <4>2. PICK p \in DOMAIN subs : subs[p] = h
        BY <1>2, <4>1, Shapes
      <4>3. p < stack[t].next
        BY <1>1, <2>1, <3>2, <4>1, <4>2, BusAssumption
      <4> QED
        BY <3>2, <4>1, <4>2, <4>3 DEF Called
    <3> QED
      BY <1>9, <2>1, <3>1, <3>2
  <2> QED
    BY <1>1, <2>1 DEF StayingSubscribersHearOnce, Times, Over
<1>11. NoDuplicates'
  BY <1>1 DEF IInv, NoDuplicates, Times
<1> QED
  BY <1>5, <1>6, <1>7, <1>8, <1>10, <1>11 DEF IInv

-----------------------------------------------------------------------------
(* Theorems *)

\* The invariant holds however the handlers use the bus.
THEOREM Invariant == Spec => []IInv
<1>1. IInv /\ UNCHANGED vars => IInv'
  <2> SUFFICES ASSUME IInv, UNCHANGED vars PROVE IInv'
    OBVIOUS
  <2>1. UNCHANGED <<pinned, bus, subs, stack, published, heard, audience, left, aborted>>
    BY DEF vars
  <2>2. TypeOK' /\ Pinned' /\ Places' /\ Loops' /\ Unheard'
    BY <2>1 DEF IInv, TypeOK, Pinned, Places, Loops, Unheard, Times
  <2>3. Progress' /\ Present'
    BY <2>1 DEF IInv, Progress, Called, Present, Times, Members
  <2>4. StayingSubscribersHearOnce' /\ NoDuplicates'
    BY <2>1, OverFrame DEF Over, Delivering
  <2> QED
    BY <2>2, <2>3, <2>4 DEF IInv
<1>2. IInv /\ [Next]_vars => IInv'
  BY <1>1, CreateInv, SubscribeInv, UnsubscribeInv, PublishInv, DeliverInv, EndInv DEF Next
<1> QED
  BY InitInv, <1>2, PTL DEF Spec

\* Every variable stays in its type.
THEOREM TypeCorrect == Spec => []TypeOK
<1>1. IInv => TypeOK
  BY DEF IInv
<1> QED
  BY <1>1, Invariant, PTL

\* However many copies of the package there are, they share one bus.
THEOREM OneBus == Spec => []OneBusPerPage
<1>1. IInv => OneBusPerPage
  BY DEF IInv, Pinned, OneBusPerPage
<1> QED
  BY <1>1, Invariant, PTL

\* For any handlers, events and nesting: who stays subscribed hears an event whose publish
\* came to its end, and hears it once.
THEOREM StayingHearOnce == Spec => []StayingSubscribersHearOnce
<1>1. IInv => StayingSubscribersHearOnce
  BY DEF IInv
<1> QED
  BY <1>1, Invariant, PTL

\* Nor is anybody called twice by a publish that was broken off.
THEOREM NobodyTwice == Spec => []NoDuplicates
<1>1. IInv => NoDuplicates
  BY DEF IInv
<1> QED
  BY <1>1, Invariant, PTL


==============================================================================
