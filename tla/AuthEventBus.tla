----------------------------- MODULE AuthEventBus -----------------------------
(***************************************************************************)
(* The auth-event bus (packages/core/src/session.ts): makeLocalBus, and    *)
(* the one instance createAuthEventBus pins on the global object.  publish *)
(* calls the subscribers of a live Set one after the other, and each of    *)
(* them may subscribe, unsubscribe, publish or throw while it runs.        *)
(*                                                                         *)
(* Everything happens on one JavaScript stack, a sequence of frames, one   *)
(* per publish under way, the innermost last.  A Set keeps its members in  *)
(* the order of insertion; deleting one leaves a hole, and an iterator     *)
(* that has not got past the end sees members added meanwhile.             *)
(*                                                                         *)
(* So the loop need not end: a handler that subscribes a new function each *)
(* time it is called keeps it going (session.ts:46), and nothing in the    *)
(* code prevents that.  MaxEntries cuts such a run off, so no property     *)
(* here says that publish returns.                                         *)
(***************************************************************************)
EXTENDS Naturals, Sequences, FiniteSets, SequencesExt

CONSTANTS
    Handlers,    \* the functions that may be subscribed
    Bundles,     \* copies of the package loaded on the page
    MaxEvents,   \* bound: events published
    MaxDepth,    \* bound: publish calls nested in one another
    MaxEntries,  \* bound: insertions into the set (the code has none)
    Hole,        \* a deleted member
    NoBus        \* the global slot before the first createAuthEventBus

ASSUME BusAssumption ==
    /\ MaxEvents \in Nat /\ MaxDepth \in Nat /\ MaxEntries \in Nat
    /\ Hole \notin Handlers /\ NoBus \notin Bundles

VARIABLES
    pinned,     \* the bundle whose bus is in the global slot
    bus,        \* bus[b]: the bus createAuthEventBus has given bundle b
    subs,       \* the pinned bus: its members and holes, in order of insertion
    stack,      \* the publish calls under way
    published,  \* events published so far
    heard,      \* heard[h]: the events h was called with, in order
    audience,   \* audience[e]: the subscribers when e was published
    left,       \* left[e]: those that unsubscribed while e was being delivered
    aborted     \* the events whose delivery an exception ended

vars == <<pinned, bus, subs, stack, published, heard, audience, left, aborted>>

Frames == [event : 1..MaxEvents, next : 1..(MaxEntries + 1)]

Init ==
    /\ pinned = NoBus /\ bus = [b \in Bundles |-> NoBus]
    /\ subs = <<>> /\ stack = <<>> /\ published = 0
    /\ heard = [h \in Handlers |-> <<>>]
    /\ audience = [e \in 1..MaxEvents |-> {}] /\ left = [e \in 1..MaxEvents |-> {}]
    /\ aborted = {}

Members == ToSet(subs) \ {Hole}

Delivering == {stack[i].event : i \in DOMAIN stack}

\* The top frame has called a handler, or there is no frame: a program is running that
\* may use the bus.
Running == stack # <<>> => stack[Len(stack)].next > 1

-----------------------------------------------------------------------------
\* Slip: every bundle keeps a bus of its own.
CreateOwnBus(b) ==
    /\ bus[b] = NoBus
    /\ pinned' = b
    /\ bus' = [bus EXCEPT ![b] = b]
    /\ UNCHANGED <<subs, stack, published, heard, audience, left, aborted>>

\* createAuthEventBus: the first bundle pins its bus, the others get that one.
CreateAuthEventBus(b) ==
    /\ bus[b] = NoBus
    /\ pinned' = IF pinned = NoBus THEN b ELSE pinned
    /\ bus' = [bus EXCEPT ![b] = pinned']
    /\ UNCHANGED <<subs, stack, published, heard, audience, left, aborted>>

\* Slip: a list in place of a set.
SubscribeAgain(h) ==
    /\ Running /\ pinned # NoBus
    /\ Len(subs) < MaxEntries
    /\ subs' = Append(subs, h)
    /\ UNCHANGED <<pinned, bus, stack, published, heard, audience, left, aborted>>

\* subs.add: a member stays where it is.
Subscribe(h) ==
    /\ Running /\ pinned # NoBus
    /\ h \notin Members /\ Len(subs) < MaxEntries
    /\ subs' = Append(subs, h)
    /\ UNCHANGED <<pinned, bus, stack, published, heard, audience, left, aborted>>

\* Slip: the members behind a deleted one move up.
UnsubscribeShifting(h) ==
    /\ Running
    /\ h \in Members
    /\ subs' = SelectSeq(subs, LAMBDA m : m # h)
    /\ left' = [e \in 1..MaxEvents |-> IF e \in Delivering THEN left[e] \cup {h} ELSE left[e]]
    /\ UNCHANGED <<pinned, bus, stack, published, heard, audience, aborted>>

\* The function subscribe returned: subs.delete.
Unsubscribe(h) ==
    /\ Running
    /\ h \in Members
    /\ subs' = [i \in DOMAIN subs |-> IF subs[i] = h THEN Hole ELSE subs[i]]
    /\ left' = [e \in 1..MaxEvents |-> IF e \in Delivering THEN left[e] \cup {h} ELSE left[e]]
    /\ UNCHANGED <<pinned, bus, stack, published, heard, audience, aborted>>

\* A program, or a handler that runs, publishes the next event.
Publish ==
    /\ Running /\ pinned # NoBus
    /\ published < MaxEvents /\ Len(stack) < MaxDepth
    /\ published' = published + 1
    /\ stack' = Append(stack, [event |-> published + 1, next |-> 1])
    /\ audience' = [audience EXCEPT ![published + 1] = Members]
    /\ UNCHANGED <<pinned, bus, subs, heard, left, aborted>>

\* The innermost publish calls the next member of the set.
Deliver ==
    /\ stack # <<>>
    /\ LET f == stack[Len(stack)]
           rest == {i \in DOMAIN subs : i >= f.next /\ subs[i] # Hole}
       IN  /\ rest # {}
           /\ \E i \in rest :
                 /\ \A j \in rest : i <= j
                 /\ heard' = [heard EXCEPT ![subs[i]] = Append(@, f.event)]
                 /\ stack' = [stack EXCEPT ![Len(stack)].next = i + 1]
    /\ UNCHANGED <<pinned, bus, subs, published, audience, left, aborted>>

\* The loop has come to the end of the set.
Return ==
    /\ stack # <<>>
    /\ \A i \in DOMAIN subs : i < stack[Len(stack)].next \/ subs[i] = Hole
    /\ stack' = Front(stack)
    /\ UNCHANGED <<pinned, bus, subs, published, heard, audience, left, aborted>>

\* The handler that runs throws, or lets an exception of its own publish through: the
\* loop that called it ends.  The handler one frame up may catch the exception.
Throw ==
    /\ stack # <<>> /\ stack[Len(stack)].next > 1
    /\ aborted' = aborted \cup {stack[Len(stack)].event}
    /\ stack' = Front(stack)
    /\ UNCHANGED <<pinned, bus, subs, published, heard, audience, left>>

Next ==
    \/ \E b \in Bundles : CreateAuthEventBus(b)
    \/ \E h \in Handlers : Subscribe(h) \/ Unsubscribe(h)
    \/ Publish \/ Deliver \/ Return \/ Throw

Spec == Init /\ [][Next]_vars

-----------------------------------------------------------------------------
(* Properties *)

\* Type invariant of the bus.
TypeOK ==
    /\ pinned \in Bundles \cup {NoBus} /\ bus \in [Bundles -> Bundles \cup {NoBus}]
    /\ subs \in Seq(Handlers \cup {Hole}) /\ Len(subs) <= MaxEntries
    /\ stack \in Seq(Frames) /\ Len(stack) <= MaxDepth
    /\ published \in 0..MaxEvents
    /\ heard \in [Handlers -> Seq(1..MaxEvents)]
    /\ audience \in [1..MaxEvents -> SUBSET Handlers]
    /\ left \in [1..MaxEvents -> SUBSET Handlers]
    /\ aborted \subseteq 1..MaxEvents

\* Every bundle copy that asked has the same bus, so that what the shell publishes is
\* seen by a separately bundled micro-frontend.
OneBusPerPage ==
    \A b, c \in Bundles : bus[b] # NoBus /\ bus[c] # NoBus => bus[b] = bus[c]

Times(h, e) == Cardinality({i \in DOMAIN heard[h] : heard[h][i] = e})

Over(e) == e <= published /\ e \notin Delivering

\* A publish that no handler broke off has called each of its subscribers that did not
\* unsubscribe meanwhile exactly once, whatever the handlers subscribed, unsubscribed
\* or published while it ran.
StayingSubscribersHearOnce ==
    \A e \in 1..MaxEvents : Over(e) /\ e \notin aborted =>
        \A h \in audience[e] \ left[e] : Times(h, e) = 1

\* Nobody who stays subscribed is called twice for one event, broken off or not.
NoDuplicates ==
    \A e \in 1..MaxEvents : \A h \in Handlers \ left[e] : Times(h, e) <= 1

=============================================================================
