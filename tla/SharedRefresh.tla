----------------------------- MODULE SharedRefresh -----------------------------
(***************************************************************************)
(* What the token getter promises, whatever its promises and callbacks     *)
(* are: at any moment there is at most one refresh, a call that needs one  *)
(* takes part in the refresh under way or starts it, and when it ends it   *)
(* ends for every call that took part.                                     *)
(***************************************************************************)
CONSTANT Calls

VARIABLES state,  \* state[c]: how far call c is
          busy    \* a refresh is under way

vars == <<state, busy>>

States == {"idle", "asking", "waiting", "served", "answered", "refused", "dropped"}

Init == state = [c \in Calls |-> "idle"] /\ busy = FALSE

Move(c, from, to) == state[c] = from /\ state' = [state EXCEPT ![c] = to]

Ask(c) == Move(c, "idle", "asking") /\ UNCHANGED busy

\* The call fails before it can tell whether its token is good.
Fail(c) == Move(c, "asking", "refused") /\ UNCHANGED busy

\* The token at hand is good.
Hit(c) == Move(c, "asking", "answered") /\ UNCHANGED busy

Start(c) == ~busy /\ Move(c, "asking", "waiting") /\ busy' = TRUE
Join(c)  ==  busy /\ Move(c, "asking", "waiting") /\ UNCHANGED busy

\* The refresh ends, at once for all calls that wait for it.
Settle ==
    /\ busy
    /\ busy' = FALSE
    /\ state' = [c \in Calls |-> IF state[c] = "waiting" THEN "served" ELSE state[c]]

Answer(c) == Move(c, "served", "answered") /\ UNCHANGED busy
Refuse(c) == Move(c, "served", "refused") /\ UNCHANGED busy

\* The page goes, and every call with it.
Drop ==
    /\ busy' = FALSE
    /\ state' = [c \in Calls |-> IF state[c] = "idle" THEN "idle" ELSE "dropped"]

Next ==
    \/ \E c \in Calls : Ask(c) \/ Fail(c) \/ Hit(c) \/ Start(c) \/ Join(c) \/ Answer(c) \/ Refuse(c)
    \/ Settle
    \/ Drop

Fairness ==
    /\ WF_vars(Settle)
    /\ \A c \in Calls : /\ WF_vars(Hit(c) \/ Start(c) \/ Join(c))
                        /\ WF_vars(Answer(c) \/ Refuse(c))

Spec == Init /\ [][Next]_vars
FairSpec == Spec /\ Fairness

=============================================================================
