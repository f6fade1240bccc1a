--------------------------- MODULE OidcSession_proofs ---------------------------
(***************************************************************************)
(* Proofs about OidcSession, for any set of calls and any bounds.          *)
(***************************************************************************)
EXTENDS OidcSession, TLAPS

\* Granted users are users.
LEMMA GrantsAreUsers ==
    ASSUME PageTypes, TokenTypes
    PROVE  Grants \subseteq Users
  BY BoundsAssumption DEF PageTypes, TokenTypes, Grants, Users, EmptyToken, Expiry

\* The parts of the type invariant hold after a step that leaves their variables alone.
LEMMA TypesFrame ==
    /\ PageTypes /\ UNCHANGED <<now, pageVars>> => PageTypes'
    /\ TokenTypes /\ UNCHANGED tokenVars => TokenTypes'
    /\ FlightTypes /\ UNCHANGED flightVars => FlightTypes'
    /\ CallTypes /\ UNCHANGED callVars => CallTypes'
  BY DEF PageTypes, TokenTypes, FlightTypes, CallTypes, pageVars, tokenVars, flightVars, callVars

\* The bookkeeping of the refreshes and the calls.
Bookkeeping == FlightIsCurrent /\ WaitersHaveFlight /\ RefreshHasStarter /\ Verdicts

\* It does not look at the page, the clock or the tokens.
LEMMA BookkeepingFrame ==
    ASSUME Bookkeeping, UNCHANGED flightVars, UNCHANGED callVars
    PROVE  Bookkeeping'
  BY DEF Bookkeeping, FlightIsCurrent, WaitersHaveFlight, RefreshHasStarter, Verdicts,
         Unsettled, IsFresh, flightVars, callVars

\* Storing a grant keeps the tokens in their types.
LEMMA AcquireTypes ==
    ASSUME PageTypes, TokenTypes, NEW u \in Grants, Acquire(u)
    PROVE  TokenTypes' /\ u \in Users
<1>1. u \in Users
  BY GrantsAreUsers
<1>2. u.tok \in Nat
  BY <1>1 DEF Users
<1>3. announced' \subseteq Nat
  BY <1>2 DEF Acquire, TokenTypes
<1>4. issued' \in Nat /\ store' \in Users \cup {NoUser}
  BY <1>1 DEF Acquire, TokenTypes
<1> QED
  BY <1>1, <1>3, <1>4 DEF TokenTypes

\* A page that has just been opened satisfies the invariant.
LEMMA InitInv == Init => IInv
<1> SUFFICES ASSUME Init PROVE IInv
  OBVIOUS
<1>1. PageTypes
  BY DEF Init, PageTypes
<1>2. TokenTypes
  BY DEF Init, TokenTypes
<1>3. FlightTypes
  BY DEF Init, FlightTypes, Phases
<1>4. CallTypes
  BY DEF Init, CallTypes, CallStates
<1>5. FlightIsCurrent
  BY NullAssumption DEF Init, FlightIsCurrent, Unsettled
<1>6. WaitersHaveFlight /\ RefreshHasStarter /\ Verdicts
  BY DEF Init, WaitersHaveFlight, RefreshHasStarter, Verdicts
<1> QED
  BY <1>1, <1>2, <1>3, <1>4, <1>5, <1>6 DEF TypeOK, IInv

-----------------------------------------------------------------------------
(* The steps of a call *)

\* GetToken, ReadStore and ReadFails move a call that has started nothing yet.
LEMMA BeginInv ==
    ASSUME IInv, NEW c \in Calls, GetToken(c) \/ ReadStore(c) \/ ReadFails(c)
    PROVE  IInv'
<1>0. PageTypes' /\ TokenTypes' /\ FlightTypes'
  BY TypesFrame DEF GetToken, ReadStore, ReadFails, IInv, TypeOK
<1>1. CallTypes'
  BY DEF GetToken, ReadStore, ReadFails, IInv, TypeOK, CallTypes, CallStates, TokenTypes
<1>2. FlightIsCurrent' /\ WaitersHaveFlight' /\ RefreshHasStarter'
  BY DEF GetToken, ReadStore, ReadFails, IInv, TypeOK, CallTypes, FlightIsCurrent,
         WaitersHaveFlight, RefreshHasStarter, Unsettled, flightVars
<1>3. Verdicts'
  <2>1. awaits[c] = NoCall
    BY DEF GetToken, ReadStore, ReadFails, IInv, RefreshHasStarter
  <2> QED
    BY <2>1 DEF GetToken, ReadStore, ReadFails, IInv, TypeOK, CallTypes, Verdicts, IsFresh, flightVars
<1> QED
  BY <1>0, <1>1, <1>2, <1>3 DEF IInv, TypeOK

\* The verdict on a stored user.
LEMMA ReturnStoredInv ==
    ASSUME IInv, NEW c \in Calls, ReturnStored(c)
    PROVE  IInv'
<1>0. PageTypes' /\ TokenTypes' /\ FlightTypes'
  BY TypesFrame DEF ReturnStored, IInv, TypeOK
<1>1. CallTypes'
  BY DEF ReturnStored, IInv, TypeOK, CallTypes, CallStates, PageTypes
<1>2. FlightIsCurrent' /\ WaitersHaveFlight' /\ RefreshHasStarter'
  BY DEF ReturnStored, IInv, TypeOK, CallTypes, FlightIsCurrent, WaitersHaveFlight,
         RefreshHasStarter, Unsettled, flightVars
<1>3. Verdicts'
  <2>1. awaits[c] = NoCall
    BY DEF ReturnStored, IInv, RefreshHasStarter
  <2> QED
    BY <2>1 DEF ReturnStored, IInv, TypeOK, CallTypes, Verdicts, IsFresh, flightVars
<1> QED
  BY <1>0, <1>1, <1>2, <1>3 DEF IInv, TypeOK

\* A call that starts a refresh is its first waiter.
LEMMA StartRefreshInv ==
    ASSUME IInv, NEW c \in Calls, StartRefresh(c)
    PROVE  IInv'
<1>0. PageTypes' /\ TokenTypes'
  BY TypesFrame DEF StartRefresh, IInv, TypeOK
<1>1. CallTypes' /\ FlightTypes'
  BY DEF StartRefresh, IInv, TypeOK, CallTypes, FlightTypes, CallStates, Phases
<1>2. FlightIsCurrent'
  BY NullAssumption DEF StartRefresh, IInv, TypeOK, FlightTypes, FlightIsCurrent, Unsettled
<1>3. phase[c] = "none"
  BY DEF StartRefresh, IInv, RefreshHasStarter
<1>4. WaitersHaveFlight'
  BY <1>3, NullAssumption DEF StartRefresh, IInv, TypeOK, CallTypes, FlightTypes, WaitersHaveFlight
<1>5. RefreshHasStarter'
  BY DEF StartRefresh, IInv, TypeOK, CallTypes, FlightTypes, RefreshHasStarter
<1>6. Verdicts'
  BY <1>3 DEF StartRefresh, IInv, TypeOK, CallTypes, FlightTypes, Verdicts, IsFresh
<1> QED
  BY <1>0, <1>1, <1>2, <1>4, <1>5, <1>6 DEF IInv, TypeOK

\* A call that joins waits for the refresh in the field.
LEMMA JoinRefreshInv ==
    ASSUME IInv, NEW c \in Calls, JoinRefresh(c)
    PROVE  IInv'
<1>0. PageTypes' /\ TokenTypes' /\ FlightTypes'
  BY TypesFrame DEF JoinRefresh, IInv, TypeOK
<1>1. CallTypes'
  BY DEF JoinRefresh, IInv, TypeOK, CallTypes, FlightTypes, CallStates
<1>2. FlightIsCurrent' /\ WaitersHaveFlight' /\ RefreshHasStarter'
  BY DEF JoinRefresh, IInv, TypeOK, CallTypes, FlightTypes, FlightIsCurrent, WaitersHaveFlight,
         RefreshHasStarter, Unsettled, flightVars
<1>3. Verdicts'
  BY DEF JoinRefresh, IInv, TypeOK, CallTypes, Verdicts, IsFresh, flightVars
<1> QED
  BY <1>0, <1>1, <1>2, <1>3 DEF IInv, TypeOK

\* A call that resumes finds its promise over, and passes its verdict on what the
\* promise settled with.
LEMMA ResumesInv ==
    ASSUME IInv, NEW c \in Calls, ReturnRefreshed(c) \/ FallBack(c)
    PROVE  IInv'
<1>0. PageTypes' /\ TokenTypes' /\ FlightTypes'
  BY TypesFrame DEF ReturnRefreshed, FallBack, Resumes, IInv, TypeOK
<1>1. awaits[c] \in Calls /\ pc[c] = "awaiting" /\ phase[awaits[c]] = "cleared"
  BY DEF ReturnRefreshed, FallBack, Resumes, IInv, WaitersHaveFlight
<1>2. CallTypes'
  BY <1>1 DEF ReturnRefreshed, FallBack, Resumes, IInv, TypeOK, CallTypes, FlightTypes,
              PageTypes, CallStates
<1>3. FlightIsCurrent' /\ WaitersHaveFlight' /\ RefreshHasStarter'
  BY DEF ReturnRefreshed, FallBack, Resumes, IInv, TypeOK, CallTypes, FlightIsCurrent,
         WaitersHaveFlight, RefreshHasStarter, Unsettled, flightVars
<1>4. awaits[c] # NoCall
  BY <1>1, NullAssumption
<1>5. Verdicts'
  BY <1>1, <1>4 DEF ReturnRefreshed, FallBack, Resumes, IInv, TypeOK, CallTypes, Verdicts,
              IsFresh, flightVars
<1> QED
  BY <1>0, <1>2, <1>3, <1>5 DEF IInv, TypeOK

\* A call whose signinRedirect returned fails with the user it was refused for.
LEMMA RedirectReturnsInv ==
    ASSUME IInv, NEW c \in Calls, RedirectReturns(c)
    PROVE  IInv'
<1>0. PageTypes' /\ TokenTypes' /\ FlightTypes'
  BY TypesFrame DEF RedirectReturns, IInv, TypeOK
<1>1. CallTypes'
  BY DEF RedirectReturns, IInv, TypeOK, CallTypes, CallStates
<1>2. FlightIsCurrent' /\ WaitersHaveFlight' /\ RefreshHasStarter'
  BY DEF RedirectReturns, IInv, TypeOK, CallTypes, FlightIsCurrent, WaitersHaveFlight,
         RefreshHasStarter, Unsettled, flightVars
<1>3. Verdicts'
  BY DEF RedirectReturns, IInv, TypeOK, CallTypes, Verdicts, IsFresh, flightVars
<1> QED
  BY <1>0, <1>1, <1>2, <1>3 DEF IInv, TypeOK

-----------------------------------------------------------------------------
(* The steps of a refresh *)

\* The refresh that lands or settles is the current one, so nobody has a verdict
\* from it yet.
LEMMA SettleInv ==
    ASSUME IInv, NEW r \in Calls, RefreshLands(r) \/ RefreshResolves(r) \/ RefreshFails(r)
    PROVE  IInv'
<1>0. PageTypes' /\ CallTypes'
  BY TypesFrame DEF RefreshLands, RefreshResolves, RefreshFails, IInv, TypeOK
<1>1. phase[r] \in {"pending", "landed"}
  BY DEF RefreshLands, RefreshResolves, RefreshFails
<1>2. PICK p \in {"landed", "settled"}, u \in Users \cup {NoUser} :
        /\ phase' = [phase EXCEPT ![r] = p] /\ result' = [result EXCEPT ![r] = u]
        /\ refreshInFlight' = refreshInFlight /\ UNCHANGED callVars /\ TokenTypes'
  <2>1. CASE RefreshLands(r)
    <3>1. PICK u \in Grants : Acquire(u) /\ result' = [result EXCEPT ![r] = u]
      BY <2>1 DEF RefreshLands
    <3>2. u \in Users /\ TokenTypes'
      BY <3>1, AcquireTypes DEF IInv, TypeOK
    <3> QED
      BY <2>1, <3>1, <3>2 DEF RefreshLands
  <2>2. CASE RefreshResolves(r)
    <3>1. result' = [result EXCEPT ![r] = result[r]] /\ result[r] \in Users \cup {NoUser}
      BY <2>2 DEF RefreshResolves, IInv, TypeOK, FlightTypes
    <3>2. TokenTypes'
      BY <2>2, TypesFrame DEF RefreshResolves, IInv, TypeOK
    <3> QED
      BY <2>2, <3>1, <3>2 DEF RefreshResolves
  <2>3. CASE RefreshFails(r)
    <3>1. TokenTypes'
      BY <2>3, TypesFrame DEF RefreshFails, IInv, TypeOK
    <3> QED
      BY <2>3, <3>1 DEF RefreshFails
  <2> QED
    BY <2>1, <2>2, <2>3
<1>3. FlightTypes'
  BY <1>2 DEF IInv, TypeOK, FlightTypes, Phases
<1>4. FlightIsCurrent' /\ RefreshHasStarter'
  BY <1>1, <1>2 DEF IInv, TypeOK, FlightTypes, FlightIsCurrent, RefreshHasStarter, Unsettled,
                    callVars
<1>5. WaitersHaveFlight'
  BY <1>1, <1>2 DEF IInv, TypeOK, FlightTypes, WaitersHaveFlight, callVars
<1>6. Verdicts'
  BY <1>1, <1>2 DEF IInv, TypeOK, FlightTypes, CallTypes, Verdicts, IsFresh, callVars
<1> QED
  BY <1>0, <1>2, <1>3, <1>4, <1>5, <1>6 DEF IInv, TypeOK

\* The finally handler clears the field of the one refresh that was current.
LEMMA ClearFlightInv ==
    ASSUME IInv, NEW r \in Calls, ClearFlight(r)
    PROVE  IInv'
<1>0. PageTypes' /\ TokenTypes' /\ CallTypes'
  BY TypesFrame DEF ClearFlight, IInv, TypeOK
<1>1. FlightTypes'
  BY DEF ClearFlight, IInv, TypeOK, FlightTypes, Phases
<1>2. refreshInFlight = r
  BY DEF ClearFlight, IInv, FlightIsCurrent, Unsettled
<1>3. FlightIsCurrent'
  BY <1>2, NullAssumption DEF ClearFlight, IInv, TypeOK, FlightTypes, FlightIsCurrent, Unsettled
<1>4. WaitersHaveFlight' /\ RefreshHasStarter'
  BY <1>2 DEF ClearFlight, IInv, TypeOK, FlightTypes, WaitersHaveFlight, RefreshHasStarter,
              callVars
<1>5. Verdicts'
  BY DEF ClearFlight, IInv, TypeOK, FlightTypes, CallTypes, Verdicts, IsFresh, callVars
<1> QED
  BY <1>0, <1>1, <1>3, <1>4, <1>5 DEF IInv, TypeOK

-----------------------------------------------------------------------------
(* The page, the environment and the whole *)

\* A page that goes away loses its calls and its refresh together.
LEMMA UnloadInv ==
    ASSUME IInv, LeaveToSignIn \/ Reload
    PROVE  IInv'
<1>1. PICK reason \in {"signin", "away"} : Unload(reason)
  BY DEF LeaveToSignIn, Reload
<1>2. PageTypes' /\ TokenTypes'
  BY <1>1 DEF Unload, IInv, TypeOK, PageTypes, TokenTypes
<1>3. FlightTypes' /\ CallTypes'
  BY <1>1 DEF Unload, IInv, TypeOK, FlightTypes, CallTypes, Phases, CallStates
<1>4. FlightIsCurrent' /\ WaitersHaveFlight' /\ RefreshHasStarter'
  BY <1>1, NullAssumption DEF Unload, FlightIsCurrent, WaitersHaveFlight, RefreshHasStarter,
                              Unsettled
<1>5. Verdicts'
  BY <1>1 DEF Unload, Verdicts
<1> QED
  BY <1>2, <1>3, <1>4, <1>5 DEF IInv, TypeOK

\* Steps that only touch the page, the clock and the tokens.
LEMMA OutsideInv ==
    ASSUME IInv, Logout \/ Load \/ CompleteLoginRedirect \/ Environment \/ UNCHANGED vars
    PROVE  IInv'
<1>1. UNCHANGED flightVars /\ UNCHANGED callVars
  BY Zenon DEF Logout, Load, CompleteLoginRedirect, Environment, AutoRenew, OtherTab, Tick, vars
<1>2. PageTypes'
  <2>1. CASE UNCHANGED <<now, pageVars>>
    BY <2>1, TypesFrame DEF IInv, TypeOK
  <2>2. CASE Load
    <3>1. callback' \in BOOLEAN
      BY <2>2, Zenon DEF Load
    <3> QED
      BY <2>2, <3>1 DEF Load, IInv, TypeOK, PageTypes
  <2>3. CASE CompleteLoginRedirect
    BY <2>3 DEF CompleteLoginRedirect, IInv, TypeOK, PageTypes
  <2>4. CASE Tick
    BY <2>4 DEF Tick, pageVars, IInv, TypeOK, PageTypes
  <2>5. CASE Logout \/ AutoRenew \/ OtherTab \/ UNCHANGED vars
    <3>1. UNCHANGED <<now, pageVars>>
      BY <2>5, Zenon DEF Logout, AutoRenew, OtherTab, vars
    <3> QED
      BY <2>1, <3>1
  <2> QED
    BY <2>2, <2>3, <2>4, <2>5 DEF Environment
<1>3. TokenTypes'
  <2>1. CASE \E u \in Grants : Acquire(u)
    BY <2>1, AcquireTypes DEF IInv, TypeOK
  <2>2. CASE UNCHANGED tokenVars
    BY <2>2, TypesFrame DEF IInv, TypeOK
  <2>3. CASE Logout
    BY <2>3 DEF Logout, IInv, TypeOK, TokenTypes
  <2>4. CASE OtherTab
    BY <2>4, GrantsAreUsers DEF OtherTab, IInv, TypeOK, TokenTypes
  <2> QED
    BY <2>1, <2>2, <2>3, <2>4 DEF Load, CompleteLoginRedirect, Environment, AutoRenew, Tick, vars
<1> QED
  BY <1>1, <1>2, <1>3, TypesFrame, BookkeepingFrame DEF IInv, TypeOK, Bookkeeping

\* The invariant the others rest on: it holds at first and every step keeps it.
THEOREM Invariant == Spec => []IInv
<1>1. IInv /\ [Next]_vars => IInv'
  BY BeginInv, ReturnStoredInv, StartRefreshInv, JoinRefreshInv, ResumesInv, RedirectReturnsInv,
     SettleInv, ClearFlightInv, UnloadInv, OutsideInv
     DEF Next, CallStep, RefreshStep, PageStep
<1> QED
  BY <1>1, InitInv, PTL DEF Spec

\* Type correctness of the provider: it needs the whole invariant, since a call
\* that resumes reads the result of the promise it awaits.
THEOREM TypeCorrect == Spec => []TypeOK
<1>1. IInv => TypeOK
  BY DEF IInv
<1> QED
  BY <1>1, Invariant, PTL

\* At most one silent refresh of getToken is under way, however many calls overlap.
THEOREM OneRefreshAtATime == Spec => []SingleFlight
<1>1. IInv => SingleFlight
  BY DEF IInv, FlightIsCurrent, SingleFlight
<1> QED
  BY <1>1, Invariant, PTL

\* No call waits for a promise that is neither current nor over.
THEOREM NoOrphanedWaiter == Spec => []WaitersHaveFlight
<1>1. IInv => WaitersHaveFlight
  BY DEF IInv
<1> QED
  BY <1>1, Invariant, PTL

\* A token getToken returns stays valid for the skew at least.
THEOREM HandedTokensLive == Spec => []HandedTokenOutlivesSkew
<1>1. IInv => HandedTokenOutlivesSkew
  <2> SUFFICES ASSUME IInv, NEW c \in Calls, pc[c] = "returned"
               PROVE  /\ user[c] # NoUser
                      /\ user[c].tok # EmptyToken
                      /\ user[c].exp # NoExpiry /\ now <= decided[c] + Skew => now < user[c].exp
    BY DEF HandedTokenOutlivesSkew
  <2>1. IsFresh(user[c], decided[c])
    BY DEF IInv, Verdicts
  <2>2. user[c] \in Users
    BY <2>1 DEF IsFresh, IInv, TypeOK, CallTypes
  <2>3. user[c].exp # NoExpiry => user[c].exp \in Nat
    BY <2>2 DEF Users
  <2>4. now \in Nat /\ decided[c] \in Nat /\ Skew \in Nat
    BY BoundsAssumption DEF IInv, TypeOK, PageTypes, CallTypes
  <2> QED
    BY <2>1, <2>3, <2>4 DEF IsFresh
<1> QED
  BY <1>1, Invariant, PTL

\* Calls that shared a refresh differ only by the time they resumed.
THEOREM SharersAgree == Spec => []SharedVerdict
<1>1. IInv => SharedVerdict
  <2> SUFFICES ASSUME IInv, NEW c \in Calls, NEW d \in Calls,
                      awaits[c] # NoCall, awaits[c] = awaits[d],
                      pc[c] = "returned", pc[d] \in {"redirecting", "failed"}
               PROVE  decided[c] < decided[d]
    BY DEF SharedVerdict
  <2>1. user[c] = user[d] /\ IsFresh(user[c], decided[c]) /\ ~IsFresh(user[c], decided[d])
    BY DEF IInv, Verdicts
  <2>2. user[c] \in Users
    BY <2>1 DEF IsFresh, IInv, TypeOK, CallTypes
  <2>3. user[c].exp # NoExpiry /\ user[c].exp \in Nat
    BY <2>1, <2>2 DEF IsFresh, Users
  <2>4. decided[c] \in Nat /\ decided[d] \in Nat /\ Skew \in Nat
    BY BoundsAssumption DEF IInv, TypeOK, CallTypes
  <2> QED
    BY <2>1, <2>3, <2>4 DEF IsFresh
<1> QED
  BY <1>1, Invariant, PTL

-----------------------------------------------------------------------------
(* Announcements: tokens that are on their way to a caller *)

\* What a refresh settled with was announced.
ResultsAnnounced == \A r \in Calls : result[r] # NoUser => result[r].tok \in announced

\* With the memory store, so was whatever the page has stored or read from the store.
StoreAnnounced ==
    StateStore = "memory" =>
        /\ store # NoUser => store.tok \in announced
        /\ \A c \in Calls : user[c] # NoUser => user[c].tok \in announced

AInv == ResultsAnnounced /\ StoreAnnounced /\ AnnouncedBeforeHanded

\* It survives every step that only adds to the announcements.
LEMMA AnnouncementsGrow ==
    ASSUME AInv, announced \subseteq announced', UNCHANGED <<result, callVars>>,
           StateStore = "memory" /\ store' # NoUser => store'.tok \in announced'
    PROVE  AInv'
  BY DEF AInv, ResultsAnnounced, StoreAnnounced, AnnouncedBeforeHanded, callVars

\* Every step keeps it: what is stored is announced in the same step, and what is returned
\* was a result, or came out of the store.
LEMMA AnnouncementsStep ==
    ASSUME IInv, AInv, [Next]_vars
    PROVE  AInv'
<1> USE DEF AInv
<1>1. ASSUME NEW c \in Calls, GetToken(c) \/ ReadStore(c) \/ ReadFails(c)
      PROVE  AInv'
  BY <1>1 DEF GetToken, ReadStore, ReadFails, IInv, TypeOK, CallTypes, ResultsAnnounced,
              StoreAnnounced, AnnouncedBeforeHanded, tokenVars, flightVars
<1>2. ASSUME NEW c \in Calls, ReturnStored(c)
      PROVE  AInv'
  <2>1. awaits[c] = NoCall /\ user[c] # NoUser
    BY <1>2 DEF ReturnStored, IsFresh, IInv, RefreshHasStarter
  <2> QED
    BY <1>2, <2>1 DEF ReturnStored, IInv, TypeOK, CallTypes, ResultsAnnounced, StoreAnnounced,
                      AnnouncedBeforeHanded, tokenVars, flightVars
<1>3. ASSUME NEW c \in Calls, StartRefresh(c) \/ JoinRefresh(c) \/ RedirectReturns(c)
      PROVE  AInv'
  BY <1>3 DEF StartRefresh, JoinRefresh, RedirectReturns, IInv, TypeOK, CallTypes,
              ResultsAnnounced, StoreAnnounced, AnnouncedBeforeHanded, tokenVars, flightVars
<1>4. ASSUME NEW c \in Calls, ReturnRefreshed(c) \/ FallBack(c)
      PROVE  AInv'
  <2>1. awaits[c] \in Calls
    BY <1>4 DEF ReturnRefreshed, FallBack, Resumes, IInv, WaitersHaveFlight
  <2>2. ReturnRefreshed(c) => result[awaits[c]] # NoUser
    BY DEF ReturnRefreshed, IsFresh
  <2> QED
    BY <1>4, <2>1, <2>2 DEF ReturnRefreshed, FallBack, Resumes, IInv, TypeOK, CallTypes,
              ResultsAnnounced, StoreAnnounced, AnnouncedBeforeHanded, tokenVars, flightVars
<1>5. ASSUME NEW r \in Calls, RefreshLands(r)
      PROVE  AInv'
  <2>1. PICK u \in Grants : Acquire(u) /\ result' = [result EXCEPT ![r] = u]
    BY <1>5 DEF RefreshLands
  <2> QED
    BY <1>5, <2>1 DEF RefreshLands, Acquire, IInv, TypeOK, FlightTypes, ResultsAnnounced,
                      StoreAnnounced, AnnouncedBeforeHanded, callVars
<1>6. ASSUME NEW r \in Calls, RefreshFails(r)
      PROVE  AInv'
  BY <1>6 DEF RefreshFails, IInv, TypeOK, FlightTypes, ResultsAnnounced, StoreAnnounced,
              AnnouncedBeforeHanded, callVars, tokenVars
<1>7. ASSUME NEW r \in Calls, RefreshResolves(r) \/ ClearFlight(r)
      PROVE  AInv'
  BY <1>7, AnnouncementsGrow DEF RefreshResolves, ClearFlight, tokenVars, StoreAnnounced
<1>8. ASSUME LeaveToSignIn \/ Reload
      PROVE  AInv'
  BY <1>8 DEF LeaveToSignIn, Reload, Unload, ResultsAnnounced, StoreAnnounced,
              AnnouncedBeforeHanded
<1>9. CASE (\E u \in Grants : Acquire(u)) /\ UNCHANGED <<result, callVars>>
  BY <1>9, AnnouncementsGrow DEF Acquire
<1>10. CASE UNCHANGED <<tokenVars, result, callVars>>
  BY <1>10, AnnouncementsGrow DEF tokenVars, StoreAnnounced
<1>11. CASE Logout \/ OtherTab
  BY <1>11, AnnouncementsGrow, StoreAssumption DEF Logout, OtherTab, flightVars
<1>12. Load \/ CompleteLoginRedirect \/ AutoRenew \/ Tick \/ UNCHANGED vars =>
          /\ (\E u \in Grants : Acquire(u)) \/ UNCHANGED tokenVars
          /\ UNCHANGED <<result, callVars>>
  BY DEF Load, CompleteLoginRedirect, AutoRenew, Tick, vars, flightVars
<1> QED
  BY <1>1, <1>2, <1>3, <1>4, <1>5, <1>6, <1>7, <1>8, <1>9, <1>10, <1>11, <1>12
     DEF Next, CallStep, RefreshStep, PageStep, Environment

\* Subscribers of the bus hear of a token before the caller has it.
THEOREM AnnouncedFirst == Spec => []AnnouncedBeforeHanded
<1>1. Init => AInv
  BY DEF Init, AInv, ResultsAnnounced, StoreAnnounced, AnnouncedBeforeHanded
<1>2. IInv /\ AInv /\ [Next]_vars => AInv'
  BY AnnouncementsStep
<1>3. AInv => AnnouncedBeforeHanded
  BY DEF AInv
<1> QED
  BY <1>1, <1>2, <1>3, Invariant, PTL DEF Spec

-----------------------------------------------------------------------------
(* The provider implements SharedRefresh *)

\* When the abstract state of every call but c stays, the states change at c only.
LEMMA SharedMove ==
    ASSUME NEW c \in Calls,
           \A d \in Calls \ {c} : SharedState(d)' = SharedState(d)
    PROVE  [d \in Calls |-> SharedState(d)]' =
              [[d \in Calls |-> SharedState(d)] EXCEPT ![c] = SharedState(c)']
  OBVIOUS

LEMMA SharedCallStep ==
    ASSUME IInv, NEW c \in Calls, CallStep(c)
    PROVE  [Shared!Next]_Shared!vars
<1> USE DEF IInv, TypeOK, CallTypes
<1>1. ASSUME GetToken(c)
      PROVE  Shared!Ask(c)
  <2>1. /\ SharedState(c) = "idle" /\ SharedState(c)' = "asking"
        /\ \A d \in Calls \ {c} : SharedState(d)' = SharedState(d)
    BY <1>1 DEF GetToken, SharedState, flightVars
  <2> QED
    BY <1>1, <2>1, SharedMove DEF GetToken, flightVars, Shared!Ask, Shared!Move
<1>2. ASSUME ReadStore(c)
      PROVE  UNCHANGED Shared!vars
  <2>1. \A d \in Calls : SharedState(d)' = SharedState(d)
    BY <1>2 DEF ReadStore, SharedState, flightVars
  <2> QED
    BY <1>2, <2>1 DEF ReadStore, flightVars, Shared!vars
<1>3. ASSUME ReturnStored(c)
      PROVE  Shared!Hit(c)
  <2>1. /\ SharedState(c) = "asking" /\ SharedState(c)' = "answered"
        /\ \A d \in Calls \ {c} : SharedState(d)' = SharedState(d)
    BY <1>3 DEF ReturnStored, SharedState, flightVars
  <2> QED
    BY <1>3, <2>1, SharedMove DEF ReturnStored, flightVars, Shared!Hit, Shared!Move
<1>4. ASSUME StartRefresh(c)
      PROVE  Shared!Start(c)
  <2>1. phase[c] = "none"
    BY <1>4 DEF StartRefresh, RefreshHasStarter
  <2>2. \A d \in Calls \ {c} : pc[d] = "awaiting" => awaits[d] \in Calls /\ awaits[d] # c
    BY <1>4, <2>1, NullAssumption DEF StartRefresh, WaitersHaveFlight
  <2>3. /\ SharedState(c) = "asking" /\ SharedState(c)' = "waiting"
        /\ \A d \in Calls \ {c} : SharedState(d)' = SharedState(d)
    BY <1>4, <2>2 DEF StartRefresh, SharedState, FlightTypes
  <2> QED
    BY <1>4, <2>3, SharedMove, NullAssumption DEF StartRefresh, Shared!Start, Shared!Move
<1>5. ASSUME JoinRefresh(c)
      PROVE  Shared!Join(c)
  <2>1. phase[refreshInFlight] # "cleared"
    BY <1>5 DEF JoinRefresh, FlightTypes, FlightIsCurrent, Unsettled
  <2>2. /\ SharedState(c) = "asking" /\ SharedState(c)' = "waiting"
        /\ \A d \in Calls \ {c} : SharedState(d)' = SharedState(d)
    BY <1>5, <2>1 DEF JoinRefresh, SharedState, flightVars
  <2> QED
    BY <1>5, <2>2, SharedMove DEF JoinRefresh, flightVars, Shared!Join, Shared!Move
<1>6. ASSUME ReturnRefreshed(c)
      PROVE  Shared!Answer(c)
  <2>1. /\ SharedState(c) = "served" /\ SharedState(c)' = "answered"
        /\ \A d \in Calls \ {c} : SharedState(d)' = SharedState(d)
    BY <1>6 DEF ReturnRefreshed, Resumes, SharedState, flightVars
  <2> QED
    BY <1>6, <2>1, SharedMove DEF ReturnRefreshed, Resumes, flightVars, Shared!Answer, Shared!Move
<1>7. ASSUME FallBack(c)
      PROVE  Shared!Refuse(c)
  <2>1. /\ SharedState(c) = "served" /\ SharedState(c)' = "refused"
        /\ \A d \in Calls \ {c} : SharedState(d)' = SharedState(d)
    BY <1>7 DEF FallBack, Resumes, SharedState, flightVars
  <2> QED
    BY <1>7, <2>1, SharedMove DEF FallBack, Resumes, flightVars, Shared!Refuse, Shared!Move
<1>8. ASSUME RedirectReturns(c)
      PROVE  UNCHANGED Shared!vars
  <2>1. \A d \in Calls : SharedState(d)' = SharedState(d)
    BY <1>8 DEF RedirectReturns, SharedState, flightVars
  <2> QED
    BY <1>8, <2>1 DEF RedirectReturns, flightVars, Shared!vars
<1>9. ASSUME ReadFails(c)
      PROVE  Shared!Fail(c)
  <2>1. /\ SharedState(c) = "asking" /\ SharedState(c)' = "refused"
        /\ \A d \in Calls \ {c} : SharedState(d)' = SharedState(d)
    BY <1>9 DEF ReadFails, SharedState, flightVars
  <2> QED
    BY <1>9, <2>1, SharedMove DEF ReadFails, flightVars, Shared!Fail, Shared!Move
<1> QED
  BY <1>1, <1>2, <1>3, <1>4, <1>5, <1>6, <1>7, <1>8, <1>9 DEF CallStep, Shared!Next

\* A refresh ends, for the calls that share it, when its finally handler has run.
LEMMA SharedRefreshStep ==
    ASSUME IInv, NEW r \in Calls, RefreshStep(r)
    PROVE  [Shared!Next]_Shared!vars
<1> USE DEF IInv, TypeOK, CallTypes, FlightTypes
<1>1. ASSUME RefreshLands(r) \/ RefreshResolves(r) \/ RefreshFails(r)
      PROVE  UNCHANGED Shared!vars
  <2>1. PICK p \in {"landed", "settled"} :
          phase[r] # "cleared" /\ phase' = [phase EXCEPT ![r] = p]
    BY <1>1 DEF RefreshLands, RefreshResolves, RefreshFails
  <2>2. refreshInFlight' = refreshInFlight /\ UNCHANGED callVars
    BY <1>1 DEF RefreshLands, RefreshResolves, RefreshFails
  <2>3. \A d \in Calls : pc[d] = "awaiting" => (phase'[awaits[d]] = "cleared" <=> phase[awaits[d]] = "cleared")
    BY <2>1 DEF WaitersHaveFlight
  <2>4. \A d \in Calls : SharedState(d)' = SharedState(d)
    BY <2>2, <2>3 DEF SharedState, callVars
  <2> QED
    BY <2>2, <2>4 DEF Shared!vars
<1>2. ASSUME ClearFlight(r)
      PROVE  Shared!Settle
  <2>1. refreshInFlight = r /\ r # NoCall
    BY <1>2, NullAssumption DEF ClearFlight, FlightIsCurrent, Unsettled
  <2>2. \A d \in Calls : pc[d] = "awaiting" => phase'[awaits[d]] = "cleared"
    BY <1>2, <2>1 DEF ClearFlight, WaitersHaveFlight
  <2>3. \A d \in Calls :
          SharedState(d)' = IF SharedState(d) = "waiting" THEN "served" ELSE SharedState(d)
    BY <1>2, <2>2 DEF ClearFlight, SharedState, callVars
  <2> QED
    BY <1>2, <2>1, <2>3 DEF ClearFlight, Shared!Settle
<1> QED
  BY <1>1, <1>2 DEF RefreshStep, Shared!Next

\* The page's life: leaving drops the calls, the rest goes unnoticed.
LEMMA SharedOtherStep ==
    ASSUME IInv, PageStep \/ Environment \/ UNCHANGED vars
    PROVE  [Shared!Next]_Shared!vars
<1>1. ASSUME LeaveToSignIn \/ Reload
      PROVE  Shared!Drop
  <2>1. \A d \in Calls :
          SharedState(d)' = IF SharedState(d) = "idle" THEN "idle" ELSE "dropped"
    BY <1>1 DEF LeaveToSignIn, Reload, Unload, SharedState, IInv, TypeOK, CallTypes, CallStates
  <2> QED
    BY <1>1, <2>1 DEF LeaveToSignIn, Reload, Unload, Shared!Drop
<1>2. ASSUME UNCHANGED flightVars, UNCHANGED callVars
      PROVE  UNCHANGED Shared!vars
  <2>1. \A d \in Calls : SharedState(d)' = SharedState(d)
    BY <1>2 DEF SharedState, flightVars, callVars
  <2> QED
    BY <1>2, <2>1 DEF flightVars, Shared!vars
<1>3. Logout \/ Load \/ CompleteLoginRedirect \/ Environment \/ UNCHANGED vars =>
        UNCHANGED flightVars /\ UNCHANGED callVars
  BY Zenon DEF Logout, Load, CompleteLoginRedirect, Environment, AutoRenew, OtherTab, Tick, vars
<1> QED
  BY <1>1, <1>2, <1>3 DEF PageStep, Shared!Next

\* The safety part of the refinement: however the promises and callbacks of the provider
\* interleave, its calls start, join, and are served by one refresh at a time.
THEOREM RefinesSharedRefresh == Spec => Shared!Spec
<1>1. Init => Shared!Init
  BY DEF Init, Shared!Init, SharedState
<1>2. IInv /\ [Next]_vars => [Shared!Next]_Shared!vars
  BY SharedCallStep, SharedRefreshStep, SharedOtherStep DEF Next
<1> QED
  BY <1>1, <1>2, Invariant, PTL DEF Spec, Shared!Spec

=============================================================================
