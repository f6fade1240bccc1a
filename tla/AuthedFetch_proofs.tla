--------------------------- MODULE AuthedFetch_proofs ---------------------------
(***************************************************************************)
(* Proofs about AuthedFetch, for any set of calls, targets, inputs and     *)
(* sessions and any number of tokens.                                      *)
(***************************************************************************)
EXTENDS AuthedFetch, SequenceTheorems, TLAPS

\* The session's token is one that was issued, and no later one than the servers want.
SessionOrder == held >= 1 /\ held <= valid

\* How many sends call r has made, and whether its login is behind it, where it stands.
Attempts(r) ==
    /\ pc[r] = "idle" => Len(sent[r]) = 0 /\ relogin[r] = 0
    /\ pc[r] # "idle" => input[r] \in Inputs
    /\ pc[r] = "token" => Attach(input[r])
    /\ pc[r] = "token" /\ relogin[r] = 0 => Len(sent[r]) = 0
    /\ pc[r] = "token" /\ relogin[r] # 0 => Len(sent[r]) = 1
    /\ pc[r] = "wire" /\ relogin[r] = 0 => Len(sent[r]) = 1
    /\ pc[r] = "wire" /\ relogin[r] # 0 => Len(sent[r]) = 2
    /\ pc[r] = "login" => Len(sent[r]) = 1 /\ relogin[r] = 0
    /\ pc[r] = "returned" \/ relogin[r] # 0 => Len(sent[r]) >= 1
    /\ Len(sent[r]) <= 2
    /\ Len(sent[r]) = 2 => relogin[r] # 0

\* Every send of r carries a token, or none does: the target decides.
Carries(r) ==
    \A i \in DOMAIN sent[r] :
        /\ sent[r][i].token # NoToken <=> Attach(input[r])
        /\ sent[r][i].token # NoToken => sent[r][i].token <= valid

\* The token of a retry is at least as new as the one the login brought.
Renews(r) ==
    /\ relogin[r] <= held
    /\ Len(sent[r]) = 2 /\ Attach(input[r]) => sent[r][2].token >= relogin[r]

\* A token that was refused is not the one the servers accept, nor is it ever again.
Refused(r) ==
    session = "inPlace" /\ pc[r] # "idle" /\ Attach(input[r]) /\ input[r].target \notin StrictTargets =>
        /\ pc[r] = "login" => sent[r][1].token < valid
        /\ relogin[r] # 0 => sent[r][1].token < relogin[r]
        /\ pc[r] = "returned" /\ status[r] = 401 => Len(sent[r]) = 2 /\ relogin[r] < valid

CallInv(r) == Attempts(r) /\ Carries(r) /\ Renews(r) /\ Refused(r)

\* The inductive invariant.
IInv == TypeOK /\ SessionOrder /\ \A r \in Requests : CallInv(r)

-----------------------------------------------------------------------------
(* What a step leaves alone, and what a send does *)

\* Call q is where it was.
Same(q) ==
    /\ pc'[q] = pc[q] /\ input'[q] = input[q] /\ sent'[q] = sent[q]
    /\ status'[q] = status[q] /\ relogin'[q] = relogin[q]

\* Tokens only get newer.
LaterTokens == session' = session /\ held' >= held /\ valid' >= valid

\* The requests a call has made carry tokens.
LEMMA SentTokens ==
    ASSUME NEW s \in Seq(Sends), NEW i \in DOMAIN s
    PROVE  s[i].token \in Nat \cup {NoToken}
<1>1. s[i] \in Sends
  BY ElementOfSeq
<1> QED
  BY <1>1 DEF Sends

\* What the invariant says of a call survives the steps of the others, as long as the
\* tokens only get newer.
LEMMA CallFrame ==
    ASSUME TypeOK, TypeOK', LaterTokens, NEW q \in Requests, CallInv(q), Same(q)
    PROVE  CallInv(q)'
<1>1. held \in Nat /\ held' \in Nat /\ valid \in Nat /\ valid' \in Nat
  BY DEF TypeOK
<1>2. relogin[q] \in Nat /\ sent[q] \in Seq(Sends)
  BY DEF TypeOK
<1>3. \A i \in DOMAIN sent[q] : sent[q][i].token \in Nat \cup {NoToken}
  BY <1>2, SentTokens
<1>4. Attempts(q)' /\ Renews(q)'
  BY <1>1, <1>2 DEF CallInv, Same, LaterTokens, Attempts, Renews, Attach
<1>5. Carries(q)'
  BY <1>1, <1>3 DEF CallInv, Same, LaterTokens, Carries, Attach
<1>6. Refused(q)'
  <2>1. (pc[q] = "login" => Len(sent[q]) = 1) /\ (relogin[q] # 0 => Len(sent[q]) >= 1)
    BY DEF CallInv, Attempts
  <2>2. Len(sent[q]) >= 1 /\ Attach(input[q]) => sent[q][1].token \in Nat
    BY <1>2, <1>3 DEF CallInv, Carries
  <2>3. Len(sent[q]) = 1 => Len(sent[q]) >= 1
    OBVIOUS
  <2> QED
    BY <1>1, <1>2, <2>1, <2>2, <2>3 DEF CallInv, Same, LaterTokens, Refused, Attach
<1> QED
  BY <1>4, <1>5, <1>6 DEF CallInv

\* A step of one call is checked on that call only.
LEMMA OneCallMoves ==
    ASSUME IInv, TypeOK', SessionOrder', LaterTokens,
           NEW r \in Requests, \A q \in Requests \ {r} : Same(q), CallInv(r)'
    PROVE  IInv'
  BY CallFrame DEF IInv

\* The effect of Send on call r: its clone throws, or the request is on the wire.
Sent(r, t) ==
    \/ pc'[r] = "rejected" /\ sent'[r] = sent[r]
    \/ /\ pc'[r] = "wire"
       /\ sent'[r] = Append(sent[r], [token |-> t, intact |-> ~spent[r]])

\* The variables of the calls Send may change keep their types.
CallTypes ==
    /\ pc \in [Requests -> CallStates] /\ spent \in [Requests -> BOOLEAN]
    /\ sent \in [Requests -> Seq(Sends)]

\* Send changes call r alone, as Sent says.
LEMMA SendEffect ==
    ASSUME TypeOK, NEW r \in Requests, NEW in \in Inputs, NEW t \in Nat \cup {NoToken},
           Send(r, in, t)
    PROVE  /\ CallTypes' /\ Sent(r, t)
           /\ \A q \in Requests \ {r} : pc'[q] = pc[q] /\ sent'[q] = sent[q]
<1>1. [token |-> t, intact |-> ~spent[r]] \in Sends
  BY DEF Sends
<1>2. CASE in.form = "request" /\ spent[r]
  <2>1. pc' = [pc EXCEPT ![r] = "rejected"] /\ sent' = sent /\ spent' = spent
    BY <1>2 DEF Send
  <2> QED
    BY <2>1 DEF Sent, TypeOK, CallTypes, CallStates
<1>3. CASE ~(in.form = "request" /\ spent[r])
  <2>1. /\ pc' = [pc EXCEPT ![r] = "wire"]
        /\ sent' = [sent EXCEPT ![r] = Append(sent[r], [token |-> t, intact |-> ~spent[r]])]
        /\ \E b \in BOOLEAN : spent' = [spent EXCEPT ![r] = b]
    BY <1>3 DEF Send
  <2>2. Append(sent[r], [token |-> t, intact |-> ~spent[r]]) \in Seq(Sends)
    BY <1>1 DEF TypeOK
  <2>3. CallTypes'
    BY <2>1, <2>2 DEF TypeOK, CallTypes, CallStates
  <2>4. Sent(r, t)
    BY <2>1 DEF TypeOK, Sent
  <2> QED
    BY <2>1, <2>3, <2>4 DEF TypeOK
<1> QED
  BY <1>2, <1>3

\* The effect of StartSend: the call waits for the token it may attach, or sends without.
LEMMA StartSendEffect ==
    ASSUME TypeOK, NEW r \in Requests, NEW in \in Inputs, StartSend(r, in)
    PROVE  /\ CallTypes'
           /\ \/ Attach(in) /\ pc'[r] = "token" /\ sent'[r] = sent[r]
              \/ ~Attach(in) /\ Sent(r, NoToken)
           /\ \A q \in Requests \ {r} : pc'[q] = pc[q] /\ sent'[q] = sent[q]
<1>1. CASE Attach(in)
  <2>1. pc' = [pc EXCEPT ![r] = "token"] /\ sent' = sent /\ spent' = spent
    BY <1>1 DEF StartSend
  <2> QED
    BY <1>1, <2>1 DEF TypeOK, CallTypes, CallStates
<1>2. CASE ~Attach(in)
  BY <1>2, SendEffect DEF StartSend
<1> QED
  BY <1>1, <1>2

\* What a call has sent after a Send that was no rejection: what it had, and one more.
LEMMA OneMore ==
    ASSUME NEW r \in Requests, NEW t \in Nat \cup {NoToken}, sent[r] \in Seq(Sends),
           sent'[r] = Append(sent[r], [token |-> t, intact |-> ~spent[r]])
    PROVE  /\ Len(sent[r]) \in Nat
           /\ Len(sent'[r]) = Len(sent[r]) + 1 /\ DOMAIN sent'[r] = 1 .. Len(sent[r]) + 1
           /\ sent'[r][Len(sent[r]) + 1].token = t
           /\ \A i \in 1 .. Len(sent[r]) : sent'[r][i] = sent[r][i]
<1>1. [token |-> t, intact |-> ~spent[r]] \in Sends
  BY DEF Sends
<1> QED
  BY <1>1, AppendProperties

-----------------------------------------------------------------------------
(* The steps of a call *)

\* A page that has made no call yet satisfies the invariant.
LEMMA InitInv == Init => IInv
<1> SUFFICES ASSUME Init PROVE IInv
  OBVIOUS
<1>1. TypeOK
  BY DEF Init, TypeOK, CallStates
<1>2. SessionOrder
  BY DEF Init, SessionOrder
<1>3. ASSUME NEW r \in Requests PROVE CallInv(r)
  BY DEF Init, CallInv, Attempts, Carries, Renews, Refused
<1> QED
  BY <1>1, <1>2, <1>3 DEF IInv

\* A call begins with no request made.
LEMMA CallInvStep ==
    ASSUME IInv, NEW r \in Requests, Call(r)
    PROVE  IInv'
<1>1. PICK in \in Inputs : input' = [input EXCEPT ![r] = in] /\ StartSend(r, in)
  BY DEF Call
<1>2. /\ pc[r] = "idle" /\ Len(sent[r]) = 0 /\ relogin[r] = 0 /\ input'[r] = in
      /\ sent[r] \in Seq(Sends)
  BY <1>1 DEF Call, IInv, TypeOK, CallInv, Attempts
<1>3. UNCHANGED <<session, held, valid, status, relogin>>
  BY DEF Call
<1>4. CallTypes' /\ \A q \in Requests \ {r} : Same(q)
  BY <1>1, <1>3, StartSendEffect DEF IInv, TypeOK, Same
<1>5. TypeOK' /\ SessionOrder' /\ LaterTokens
  <2>1. input' \in [Requests -> Inputs \cup {NoInput}]
    BY <1>1 DEF IInv, TypeOK
  <2> QED
    BY <1>3, <1>4, <2>1 DEF IInv, TypeOK, CallTypes, SessionOrder, LaterTokens
<1>6. CallInv(r)'
  <2>1. valid \in Nat /\ held \in Nat /\ Len(sent'[r]) \in Nat
    BY <1>5 DEF IInv, TypeOK
  <2>2. CASE pc'[r] \in {"token", "rejected"} /\ sent'[r] = sent[r] /\ (pc'[r] = "token" => Attach(in))
    <3>1. DOMAIN sent'[r] = 1 .. 0 /\ Len(sent'[r]) = 0 /\ relogin'[r] = 0
      BY <1>2, <1>3, <2>2
    <3>2. Carries(r)'
      BY <3>1 DEF Carries
    <3>3. Attempts(r)'
      <4>1. CASE pc'[r] = "token"
        <5>1. Attach(input'[r]) /\ input'[r] \in Inputs
          BY <1>1, <1>2, <2>2, <4>1
        <5>2. Attach(input[r])'
          BY <5>1 DEF Attach
        <5> QED
          BY <3>1, <4>1, <5>1, <5>2 DEF Attempts
      <4>2. CASE pc'[r] = "rejected"
        BY <1>2, <3>1, <4>2 DEF Attempts
      <4> QED
        BY <2>2, <4>1, <4>2
    <3>4. Renews(r)' /\ Refused(r)'
      BY <1>3, <2>1, <2>2, <3>1 DEF Renews, Refused
    <3> QED
      BY <3>2, <3>3, <3>4 DEF CallInv
  <2>3. CASE ~Attach(in) /\ Sent(r, NoToken) /\ pc'[r] = "wire"
    <3>1. sent'[r] = Append(sent[r], [token |-> NoToken, intact |-> ~spent[r]])
      BY <2>3 DEF Sent
    <3>2. sent[r] \in Seq(Sends) /\ Len(sent[r]) = 0
      BY <1>2
    <3>3. /\ Len(sent'[r]) = Len(sent[r]) + 1 /\ sent'[r][Len(sent[r]) + 1].token = NoToken
          /\ DOMAIN sent'[r] = 1 .. Len(sent[r]) + 1
      BY <3>1, <3>2, OneMore
    <3>4. Len(sent'[r]) = 1 /\ sent'[r][1].token = NoToken /\ DOMAIN sent'[r] = 1 .. 1
      BY <3>2, <3>3
    <3>5. Attempts(r)'
      BY <1>2, <1>3, <2>3, <3>4 DEF Attempts
    <3>6. Carries(r)'
      BY <1>2, <2>3, <3>4 DEF Carries, Attach
    <3>7. Renews(r)' /\ Refused(r)'
      BY <1>2, <1>3, <2>1, <2>3, <3>4 DEF Renews, Refused, Attach
    <3> QED
      BY <3>5, <3>6, <3>7 DEF CallInv
  <2> QED
    BY <1>1, <2>2, <2>3, StartSendEffect DEF IInv, Sent
<1> QED
  BY <1>4, <1>5, <1>6, OneCallMoves

\* A token that arrives is sent along.
LEMMA TokenArrivesInv ==
    ASSUME IInv, NEW r \in Requests, TokenArrives(r)
    PROVE  IInv'
<1>1. /\ pc[r] = "token" /\ input[r] \in Inputs /\ Attach(input[r])
      /\ Len(sent[r]) = IF relogin[r] = 0 THEN 0 ELSE 1
  BY DEF TokenArrives, IInv, CallInv, Attempts
<1>2. held \in Nat /\ valid \in Nat /\ held <= valid /\ sent[r] \in Seq(Sends) /\ relogin[r] \in Nat
  BY DEF IInv, TypeOK, SessionOrder
<1>3. CallTypes' /\ Sent(r, held) /\ \A q \in Requests \ {r} : Same(q)
  BY <1>1, <1>2, SendEffect DEF TokenArrives, IInv, Same
<1>4. TypeOK' /\ SessionOrder' /\ LaterTokens
  BY <1>2, <1>3 DEF TokenArrives, IInv, TypeOK, CallTypes, SessionOrder, LaterTokens
<1>5. UNCHANGED <<session, held, valid, input, status, relogin>>
  BY DEF TokenArrives
<1>6. CallInv(r)'
  <2>1. CASE pc'[r] = "rejected" /\ sent'[r] = sent[r]
    BY <1>1, <1>2, <1>5, <2>1 DEF IInv, CallInv, Attempts, Carries, Renews, Refused, Attach
  <2>2. CASE /\ pc'[r] = "wire"
             /\ sent'[r] = Append(sent[r], [token |-> held, intact |-> ~spent[r]])
    <3>2. /\ Len(sent'[r]) = Len(sent[r]) + 1 /\ sent'[r][Len(sent[r]) + 1].token = held
          /\ DOMAIN sent'[r] = 1 .. Len(sent[r]) + 1
          /\ \A i \in 1 .. Len(sent[r]) : sent'[r][i] = sent[r][i]
      BY <1>2, <2>2, OneMore
    <3>3. Attempts(r)'
      BY <1>1, <1>2, <1>5, <2>2, <3>2 DEF Attempts, Attach, IInv, CallInv
    <3>4. Carries(r)'
      BY <1>1, <1>2, <1>5, <3>2, TokenAssumption DEF Carries, Attach, IInv, CallInv
    <3>5. Renews(r)'
      BY <1>1, <1>2, <1>5, <3>2 DEF Renews, Attach, IInv, CallInv
    <3>6. Refused(r)'
      BY <1>1, <1>2, <1>5, <2>2, <3>2 DEF Refused, Attach, IInv, CallInv
    <3> QED
      BY <3>3, <3>4, <3>5, <3>6 DEF CallInv
  <2> QED
    BY <1>3, <2>1, <2>2 DEF Sent
<1> QED
  BY <1>3, <1>4, <1>6, OneCallMoves

\* A rejection ends the call and changes nothing else.
LEMMA RejectsInv ==
    ASSUME IInv, NEW r \in Requests, Rejects(r)
    PROVE  IInv'
<1>1. /\ pc[r] # "idle" /\ pc' = [pc EXCEPT ![r] = "rejected"]
      /\ UNCHANGED <<session, held, valid, input, spent, sent, status, relogin>>
  BY DEF Rejects
<1>2. TypeOK' /\ SessionOrder' /\ LaterTokens /\ \A q \in Requests \ {r} : Same(q)
  BY <1>1 DEF IInv, TypeOK, CallStates, SessionOrder, LaterTokens, Same
<1>3. CallInv(r)'
  <2>1. pc'[r] = "rejected"
    BY <1>1 DEF IInv, TypeOK
  <2>2. Carries(r)' /\ Renews(r)'
    BY <1>1 DEF IInv, CallInv, Carries, Renews, Attach
  <2>3. Attempts(r)'
    BY <1>1, <2>1 DEF IInv, CallInv, Attempts
  <2>4. Refused(r)'
    BY <1>1, <2>1 DEF IInv, CallInv, Refused, Attach
  <2> QED
    BY <2>2, <2>3, <2>4 DEF CallInv
<1> QED
  BY <1>2, <1>3, OneCallMoves

\* What an answer that refuses a token says of it.
LEMMA RefusedToken ==
    ASSUME IInv, NEW r \in Requests, Answered(r, 401), Attach(input[r]),
           input[r].target \notin StrictTargets
    PROVE  LET n == Len(sent[r]) IN n \in {1, 2} /\ sent[r][n].token \in Nat /\ sent[r][n].token < valid
<1>1. sent[r] \in Seq(Sends) /\ valid \in Nat
  BY DEF IInv, TypeOK
<1>2. Len(sent[r]) \in {1, 2}
  BY DEF Answered, IInv, CallInv, Attempts
<1>3. Len(sent[r]) \in DOMAIN sent[r]
  <2>1. DOMAIN sent[r] = 1 .. Len(sent[r])
    BY <1>1
  <2>2. 1 \in 1 .. 1 /\ 2 \in 1 .. 2
    OBVIOUS
  <2> QED
    BY <1>2, <2>1, <2>2
<1>4. sent[r][Len(sent[r])].token \in Nat /\ sent[r][Len(sent[r])].token <= valid
  BY <1>1, <1>3, SentTokens DEF IInv, CallInv, Carries
<1>5. sent[r][Len(sent[r])].token # valid
  BY <1>4, TokenAssumption DEF Answered, Answers
<1> QED
  BY <1>1, <1>2, <1>4, <1>5

\* A response the caller gets is no first 401.
LEMMA PassesInv ==
    ASSUME IInv, NEW r \in Requests, Passes(r)
    PROVE  IInv'
<1>1. PICK s \in {200, 401} : Answered(r, s) /\ (s # 401 \/ Len(sent[r]) > 1)
                              /\ pc' = [pc EXCEPT ![r] = "returned"]
  BY DEF Passes
<1>2. /\ pc[r] = "wire" /\ status' = [status EXCEPT ![r] = s]
      /\ UNCHANGED <<session, held, valid, input, spent, sent, relogin>>
  BY <1>1 DEF Answered
<1>3. TypeOK' /\ SessionOrder' /\ LaterTokens /\ \A q \in Requests \ {r} : Same(q)
  BY <1>1, <1>2 DEF IInv, TypeOK, CallStates, SessionOrder, LaterTokens, Same
<1>4. CallInv(r)'
  <2>1. pc'[r] = "returned" /\ status'[r] = s
    BY <1>1, <1>2 DEF IInv, TypeOK
  <2>2. Carries(r)' /\ Renews(r)'
    BY <1>2 DEF IInv, CallInv, Carries, Renews, Attach
  <2>3. Attempts(r)'
    <3> DEFINE n == Len(sent[r])
    <3>1. (relogin[r] = 0 => n = 1) /\ (relogin[r] # 0 => n = 2) /\ input[r] \in Inputs
      BY <1>2 DEF IInv, CallInv, Attempts
    <3>2. Len(sent'[r]) = n /\ relogin'[r] = relogin[r] /\ input'[r] = input[r]
      BY <1>2
    <3> HIDE DEF n
    <3> QED
      BY <2>1, <3>1, <3>2 DEF Attempts
  <2>4. ASSUME s = 401, Attach(input[r]), input[r].target \notin StrictTargets
        PROVE  Len(sent[r]) = 2 /\ relogin[r] < valid
    <3>1. Len(sent[r]) = 2 /\ sent[r][2].token \in Nat /\ sent[r][2].token < valid
      BY <1>1, <2>4, RefusedToken
    <3>2. sent[r][2].token >= relogin[r]
      BY <2>4, <3>1 DEF IInv, CallInv, Renews
    <3>3. relogin[r] \in Nat /\ valid \in Nat
      BY DEF IInv, TypeOK
    <3> QED
      BY <3>1, <3>2, <3>3
  <2>5. Refused(r)'
    BY <1>2, <2>1, <2>4 DEF IInv, CallInv, Refused, Attach
  <2> QED
    BY <2>2, <2>3, <2>5 DEF CallInv
<1> QED
  BY <1>3, <1>4, OneCallMoves

\* A first 401 sends the call to the login, with a token that is no longer valid.
LEMMA UnauthorizedInv ==
    ASSUME IInv, NEW r \in Requests, Unauthorized(r)
    PROVE  IInv'
<1>1. /\ pc[r] = "wire" /\ Len(sent[r]) = 1 /\ status' = [status EXCEPT ![r] = 401]
      /\ pc' = [pc EXCEPT ![r] = "login"] /\ Answered(r, 401)
      /\ UNCHANGED <<session, held, valid, input, spent, sent, relogin>>
  BY DEF Unauthorized, Answered
<1>2. TypeOK' /\ SessionOrder' /\ LaterTokens /\ \A q \in Requests \ {r} : Same(q)
  BY <1>1 DEF IInv, TypeOK, CallStates, SessionOrder, LaterTokens, Same
<1>3. CallInv(r)'
  <2>1. pc'[r] = "login"
    BY <1>1 DEF IInv, TypeOK
  <2>2. relogin[r] = 0
    <3>1. relogin[r] # 0 => Len(sent[r]) = 2
      BY <1>1 DEF IInv, CallInv, Attempts
    <3>2. Len(sent[r]) # 2
      BY <1>1
    <3> QED
      BY <3>1, <3>2
  <2>3. Carries(r)' /\ Renews(r)'
    BY <1>1 DEF IInv, CallInv, Carries, Renews, Attach
  <2>4. Attempts(r)'
    BY <1>1, <2>1, <2>2 DEF IInv, CallInv, Attempts
  <2>5. ASSUME Attach(input[r]), input[r].target \notin StrictTargets
        PROVE  sent[r][1].token < valid
    BY <1>1, <2>5, RefusedToken
  <2>6. Refused(r)'
    BY <1>1, <2>1, <2>2, <2>5 DEF Refused, Attach
  <2> QED
    BY <2>3, <2>4, <2>6 DEF CallInv
<1> QED
  BY <1>2, <1>3, OneCallMoves

\* A call whose login is back retries, with a token no older than the login's.
LEMMA LoggedInInv ==
    ASSUME IInv, NEW r \in Requests, LoggedIn(r)
    PROVE  IInv'
<1>1. /\ pc[r] = "login" /\ input[r] \in Inputs /\ Len(sent[r]) = 1
  BY DEF LoggedIn, IInv, CallInv, Attempts
<1>2. held \in Nat /\ valid \in Nat /\ held >= 1 /\ held <= valid
  BY DEF IInv, TypeOK, SessionOrder
<1>3. /\ held' = (IF session = "inPlace" THEN valid ELSE held)
      /\ relogin' = [relogin EXCEPT ![r] = held'] /\ StartSend(r, input[r])
      /\ UNCHANGED <<session, valid, input, status>>
  BY DEF LoggedIn
<1>4. held' \in Nat /\ held' >= held /\ held' >= 1 /\ held' <= valid
  BY <1>2, <1>3
<1>5. /\ CallTypes'
      /\ \/ Attach(input[r]) /\ pc'[r] = "token" /\ sent'[r] = sent[r]
         \/ ~Attach(input[r]) /\ Sent(r, NoToken)
      /\ \A q \in Requests \ {r} : pc'[q] = pc[q] /\ sent'[q] = sent[q]
  BY <1>1, <1>3, StartSendEffect DEF IInv
<1>6. relogin' \in [Requests -> Nat] /\ relogin'[r] = held'
      /\ \A q \in Requests \ {r} : relogin'[q] = relogin[q]
  BY <1>3, <1>4 DEF IInv, TypeOK
<1>7. TypeOK' /\ SessionOrder' /\ LaterTokens
  BY <1>2, <1>3, <1>4, <1>5, <1>6 DEF IInv, TypeOK, CallTypes, SessionOrder, LaterTokens
<1>8. \A q \in Requests \ {r} : Same(q)
  BY <1>3, <1>5, <1>6 DEF Same
<1>9. CallInv(r)'
  <2>1. relogin'[r] # 0 /\ relogin'[r] <= held'
    BY <1>4, <1>6
  <2>2. CASE Attach(input[r]) /\ pc'[r] = "token" /\ sent'[r] = sent[r]
    <3>1. Attempts(r)'
      <4>1. Len(sent'[r]) = 1 /\ input'[r] = input[r] /\ pc'[r] = "token"
        BY <1>1, <1>3, <2>2
      <4>2. Attach(input[r])'
        BY <2>2, <4>1 DEF Attach
      <4> QED
        BY <1>1, <2>1, <4>1, <4>2 DEF Attempts
    <3>2. Carries(r)'
      BY <1>3, <2>2 DEF IInv, CallInv, Carries, Attach
    <3>3. Renews(r)'
      BY <1>1, <2>1, <2>2 DEF Renews
    <3>4. session = "inPlace" /\ input[r].target \notin StrictTargets => sent[r][1].token < valid
      BY <1>1, <2>2 DEF IInv, CallInv, Refused
    <3>5. Refused(r)'
      BY <1>3, <1>6, <2>2, <3>4 DEF Refused, Attach
    <3> QED
      BY <3>1, <3>2, <3>3, <3>5 DEF CallInv
  <2>3. CASE ~Attach(input[r]) /\ pc'[r] = "rejected" /\ sent'[r] = sent[r]
    <3>1. Attempts(r)'
      <4>1. Len(sent'[r]) = 1 /\ input'[r] = input[r] /\ pc'[r] = "rejected"
        BY <1>1, <1>3, <2>3
      <4> QED
        BY <1>1, <2>1, <4>1 DEF Attempts
    <3>2. Carries(r)'
      BY <1>3, <2>3 DEF IInv, CallInv, Carries, Attach
    <3>3. Renews(r)' /\ Refused(r)'
      BY <1>1, <1>3, <2>1, <2>3 DEF Renews, Refused, Attach
    <3> QED
      BY <3>1, <3>2, <3>3 DEF CallInv
  <2>4. CASE /\ ~Attach(input[r]) /\ pc'[r] = "wire"
             /\ sent'[r] = Append(sent[r], [token |-> NoToken, intact |-> ~spent[r]])
    <3>1. sent[r] \in Seq(Sends)
      BY DEF IInv, TypeOK
    <3>2. /\ Len(sent'[r]) = Len(sent[r]) + 1 /\ sent'[r][Len(sent[r]) + 1].token = NoToken
          /\ DOMAIN sent'[r] = 1 .. Len(sent[r]) + 1
          /\ \A i \in 1 .. Len(sent[r]) : sent'[r][i] = sent[r][i]
      BY <2>4, <3>1, OneMore
    <3>3. Len(sent'[r]) = 2 /\ sent'[r][2].token = NoToken /\ DOMAIN sent'[r] = 1 .. 2
          /\ sent'[r][1] = sent[r][1] /\ DOMAIN sent[r] = 1 .. 1
      BY <1>1, <3>1, <3>2
    <3>4. Attempts(r)'
      BY <1>1, <1>3, <2>1, <2>4, <3>3 DEF Attempts
    <3>5. Carries(r)'
      <4>1. sent[r][1].token = NoToken
        BY <2>4, <3>3 DEF IInv, CallInv, Carries
      <4>2. \A i \in DOMAIN sent'[r] : i = 1 \/ i = 2
        BY <3>3
      <4> QED
        BY <1>3, <2>4, <3>3, <4>1, <4>2 DEF Carries, Attach
    <3>6. Renews(r)' /\ Refused(r)'
      BY <1>3, <2>1, <2>4 DEF Renews, Refused, Attach
    <3> QED
      BY <3>4, <3>5, <3>6 DEF CallInv
  <2> QED
    BY <1>5, <2>2, <2>3, <2>4 DEF Sent
<1> QED
  BY <1>7, <1>8, <1>9, OneCallMoves

-----------------------------------------------------------------------------
(* The steps of the page and the session *)

\* A page that is left loses the calls it waited for.
LEMMA PageLeavesInv ==
    ASSUME IInv, PageLeaves
    PROVE  IInv'
<1>1. /\ UNCHANGED <<session, held, valid, input, spent, sent, status, relogin>>
      /\ pc' \in [Requests -> CallStates]
      /\ \A r \in Requests : pc'[r] # pc[r] => pc'[r] = "lost" /\ pc[r] # "idle"
  BY DEF PageLeaves, IInv, TypeOK, CallStates
<1>2. TypeOK' /\ SessionOrder'
  BY <1>1 DEF IInv, TypeOK, SessionOrder
<1>3. ASSUME NEW r \in Requests PROVE CallInv(r)'
  <2>1. Carries(r)' /\ Renews(r)'
    BY <1>1 DEF IInv, CallInv, Carries, Renews, Attach
  <2>2. Attempts(r)'
    BY <1>1 DEF IInv, CallInv, Attempts, Attach
  <2>3. Refused(r)'
    BY <1>1 DEF IInv, CallInv, Refused, Attach
  <2> QED
    BY <2>1, <2>2, <2>3 DEF CallInv
<1> QED
  BY <1>2, <1>3 DEF IInv

\* What happens around the calls gives them newer tokens at most.
LEMMA SurroundingsInv ==
    ASSUME IInv, \/ \E r \in Requests : CallerReads(r)
                 \/ Revoke
                 \/ Renew
    PROVE  IInv'
<1>1. held \in Nat /\ valid \in Nat /\ held >= 1 /\ held <= valid
  BY DEF IInv, TypeOK, SessionOrder
<1>2. UNCHANGED <<session, pc, input, sent, status, relogin>>
  BY DEF CallerReads, Revoke, Renew
<1>3. /\ held' \in Nat /\ valid' \in Nat /\ held' >= held /\ valid' >= valid
      /\ held' >= 1 /\ held' <= valid'
  BY <1>1 DEF CallerReads, Revoke, Renew
<1>4. spent' \in [Requests -> BOOLEAN]
  <2>1. CASE \E r \in Requests : CallerReads(r)
    BY <2>1 DEF IInv, TypeOK, CallerReads
  <2>2. CASE Revoke \/ Renew
    BY <2>2 DEF IInv, TypeOK, Revoke, Renew
  <2> QED
    BY <2>1, <2>2
<1>5. TypeOK' /\ SessionOrder' /\ LaterTokens /\ \A q \in Requests : Same(q)
  BY <1>2, <1>3, <1>4 DEF IInv, TypeOK, SessionOrder, LaterTokens, Same
<1> QED
  BY <1>5, CallFrame DEF IInv

-----------------------------------------------------------------------------
(* Theorems *)

\* The invariant holds: sends and logins are counted, only the target decides whether
\* a call carries tokens, and a token that was refused stays refused.
THEOREM Invariant == Spec => []IInv
<1>1. IInv /\ [Next]_vars => IInv'
  <2> SUFFICES ASSUME IInv, [Next]_vars PROVE IInv'
    OBVIOUS
  <2>1. ASSUME NEW r \in Requests, CallStep(r) PROVE IInv'
    BY <2>1, CallInvStep, TokenArrivesInv, RejectsInv, PassesInv, UnauthorizedInv, LoggedInInv
       DEF CallStep
  <2>2. CASE PageLeaves
    BY <2>2, PageLeavesInv
  <2>3. CASE (\E r \in Requests : CallerReads(r)) \/ Revoke \/ Renew
    BY <2>3, SurroundingsInv
  <2>4. CASE UNCHANGED vars
    BY <2>4 DEF vars, IInv, TypeOK, SessionOrder, CallInv, Attempts, Carries, Renews, Refused,
                Attach
  <2> QED
    BY <2>1, <2>2, <2>3, <2>4 DEF Next
<1> QED
  BY InitInv, <1>1, PTL DEF Spec

\* Every variable stays in its type.
THEOREM TypeCorrect == Spec => []TypeOK
<1>1. IInv => TypeOK
  BY DEF IInv
<1> QED
  BY <1>1, Invariant, PTL

\* However many calls overlap, each makes one retry at most, after its own login.
THEOREM RetriesOnceAfterLogin == Spec => []OneRetryAfterLogin
<1>1. IInv => OneRetryAfterLogin
  BY DEF IInv, CallInv, Attempts, OneRetryAfterLogin
<1> QED
  BY <1>1, Invariant, PTL

\* No retry carries a token older than the one its login brought.
THEOREM RetriesWithNewToken == Spec => []RetryTokenIsNew
<1>1. IInv => RetryTokenIsNew
  <2> SUFFICES ASSUME IInv, NEW r \in Requests, Len(sent[r]) = 2, sent[r][1].token # NoToken
               PROVE  sent[r][2].token # NoToken /\ sent[r][2].token >= relogin[r]
    BY DEF RetryTokenIsNew
  <2>1. sent[r] \in Seq(Sends)
    BY DEF IInv, TypeOK
  <2>2. 1 \in DOMAIN sent[r] /\ 2 \in DOMAIN sent[r]
    BY <2>1
  <2>3. Attach(input[r])
    BY <2>2 DEF IInv, CallInv, Carries
  <2> QED
    BY <2>2, <2>3 DEF IInv, CallInv, Carries, Renews
<1> QED
  BY <1>1, Invariant, PTL

\* With a session that signs in on the page, only a server that refuses every token or
\* a token revoked again after the login gives the caller a 401.
THEOREM OnlyRevokedAgainIsSeen == Spec => []OnlyRevokedAgain
<1>1. IInv => OnlyRevokedAgain
  <2> SUFFICES ASSUME IInv, session = "inPlace", NEW r \in Requests, pc[r] = "returned",
                      status[r] = 401, sent[r][1].token # NoToken,
                      input[r].target \notin StrictTargets
               PROVE  valid > relogin[r] /\ relogin[r] > sent[r][1].token
    BY DEF OnlyRevokedAgain
  <2>1. Attach(input[r]) /\ sent[r][1].token \in Nat
    <3>1. sent[r] \in Seq(Sends) /\ Len(sent[r]) >= 1
      BY DEF IInv, TypeOK, CallInv, Attempts
    <3>2. 1 \in DOMAIN sent[r]
      BY <3>1
    <3> QED
      BY <3>1, <3>2, SentTokens DEF IInv, CallInv, Carries
  <2>2. Len(sent[r]) = 2 /\ relogin[r] < valid
    BY <2>1 DEF IInv, CallInv, Refused
  <2>3. relogin[r] # 0
    BY <2>2 DEF IInv, CallInv, Attempts
  <2>4. sent[r][1].token < relogin[r]
    BY <2>1, <2>3 DEF IInv, CallInv, Refused
  <2>5. relogin[r] \in Nat /\ valid \in Nat
    BY DEF IInv, TypeOK
  <2> QED
    BY <2>1, <2>2, <2>4, <2>5
<1> QED
  BY <1>1, Invariant, PTL

\* A token goes to the page's own origin and the allowlist, and nowhere else, whatever
\* the page's origin and the list are.
THEOREM TokenGoesHome == Spec => []TokenStaysHome
<1>1. IInv => TokenStaysHome
  <2> SUFFICES ASSUME IInv, NEW r \in Requests, NEW i \in DOMAIN sent[r],
                      sent[r][i].token # NoToken
               PROVE  /\ input[r].target # Unparseable
                      /\ OriginOf(input[r].target) \in ({PageOrigin} \ {NoOrigin}) \cup AllowedOrigins
    BY DEF TokenStaysHome
  <2>1. Attach(input[r])
    BY DEF IInv, CallInv, Carries
  <2>2. OriginOf(Unparseable) = NoOrigin
    BY OriginAssumption DEF OriginOf
  <2> QED
    BY <2>1, <2>2 DEF Attach, MayAttachToken
<1> QED
  BY <1>1, Invariant, PTL

=============================================================================
