------------------------ MODULE FmcTokenManagerProofs ------------------------
(***************************************************************************)
(* Proofs about FmcTokenManager, for any number of concurrent requests and *)
(* any refresh limit: type correctness, the single flight, the credentials *)
(* latch, that a pair FMC has refused is not presented again, that FMC's   *)
(* refreshes are not overdrawn and that no login is needless.              *)
(***************************************************************************)
EXTENDS FmcTokenManager, TLAPS

(***************************************************************************)
(* The inductive invariant.  Each of the properties needs to know that the *)
(* promise in flight is the only auth POST there is; with it the latch,    *)
(* the count of refreshes and the refused pairs are the business of one    *)
(* request at a time.                                                      *)
(***************************************************************************)

\* The auth POST under way, if any, is that of the promise in flight.
SingleOp == \A r \in Requests : op[r].kind # "none" <=> inFlight = r

\* A POST that does not exist has no answer.
QuietNoOp == \A r \in Requests : op[r].kind = "none" => op[r] = NoOp

\* A refresh under way leaves room for its success to be counted.
RefreshFits == \A r \in Requests : op[r].kind = "refresh" => refreshCount < MaxRefreshes

\* A request about to send a GET has sent at most one.
OneRetry ==
  \A r \in Requests :
    /\ req[r].pc = "idle" => req[r].tries = 0
    /\ req[r].pc \in {"auth", "ready"} => req[r].tries < 2

\* Once the credentials are refused, no auth POST is under way.
LatchedIsQuiet == latched => \A r \in Requests : op[r].kind = "none"

\* The one refusal there may be has latched.
RefusalLatched == rejections = 0 \/ (rejections = 1 /\ latched)

\* Pairs are numbered as FMC issues them, and no pair in use is a dead one.
Numbered ==
  /\ refresh <= issued
  /\ \A p \in dead : p <= issued
  /\ \A r \in Requests :
       /\ op[r].granted <= issued
       /\ op[r].kind = "refresh" => op[r].pair \in Tokens /\ op[r].pair <= issued

LivePairs ==
  /\ refresh \notin dead
  /\ \A r \in Requests :
       /\ op[r].granted \notin dead
       /\ op[r].kind = "refresh" => op[r].pair \notin dead

IInv ==
  /\ TypeOK
  /\ SingleOp
  /\ QuietNoOp
  /\ RefreshFits
  /\ OneRetry
  /\ LatchedIsQuiet
  /\ RefusalLatched
  /\ Numbered
  /\ LivePairs

LEMMA InitIInv == Init => IInv
<1> SUFFICES ASSUME Init PROVE IInv
  OBVIOUS
<1> USE TokenAssumption
<1>1. NoOp \in Op /\ NewRequest \in Request
  BY DEF NoOp, Op, NewRequest, Request, None
<1>2. TypeOK
  <2>1. op \in [Requests -> Op] /\ req \in [Requests -> Request]
    BY <1>1 DEF Init
  <2>2. due \in BOOLEAN /\ latched \in BOOLEAN /\ closed \in BOOLEAN /\ goodPassword \in BOOLEAN
    BY DEF Init
  <2>3. refreshCount \in 0..MaxRefreshes /\ served \in Nat /\ rejections \in Nat
    BY DEF Init
  <2> QED BY <2>1, <2>2, <2>3 DEF Init, TypeOK, None
<1>3. SingleOp /\ QuietNoOp /\ RefreshFits /\ LatchedIsQuiet /\ RefusalLatched
  BY DEF Init, NoOp, SingleOp, QuietNoOp, RefreshFits, LatchedIsQuiet, RefusalLatched
<1>4. OneRetry
  BY DEF Init, OneRetry, NewRequest
<1>5. \A r \in Requests : op[r].granted = 0 /\ op[r].kind = "none"
  BY DEF Init, NoOp, None
<1>6. Numbered /\ LivePairs
  BY <1>5 DEF Init, Numbered, LivePairs, None
<1> QED BY <1>2, <1>3, <1>4, <1>6 DEF IInv

-----------------------------------------------------------------------------
(* What the steps have in common *)

\* A step of a request that touches nothing but itself.
LEMMA RequestSteps ==
  ASSUME IInv, NEW r \in Requests, NEW x \in Request,
         req' = [req EXCEPT ![r] = x],
         x.pc = "idle" => x.tries = 0,
         x.pc \in {"auth", "ready"} => x.tries < 2,
         UNCHANGED <<mgrVars, inFlight, closed, op, fmcVars, history>>
  PROVE  IInv'
<1> USE DEF IInv, mgrVars, fmcVars, history
<1>1. TypeOK' BY DEF TypeOK
<1>2. OneRetry' BY DEF OneRetry, TypeOK
<1>3. SingleOp' /\ QuietNoOp' /\ RefreshFits' /\ LatchedIsQuiet' /\ RefusalLatched'
  BY DEF SingleOp, QuietNoOp, RefreshFits, LatchedIsQuiet, RefusalLatched
<1>4. Numbered' /\ LivePairs' BY DEF Numbered, LivePairs
<1> QED BY <1>1, <1>2, <1>3, <1>4

\* A request sends an auth POST while none is under way.
LEMMA PostSteps ==
  ASSUME IInv, NEW r \in Requests, NEW kind \in {"login", "refresh"},
         NEW pair \in Tokens \cup {None},
         ~Refuses, inFlight = Nobody,
         kind = "refresh" =>
           refreshCount < MaxRefreshes /\ pair \in Tokens /\ pair <= issued /\ pair \notin dead,
         req[r].tries < 2,
         Post(r, kind, pair),
         \/ UNCHANGED <<access, refresh>>
         \/ access' = None /\ refresh' = None,
         UNCHANGED <<refreshCount, due, latched, closed, fmcVars, history>>
  PROVE  IInv'
<1> DEFINE o == [NoOp EXCEPT !.kind = kind, !.pair = pair]
<1>1. o \in Op /\ o.kind = kind /\ o.pair = pair /\ o.granted = None
  BY DEF NoOp, Op, None
<1> HIDE DEF o
<1>2. op' = [op EXCEPT ![r] = o] /\ inFlight' = r
  BY DEF Post, o
<1>3. op \in [Requests -> Op] BY DEF IInv, TypeOK
<1>4. \A q \in Requests : op[q].kind = "none"
  BY TokenAssumption DEF IInv, SingleOp
<1>5. op'[r] = o /\ \A q \in Requests : q # r => op'[q] = op[q]
  BY <1>2, <1>3
<1> USE DEF IInv, fmcVars, history
<1>6. TypeOK'
  <2>1. op' \in [Requests -> Op] BY <1>1, <1>2, <1>3
  <2>2. [req[r] EXCEPT !.pc = "auth", !.on = r] \in Request
    <3>1. req[r] \in Request BY DEF TypeOK
    <3> QED BY <3>1 DEF Request
  <2>3. req \in [Requests -> Request] BY DEF TypeOK
  <2>4. req' = [req EXCEPT ![r] = [req[r] EXCEPT !.pc = "auth", !.on = r]]
    BY <2>3 DEF Post
  <2> HIDE DEF Request
  <2>5. req' \in [Requests -> Request]
    BY <2>2, <2>3, <2>4
  <2> QED BY <2>1, <2>5, <1>2 DEF TypeOK, None
<1>7. SingleOp' /\ QuietNoOp'
  BY <1>1, <1>2, <1>4, <1>5 DEF QuietNoOp, SingleOp
<1>8. RefreshFits'
  BY <1>1, <1>4, <1>5 DEF RefreshFits
<1>9. OneRetry'
  BY DEF OneRetry, Post, TypeOK, Request
<1>10. LatchedIsQuiet' /\ RefusalLatched'
  BY DEF Refuses, LatchedIsQuiet, RefusalLatched
<1>11. Numbered'
  BY <1>1, <1>4, <1>5, TokenAssumption DEF Numbered, TypeOK, None, Tokens
<1>12. LivePairs'
  BY <1>1, <1>4, <1>5 DEF LivePairs, TypeOK, None, Tokens
<1> QED BY <1>6, <1>7, <1>8, <1>9, <1>10, <1>11, <1>12

\* The promise r started settles: no auth POST is left.
LEMMA SettleFacts ==
  ASSUME IInv, NEW r \in Requests, NEW token \in Tokens \cup {None},
         op[r].kind # "none", Settle(r, token)
  PROVE  /\ inFlight' = Nobody
         /\ op' \in [Requests -> Op]
         /\ \A q \in Requests : op'[q] = NoOp
         /\ req' \in [Requests -> Request]
         /\ OneRetry'
<1> USE TokenAssumption DEF IInv, TypeOK
<1>1. inFlight = r BY DEF SingleOp
<1>2. op' = [op EXCEPT ![r] = NoOp] BY DEF Settle
<1>3. \A q \in Requests : op'[q] = NoOp
  BY <1>1, <1>2 DEF SingleOp, QuietNoOp
<1>4. NoOp \in Op BY DEF NoOp, Op, None
<1>5. \A q \in Requests : req'[q] \in Request
  <2>1. Ended("failed") \in Request BY DEF Ended, NewRequest, Request, None
  <2> QED BY <2>1 DEF Settle, Request
<1>6. req' \in [Requests -> Request]
  BY <1>5 DEF Settle
<1>7. OneRetry'
  BY DEF OneRetry, Settle, Ended, NewRequest, Request
<1> QED BY <1>1, <1>2, <1>3, <1>4, <1>6, <1>7 DEF Settle

-----------------------------------------------------------------------------
(* The manager's steps *)

LEMMA GetTokenSteps ==
  ASSUME IInv, NEW r \in Requests, GetToken(r)
  PROVE  IInv'
<1> USE DEF GetToken
<1>1. req[r] \in Request /\ req[r].tries = 0
  BY DEF IInv, TypeOK, OneRetry
<1>2. CASE Fails(r)
  <2> DEFINE x == Ended("failed")
  <2>1. x \in Request /\ x.pc = "failed" BY DEF Ended, NewRequest, Request, None
  <2>2. req' = [req EXCEPT ![r] = x] BY <1>2 DEF Fails
  <2>3. UNCHANGED <<mgrVars, inFlight, closed, op, fmcVars, history>> BY <1>2 DEF Fails
  <2> HIDE DEF x
  <2> QED BY <2>1, <2>2, <2>3, RequestSteps
<1>3. CASE Join(r)
  <2> DEFINE x == [req[r] EXCEPT !.pc = "auth", !.on = inFlight]
  <2>1. x \in Request /\ x.pc = "auth" /\ x.tries = 0
    BY <1>1 DEF IInv, TypeOK, Request
  <2>2. req' = [req EXCEPT ![r] = x] BY <1>3 DEF Join
  <2>3. UNCHANGED <<mgrVars, inFlight, closed, op, fmcVars, history>> BY <1>3 DEF Join
  <2> HIDE DEF x
  <2>4. x.pc # "idle" /\ x.tries < 2 BY <2>1
  <2> QED BY <2>1, <2>2, <2>3, <2>4, RequestSteps
<1>4. CASE Gets(r, access)
  <2> DEFINE x == [req[r] EXCEPT !.pc = "ready", !.token = access]
  <2>1. x \in Request /\ x.pc = "ready" /\ x.tries = 0
    BY <1>1 DEF IInv, TypeOK, Request
  <2>2. req' = [req EXCEPT ![r] = x] BY <1>4 DEF Gets
  <2>3. UNCHANGED <<mgrVars, inFlight, closed, op, fmcVars, history>> BY <1>4 DEF Gets
  <2> HIDE DEF x
  <2>4. x.pc # "idle" /\ x.tries < 2 BY <2>1
  <2> QED BY <2>1, <2>2, <2>3, <2>4, RequestSteps
<1>5. CASE ~Refuses /\ inFlight = Nobody /\ Post(r, "login", None) /\ UNCHANGED mgrVars
  BY <1>1, <1>5, PostSteps DEF mgrVars
<1>6. CASE ~Refuses /\ inFlight = Nobody /\ RefreshAllowed /\ refresh # None
           /\ Post(r, "refresh", refresh) /\ UNCHANGED mgrVars
  <2>1. refresh \in Tokens /\ refresh <= issued /\ refresh \notin dead
    BY <1>6 DEF IInv, TypeOK, Numbered, LivePairs
  <2> QED BY <1>1, <1>6, <2>1, PostSteps DEF mgrVars, RefreshAllowed
<1> QED BY <1>2, <1>3, <1>4, <1>5, <1>6 DEF SingleFlight

LEMMA GetRefusedSteps ==
  ASSUME IInv, NEW r \in Requests, GetRefused(r)
  PROVE  IInv'
<1> USE DEF GetRefused
<1>1. req[r] \in Request /\ req[r].tries = 1 /\ req[r].token \in Tokens \cup {None}
  BY DEF IInv, TypeOK, Request
<1>2. CASE Fails(r)
  <2> DEFINE x == Ended("failed")
  <2>1. x \in Request /\ x.pc = "failed" BY DEF Ended, NewRequest, Request, None
  <2>2. req' = [req EXCEPT ![r] = x] BY <1>2 DEF Fails
  <2>3. UNCHANGED <<mgrVars, inFlight, closed, op, fmcVars, history>> BY <1>2 DEF Fails
  <2> HIDE DEF x
  <2> QED BY <2>1, <2>2, <2>3, RequestSteps
<1>3. CASE Join(r)
  <2> DEFINE x == [req[r] EXCEPT !.pc = "auth", !.on = inFlight]
  <2>1. x \in Request /\ x.pc = "auth" /\ x.tries = 1
    BY <1>1 DEF IInv, TypeOK, Request
  <2>2. req' = [req EXCEPT ![r] = x] BY <1>3 DEF Join
  <2>3. UNCHANGED <<mgrVars, inFlight, closed, op, fmcVars, history>> BY <1>3 DEF Join
  <2> HIDE DEF x
  <2>4. x.pc # "idle" /\ x.tries < 2 BY <2>1
  <2> QED BY <2>1, <2>2, <2>3, <2>4, RequestSteps
<1>4. CASE Gets(r, access)
  <2> DEFINE x == [req[r] EXCEPT !.pc = "ready", !.token = access]
  <2>1. x \in Request /\ x.pc = "ready" /\ x.tries = 1
    BY <1>1 DEF IInv, TypeOK, Request
  <2>2. req' = [req EXCEPT ![r] = x] BY <1>4 DEF Gets
  <2>3. UNCHANGED <<mgrVars, inFlight, closed, op, fmcVars, history>> BY <1>4 DEF Gets
  <2> HIDE DEF x
  <2>4. x.pc # "idle" /\ x.tries < 2 BY <2>1
  <2> QED BY <2>1, <2>2, <2>3, <2>4, RequestSteps
<1>5. CASE ~Refuses /\ inFlight = Nobody /\ Post(r, "login", req[r].token)
           /\ access' = None /\ refresh' = None /\ UNCHANGED <<refreshCount, due, latched>>
  BY <1>1, <1>5, PostSteps
<1> QED BY <1>2, <1>3, <1>4, <1>5 DEF ForceReauth

LEMMA AnsweredSteps ==
  ASSUME IInv, NEW r \in Requests, Answered(r)
  PROVE  IInv'
<1> USE TokenAssumption DEF fmcVars
<1>1. op[r] \in Op /\ op[r].kind # "none" /\ op[r].reply # "none" /\ ~latched /\ rejections = 0
  BY DEF IInv, TypeOK, Answered, Granted, AuthFails, RefreshFails, QuietNoOp, NoOp,
         LatchedIsQuiet, RefusalLatched
<1>2. inFlight = r /\ \A q \in Requests : q # r => op[q] = NoOp
  BY <1>1 DEF IInv, SingleOp, QuietNoOp
<1>3. NoOp \in Op /\ NoOp.kind = "none" /\ NoOp.granted = None
  BY DEF NoOp, Op, None
<1>4. CASE Granted(r)
  <2>1. op[r].granted \in Tokens \cup {None} /\ op[r].granted <= issued /\ op[r].granted \notin dead
    BY <1>1 DEF IInv, Op, Numbered, LivePairs
  <2>2. /\ inFlight' = Nobody /\ op' \in [Requests -> Op]
        /\ \A q \in Requests : op'[q] = NoOp
        /\ req' \in [Requests -> Request] /\ OneRetry'
    BY <1>1, <1>4, <2>1, SettleFacts DEF Granted
  <2>3. dead' = dead /\ rejections' = rejections /\ latched' = latched
    BY <1>4 DEF Answered, Granted, Apply
  <2>4. refresh' \in {op[r].granted, None} /\ access' = op[r].granted /\ due' = FALSE
    BY <1>4 DEF Granted, Apply
  <2>5. refreshCount' \in 0..MaxRefreshes
    BY <1>1, <1>4 DEF Granted, IInv, TypeOK, RefreshFits, Op
  <2>6. TypeOK'
    BY <2>1, <2>2, <2>3, <2>4, <2>5 DEF IInv, TypeOK, Answered
  <2>7. Numbered' /\ LivePairs'
    BY <1>3, <2>1, <2>2, <2>3, <2>4 DEF IInv, TypeOK, Numbered, LivePairs, Answered, None, Tokens
  <2>8. SingleOp' /\ QuietNoOp' /\ RefreshFits' /\ LatchedIsQuiet' /\ RefusalLatched'
    BY <1>1, <1>3, <2>2, <2>3
    DEF SingleOp, QuietNoOp, RefreshFits, LatchedIsQuiet, RefusalLatched
  <2> QED BY <2>2, <2>6, <2>7, <2>8 DEF IInv
<1>5. CASE AuthFails(r)
  <2>1. /\ inFlight' = Nobody /\ op' \in [Requests -> Op]
        /\ \A q \in Requests : op'[q] = NoOp
        /\ req' \in [Requests -> Request] /\ OneRetry'
    BY <1>1, <1>5, SettleFacts DEF AuthFails
  <2>2. dead' = dead
    BY <1>5 DEF Answered, AuthFails
  <2>3. rejections' = 0 \/ (rejections' = 1 /\ latched')
    <3>1. CASE op[r].kind = "login" /\ op[r].reply = "denied"
      <4>1. rejections' = 1 BY <1>1, <3>1 DEF Answered
      <4>2. latched' BY <1>5, <3>1, Zenon DEF AuthFails
      <4> QED BY <4>1, <4>2
    <3>2. CASE ~(op[r].kind = "login" /\ op[r].reply = "denied")
      BY <1>1, <3>2 DEF Answered
    <3> QED BY <3>1, <3>2
  <2>4. TypeOK'
    BY <1>1, <1>5, <2>1, <2>2, <2>3 DEF IInv, TypeOK, Answered, AuthFails
  <2>5. Numbered' /\ LivePairs'
    BY <1>3, <1>5, <2>1, <2>2 DEF IInv, TypeOK, Numbered, LivePairs, Answered, AuthFails, None, Tokens
  <2>6. SingleOp' /\ QuietNoOp' /\ RefreshFits' /\ LatchedIsQuiet' /\ RefusalLatched'
    BY <1>3, <2>1, <2>3 DEF SingleOp, QuietNoOp, RefreshFits, LatchedIsQuiet, RefusalLatched
  <2> QED BY <2>1, <2>4, <2>5, <2>6 DEF IInv
<1>6. CASE RefreshFails(r)
  <2> DEFINE o == [NoOp EXCEPT !.kind = "login"]
  <2>1. o \in Op /\ o.kind = "login" /\ o.granted = None
    BY DEF NoOp, Op, None
  <2> HIDE DEF o
  <2>2. op' = [op EXCEPT ![r] = o] /\ UNCHANGED <<refreshCount, due, latched, inFlight, req>>
        /\ access' = None /\ refresh' = None
    BY <1>6 DEF RefreshFails, Fallback, DropPair, o
  <2>3. op'[r] = o /\ \A q \in Requests : q # r => op'[q] = NoOp
    BY <1>2, <2>2 DEF IInv, TypeOK
  <2>4. dead' = dead \cup {op[r].pair} /\ rejections' = rejections
    BY <1>6 DEF Answered, RefreshFails
  <2>5. op[r].pair \in Tokens /\ op[r].pair <= issued
    BY <1>6 DEF RefreshFails, IInv, Numbered
  <2>6. TypeOK'
    BY <2>1, <2>2, <2>4, <2>5 DEF IInv, TypeOK, Answered
  <2>7. Numbered' /\ LivePairs'
    BY <1>3, <2>1, <2>2, <2>3, <2>4, <2>5
    DEF IInv, TypeOK, Numbered, LivePairs, Answered, None, Tokens
  <2>8. SingleOp' /\ QuietNoOp' /\ RefreshFits' /\ LatchedIsQuiet' /\ RefusalLatched'
    BY <1>1, <1>2, <1>3, <2>1, <2>2, <2>3, <2>4
    DEF SingleOp, QuietNoOp, RefreshFits, LatchedIsQuiet, RefusalLatched
  <2>9. OneRetry' BY <2>2 DEF IInv, OneRetry
  <2> QED BY <2>6, <2>7, <2>8, <2>9 DEF IInv
<1> QED BY <1>4, <1>5, <1>6 DEF Answered

LEMMA AuthLostSteps ==
  ASSUME IInv, NEW r \in Requests, AuthLost(r)
  PROVE  IInv'
<1> USE DEF AuthLost, mgrVars, fmcVars, history
<1>1. NoOp.kind = "none" /\ NoOp.granted = None
  BY DEF NoOp, None
<1>2. /\ inFlight' = Nobody /\ op' \in [Requests -> Op]
      /\ \A q \in Requests : op'[q] = NoOp
      /\ req' \in [Requests -> Request] /\ OneRetry'
  BY SettleFacts
<1>3. TypeOK'
  BY <1>2 DEF IInv, TypeOK
<1>4. Numbered' /\ LivePairs'
  BY <1>1, <1>2 DEF IInv, TypeOK, Numbered, LivePairs, None, Tokens
<1>5. SingleOp' /\ QuietNoOp' /\ RefreshFits' /\ LatchedIsQuiet' /\ RefusalLatched'
  BY <1>1, <1>2, TokenAssumption
  DEF IInv, SingleOp, QuietNoOp, RefreshFits, LatchedIsQuiet, RefusalLatched
<1> QED BY <1>2, <1>3, <1>4, <1>5 DEF IInv

\* A step that touches neither the requests nor their POSTs.
LEMMA QuietSteps ==
  ASSUME IInv, ComesDue \/ Close \/ Revoke \/ ChangePassword \/ UNCHANGED vars
  PROVE  IInv'
<1> USE DEF ComesDue, Close, Revoke, ChangePassword, vars, mgrVars, fmcVars, history, IInv
<1>1. /\ UNCHANGED <<op, req, inFlight, refreshCount, latched, issued, rejections, dead>>
      /\ refresh' \in {refresh, None} /\ access' \in {access, None}
      /\ session' \in {session, None} /\ served' = served
  OBVIOUS
<1>2. due' \in BOOLEAN /\ closed' \in BOOLEAN /\ goodPassword' \in BOOLEAN
  BY DEF TypeOK
<1>3. TypeOK' BY <1>1, <1>2 DEF TypeOK
<1>4. SingleOp' /\ QuietNoOp' /\ RefreshFits' /\ OneRetry' /\ LatchedIsQuiet' /\ RefusalLatched'
  BY <1>1 DEF SingleOp, QuietNoOp, RefreshFits, OneRetry, LatchedIsQuiet, RefusalLatched
<1>5. Numbered' /\ LivePairs'
  BY <1>1 DEF TypeOK, Numbered, LivePairs, None, Tokens
<1> QED BY <1>3, <1>4, <1>5

\* FMC answers the POST of r: the pair it grants, if any, is a new one.
LEMMA HandledSteps ==
  ASSUME IInv, NEW r \in Requests, LoginHandled(r) \/ RefreshHandled(r)
  PROVE  IInv'
<1> USE TokenAssumption
<1> DEFINE Replied(reply, granted) ==
      /\ op' = [op EXCEPT ![r].reply = reply, ![r].granted = granted]
      /\ \/ issued < MaxTokens /\ issued' = issued + 1 /\ session' = issued + 1
            /\ granted \in {issued + 1, None}
         \/ UNCHANGED <<issued, session>> /\ granted = None
<1>1. ASSUME NEW reply \in {"ok", "noRefresh", "bare"}, Issue, Replies(r, reply)
      PROVE  \E granted \in {issued + 1, None} : Replied(reply, granted)
  BY <1>1 DEF Issue, Replies
<1>2. ASSUME NEW reply \in {"denied", "error"}, UNCHANGED <<issued, session>>, Replies(r, reply)
      PROVE  Replied(reply, None)
  BY <1>2 DEF Replies
<1>3. \E reply \in {"ok", "noRefresh", "bare", "denied", "error"}, granted \in {issued + 1, None} :
        Replied(reply, granted)
  <2>1. CASE LoginHandled(r) BY <1>1, <1>2, <2>1 DEF LoginHandled
  <2>2. CASE RefreshHandled(r) BY <1>1, <1>2, <2>2 DEF RefreshHandled
  <2> QED BY <2>1, <2>2
<1>4. PICK reply \in {"ok", "noRefresh", "bare", "denied", "error"}, granted \in {issued + 1, None} :
        Replied(reply, granted)
  BY <1>3
<1>5. /\ UNCHANGED <<mgrVars, inFlight, closed, req, goodPassword, history>>
      /\ served' \in {served, 0, served + 1}
      /\ op[r].kind # "none"
  BY DEF LoginHandled, RefreshHandled, Pending
<1>6. /\ issued' \in Tokens \cup {None} /\ session' \in Tokens \cup {None}
      /\ granted \in Tokens \cup {None} /\ granted <= issued' /\ issued <= issued'
      /\ granted \notin dead
  BY <1>4 DEF IInv, TypeOK, Numbered, Tokens, None
<1>7. op' = [op EXCEPT ![r].reply = reply, ![r].granted = granted]
  BY <1>4
<1> HIDE DEF Replied
<1>8. op' \in [Requests -> Op]
  BY <1>6, <1>7 DEF IInv, TypeOK, Op
<1>9. /\ \A q \in Requests : op'[q].kind = op[q].kind /\ op'[q].pair = op[q].pair
      /\ \A q \in Requests : q # r => op'[q] = op[q]
      /\ op'[r].granted = granted
  BY <1>7 DEF IInv, TypeOK, Op
<1>10. TypeOK'
  <2>1. served' \in Nat BY <1>5 DEF IInv, TypeOK
  <2>2. UNCHANGED <<access, refresh, refreshCount, due, latched, inFlight, closed, req,
                    goodPassword, rejections, dead>>
    BY <1>5 DEF mgrVars, history
  <2>3. due' \in BOOLEAN /\ latched' \in BOOLEAN /\ closed' \in BOOLEAN /\ goodPassword' \in BOOLEAN
    BY <2>2 DEF IInv, TypeOK
  <2>4. access' \in Tokens \cup {None} /\ refresh' \in Tokens \cup {None} /\ refreshCount' \in 0..MaxRefreshes
    BY <2>2 DEF IInv, TypeOK
  <2>5. inFlight' \in Requests \cup {Nobody} /\ req' \in [Requests -> Request]
        /\ rejections' \in Nat /\ dead' \subseteq Tokens
    BY <2>2 DEF IInv, TypeOK
  <2> QED BY <1>6, <1>8, <2>1, <2>3, <2>4, <2>5 DEF TypeOK
<1>11. SingleOp' /\ QuietNoOp' /\ RefreshFits' /\ LatchedIsQuiet' /\ RefusalLatched'
  BY <1>5, <1>9
  DEF IInv, SingleOp, QuietNoOp, RefreshFits, LatchedIsQuiet, RefusalLatched, mgrVars, history
<1>12. OneRetry'
  BY <1>5 DEF IInv, OneRetry
<1>13. Numbered' /\ LivePairs'
  <2>1. refresh' = refresh /\ dead' = dead BY <1>5 DEF mgrVars, history
  <2>2. refresh \in Int /\ issued \in Int /\ issued' \in Int /\ dead \subseteq Int
    BY <1>6 DEF IInv, TypeOK, Tokens, None
  <2>3. \A q \in Requests : op[q].granted \in Int /\ op[q].pair \in Int
    BY DEF IInv, TypeOK, Op, Tokens, None
  <2>4. LivePairs' BY <1>6, <1>9, <2>1 DEF IInv, LivePairs
  <2>5. \A q \in Requests : op'[q].granted <= issued'
    BY <1>6, <1>9, <2>2, <2>3 DEF IInv, Numbered
  <2>6. Numbered' BY <1>6, <1>9, <2>1, <2>2, <2>3, <2>5 DEF IInv, Numbered
  <2> QED BY <2>4, <2>6
<1> QED BY <1>10, <1>11, <1>12, <1>13 DEF IInv

\* The steps of fetchWithReauth() that leave the manager alone.
LEMMA GetSteps ==
  ASSUME IInv, NEW r \in Requests, SendGet(r) \/ GetAnswered(r) \/ Again(r)
  PROVE  IInv'
<1>1. req[r] \in Request BY DEF IInv, TypeOK
<1>2. CASE SendGet(r)
  <2> DEFINE x == [req[r] EXCEPT !.pc = "get", !.tries = @ + 1,
                                 !.first = IF req[r].tries = 0 THEN req[r].token ELSE @]
  <2>1. req[r].tries + 1 \in 0..2
    BY <1>1, <1>2 DEF IInv, OneRetry, SendGet, Request
  <2>2. x \in Request /\ x.pc = "get"
    <3> DEFINE n == req[r].tries + 1
               f == IF req[r].tries = 0 THEN req[r].token ELSE req[r].first
    <3>1. n \in 0..2 /\ f \in Tokens \cup {None} BY <1>1, <2>1 DEF Request
    <3>2. x = [req[r] EXCEPT !.pc = "get", !.tries = n, !.first = f] OBVIOUS
    <3> HIDE DEF n, f, x
    <3> QED BY <1>1, <3>1, <3>2 DEF Request
  <2>3. req' = [req EXCEPT ![r] = x] BY <1>2 DEF SendGet
  <2>4. UNCHANGED <<mgrVars, inFlight, closed, op, fmcVars, history>> BY <1>2 DEF SendGet
  <2> HIDE DEF x
  <2> QED BY <2>2, <2>3, <2>4, RequestSteps
<1>3. CASE GetAnswered(r)
  <2>1. PICK pc \in {"done", "failed"} : Finish(r, pc) BY <1>3 DEF GetAnswered
  <2> DEFINE x == Ended(pc)
  <2>2. x \in Request /\ x.pc = pc BY DEF Ended, NewRequest, Request, None
  <2>3. req' = [req EXCEPT ![r] = x] BY <2>1 DEF Finish
  <2>4. UNCHANGED <<mgrVars, inFlight, closed, op, fmcVars, history>>
    BY <1>3, <2>1 DEF GetAnswered, Finish
  <2> HIDE DEF x
  <2> QED BY <2>2, <2>3, <2>4, RequestSteps
<1>4. CASE Again(r)
  <2> DEFINE x == NewRequest
  <2>2. x \in Request /\ x.pc = "idle" /\ x.tries = 0 BY DEF NewRequest, Request, None
  <2>3. req' = [req EXCEPT ![r] = x] BY <1>4 DEF Again
  <2>4. UNCHANGED <<mgrVars, inFlight, closed, op, fmcVars, history>> BY <1>4 DEF Again
  <2> HIDE DEF x
  <2> QED BY <2>2, <2>3, <2>4, RequestSteps
<1> QED BY <1>2, <1>3, <1>4

-----------------------------------------------------------------------------
(* The invariant, and what it says *)

LEMMA NextIInv == IInv /\ [Next]_vars => IInv'
<1> SUFFICES ASSUME IInv, [Next]_vars PROVE IInv'
  OBVIOUS
<1>1. ASSUME NEW r \in Requests, Moves(r)
      PROVE  IInv'
  BY <1>1, GetTokenSteps, AnsweredSteps, AuthLostSteps, GetRefusedSteps, GetSteps DEF Moves
<1>2. CASE Fmc
  BY <1>2, HandledSteps, QuietSteps DEF Fmc
<1>3. CASE ComesDue \/ Close \/ UNCHANGED vars
  BY <1>3, QuietSteps
<1> QED BY <1>1, <1>2, <1>3 DEF Next

LEMMA Inductive == Spec => []IInv
<1>1. Init => IInv BY InitIInv
<1>2. IInv /\ [Next]_vars => IInv' BY NextIInv
<1> QED BY <1>1, <1>2, PTL DEF Spec

\* The manager, the requests and FMC keep to their domains; in particular the
\* refresh count never passes its limit and no request goes out a third time.
THEOREM TypeCorrect == Spec => []TypeOK
<1>1. IInv => TypeOK BY DEF IInv
<1> QED BY <1>1, Inductive, PTL

\* Any number of concurrent requests cost at most one auth POST at a time.
THEOREM SingleFlightHolds == Spec => []OneAuthAtATime
<1>1. IInv => OneAuthAtATime BY DEF IInv, SingleOp, OneAuthAtATime
<1> QED BY <1>1, Inductive, PTL

\* The configured credentials are refused at most once in a manager's life.
THEOREM CredentialsRefusedOnce == Spec => []RejectedOnce
<1>1. IInv => RejectedOnce BY DEF IInv, RefusalLatched, RejectedOnce
<1> QED BY <1>1, Inductive, PTL

\* A pair whose refresh FMC has refused is never presented again.
THEOREM DeadPairsAreDropped == Spec => []NoDeadPair
<1>1. IInv => NoDeadPair BY DEF IInv, LivePairs, NoDeadPair, Pending
<1> QED BY <1>1, Inductive, PTL

-----------------------------------------------------------------------------
(* The refreshes FMC grants.  The manager may miss an answer and count too *)
(* little, but then FMC's session has moved on and the pair in hand is no  *)
(* longer one it would refresh.                                            *)

\* While FMC would still refresh the pair in hand, or a pair it has just
\* granted, the manager's count is not behind.
Counted ==
  /\ served <= MaxRefreshes
  /\ session <= issued
  /\ session # None /\ refresh = session => served <= refreshCount
  /\ \A r \in Requests :
       /\ session # None /\ Pending(r, "refresh") /\ op[r].pair = session
            => served <= refreshCount
       /\ session # None /\ op[r].granted = session
            => served <= (IF op[r].kind = "login" THEN 0 ELSE refreshCount + 1)

LEMMA Numbers ==
  IInv => /\ served \in Int /\ refreshCount \in Int /\ MaxRefreshes \in Int
          /\ issued \in Int /\ session \in Int /\ refresh \in Int /\ access \in Int
          /\ 0 <= issued /\ 0 <= session
          /\ \A r \in Requests : /\ op[r] \in Op /\ op[r].granted \in Int /\ op[r].pair \in Int
                                 /\ req[r] \in Request
                                 /\ req[r].token \in Int /\ req[r].first \in Int
BY TokenAssumption DEF IInv, TypeOK, Op, Request, Tokens, None

\* A step in which FMC grants nothing and the manager learns of no grant.
LEMMA CountKept ==
  ASSUME IInv, Counted, UNCHANGED <<served, issued, refreshCount>>,
         session' \in {session, None}, refresh' \in {refresh, None},
         \A r \in Requests :
           \/ op'[r] = op[r]
           \/ op'[r].granted = None /\ (op'[r].kind = "refresh" => op'[r].pair = refresh)
  PROVE  Counted'
<1>1. served <= MaxRefreshes /\ session' <= issued
  BY Numbers DEF Counted, None
<1>2. session' # None => session' = session
  OBVIOUS
<1>3. session' # None /\ refresh' = session' => served <= refreshCount
  BY <1>2 DEF Counted
<1>4. ASSUME NEW r \in Requests, session' # None
      PROVE  /\ Pending(r, "refresh")' /\ op'[r].pair = session' => served <= refreshCount
             /\ op'[r].granted = session'
                  => served <= (IF op'[r].kind = "login" THEN 0 ELSE refreshCount + 1)
  <2>1. CASE op'[r] = op[r]
    BY <1>2, <1>4, <2>1 DEF Counted, Pending
  <2>2. CASE op'[r].granted = None /\ (op'[r].kind = "refresh" => op'[r].pair = refresh)
    BY <1>2, <1>4, <2>2 DEF Counted, Pending
  <2> QED
    BY <2>1, <2>2
<1> QED
  BY <1>1, <1>3, <1>4 DEF Counted

\* The one POST under way, and what a step of the manager makes of it.
LEMMA OneOp ==
  ASSUME IInv, NEW r \in Requests, op[r].kind # "none"
  PROVE  \A q \in Requests : q # r => op[q] = NoOp
BY DEF IInv, SingleOp, QuietNoOp

LEMMA NoOpGrants == NoOp.granted = None /\ NoOp.kind = "none" /\ NoOp.reply = "none"
BY DEF NoOp

LEMMA ManagerCounts ==
  ASSUME IInv, Counted, NEW r \in Requests,
         GetToken(r) \/ GetRefused(r) \/ AuthLost(r) \/ SendGet(r) \/ GetAnswered(r) \/ Again(r)
  PROVE  Counted'
<1>1. op \in [Requests -> Op]
  BY DEF IInv, TypeOK
<1>2. /\ UNCHANGED <<served, issued, refreshCount, session>> /\ refresh' \in {refresh, None}
      /\ \/ op' = op
         \/ op' = [op EXCEPT ![r] = NoOp]
         \/ \E kind \in {"login", "refresh"}, pair \in Tokens \cup {None} :
              /\ op' = [op EXCEPT ![r] = [NoOp EXCEPT !.kind = kind, !.pair = pair]]
              /\ kind = "refresh" => pair = refresh
  <2>1. CASE GetToken(r)
    <3>1. refresh \in Tokens \cup {None}
      BY DEF IInv, TypeOK
    <3> QED
      BY <2>1, <3>1 DEF GetToken, SingleFlight, Join, Post, Fails, Gets, mgrVars, fmcVars
  <2>2. CASE GetRefused(r)
    <3>1. req[r].token \in Tokens \cup {None}
      BY DEF IInv, TypeOK, Request
    <3> QED
      BY <2>2, <3>1 DEF GetRefused, ForceReauth, Join, Post, Fails, Gets, mgrVars, fmcVars
  <2>3. CASE AuthLost(r)
    BY <2>3 DEF AuthLost, Settle, mgrVars, fmcVars
  <2>4. CASE SendGet(r) \/ GetAnswered(r) \/ Again(r)
    BY <2>4 DEF SendGet, GetAnswered, Again, Finish, mgrVars, fmcVars
  <2> QED
    BY <2>1, <2>2, <2>3, <2>4
<1>3. ASSUME NEW q \in Requests
      PROVE  \/ op'[q] = op[q]
             \/ op'[q].granted = None /\ (op'[q].kind = "refresh" => op'[q].pair = refresh)
  <2>1. CASE op' = op \/ op' = [op EXCEPT ![r] = NoOp]
    BY <1>1, <2>1, NoOpGrants
  <2>2. ASSUME NEW kind \in {"login", "refresh"}, NEW pair \in Tokens \cup {None},
               op' = [op EXCEPT ![r] = [NoOp EXCEPT !.kind = kind, !.pair = pair]],
               kind = "refresh" => pair = refresh
        PROVE  \/ op'[q] = op[q]
               \/ op'[q].granted = None /\ (op'[q].kind = "refresh" => op'[q].pair = refresh)
    <3>1. op'[q] = IF q = r THEN [NoOp EXCEPT !.kind = kind, !.pair = pair] ELSE op[q]
      BY <1>1, <2>2
    <3> QED
      BY <2>2, <3>1 DEF NoOp
  <2> QED
    BY <1>2, <2>1, <2>2
<1> QED
  BY <1>2, <1>3, CountKept

LEMMA AnsweredCounts ==
  ASSUME IInv, Counted, NEW r \in Requests, Answered(r)
  PROVE  Counted'
<1>1. op[r].kind # "none" /\ op \in [Requests -> Op]
  BY DEF IInv, TypeOK, Answered, Granted, AuthFails, RefreshFails, QuietNoOp, NoOp
<1>2. UNCHANGED <<served, issued, session>>
  BY DEF Answered, fmcVars
<1>3. CASE Granted(r)
  <2>1. /\ op' = [op EXCEPT ![r] = NoOp] /\ refresh' \in {op[r].granted, None}
        /\ refreshCount' = IF op[r].kind = "login" THEN 0 ELSE refreshCount + 1
    BY <1>3 DEF Granted, Settle, Apply
  <2>2. \A q \in Requests : op'[q] = NoOp
    BY <1>1, <2>1, OneOp
  <2>3. session # None /\ refresh' = session => served <= refreshCount'
    BY <2>1 DEF Counted
  <2>4. \A q \in Requests : ~Pending(q, "refresh")' /\ op'[q].granted = None
    BY <2>2, NoOpGrants DEF Pending
  <2> QED
    BY <1>2, <2>3, <2>4 DEF Counted
<1>4. CASE AuthFails(r) \/ RefreshFails(r)
  <2>1. /\ UNCHANGED refreshCount /\ refresh' \in {refresh, None}
        /\ \/ op' = [op EXCEPT ![r] = NoOp]
           \/ op' = [op EXCEPT ![r] = [NoOp EXCEPT !.kind = "login"]]
    BY <1>4 DEF AuthFails, RefreshFails, Settle, Fallback, DropPair
  <2>2. \A q \in Requests :
          op'[q] = op[q] \/ (op'[q].granted = None /\ op'[q].kind # "refresh")
    BY <1>1, <2>1 DEF NoOp
  <2> QED
    BY <1>2, <2>1, <2>2, CountKept
<1> QED
  BY <1>3, <1>4 DEF Answered

\* FMC answers: a grant moves the session on to a pair nobody holds yet.
LEMMA HandledCounts ==
  ASSUME IInv, Counted, NEW r \in Requests, LoginHandled(r) \/ RefreshHandled(r)
  PROVE  Counted'
<1>1. /\ UNCHANGED <<refresh, refreshCount>> /\ op \in [Requests -> Op]
      /\ op[r].kind \in {"login", "refresh"} /\ op[r].reply = "none"
  BY DEF LoginHandled, RefreshHandled, Pending, mgrVars, IInv, TypeOK
<1>2. \A q \in Requests : q # r => op[q] = NoOp
  BY <1>1, OneOp
<1>3. ASSUME NEW reply \in {"ok", "noRefresh", "bare"}, Replies(r, reply), Issue,
             served' = IF op[r].kind = "login" THEN 0 ELSE served + 1,
             op[r].kind = "refresh" => op[r].pair = session /\ session # None
      PROVE  Counted'
  <2>1. issued' = issued + 1 /\ session' = issued + 1 /\ session' > session /\ session' # None
    BY <1>3, Numbers DEF Issue, Counted, None
  <2>2. refresh # session'
    BY <2>1, Numbers DEF IInv, Numbered
  <2>3. served' <= (IF op[r].kind = "login" THEN 0 ELSE refreshCount + 1) /\ served' <= MaxRefreshes
    <3>1. CASE op[r].kind = "login"
      BY <1>3, <3>1, TokenAssumption
    <3>2. CASE op[r].kind = "refresh"
      <4>1. served <= refreshCount /\ refreshCount < MaxRefreshes
        BY <1>1, <1>3, <3>2 DEF Counted, Pending, IInv, RefreshFits
      <4> QED
        BY <1>3, <3>2, <4>1, Numbers
    <3> QED
      BY <1>1, <3>1, <3>2
  <2>4. \A q \in Requests : q # r => op'[q] = NoOp
    BY <1>1, <1>2, <1>3 DEF Replies
  <2>5. op'[r].reply = reply /\ op'[r].kind = op[r].kind
    BY <1>1, <1>3 DEF Replies, Op
  <2>6. \A q \in Requests : ~Pending(q, "refresh")'
    BY <2>4, <2>5, NoOpGrants DEF Pending
  <2>7. \A q \in Requests : op'[q].granted = session' =>
          served' <= (IF op'[q].kind = "login" THEN 0 ELSE refreshCount + 1)
    BY <2>1, <2>3, <2>4, <2>5, NoOpGrants
  <2> QED
    BY <1>1, <2>1, <2>2, <2>3, <2>6, <2>7, Numbers DEF Counted
<1>4. ASSUME NEW reply \in {"denied", "error"}, Replies(r, reply), UNCHANGED <<issued, session, served>>
      PROVE  Counted'
  <2>1. op' = [op EXCEPT ![r].reply = reply, ![r].granted = None]
    BY <1>4 DEF Replies
  <2>2. op'[r].reply = reply /\ op'[r].granted = None
    BY <1>1, <2>1 DEF Op
  <2>3. \A q \in Requests : q # r => op'[q] = op[q]
    BY <1>1, <2>1
  <2>4. ASSUME NEW q \in Requests, session # None
        PROVE  /\ Pending(q, "refresh")' /\ op'[q].pair = session => served <= refreshCount
               /\ op'[q].granted = session
                    => served <= (IF op'[q].kind = "login" THEN 0 ELSE refreshCount + 1)
    BY <1>2, <2>2, <2>3, <2>4, NoOpGrants DEF Pending
  <2> QED
    BY <1>1, <1>4, <2>4 DEF Counted
<1>5. CASE LoginHandled(r)
  <2>1. op[r].kind = "login"
    BY <1>5 DEF LoginHandled, Pending
  <2> QED
    BY <1>3, <1>4, <1>5, <2>1 DEF LoginHandled
<1>6. CASE RefreshHandled(r)
  <2>1. op[r].kind = "refresh" /\ op[r].pair \in Tokens
    BY <1>6 DEF RefreshHandled, Pending, IInv, Numbered
  <2>2. op[r].pair # None
    BY <2>1, TokenAssumption DEF Tokens, None
  <2> QED
    BY <1>3, <1>4, <1>6, <2>1, <2>2 DEF RefreshHandled
<1> QED
  BY <1>5, <1>6

LEMMA NextCounts == IInv /\ Counted /\ [Next]_vars => Counted'
<1> SUFFICES ASSUME IInv, Counted, [Next]_vars PROVE Counted'
  OBVIOUS
<1>1. ASSUME NEW r \in Requests, Moves(r) PROVE Counted'
  BY <1>1, ManagerCounts, AnsweredCounts DEF Moves
<1>2. CASE ComesDue \/ Close \/ Revoke \/ ChangePassword \/ UNCHANGED vars
  <2>1. /\ UNCHANGED <<served, issued, refreshCount, op>>
        /\ session' \in {session, None} /\ refresh' \in {refresh, None}
    BY <1>2 DEF ComesDue, Close, Revoke, ChangePassword, vars, mgrVars, fmcVars
  <2> QED
    BY <2>1, CountKept
<1> QED
  BY <1>1, <1>2, HandledCounts DEF Next, Fmc

\* FMC grants no login more refreshes than it allows, although answers are
\* lost and the manager counts only those it hears of (token-manager.ts:280).
THEOREM RefreshesStayInLimit == Spec => []RefreshesWithinLimit
<1>1. Init => Counted
  BY TokenAssumption, NoOpGrants DEF Init, Counted, Pending, None
<1>2. Counted => RefreshesWithinLimit
  BY DEF Counted, RefreshesWithinLimit
<1> QED
  BY <1>1, <1>2, NextCounts, Inductive, PTL DEF Spec

-----------------------------------------------------------------------------
(* The second attempt.  A pair granted while a request holds a refused     *)
(* token is newer than that token, so its second attempt carries another.  *)

Fresher ==
  /\ access <= issued
  /\ \A q \in Requests : req[q].token <= issued /\ req[q].first <= issued
  /\ \A r \in Requests : op[r].granted # None =>
       /\ access < op[r].granted
       /\ \A q \in Requests : req[q].token < op[r].granted /\ req[q].first < op[r].granted

SecondDiffers ==
  \A r \in Requests :
    /\ req[r].pc = "get" /\ req[r].tries = 1 => req[r].first = req[r].token
    /\ req[r].pc = "ready" /\ req[r].tries = 1 => req[r].token # req[r].first
    /\ req[r].pc = "get" /\ req[r].tries = 2 => req[r].token # req[r].first

\* A step after which the requests hold no token they did not have before.
LEMMA FresherKept ==
  ASSUME IInv, Fresher, UNCHANGED issued, access' \in {access, None},
         \A r \in Requests : op'[r].granted \in {op[r].granted, None},
         \A q \in Requests :
           /\ req'[q].token \in {req[q].token, None}
           /\ req'[q].first \in {req[q].first, req[q].token, None}
  PROVE  Fresher'
<1>1. access' <= issued
  BY Numbers DEF Fresher, None
<1>2. ASSUME NEW q \in Requests PROVE req'[q].token <= issued /\ req'[q].first <= issued
  BY <1>2, Numbers DEF Fresher, None
<1>3. ASSUME NEW r \in Requests, op'[r].granted # None
      PROVE  /\ access' < op'[r].granted
             /\ \A q \in Requests : req'[q].token < op'[r].granted /\ req'[q].first < op'[r].granted
  <2>1. op'[r].granted = op[r].granted /\ op[r].granted # None
    BY <1>3
  <2>2. op[r].granted > 0 /\ op[r].granted \in Int
    BY <2>1, TokenAssumption DEF IInv, TypeOK, Op, Tokens, None
  <2>3. access' < op[r].granted
    BY <2>1, <2>2, Numbers DEF Fresher, None
  <2>4. ASSUME NEW q \in Requests
        PROVE  req'[q].token < op[r].granted /\ req'[q].first < op[r].granted
    <3>1. req[q].token < op[r].granted /\ req[q].first < op[r].granted
      BY <2>1 DEF Fresher
    <3> QED
      BY <2>2, <3>1 DEF None
  <2> QED
    BY <2>1, <2>3, <2>4
<1> QED
  BY <1>1, <1>2, <1>3 DEF Fresher

\* A request takes the token in hand.
LEMMA GetsSteps ==
  ASSUME IInv, Fresher, SecondDiffers, NEW r \in Requests, Gets(r, access),
         UNCHANGED fmcVars,
         req[r].tries = 1 => access # req[r].first
  PROVE  Fresher' /\ SecondDiffers'
<1>1. req \in [Requests -> Request] /\ UNCHANGED <<access, issued, op>>
  BY DEF IInv, TypeOK, Gets, mgrVars, fmcVars
<1>2. /\ \A q \in Requests : q # r => req'[q] = req[q]
      /\ req'[r].pc = "ready" /\ req'[r].token = access
      /\ req'[r].first = req[r].first /\ req'[r].tries = req[r].tries
  BY <1>1 DEF Gets, Request
<1>3. Fresher'
  BY <1>1, <1>2 DEF Fresher
<1>4. SecondDiffers'
  BY <1>2 DEF SecondDiffers
<1> QED
  BY <1>3, <1>4

\* A request fails, joins a promise or sends a POST of its own.
LEMMA WaitsOrFails ==
  ASSUME IInv, Fresher, SecondDiffers, NEW r \in Requests, UNCHANGED fmcVars,
         access' \in {access, None},
         \/ Fails(r)
         \/ Join(r)
         \/ \E kind, pair : Post(r, kind, pair)
  PROVE  Fresher' /\ SecondDiffers'
<1>1. req \in [Requests -> Request] /\ op \in [Requests -> Op]
  BY DEF IInv, TypeOK
<1>2. /\ \A q \in Requests : q # r => req'[q] = req[q]
      /\ req'[r].pc \in {"failed", "auth"}
      /\ req'[r].token \in {req[r].token, None} /\ req'[r].first \in {req[r].first, None}
  <2>1. CASE Fails(r)
    <3>1. req' = [req EXCEPT ![r] = Ended("failed")]
      BY <2>1 DEF Fails
    <3>2. req'[r] = Ended("failed") /\ \A q \in Requests : q # r => req'[q] = req[q]
      BY <1>1, <3>1
    <3> QED
      BY <3>2 DEF Ended, NewRequest
  <2>2. ASSUME NEW x, req' = [req EXCEPT ![r].pc = "auth", ![r].on = x]
        PROVE  /\ \A q \in Requests : q # r => req'[q] = req[q]
               /\ req'[r].pc = "auth"
               /\ req'[r].token = req[r].token /\ req'[r].first = req[r].first
    <3>1. req'[r] = [req[r] EXCEPT !.pc = "auth", !.on = x]
      BY <1>1, <2>2
    <3>2. req[r] \in Request
      BY <1>1
    <3>3. /\ req'[r].pc = "auth"
          /\ req'[r].token = req[r].token /\ req'[r].first = req[r].first
      BY <3>1, <3>2 DEF Request
    <3> QED
      BY <1>1, <2>2, <3>3
  <2>3. CASE Join(r)
    BY <2>2, <2>3 DEF Join
  <2>4. ASSUME NEW kind, NEW pair, Post(r, kind, pair)
        PROVE  req' = [req EXCEPT ![r].pc = "auth", ![r].on = r]
    BY <2>4 DEF Post
  <2> QED
    BY <2>1, <2>2, <2>3, <2>4
<1>3. \A q \in Requests : op'[q].granted \in {op[q].granted, None}
  <2>1. CASE Fails(r) \/ Join(r)
    BY <2>1 DEF Fails, Join
  <2>2. ASSUME NEW kind, NEW pair, Post(r, kind, pair)
        PROVE  \A q \in Requests : op'[q].granted \in {op[q].granted, None}
    BY <1>1, <2>2 DEF Post, NoOp
  <2> QED
    BY <2>1, <2>2
<1>4. Fresher'
  BY <1>2, <1>3, FresherKept DEF fmcVars
<1>5. SecondDiffers'
  BY <1>2 DEF SecondDiffers
<1> QED
  BY <1>4, <1>5

LEMMA AsksAgain ==
  ASSUME IInv, Fresher, SecondDiffers, NEW r \in Requests, GetToken(r) \/ GetRefused(r)
  PROVE  Fresher' /\ SecondDiffers'
<1>1. CASE GetToken(r)
  <2>1. req[r].tries = 0 /\ UNCHANGED fmcVars
    BY <1>1 DEF GetToken, IInv, OneRetry
  <2>2. \/ Gets(r, access)
        \/ UNCHANGED access /\ Fails(r)
        \/ UNCHANGED access /\ Join(r)
        \/ UNCHANGED access /\ Post(r, "login", None)
        \/ UNCHANGED access /\ Post(r, "refresh", refresh)
    BY <1>1 DEF GetToken, SingleFlight, Fails, Join, mgrVars
  <2>3. CASE Gets(r, access)
    BY <2>1, <2>3, GetsSteps
  <2>4. CASE UNCHANGED access /\ Post(r, "login", None)
    BY <2>1, <2>4, WaitsOrFails
  <2>5. CASE UNCHANGED access /\ Post(r, "refresh", refresh)
    BY <2>1, <2>5, WaitsOrFails
  <2>6. CASE UNCHANGED access /\ (Fails(r) \/ Join(r))
    BY <2>1, <2>6, WaitsOrFails
  <2> QED
    BY <2>2, <2>3, <2>4, <2>5, <2>6
<1>2. CASE GetRefused(r)
  <2>1. req[r].tries = 1 /\ req[r].first = req[r].token /\ UNCHANGED fmcVars
    BY <1>2 DEF GetRefused, SecondDiffers
  <2>2. \/ Gets(r, access) /\ access # req[r].token
        \/ UNCHANGED access /\ Fails(r)
        \/ UNCHANGED access /\ Join(r)
        \/ access' = None /\ Post(r, "login", req[r].token)
    BY <1>2 DEF GetRefused, ForceReauth, Supersedes, Fails, Join, mgrVars
  <2>3. CASE Gets(r, access) /\ access # req[r].token
    BY <2>1, <2>3, GetsSteps
  <2>4. CASE access' = None /\ Post(r, "login", req[r].token)
    BY <2>1, <2>4, WaitsOrFails
  <2>5. CASE UNCHANGED access /\ (Fails(r) \/ Join(r))
    BY <2>1, <2>5, WaitsOrFails
  <2> QED
    BY <2>2, <2>3, <2>4, <2>5
<1> QED
  BY <1>1, <1>2

\* The promise r started settles without a token.
LEMMA RejectSteps ==
  ASSUME IInv, Fresher, SecondDiffers, NEW r \in Requests, Settle(r, None),
         UNCHANGED issued, access' \in {access, None}
  PROVE  Fresher' /\ SecondDiffers'
<1>1. op \in [Requests -> Op] /\ op' = [op EXCEPT ![r] = NoOp]
  BY DEF IInv, TypeOK, Settle
<1>2. \A q \in Requests : op'[q].granted \in {op[q].granted, None}
  BY <1>1, NoOpGrants
<1>3. \A q \in Requests : req'[q] = req[q] \/ req'[q] = Ended("failed")
  BY DEF Settle
<1>4. Ended("failed").pc = "failed" /\ Ended("failed").token = None /\ Ended("failed").first = None
  BY DEF Ended, NewRequest
<1>5. Fresher'
  BY <1>2, <1>3, <1>4, FresherKept
<1>6. SecondDiffers'
  BY <1>3, <1>4 DEF SecondDiffers
<1> QED
  BY <1>5, <1>6

LEMMA GrantedSecond ==
  ASSUME IInv, Fresher, SecondDiffers, NEW r \in Requests, Granted(r), UNCHANGED issued
  PROVE  Fresher' /\ SecondDiffers'
<1> DEFINE granted == op[r].granted
<1>1. op[r].kind # "none"
  BY DEF Granted, IInv, QuietNoOp, NoOp
<1>2. /\ op \in [Requests -> Op] /\ op' = [op EXCEPT ![r] = NoOp] /\ access' = granted
      /\ Settle(r, granted)
  BY DEF IInv, TypeOK, Granted, Settle, Apply
<1>3. \A q \in Requests : op'[q].granted = None
  BY <1>1, <1>2, OneOp, NoOpGrants
<1>4. granted <= issued /\ granted \in Int
  BY Numbers DEF IInv, Numbered
<1>5. ASSUME NEW q \in Requests
      PROVE  \/ req'[q] = req[q]
             \/ req'[q] = Ended("failed")
             \/ /\ granted # None /\ req'[q].pc = "ready"
                /\ req'[q].token = granted /\ req'[q].first = req[q].first
  <2>1. req[q] \in Request
    BY DEF IInv, TypeOK
  <2> QED
    BY <1>2, <2>1 DEF Settle, Request
<1>6. /\ Ended("failed").pc = "failed" /\ Ended("failed").token = 0 /\ Ended("failed").first = 0
  BY DEF Ended, NewRequest, None
<1>7. \A q \in Requests : req'[q].token <= issued /\ req'[q].first <= issued
  BY <1>4, <1>5, <1>6, Numbers DEF Fresher
<1>8. Fresher'
  BY <1>2, <1>3, <1>4, <1>7 DEF Fresher
<1>9. SecondDiffers'
  <2> SUFFICES ASSUME NEW q \in Requests
               PROVE  /\ req'[q].pc = "get" /\ req'[q].tries = 1 => req'[q].first = req'[q].token
                      /\ req'[q].pc = "ready" /\ req'[q].tries = 1 => req'[q].token # req'[q].first
                      /\ req'[q].pc = "get" /\ req'[q].tries = 2 => req'[q].token # req'[q].first
    BY DEF SecondDiffers
  <2>1. granted # None => req[q].first < granted /\ req[q].first \in Int
    BY Numbers DEF Fresher
  <2> HIDE DEF granted
  <2>2. granted # None => granted # req[q].first
    BY <1>4, <2>1
  <2> QED
    BY <1>5, <1>6, <2>2 DEF SecondDiffers
<1> QED
  BY <1>8, <1>9

LEMMA SettledSecond ==
  ASSUME IInv, Fresher, SecondDiffers, NEW r \in Requests, Answered(r) \/ AuthLost(r)
  PROVE  Fresher' /\ SecondDiffers'
<1>1. UNCHANGED issued
  BY DEF Answered, AuthLost, fmcVars
<1>2. CASE Granted(r)
  BY <1>1, <1>2, GrantedSecond
<1>3. CASE AuthFails(r) \/ AuthLost(r)
  BY <1>1, <1>3, RejectSteps DEF AuthFails, AuthLost, mgrVars
<1>4. CASE RefreshFails(r)
  <2>1. /\ op' = [op EXCEPT ![r] = [NoOp EXCEPT !.kind = "login"]]
        /\ UNCHANGED req /\ access' \in {access, None} /\ op \in [Requests -> Op]
    BY <1>4 DEF RefreshFails, Fallback, DropPair, IInv, TypeOK
  <2>2. \A q \in Requests : op'[q].granted \in {op[q].granted, None}
    BY <2>1 DEF NoOp
  <2>3. Fresher'
    BY <1>1, <2>1, <2>2, FresherKept
  <2> QED
    BY <2>1, <2>3 DEF SecondDiffers
<1> QED
  BY <1>2, <1>3, <1>4 DEF Answered

LEMMA GetsSecond ==
  ASSUME IInv, Fresher, SecondDiffers, NEW r \in Requests,
         SendGet(r) \/ GetAnswered(r) \/ Again(r)
  PROVE  Fresher' /\ SecondDiffers'
<1>1. req \in [Requests -> Request] /\ req[r] \in Request /\ UNCHANGED <<issued, access, op>>
  BY DEF IInv, TypeOK, SendGet, GetAnswered, Again, Finish, mgrVars, fmcVars
<1>2. CASE SendGet(r)
  <2>1. /\ req[r].pc = "ready" /\ req[r].tries \in {0, 1}
        /\ req' = [req EXCEPT ![r].pc = "get", ![r].tries = @ + 1,
                              ![r].first = IF req[r].tries = 0 THEN req[r].token ELSE @]
    BY <1>1, <1>2 DEF SendGet, IInv, OneRetry, Request
  <2>2. /\ \A q \in Requests : q # r => req'[q] = req[q]
        /\ req'[r].pc = "get" /\ req'[r].tries = req[r].tries + 1
        /\ req'[r].token = req[r].token
        /\ req'[r].first = IF req[r].tries = 0 THEN req[r].token ELSE req[r].first
    BY <1>1, <2>1 DEF Request
  <2>3. Fresher'
    BY <1>1, <2>2, FresherKept
  <2>4. /\ req[r].tries = 0 => req'[r].tries = 1 /\ req'[r].first = req'[r].token
        /\ req[r].tries = 1 => req'[r].tries = 2 /\ req'[r].first # req'[r].token
    BY <2>1, <2>2 DEF SecondDiffers
  <2>5. /\ req'[r].tries = 1 => req'[r].first = req'[r].token
        /\ req'[r].tries = 2 => req'[r].token # req'[r].first
    BY <2>1, <2>4
  <2>6. SecondDiffers'
    BY <2>2, <2>5 DEF SecondDiffers
  <2> QED
    BY <2>3, <2>6
<1>3. CASE GetAnswered(r) \/ Again(r)
  <2>1. /\ \A q \in Requests : q # r => req'[q] = req[q]
        /\ req'[r].pc \in {"done", "failed", "idle"}
        /\ req'[r].token = None /\ req'[r].first = None
    BY <1>1, <1>3 DEF GetAnswered, Again, Finish, Ended, NewRequest
  <2>2. Fresher'
    BY <1>1, <2>1, FresherKept
  <2>3. SecondDiffers'
    BY <2>1 DEF SecondDiffers
  <2> QED
    BY <2>2, <2>3
<1> QED
  BY <1>2, <1>3

\* What FMC grants is newer than anything a request or the manager holds.
LEMMA HandledSecond ==
  ASSUME IInv, Fresher, SecondDiffers, NEW r \in Requests, LoginHandled(r) \/ RefreshHandled(r)
  PROVE  Fresher' /\ SecondDiffers'
<1>1. /\ UNCHANGED <<access, req>> /\ op \in [Requests -> Op]
      /\ op[r].kind # "none"
  BY DEF LoginHandled, RefreshHandled, Pending, mgrVars, IInv, TypeOK
<1>2. /\ \A q \in Requests : q # r => op'[q] = op[q] /\ op[q] = NoOp
      /\ \/ issued' = issued + 1 /\ op'[r].granted \in {issued + 1, None}
         \/ issued' = issued /\ op'[r].granted = None
  <2>1. \A q \in Requests : q # r => op[q] = NoOp
    BY <1>1, OneOp
  <2>2. ASSUME NEW reply \in {"ok", "noRefresh", "bare"}, Issue, Replies(r, reply)
        PROVE  /\ \A q \in Requests : q # r => op'[q] = op[q]
               /\ issued' = issued + 1 /\ op'[r].granted \in {issued + 1, None}
    BY <1>1, <2>2 DEF Issue, Replies, Op
  <2>3. ASSUME NEW reply \in {"denied", "error"}, UNCHANGED issued, Replies(r, reply)
        PROVE  /\ \A q \in Requests : q # r => op'[q] = op[q]
               /\ issued' = issued /\ op'[r].granted = None
    BY <1>1, <2>3 DEF Replies, Op
  <2> QED
    BY <2>1, <2>2, <2>3 DEF LoginHandled, RefreshHandled
<1>3. Fresher'
  <2>1. access' <= issued' /\ \A q \in Requests : req'[q].token <= issued' /\ req'[q].first <= issued'
    BY <1>1, <1>2, Numbers DEF Fresher
  <2>2. ASSUME NEW q \in Requests, op'[q].granted # None
        PROVE  /\ access' < op'[q].granted
               /\ \A p \in Requests : req'[p].token < op'[q].granted /\ req'[p].first < op'[q].granted
    <3>1. q = r /\ op'[q].granted = issued + 1
      BY <1>2, <2>2, NoOpGrants
    <3> QED
      BY <1>1, <3>1, Numbers DEF Fresher
  <2> QED
    BY <2>1, <2>2 DEF Fresher
<1>4. SecondDiffers'
  BY <1>1 DEF SecondDiffers
<1> QED
  BY <1>3, <1>4

LEMMA NextSecond == IInv /\ Fresher /\ SecondDiffers /\ [Next]_vars => Fresher' /\ SecondDiffers'
<1> SUFFICES ASSUME IInv, Fresher, SecondDiffers, [Next]_vars PROVE Fresher' /\ SecondDiffers'
  OBVIOUS
<1>1. ASSUME NEW r \in Requests, Moves(r) PROVE Fresher' /\ SecondDiffers'
  BY <1>1, AsksAgain, SettledSecond, GetsSecond DEF Moves
<1>2. CASE ComesDue \/ Close \/ Revoke \/ ChangePassword \/ UNCHANGED vars
  <2>1. UNCHANGED <<issued, op, req>> /\ access' \in {access, None}
    BY <1>2 DEF ComesDue, Close, Revoke, ChangePassword, vars, mgrVars, fmcVars
  <2>2. Fresher'
    BY <2>1, FresherKept
  <2> QED
    BY <2>1, <2>2 DEF SecondDiffers
<1> QED
  BY <1>1, <1>2, HandledSecond DEF Next, Fmc

\* A request whose GET is under way starts a login only when the token in hand
\* is none FMC accepts.
LEMMA LoginsAreNeeded ==
  ASSUME IInv, Next, NEW r \in Requests,
         req[r].pc = "get", op[r].kind = "none", op'[r].kind = "login"
  PROVE  session = None \/ access # session
<1>1. op \in [Requests -> Op]
  BY DEF IInv, TypeOK
<1>2. CASE GetRefused(r)
  <2>1. op' # op
    OBVIOUS
  <2>2. ~Supersedes(req[r].token) /\ req[r].token # session
    BY <1>2, <2>1 DEF GetRefused, ForceReauth, Fails, Join, Gets
  <2> QED
    BY <2>2 DEF Supersedes
<1>3. CASE ~GetRefused(r)
  <2>1. op'[r].kind = op[r].kind
    <3>1. ASSUME NEW q \in Requests, Moves(q), op' # op PROVE op'[r].kind # "login" \/ op[r].kind # "none"
      <4>1. CASE GetToken(q) \/ GetRefused(q)
        <5>1. q # r
          BY <1>3, <4>1 DEF GetToken
        <5>2. \E o : op' = [op EXCEPT ![q] = o]
          BY <3>1, <4>1 DEF GetToken, GetRefused, ForceReauth, SingleFlight, Post, Join, Fails, Gets
        <5> QED
          BY <1>1, <5>1, <5>2
      <4>2. CASE Answered(q) \/ AuthLost(q)
        <5>1. CASE q = r
          BY <4>2, <5>1 DEF Answered, Granted, AuthFails, RefreshFails, AuthLost, IInv, QuietNoOp, NoOp
        <5>2. CASE q # r
          <6>1. \E o : op' = [op EXCEPT ![q] = o]
            BY <4>2 DEF Answered, Granted, AuthFails, RefreshFails, AuthLost, Settle
          <6> QED
            BY <1>1, <5>2, <6>1
        <5> QED
          BY <5>1, <5>2
      <4>3. CASE SendGet(q) \/ GetAnswered(q) \/ Again(q)
        BY <3>1, <4>3 DEF SendGet, GetAnswered, Again, Finish
      <4> QED
        BY <3>1, <4>1, <4>2, <4>3 DEF Moves
    <3>2. ASSUME NEW q \in Requests, LoginHandled(q) \/ RefreshHandled(q) PROVE op'[r].kind = op[r].kind
      <4>1. \E reply, granted : op' = [op EXCEPT ![q].reply = reply, ![q].granted = granted]
        BY <3>2 DEF LoginHandled, RefreshHandled, Replies
      <4> QED
        BY <1>1, <4>1 DEF Op
    <3>3. CASE ComesDue \/ Close \/ Revoke \/ ChangePassword
      BY <3>3 DEF ComesDue, Close, Revoke, ChangePassword
    <3> QED
      BY <3>1, <3>2, <3>3 DEF Next, Fmc
  <2> QED
    BY <2>1
<1> QED
  BY <1>2, <1>3

\* No request logs in over a token FMC accepts, and no second attempt carries
\* the token its first was refused with (token-manager.ts:308).
THEOREM NoNeedlessLogin == Spec => ReauthsOnce
<1>1. Init => Fresher /\ SecondDiffers
  BY NoOpGrants DEF Init, Fresher, SecondDiffers, NewRequest, None
<1>2. IInv /\ Fresher /\ SecondDiffers /\ Fresher' /\ SecondDiffers' /\ [Next]_vars =>
        [\A r \in Requests :
           /\ req[r].pc = "get" /\ op[r].kind = "none" /\ op'[r].kind = "login"
                => session = None \/ access # session
           /\ req'[r].pc = "get" /\ req'[r].tries = 2 => req'[r].token # req'[r].first]_vars
  BY LoginsAreNeeded DEF SecondDiffers
<1> QED
  BY <1>1, <1>2, NextSecond, Inductive, PTL DEF Spec, ReauthsOnce
=============================================================================
