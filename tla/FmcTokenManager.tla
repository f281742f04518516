--------------------------- MODULE FmcTokenManager ---------------------------
(***************************************************************************)
(* The FMC token lifecycle (src/src/backends/fmc/token-manager.ts) under   *)
(* the concurrent device requests that use it (fetchWithReauth and         *)
(* fetchWithReauthGeneric of src/src/backends/fmc/adapter.ts), against an  *)
(* FMC that keeps one session per account, may revoke it at any time and   *)
(* may have its password changed.                                          *)
(*                                                                         *)
(* A token pair is the number of the session it was issued for; None is    *)
(* the absence of one.  Wall-clock time is one bit: whether the token in   *)
(* hand is past its proactive refresh instant.                             *)
(***************************************************************************)
EXTENDS Integers

CONSTANTS
  Requests,       \* the requests of a poll: (device, family), license, ...
  Nobody,         \* no request: nothing in flight
  MaxRefreshes,   \* MAX_REFRESHES, 3 in the code
  MaxTokens       \* bound: token pairs FMC issues

ASSUME TokenAssumption ==
  /\ Nobody \notin Requests
  /\ MaxRefreshes \in Nat
  /\ MaxTokens \in Nat

VARIABLES
  access, refresh,   \* state.accessToken, state.refreshToken
  refreshCount,      \* state.refreshCount
  due,               \* clock.now() >= state.proactiveRefreshAt
  inFlight,          \* the request that started the single-flight promise
  latched,           \* credentialsFailure # undefined
  closed,
  op,                \* the auth POST a request has started, if any
  req,               \* where each request is
  issued, session,   \* FMC: pairs issued, the one pair it accepts now
  served,            \* FMC: refreshes granted since the last login
  goodPassword,      \* FMC: the configured credentials are right
  rejections,        \* logins the manager has seen refused with 401/403
  dead               \* pairs the manager has seen a refresh refused for

mgrVars == <<access, refresh, refreshCount, due, latched>>
fmcVars == <<issued, session, served, goodPassword>>
history == <<rejections, dead>>
vars == <<mgrVars, inFlight, closed, op, req, fmcVars, history>>

None == 0
Tokens == 1..MaxTokens

\* A POST: what it asks, the pair it was started for, FMC's answer and the
\* pair that answer carries.
Op == [kind : {"none", "login", "refresh"}, pair : Tokens \cup {None},
       reply : {"none", "ok", "noRefresh", "bare", "denied", "error"},
       granted : Tokens \cup {None}]
NoOp == [kind |-> "none", pair |-> None, reply |-> "none", granted |-> None]

\* A request: whose promise it awaits, the token it captured, how many times
\* it has gone out and the token its first attempt carried.
Request == [pc : {"idle", "auth", "ready", "get", "done", "failed"},
            on : Requests \cup {Nobody}, token : Tokens \cup {None},
            tries : 0..2, first : Tokens \cup {None}]
NewRequest == [pc |-> "idle", on |-> Nobody, token |-> None,
               tries |-> 0, first |-> None]
Ended(pc) == [NewRequest EXCEPT !.pc = pc]

TypeOK ==
  /\ access \in Tokens \cup {None}
  /\ refresh \in Tokens \cup {None}
  /\ refreshCount \in 0..MaxRefreshes
  /\ due \in BOOLEAN
  /\ inFlight \in Requests \cup {Nobody}
  /\ latched \in BOOLEAN
  /\ closed \in BOOLEAN
  /\ op \in [Requests -> Op]
  /\ req \in [Requests -> Request]
  /\ issued \in Tokens \cup {None}
  /\ session \in Tokens \cup {None}
  /\ served \in Nat
  /\ goodPassword \in BOOLEAN
  /\ rejections \in Nat
  /\ dead \subseteq Tokens

Init ==
  /\ access = None /\ refresh = None
  /\ refreshCount = 0 /\ due = FALSE
  /\ inFlight = Nobody /\ latched = FALSE /\ closed = FALSE
  /\ op = [r \in Requests |-> NoOp]
  /\ req = [r \in Requests |-> NewRequest]
  /\ issued = 0 /\ session = None /\ served = 0
  /\ goodPassword \in BOOLEAN
  /\ rejections = 0 /\ dead = {}

-----------------------------------------------------------------------------
(* The manager *)

\* A wrong join: what the caller awaits never settles.
LostJoin(r) ==
  /\ req' = [req EXCEPT ![r].pc = "auth"]
  /\ UNCHANGED <<mgrVars, inFlight, op>>

\* acquireSingleFlight(): join the promise in flight, or send a POST.
Join(r) ==
  /\ req' = [req EXCEPT ![r].pc = "auth", ![r].on = inFlight]
  /\ UNCHANGED <<mgrVars, inFlight, op>>

Post(r, kind, pair) ==
  /\ inFlight' = r
  /\ op' = [op EXCEPT ![r] = [NoOp EXCEPT !.kind = kind, !.pair = pair]]
  /\ req' = [req EXCEPT ![r].pc = "auth", ![r].on = r]

\* A wrong gate: every caller starts a promise of its own.
UngatedSingleFlight(r, kind, pair) ==
  Post(r, kind, pair) /\ UNCHANGED mgrVars
SingleFlight(r, kind, pair) ==
  \/ inFlight # Nobody /\ Join(r)
  \/ inFlight = Nobody /\ Post(r, kind, pair) /\ UNCHANGED mgrVars

Fails(r) ==
  /\ req' = [req EXCEPT ![r] = Ended("failed")]
  /\ UNCHANGED <<mgrVars, inFlight, op>>

Gets(r, token) ==
  /\ req' = [req EXCEPT ![r].pc = "ready", ![r].token = token]
  /\ UNCHANGED <<mgrVars, inFlight, op>>

\* One refresh too many.
LooseRefreshAllowed == refreshCount <= MaxRefreshes
RefreshAllowed == refreshCount < MaxRefreshes

\* A wrong latch: bad credentials are not remembered.
NeverRefuses == closed
Refuses == closed \/ latched

\* getToken().  A refresh with no pair to present is a login.
GetToken(r) ==
  /\ req[r].pc = "idle"
  /\ \/ Refuses /\ Fails(r)
     \/ ~Refuses /\ access = None /\ SingleFlight(r, "login", None)
     \/ /\ ~Refuses /\ access # None /\ due
        /\ IF RefreshAllowed /\ refresh # None
             THEN SingleFlight(r, "refresh", refresh)
             ELSE SingleFlight(r, "login", None)
     \/ ~Refuses /\ access # None /\ ~due /\ Gets(r, access)
  /\ UNCHANGED <<closed, fmcVars, history>>

\* A wrong test: a refused token always means a new login.
NothingSupersedes(stale) == FALSE

Supersedes(stale) == access # None /\ access # stale

\* forceReauth(): the token is dropped inside the single-flight factory.
ForceReauth(r, stale) ==
  \/ Refuses /\ Fails(r)
  \/ ~Refuses /\ inFlight # Nobody /\ Join(r)
  \/ ~Refuses /\ inFlight = Nobody /\ Supersedes(stale) /\ Gets(r, access)
  \/ /\ ~Refuses /\ inFlight = Nobody /\ ~Supersedes(stale)
     /\ Post(r, "login", stale)
     /\ access' = None /\ refresh' = None
     /\ UNCHANGED <<refreshCount, due, latched>>

\* The promise r started settles: whoever awaits it goes on with the token,
\* or fails with its error.
Settle(r, token) ==
  /\ inFlight' = IF inFlight = r THEN Nobody ELSE inFlight
  /\ op' = [op EXCEPT ![r] = NoOp]
  /\ req' = [q \in Requests |->
               IF req[q].pc = "auth" /\ req[q].on = r
               THEN IF token = None THEN Ended("failed")
                    ELSE [req[q] EXCEPT !.pc = "ready", !.on = Nobody, !.token = token]
               ELSE req[q]]

\* applySuccessfulAuth(): the refresh header may be missing.
Apply(r) ==
  /\ access' = op[r].granted
  /\ refresh' = IF op[r].reply = "ok" THEN op[r].granted ELSE None
  /\ due' = FALSE
  /\ UNCHANGED latched

\* The 204 of a login or a refresh.
Granted(r) ==
  /\ op[r].reply \in {"ok", "noRefresh"}
  /\ Apply(r)
  /\ refreshCount' = IF op[r].kind = "login" THEN 0 ELSE refreshCount + 1
  /\ Settle(r, op[r].granted)

\* A 204 without the access token header, or any other answer to a login:
\* 401 and 403 latch, the rest do not.
AuthFails(r) ==
  /\ \/ op[r].reply = "bare"
     \/ op[r].kind = "login" /\ op[r].reply \in {"denied", "error"}
  /\ latched' = (latched \/ op[r].reply = "denied")
  /\ Settle(r, None)
  /\ UNCHANGED <<access, refresh, refreshCount, due>>

\* A refresh that is not a 204: the pair is dropped and the same promise goes
\* on to a login.
DropPair == access' = None /\ refresh' = None
\* A wrong fallback: the pair that was refused is kept.
KeepPair == UNCHANGED <<access, refresh>>
Fallback == DropPair

RefreshFails(r) ==
  /\ op[r].kind = "refresh" /\ op[r].reply \in {"denied", "error"}
  /\ Fallback
  /\ op' = [op EXCEPT ![r] = [NoOp EXCEPT !.kind = "login"]]
  /\ UNCHANGED <<refreshCount, due, latched, inFlight, req>>

Answered(r) ==
  /\ Granted(r) \/ AuthFails(r) \/ RefreshFails(r)
  /\ rejections' = IF op[r].kind = "login" /\ op[r].reply = "denied"
                   THEN rejections + 1 ELSE rejections
  /\ dead' = IF op[r].kind = "refresh" /\ op[r].reply \in {"denied", "error"}
             THEN dead \cup {op[r].pair} ELSE dead
  /\ UNCHANGED <<closed, fmcVars>>

\* The request timeout, or a network failure: nothing is known of what FMC
\* did, the promise rejects and the manager's state is as it was.
AuthLost(r) ==
  /\ op[r].kind # "none"
  /\ Settle(r, None)
  /\ UNCHANGED <<mgrVars, closed, fmcVars, history>>

\* clock.now() reaches state.proactiveRefreshAt.
ComesDue ==
  /\ access # None /\ ~due
  /\ due' = TRUE
  /\ UNCHANGED <<access, refresh, refreshCount, latched,
                 inFlight, closed, op, req, fmcVars, history>>

\* close(): no further call is answered; what is in flight goes on.
Close ==
  /\ ~closed
  /\ closed' = TRUE
  /\ access' = None /\ refresh' = None
  /\ UNCHANGED <<refreshCount, due, latched, inFlight, op, req, fmcVars, history>>

-----------------------------------------------------------------------------
(* fetchWithReauth(): one attempt, and one more after a 401.               *)

\* The GET goes out, after whatever wait the budget imposes on it.
SendGet(r) ==
  /\ req[r].pc = "ready"
  /\ req' = [req EXCEPT ![r].pc = "get", ![r].tries = @ + 1,
                           ![r].first = IF req[r].tries = 0 THEN req[r].token ELSE @]
  /\ UNCHANGED <<mgrVars, inFlight, closed, op, fmcVars, history>>

Finish(r, pc) ==
  /\ req' = [req EXCEPT ![r] = Ended(pc)]
  /\ UNCHANGED <<mgrVars, inFlight, op>>

GetAnswered(r) ==
  /\ req[r].pc = "get"
  /\ \/ req[r].token = session /\ Finish(r, "done")
     \/ Finish(r, "failed")                         \* 5xx, timeout, second 401
  /\ UNCHANGED <<closed, fmcVars, history>>

GetRefused(r) ==
  /\ req[r].pc = "get" /\ req[r].tries = 1
  /\ req[r].token # session
  /\ ForceReauth(r, req[r].token)
  /\ UNCHANGED <<closed, fmcVars, history>>

\* The next poll asks again.
Again(r) ==
  /\ req[r].pc \in {"done", "failed"}
  /\ req' = [req EXCEPT ![r] = NewRequest]
  /\ UNCHANGED <<mgrVars, inFlight, closed, op, fmcVars, history>>

-----------------------------------------------------------------------------
(* FMC *)

Issue ==
  /\ issued < MaxTokens
  /\ issued' = issued + 1 /\ session' = issued + 1

Replies(r, reply) ==
  op' = [op EXCEPT ![r].reply = reply,
                   ![r].granted = IF reply \in {"ok", "noRefresh"} THEN issued' ELSE None]

Pending(r, kind) == op[r].kind = kind /\ op[r].reply = "none"

LoginHandled(r) ==
  /\ Pending(r, "login")
  /\ \/ /\ goodPassword /\ Issue /\ served' = 0
        /\ \E reply \in {"ok", "noRefresh", "bare"} : Replies(r, reply)
     \/ ~goodPassword /\ Replies(r, "denied") /\ UNCHANGED <<issued, session, served>>
     \/ Replies(r, "error") /\ UNCHANGED <<issued, session, served>>
  /\ UNCHANGED <<mgrVars, inFlight, closed, req, goodPassword, history>>

RefreshHandled(r) ==
  /\ Pending(r, "refresh")
  /\ \/ /\ op[r].pair = session /\ Issue /\ served' = served + 1
        /\ \E reply \in {"ok", "noRefresh", "bare"} : Replies(r, reply)
     \/ op[r].pair # session /\ Replies(r, "denied") /\ UNCHANGED <<issued, session, served>>
     \/ Replies(r, "error") /\ UNCHANGED <<issued, session, served>>
  /\ UNCHANGED <<mgrVars, inFlight, closed, req, goodPassword, history>>

\* Another login to the same account, an expiry, an FMC restart.
Revoke ==
  /\ session # None
  /\ session' = None
  /\ UNCHANGED <<mgrVars, inFlight, closed, op, req, issued, served, goodPassword, history>>

ChangePassword ==
  /\ goodPassword' = ~goodPassword
  /\ UNCHANGED <<mgrVars, inFlight, closed, op, req, issued, session, served, history>>

-----------------------------------------------------------------------------
Moves(r) ==
  GetToken(r) \/ Answered(r) \/ AuthLost(r) \/ SendGet(r)
  \/ GetAnswered(r) \/ GetRefused(r) \/ Again(r)

Fmc == (\E r \in Requests : LoginHandled(r) \/ RefreshHandled(r)) \/ Revoke \/ ChangePassword

Next == (\E r \in Requests : Moves(r)) \/ ComesDue \/ Close \/ Fmc

Spec == Init /\ [][Next]_vars

\* Every POST and every GET is answered or times out.
Fairness ==
  \A r \in Requests :
    /\ WF_vars(Answered(r) \/ AuthLost(r))
    /\ WF_vars(SendGet(r))
    /\ WF_vars(GetAnswered(r) \/ GetRefused(r))

FairSpec == Spec /\ Fairness

-----------------------------------------------------------------------------
(* Properties *)

\* N concurrent requests in need of a token cost one auth POST: there is never
\* more than one outstanding, so refreshCount is never counted twice.
OneAuthAtATime ==
  \A r, q \in Requests : op[r].kind # "none" /\ op[q].kind # "none" => r = q

\* Once FMC has refused the credentials they are never presented again in the
\* life of the manager, however many requests need a token and whenever they do.
RejectedOnce == rejections <= 1

\* forceReauth() never logs in over a token FMC still accepts: a request that
\* is late to learn of its refused token does not end the session of the rest.
\* Nor does its second attempt ever go out with the refused token.
ReauthsOnce ==
  [][\A r \in Requests :
       /\ req[r].pc = "get" /\ op[r].kind = "none" /\ op'[r].kind = "login"
            => session = None \/ access # session
       /\ req'[r].pc = "get" /\ req'[r].tries = 2 => req'[r].token # req'[r].first]_vars

\* FMC is never asked for more refreshes of a login than it grants.
RefreshesWithinLimit == served <= MaxRefreshes

\* A pair whose refresh failed is never presented again.
NoDeadPair ==
  \A r \in Requests : Pending(r, "refresh") => op[r].pair \notin dead

\* Every request for a token and its GETs come to an end.
EveryRequestEnds ==
  \A r \in Requests :
    req[r].pc \in {"auth", "ready", "get"} ~> req[r].pc \in {"done", "failed"}

\* Refuted.  After close() the manager holds no token.
ClosedHoldsNoToken == closed => access = None /\ refresh = None
=============================================================================
