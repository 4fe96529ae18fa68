------------------------------ MODULE ApiClient ------------------------------
(***************************************************************************)
(* The frontend's HTTP client (frontend/src/services/api/client.ts): calls *)
(* in flight, and the one place where a 401 becomes a logout.              *)
(*                                                                         *)
(* JavaScript runs between two awaits without interruption, so an action   *)
(* is everything up to the next await.  A call is sent, handled by the     *)
(* backend, and answered: three steps, since the answers of different      *)
(* calls overtake one another.  A cookie is the number of the session that *)
(* was granted with it; of the backend only its valid sessions are kept.   *)
(***************************************************************************)
EXTENDS Naturals, FiniteSets, Functions

CONSTANTS
  Ids,       \* servers: the ids the backend may give out
  MaxCalls,  \* calls that may be in flight at once (a bound)
  Limit      \* how often each event of the outside may happen (a bound)

Happenings == {"any", "grant", "renew", "expire", "wrong", "lost", "edit", "click"}

ASSUME MaxCallsAssumption == MaxCalls \in Nat \ {0}
ASSUME LimitAssumption == Limit \in [Happenings -> Nat]

Slots == 1 .. MaxCalls

(* Calls of auth.ts go to paths under /auth/; the others are protected.     *)
AuthOps      == {"status", "login", "setup", "logout", "password"}
ServerOps    == {"list", "create", "update", "delete"}
SnapshotOps  == {"poll", "refresh"}
ProtectedOps == ServerOps \cup SnapshotOps
Verdicts     == {"sent", "ok", "setup", "anonymous", "unauth", "fail"}

(* op; the server (at most one); the list kept or brought along; the cookie *)
(* sent, or that the answer sets; what the backend said ("setup" and        *)
(* "anonymous" of /auth/status), "fail" once the promise is rejected        *)
Call == [op : AuthOps \cup ProtectedOps \cup {"free"}, srv : SUBSET Ids, list : SUBSET Ids,
         cred : Nat, verdict : Verdicts]
NoCall == [op |-> "free", srv |-> {}, list |-> {}, cred |-> 0, verdict |-> "sent"]

VARIABLES
  calls,      \* the calls in flight
  muted,      \* client.ts unauthorizedFired: a 401 was reported within the last second
  cookie,     \* the browser's session cookie, 0 if none
  sessions,   \* backend: the sessions it accepts
  budget      \* what remains of Limit

clientVars == <<calls, muted, cookie, sessions, budget>>

NewCall(op, srv, list) ==
  [op |-> op, srv |-> srv, list |-> list, cred |-> cookie, verdict |-> "sent"]

(* The page was just opened: AuthGate asks for the state of the account. *)
ClientInit ==
  /\ cookie = 1 /\ sessions \in {{}, {1}}
  /\ calls = [c \in Slots |-> IF c = 1 THEN NewCall("status", {}, {}) ELSE NoCall]
  /\ muted = FALSE
  /\ budget = Limit

(* every happening but a grant, which answers a click, counts as one of any *)
Take(e) ==
  /\ budget[e] > 0 /\ (e # "grant" => budget["any"] > 0)
  /\ budget' = [budget EXCEPT ![e] = @ - 1, !["any"] = IF e = "grant" THEN @ ELSE @ - 1]

(* The number of the next session *)
Fresh == 2 + Limit["grant"] - budget["grant"]

FreeSlots   == {c \in Slots : calls[c].op = "free"}
InFlight(O) == {c \in Slots : calls[c].op \in O}
LiveSession == cookie \in sessions

(* Where the calls of New go: the lowest of the free slots.                 *)
Places(free, New) ==
  {f \in Injection(New, free) :
     \A n \in New, c \in free : c < f[n] => \E m \in New : f[m] = c}

(* The table with the slots of Done freed, and with the calls of New in it. *)
Cleared(Done) == [c \in Slots |-> IF c \in Done THEN NoCall ELSE calls[c]]

Placed(table, New, place) ==
  [c \in Slots |-> IF \E n \in New : place[n] = c
                   THEN CHOOSE n \in New : place[n] = c
                   ELSE table[c]]

(* fetch was called; Done are the calls whose continuation does it.  What   *)
(* the user starts leaves room for a round of the poll.                     *)
Send(Done, New) ==
  LET places == Places({c \in Slots : Cleared(Done)[c].op = "free"}, New)
  IN  /\ places # {}
      /\ calls' = Placed(Cleared(Done), New, CHOOSE f \in places : TRUE)

Start(New) ==
  /\ Cardinality({c \in Slots : calls[c].op \notin {"free", "poll"}}) + Cardinality(Ids) < Cardinality(Slots)
  /\ Send({}, New)

-----------------------------------------------------------------------------
(* authMiddleware's answer to the cookie a call carries *)
Admitted(c) == calls[c].cred \in sessions

Settle(c, verdict) == calls' = [calls EXCEPT ![c].verdict = verdict]

(* The network fails before or after the backend handled the call: the      *)
(* promise of fetch is rejected, and a cookie set by the answer is lost.    *)
Lose(c) ==
  /\ calls[c].op # "free" /\ calls[c].verdict \notin {"unauth", "fail"}
  /\ Take("lost")
  /\ Settle(c, "fail")
  /\ UNCHANGED <<muted, cookie, sessions>>

(* authMiddleware refuses the session of a call. *)
Refuse(c) ==
  /\ calls[c].op \in ProtectedOps \cup {"password"} /\ calls[c].verdict = "sent"
  /\ ~Admitted(c)
  /\ Settle(c, "unauth")
  /\ UNCHANGED <<muted, cookie, sessions, budget>>

(* authMiddleware prolongs a session that is about to run out: the answer   *)
(* sets the cookie of the session the call was sent with.                   *)
Renew(c) ==
  /\ calls[c].op \in ProtectedOps /\ calls[c].verdict = "ok" /\ cookie # calls[c].cred
  /\ Take("renew")
  /\ cookie' = calls[c].cred
  /\ UNCHANGED <<calls, muted, sessions>>

(* Mutant: a path under /auth/ is dispatched like any other.                *)
DispatchedAny(c) == calls[c].verdict = "unauth"

(* handleAuthStatus: a 401 of a path outside /auth/ *)
Dispatched(c) == calls[c].verdict = "unauth" /\ calls[c].op \in ProtectedOps

(* The error text was read and request() throws: the continuation follows.  *)
Throw(c) == calls' = [calls EXCEPT ![c].verdict = "fail"]

(* The timer of fireUnauthorized *)
Unmute ==
  /\ muted
  /\ muted' = FALSE
  /\ UNCHANGED <<calls, cookie, sessions, budget>>

(* The session ends elsewhere: its time is up, or the password was changed  *)
(* or reset.                                                                *)
Expire ==
  /\ LiveSession
  /\ Take("expire")
  /\ sessions' = sessions \ {cookie}
  /\ UNCHANGED <<calls, muted, cookie>>
=============================================================================
