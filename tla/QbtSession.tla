----------------------------- MODULE QbtSession -----------------------------
(***************************************************************************)
(* The session the backend keeps with one qBittorrent server: the entry of *)
(* qbt.ClientManager (internal/qbt/client.go), and the three kinds of      *)
(* request that use it: the transparent proxy and the connection test of   *)
(* internal/api/handler.go, and the typed calls of internal/qbt/torrents.go*)
(* (doWithRetry).                                                          *)
(*                                                                         *)
(* The entry is kept under the server's id, whatever address it was        *)
(* obtained from, and Manager.mu guards single reads and writes of it: all *)
(* that lies between them, every HTTP exchange above all, interleaves.     *)
(* A request works on the address and credentials it read from the store   *)
(* when it arrived.                                                        *)
(*                                                                         *)
(* The qBittorrent instances are outside the repository: they accept a     *)
(* login with the right credentials, execute a request that carries a live *)
(* SID and answer 403 to any other, forget sessions, and come and go.  A   *)
(* SID is a number, 0 the lack of one.                                     *)
(***************************************************************************)
EXTENDS Naturals, FiniteSets

CONSTANTS
  Instances,  \* qBittorrent instances, one per base URL
  Handlers,   \* goroutines, one request each at a time
  None,       \* the server is not configured any more
  MaxSid,     \* bound on the logins that succeed
  MaxEvents   \* bound on what happens to the instances and the settings

ASSUME NoneAssumption == None \notin [at : Instances, good : BOOLEAN]
ASSUME BoundAssumption == MaxSid \in Nat /\ MaxEvents \in Nat

VARIABLES
  conf,    \* config.Store: the server's address, and whether the credentials fit
  sid,     \* ClientManager.clients[id]
  alive,   \* per instance, the sessions it accepts
  down,    \* instances that cannot be reached
  minted,  \* sessions handed out so far
  req,     \* per handler, its request
  calm,    \* history: nothing has disturbed the handler's request so far
  left     \* events that may still happen

vars == <<conf, sid, alive, down, minted, req, calm, left>>

Conns == [at : Instances, good : BOOLEAN]
Kinds == {"proxy", "typed", "test", "delete"}
Steps == {"done", "ensure", "login", "store", "send", "flying", "forget"}
Results == {"none", "served", "refused", "forbidden", "unreachable"}

Requests == [kind : Kinds, step : Steps, conn : Conns \cup {None}, retry : BOOLEAN,
             sid : Nat, fx : Nat, res : Results]

New(kind, step, conn) == [kind |-> kind, step |-> step, conn |-> conn, retry |-> FALSE,
                          sid |-> 0, fx |-> 0, res |-> "none"]

(* The backend has just started with the server configured.                 *)
Init ==
  /\ conf \in Conns
  /\ sid = 0
  /\ alive = [i \in Instances |-> {}]
  /\ down = {}
  /\ minted = 0
  /\ req = [h \in Handlers |-> New("proxy", "done", None)]
  /\ calm = [h \in Handlers |-> FALSE]
  /\ left = MaxEvents

At(h, step) == req[h].step = step

(* The request of h ends: what it worked with is dropped, n is the number   *)
(* of times it had its effect.                                              *)
Done(h, res, n) == req' = [req EXCEPT ![h] = [New(@.kind, "done", None) EXCEPT !.res = res, !.fx = n]]

(* Another request of g works on the same instance as conn, and any session *)
(* it is about to store is one the instance still knows.                    *)
Harmless(g, conn) ==
  \/ req[g].step \in {"done", "forget"}
  \/ req[g].conn.at = conn.at /\ (At(g, "store") => req[g].sid \in alive[conn.at])

(* What disturbs the requests under way.                                    *)
Event == left > 0 /\ left' = left - 1 /\ calm' = [h \in Handlers |-> FALSE]

-----------------------------------------------------------------------------
(* proxyToQbt, and resolveConn of the typed endpoints: the server is looked *)
(* up once.  (An unknown id is answered 404 and leaves no trace.)           *)
Arrive(h, kind) ==
  /\ At(h, "done") /\ conf # None
  /\ req' = [req EXCEPT ![h] = New(kind, "ensure", conf)]
  /\ calm' = [calm EXCEPT ![h] =
       /\ conf.good /\ conf.at \notin down
       /\ \A g \in Handlers \ {h} : Harmless(g, conf)]
  /\ UNCHANGED <<conf, sid, alive, down, minted, left>>

(* testConnection, with the saved settings or with a draft of the form: it  *)
(* is a Login under the server's id.                                        *)
Test(h, draft) ==
  /\ At(h, "done") /\ conf # None
  /\ req' = [req EXCEPT ![h] = New("test", "login", draft)]
  /\ calm' = [g \in Handlers |-> g # h /\ calm[g] /\ (At(g, "done") \/ req[g].conn.at = draft.at)]
  /\ UNCHANGED <<conf, sid, alive, down, minted, left>>

(* client.HasValidSID(): whatever entry there is will do                    *)
Ensure(h) ==
  /\ At(h, "ensure")
  /\ req' = [req EXCEPT ![h].step = IF sid # 0 THEN "send" ELSE "login"]
  /\ UNCHANGED <<conf, sid, alive, down, minted, calm, left>>

(* Login: an instance that cannot be reached and a wrong password are both  *)
(* told as a login without success.                                         *)
Login(h) ==
  /\ At(h, "login")
  /\ LET c == req[h].conn IN
       \/ /\ c.good /\ c.at \notin down /\ minted < MaxSid
          /\ minted' = minted + 1
          /\ alive' = [alive EXCEPT ![c.at] = @ \cup {minted + 1}]
          /\ req' = [req EXCEPT ![h] = [@ EXCEPT !.step = "store", !.sid = minted + 1]]
       \/ /\ ~c.good \/ c.at \in down
          /\ Done(h, "refused", req[h].fx)
          /\ UNCHANGED <<alive, minted>>
  /\ UNCHANGED <<conf, sid, down, calm, left>>

(* Login fails though the credentials fit: the instance has banned the       *)
(* backend's address (403), or lets it in without a SID.                    *)
LoginFails(h) ==
  /\ At(h, "login") /\ req[h].conn.good /\ req[h].conn.at \notin down
  /\ Done(h, "refused", req[h].fx)
  /\ Event
  /\ UNCHANGED <<conf, sid, alive, down, minted>>

(* setSID; the server may have been deleted or moved meanwhile              *)
Store(h) ==
  /\ At(h, "store")
  /\ sid' = req[h].sid
  /\ IF req[h].kind = "test" THEN Done(h, "served", 0) ELSE req' = [req EXCEPT ![h].step = "send"]
  /\ UNCHANGED <<conf, alive, down, minted, calm, left>>

(* DoRequest: the entry is looked up afresh for each attempt                *)
Send(h) ==
  /\ At(h, "send")
  /\ req' = [req EXCEPT ![h] = [@ EXCEPT !.step = "flying", !.sid = sid]]
  /\ UNCHANGED <<conf, sid, alive, down, minted, calm, left>>

Live(h) == req[h].sid \in alive[req[h].conn.at]

(* Mutant: the retry makes sure of a session instead of getting a new one.  *)
AnswerEnsuring(h) ==
  /\ At(h, "flying")
  /\ LET c == req[h].conn IN
       \/ c.at \in down /\ Done(h, "unreachable", req[h].fx)
       \/ /\ c.at \notin down /\ Live(h)
          /\ Done(h, "served", req[h].fx + 1)
       \/ /\ c.at \notin down /\ ~Live(h) /\ ~req[h].retry
          /\ req' = [req EXCEPT ![h] = [@ EXCEPT !.step = "ensure", !.retry = TRUE]]
       \/ /\ c.at \notin down /\ ~Live(h) /\ req[h].retry
          /\ Done(h, "forbidden", req[h].fx)
  /\ UNCHANGED <<conf, sid, alive, down, minted, calm, left>>

(* The answer of the instance: a first 403 means a forced login and a       *)
(* second attempt, whatever comes of that is passed on.                     *)
Answer(h) ==
  /\ At(h, "flying")
  /\ LET c == req[h].conn IN
       \/ c.at \in down /\ Done(h, "unreachable", req[h].fx)
       \/ /\ c.at \notin down /\ Live(h)
          /\ Done(h, "served", req[h].fx + 1)
       \/ /\ c.at \notin down /\ ~Live(h) /\ ~req[h].retry
          /\ req' = [req EXCEPT ![h] = [@ EXCEPT !.step = "login", !.retry = TRUE]]
       \/ /\ c.at \notin down /\ ~Live(h) /\ req[h].retry
          /\ Done(h, "forbidden", req[h].fx)
  /\ UNCHANGED <<conf, sid, alive, down, minted, calm, left>>

-----------------------------------------------------------------------------
(* What else disturbs a request.                                            *)

(* Mutant: a request whose answer was lost is sent again.                   *)
LostRetrying(h) ==
  /\ At(h, "flying") /\ req[h].conn.at \notin down /\ Live(h)
  /\ req' = [req EXCEPT ![h] =
       IF @.retry THEN [New(@.kind, "done", None) EXCEPT !.res = "unreachable", !.fx = req[h].fx + 1]
       ELSE [@ EXCEPT !.step = "send", !.retry = TRUE, !.fx = @ + 1]]
  /\ Event
  /\ UNCHANGED <<conf, sid, alive, down, minted>>

(* The instance executes the request and the answer is lost on the way.     *)
Lost(h) ==
  /\ At(h, "flying") /\ req[h].conn.at \notin down /\ Live(h)
  /\ Done(h, "unreachable", req[h].fx + 1)
  /\ Event
  /\ UNCHANGED <<conf, sid, alive, down, minted>>

(* A session times out, or the instance is restarted.                       *)
Expire(i) ==
  /\ alive[i] # {}
  /\ alive' = [alive EXCEPT ![i] = {}]
  /\ Event
  /\ UNCHANGED <<conf, sid, down, minted, req>>

(* An instance goes, or comes back.                                         *)
Toggle(i) ==
  /\ down' = IF i \in down THEN down \ {i} ELSE down \cup {i}
  /\ Event
  /\ UNCHANGED <<conf, sid, alive, minted, req>>

(* updateServer: the session of the former address or account stays.        *)
Update(c) ==
  /\ conf # None /\ conf' = c
  /\ Event
  /\ UNCHANGED <<sid, alive, down, minted, req>>

(* deleteServer: the store first ...                                        *)
Delete(h) ==
  /\ At(h, "done") /\ conf # None
  /\ conf' = None
  /\ req' = [req EXCEPT ![h] = New("delete", "forget", None)]
  /\ Event
  /\ UNCHANGED <<sid, alive, down, minted>>

(* ... and then ClientManager.Remove                                        *)
Remove(h) ==
  /\ At(h, "forget")
  /\ sid' = 0
  /\ Done(h, "served", 0)
  /\ UNCHANGED <<conf, alive, down, minted, calm, left>>

-----------------------------------------------------------------------------
Serve(h) ==
  \/ \E kind \in {"proxy", "typed"} : Arrive(h, kind)
  \/ \E draft \in Conns : Test(h, draft)
  \/ Ensure(h) \/ Login(h) \/ LoginFails(h) \/ Store(h) \/ Send(h) \/ Answer(h) \/ Lost(h)
  \/ Delete(h) \/ Remove(h)

Next ==
  \/ \E h \in Handlers : Serve(h)
  \/ \E i \in Instances : Expire(i) \/ Toggle(i)
  \/ \E c \in Conns : Update(c)

Spec == Init /\ [][Next]_vars

-----------------------------------------------------------------------------
(* Properties.                                                              *)

(* Type invariant; sessions are numbered as they are handed out, and a      *)
(* request under way works on a configuration.                              *)
TypeOK ==
  /\ conf \in Conns \cup {None}
  /\ minted \in Nat /\ left \in Nat
  /\ sid \in 0..minted
  /\ alive \in [Instances -> SUBSET (1..minted)]
  /\ down \subseteq Instances
  /\ req \in [Handlers -> Requests]
  /\ calm \in [Handlers -> BOOLEAN]
  /\ \A h \in Handlers :
       /\ req[h].sid <= minted
       /\ req[h].step \notin {"done", "forget"} => req[h].conn \in Conns

(* doWithRetry and proxyToQbt try again only after a 403, so a request has  *)
(* its effect on the instance at most once, exactly once when it is told a  *)
(* success, and not at all when it is told that the session was refused.    *)
ExecutedOnce ==
  \A h \in Handlers :
    /\ req[h].fx <= 1
    /\ req[h].kind \in {"proxy", "typed"} /\ req[h].res = "served" => req[h].fx = 1
    /\ req[h].res \in {"refused", "forbidden"} => req[h].fx = 0

(* Whatever session an earlier request, a connection test or an expiry left *)
(* behind, a request with the right settings for a reachable instance is    *)
(* served, unless something happens to the instance or the settings, or a   *)
(* request for another instance runs, at the same time.                     *)
HealthyServed ==
  \A h \in Handlers : calm[h] /\ req[h].step = "done" => req[h].res = "served"
=============================================================================
