------------------------- MODULE AgentManagerProofs -------------------------
(* Theorems about AgentManager, for any servers, connections and calls.     *)
EXTENDS AgentManager, TLAPS

-----------------------------------------------------------------------------
(* What an update of one record of conn, call or adm leaves: the other      *)
(* records as they were, and the one with the given fields.                 *)

ConnNow(c, step, srv, to, ans) ==
  /\ conn' \in [Conns -> Links]
  /\ \A d \in Conns : d # c => conn'[d] = conn[d]
  /\ conn'[c].step = step /\ conn'[c].srv = srv /\ conn'[c].to = to /\ conn'[c].ans = ans

CallNow(k, step, srv, c, id) ==
  /\ call' \in [Calls -> Listings]
  /\ \A j \in Calls : j # k => call'[j] = call[j]
  /\ call'[k].step = step /\ call'[k].srv = srv /\ call'[k].conn = c /\ call'[k].id = id

AdmNow(a, step, srv, c) ==
  /\ adm' \in [Admins -> Requests]
  /\ \A b \in Admins : b # a => adm'[b] = adm[b]
  /\ adm'[a].step = step /\ adm'[a].srv = srv /\ adm'[a].conn = c

(* A step of a connection that only moves it on.                            *)
LEMMA ConnStep ==
  ASSUME conn \in [Conns -> Links], NEW c \in Conns, NEW s \in LinkSteps,
         conn' = [conn EXCEPT ![c].step = s]
  PROVE  ConnNow(c, s, conn[c].srv, conn[c].to, conn[c].ans)
<1> DEFINE m == [conn[c] EXCEPT !.step = s]
<1>1. m \in Links /\ m.step = s /\ m.srv = conn[c].srv /\ m.to = conn[c].to /\ m.ans = conn[c].ans
  BY DEF Links
<1>2. conn' = [conn EXCEPT ![c] = m]
  OBVIOUS
<1> HIDE DEF m
<1>3. QED
  BY <1>1, <1>2 DEF ConnNow

(* handleAgentWs fills in the server and the token.                         *)
LEMMA ConnDial ==
  ASSUME conn \in [Conns -> Links], NEW c \in Conns, NEW s \in Servers, NEW t \in Nat,
         conn' = [conn EXCEPT ![c] = [@ EXCEPT !.step = "upgraded", !.srv = s, !.tok = t]]
  PROVE  ConnNow(c, "upgraded", s, conn[c].to, conn[c].ans)
<1> DEFINE m == [conn[c] EXCEPT !.step = "upgraded", !.srv = s, !.tok = t]
<1>1. m \in Links /\ m.step = "upgraded" /\ m.srv = s /\ m.to = conn[c].to /\ m.ans = conn[c].ans
  BY DEF Links, LinkSteps
<1>2. conn' = [conn EXCEPT ![c] = m]
  OBVIOUS
<1> HIDE DEF m
<1>3. QED
  BY <1>1, <1>2 DEF ConnNow

(* handleMessage holds an answer and the call it is for, or lets go of them. *)
LEMMA ConnHold ==
  ASSUME conn \in [Conns -> Links], NEW c \in Conns, NEW s \in LinkSteps,
         NEW k \in Calls \cup {None}, NEW r \in Calls \cup {None},
         conn' = [conn EXCEPT ![c] = [@ EXCEPT !.step = s, !.to = k, !.ans = r]]
  PROVE  ConnNow(c, s, conn[c].srv, k, r)
<1> DEFINE m == [conn[c] EXCEPT !.step = s, !.to = k, !.ans = r]
<1>1. m \in Links /\ m.step = s /\ m.srv = conn[c].srv /\ m.to = k /\ m.ans = r
  BY DEF Links
<1>2. conn' = [conn EXCEPT ![c] = m]
  OBVIOUS
<1> HIDE DEF m
<1>3. QED
  BY <1>1, <1>2 DEF ConnNow

(* A listing that only moves on.                                            *)
LEMMA CallStep ==
  ASSUME call \in [Calls -> Listings], NEW k \in Calls, NEW s \in CallSteps,
         call' = [call EXCEPT ![k].step = s]
  PROVE  CallNow(k, s, call[k].srv, call[k].conn, call[k].id)
<1> DEFINE m == [call[k] EXCEPT !.step = s]
<1>1. m \in Listings /\ m.step = s /\ m.srv = call[k].srv /\ m.conn = call[k].conn /\ m.id = call[k].id
  BY DEF Listings
<1>2. call' = [call EXCEPT ![k] = m]
  OBVIOUS
<1> HIDE DEF m
<1>3. QED
  BY <1>1, <1>2 DEF CallNow

(* A listing that moves on and knows its outcome.                           *)
LEMMA CallResult ==
  ASSUME call \in [Calls -> Listings], NEW k \in Calls, NEW s \in CallSteps, NEW r \in Outcomes,
         call' = [call EXCEPT ![k] = [@ EXCEPT !.step = s, !.res = r]]
  PROVE  CallNow(k, s, call[k].srv, call[k].conn, call[k].id)
<1> DEFINE m == [call[k] EXCEPT !.step = s, !.res = r]
<1>1. m \in Listings /\ m.step = s /\ m.srv = call[k].srv /\ m.conn = call[k].conn /\ m.id = call[k].id
  BY DEF Listings
<1>2. call' = [call EXCEPT ![k] = m]
  OBVIOUS
<1> HIDE DEF m
<1>3. QED
  BY <1>1, <1>2 DEF CallNow

(* listFsDir fills in the downloader ...                                    *)
LEMMA CallServer ==
  ASSUME call \in [Calls -> Listings], NEW k \in Calls, NEW v \in Servers, NEW s \in CallSteps, NEW r \in Outcomes,
         \/ call' = [call EXCEPT ![k] = [@ EXCEPT !.step = s, !.srv = v]]
         \/ call' = [call EXCEPT ![k] = [@ EXCEPT !.step = s, !.srv = v, !.res = r]]
  PROVE  CallNow(k, s, v, call[k].conn, call[k].id)
<1> DEFINE m == call'[k]
<1>1. m \in Listings /\ m.step = s /\ m.srv = v /\ m.conn = call[k].conn /\ m.id = call[k].id
  BY DEF Listings
<1>2. call' = [call EXCEPT ![k] = m]
  OBVIOUS
<1> HIDE DEF m
<1>3. QED
  BY <1>1, <1>2 DEF CallNow

(* ... Call the connection ...                                              *)
LEMMA CallConn ==
  ASSUME call \in [Calls -> Listings], NEW k \in Calls, NEW c \in Conns,
         call' = [call EXCEPT ![k] = [@ EXCEPT !.step = "found", !.conn = c]]
  PROVE  CallNow(k, "found", call[k].srv, c, call[k].id)
<1> DEFINE m == [call[k] EXCEPT !.step = "found", !.conn = c]
<1>1. m \in Listings /\ m.step = "found" /\ m.srv = call[k].srv /\ m.conn = c /\ m.id = call[k].id
  BY DEF Listings, CallSteps
<1>2. call' = [call EXCEPT ![k] = m]
  OBVIOUS
<1> HIDE DEF m
<1>3. QED
  BY <1>1, <1>2 DEF CallNow

(* ... and the id.                                                          *)
LEMMA CallId ==
  ASSUME call \in [Calls -> Listings], NEW k \in Calls, NEW n \in Nat,
         call' = [call EXCEPT ![k] = [@ EXCEPT !.step = "write", !.id = n]]
  PROVE  CallNow(k, "write", call[k].srv, call[k].conn, n)
<1> DEFINE m == [call[k] EXCEPT !.step = "write", !.id = n]
<1>1. m \in Listings /\ m.step = "write" /\ m.srv = call[k].srv /\ m.conn = call[k].conn /\ m.id = n
  BY DEF Listings, CallSteps
<1>2. call' = [call EXCEPT ![k] = m]
  OBVIOUS
<1> HIDE DEF m
<1>3. QED
  BY <1>1, <1>2 DEF CallNow

(* The store is saved for a server.                                         *)
LEMMA AdmSave ==
  ASSUME adm \in [Admins -> Requests], NEW a \in Admins, NEW s \in Servers,
         adm' = [adm EXCEPT ![a] = [@ EXCEPT !.step = "saved", !.srv = s]]
  PROVE  AdmNow(a, "saved", s, adm[a].conn)
<1> DEFINE m == [adm[a] EXCEPT !.step = "saved", !.srv = s]
<1>1. m \in Requests /\ m.step = "saved" /\ m.srv = s /\ m.conn = adm[a].conn
  BY DEF Requests, AdmSteps
<1>2. adm' = [adm EXCEPT ![a] = m]
  OBVIOUS
<1> HIDE DEF m
<1>3. QED
  BY <1>1, <1>2 DEF AdmNow

(* Remove takes a connection, or none, out of the registry.                 *)
LEMMA AdmTake ==
  ASSUME adm \in [Admins -> Requests], NEW a \in Admins, NEW c \in Conns \cup {None},
         adm' = [adm EXCEPT ![a] = [@ EXCEPT !.step = "taken", !.conn = c]]
  PROVE  AdmNow(a, "taken", adm[a].srv, c)
<1> DEFINE m == [adm[a] EXCEPT !.step = "taken", !.conn = c]
<1>1. m \in Requests /\ m.step = "taken" /\ m.srv = adm[a].srv /\ m.conn = c
  BY DEF Requests, AdmSteps
<1>2. adm' = [adm EXCEPT ![a] = m]
  OBVIOUS
<1> HIDE DEF m
<1>3. QED
  BY <1>1, <1>2 DEF AdmNow

(* The request of the administrator ends.                                   *)
LEMMA AdmDone ==
  ASSUME adm \in [Admins -> Requests], NEW a \in Admins, adm' = [adm EXCEPT ![a] = IdleAdm]
  PROVE  AdmNow(a, "idle", None, None)
  BY DEF AdmNow, IdleAdm, Requests, AdmSteps

(* The fields of the records.                                               *)
LEMMA Fields ==
  /\ \A l \in Listings : l.conn \in Conns \cup {None} /\ l.id \in Nat /\ l.res \in Outcomes
  /\ \A q \in Requests : q.conn \in Conns \cup {None}
  BY DEF Listings, Requests

-----------------------------------------------------------------------------
(* Type correctness.  It needs to know which step fills in which field.     *)

Filled ==
  /\ \A c \in Conns : conn[c].step = "sending" => conn[c].to \in Calls /\ conn[c].ans \in Calls
  /\ \A k \in Calls : call[k].step # "unused" => call[k].srv \in Servers
  /\ \A a \in Admins : adm[a].step # "idle" => adm[a].srv \in Servers

TypeInv == TypeOK /\ Filled

(* The handlers start from nothing.                                         *)
LEMMA Initially == Init => TypeInv
<1> SUFFICES ASSUME Init PROVE TypeInv
  OBVIOUS
<1>1. NewConn \in Links /\ NewConn.step = "unused"
  BY DEF NewConn, Links, LinkSteps
<1>2. NewCall \in Listings /\ NewCall.step = "unused"
  BY DEF NewCall, Listings, CallSteps, Outcomes
<1>3. IdleAdm \in Requests /\ IdleAdm.step = "idle"
  BY DEF IdleAdm, Requests, AdmSteps
<1>4. QED
  BY <1>1, <1>2, <1>3 DEF Init, TypeInv, TypeOK, Filled

(* What each action does to the record of its connection ...                *)
LEMMA ConnEffects ==
  ASSUME TypeInv, NEW c \in Conns
  PROVE  /\ \A s \in Servers : Dial(c, s) => ConnNow(c, "upgraded", s, conn[c].to, conn[c].ans)
         /\ Register(c)   => ConnNow(c, "reading", conn[c].srv, conn[c].to, conn[c].ans)
         /\ Deliver(c)    => ConnNow(c, "reading", conn[c].srv, None, None)
         /\ ReadError(c)  => ConnNow(c, "exit", conn[c].srv, conn[c].to, conn[c].ans)
         /\ Unregister(c) => ConnNow(c, "gone", conn[c].srv, conn[c].to, conn[c].ans)
<1>0. conn \in [Conns -> Links] /\ token \in [Servers -> Nat]
  BY DEF TypeInv, TypeOK
<1>1. ASSUME NEW s \in Servers, Dial(c, s) PROVE ConnNow(c, "upgraded", s, conn[c].to, conn[c].ans)
  BY <1>0, <1>1, ConnDial DEF Dial
<1>2. Register(c) => ConnNow(c, "reading", conn[c].srv, conn[c].to, conn[c].ans)
  BY <1>0, ConnStep DEF Register, LinkSteps
<1>3. Deliver(c) => ConnNow(c, "reading", conn[c].srv, None, None)
  BY <1>0, ConnHold DEF Deliver, LinkSteps
<1>4. ReadError(c) => ConnNow(c, "exit", conn[c].srv, conn[c].to, conn[c].ans)
  BY <1>0, ConnStep DEF ReadError, LinkSteps
<1>5. Unregister(c) => ConnNow(c, "gone", conn[c].srv, conn[c].to, conn[c].ans)
  BY <1>0, ConnStep DEF Unregister, LinkSteps
<1>6. QED
  BY <1>1, <1>2, <1>3, <1>4, <1>5

(* ... and to that of its administrator.                                    *)
LEMMA AdmEffects ==
  ASSUME TypeInv, NEW a \in Admins
  PROVE  /\ \A s \in Servers : Save(a, s) => AdmNow(a, "saved", s, adm[a].conn)
         /\ Take(a) => AdmNow(a, "taken", adm[a].srv, conns[adm[a].srv])
         /\ Shut(a) => AdmNow(a, "idle", None, None)
<1>0. /\ adm \in [Admins -> Requests] /\ conns \in [Servers -> Conns \cup {None}]
      /\ adm[a].step # "idle" => adm[a].srv \in Servers
  BY DEF TypeInv, TypeOK, Filled
<1>1. ASSUME NEW s \in Servers, Save(a, s) PROVE AdmNow(a, "saved", s, adm[a].conn)
  BY <1>0, <1>1, AdmSave DEF Save
<1>2. Take(a) => AdmNow(a, "taken", adm[a].srv, conns[adm[a].srv])
  BY <1>0, AdmTake DEF Take
<1>3. Shut(a) => AdmNow(a, "idle", None, None)
  BY <1>0, AdmDone DEF Shut
<1>4. QED
  BY <1>1, <1>2, <1>3

(* handleMessage that finds its call.                                       *)
LEMMA ReceiveEffect ==
  ASSUME TypeInv, NEW c \in Conns, Receive(c)
  PROVE  \E f \in sent[c], p \in pending[c] :
           /\ p.id = f.id /\ p.to \in Calls /\ f.req \in Calls /\ p \in [id : Nat, to : Calls]
           /\ pending' = [pending EXCEPT ![c] = @ \ {p}]
           /\ ConnNow(c, "sending", conn[c].srv, p.to, f.req)
<1>0. /\ conn \in [Conns -> Links] /\ pending \in [Conns -> SUBSET [id : Nat, to : Calls]]
      /\ sent \in [Conns -> SUBSET [id : Nat, req : Calls]]
  BY DEF TypeInv, TypeOK
<1>1. PICK f \in sent[c], p \in pending[c] :
        /\ p.id = f.id
        /\ pending' = [pending EXCEPT ![c] = @ \ {p}]
        /\ conn' = [conn EXCEPT ![c] = [@ EXCEPT !.step = "sending", !.to = p.to, !.ans = f.req]]
  BY DEF Receive
<1>2. p \in [id : Nat, to : Calls] /\ f \in [id : Nat, req : Calls]
  BY <1>0
<1>3. p.to \in Calls /\ f.req \in Calls
  BY <1>2
<1>4. ConnNow(c, "sending", conn[c].srv, p.to, f.req)
  BY <1>0, <1>1, <1>3, ConnHold DEF LinkSteps
<1>5. QED
  BY <1>1, <1>2, <1>3, <1>4

(* What each action does to a listing.                                      *)
LEMMA CallEffects ==
  ASSUME TypeInv, NEW k \in Calls
  PROVE  /\ \A s \in Servers : ListDir(k, s) => \E t \in {"lookup", "done"} : CallNow(k, t, s, call[k].conn, call[k].id)
         /\ Lookup(k)   => \/ CallNow(k, "done", call[k].srv, call[k].conn, call[k].id)
                           \/ /\ conns[call[k].srv] # None
                              /\ CallNow(k, "found", call[k].srv, conns[call[k].srv], call[k].id)
         /\ Enter(k)    => CallNow(k, "write", call[k].srv, call[k].conn, nextID + 1)
         /\ Write(k)    => \E t \in {"wait", "remove"} : CallNow(k, t, call[k].srv, call[k].conn, call[k].id)
         /\ Answered(k) => CallNow(k, "done", call[k].srv, call[k].conn, call[k].id)
         /\ Timeout(k)  => CallNow(k, "remove", call[k].srv, call[k].conn, call[k].id)
         /\ Woken(k)    => CallNow(k, "remove", call[k].srv, call[k].conn, call[k].id)
         /\ Remove(k)   => CallNow(k, "done", call[k].srv, call[k].conn, call[k].id)
<1>0. /\ call \in [Calls -> Listings] /\ nextID \in Nat
      /\ conns \in [Servers -> Conns \cup {None}]
      /\ call[k].step # "unused" => call[k].srv \in Servers
  BY DEF TypeInv, TypeOK, Filled
<1>f. ASSUME NEW r \in Outcomes, Finish(k, r)
      PROVE  CallNow(k, "done", call[k].srv, call[k].conn, call[k].id)
  <2>1. Outcome(k, r) \in Outcomes
    BY DEF Outcome, Outcomes
  <2>2. QED
    BY <1>0, <1>f, <2>1, CallResult DEF Finish, CallSteps
<1>1. ASSUME NEW s \in Servers, ListDir(k, s)
      PROVE  \E t \in {"lookup", "done"} : CallNow(k, t, s, call[k].conn, call[k].id)
  <2>1. CASE conns[s] # None
    <3>1. call' = [call EXCEPT ![k] = [@ EXCEPT !.step = "lookup", !.srv = s]]
      BY <1>1, <2>1 DEF ListDir
    <3>2. CallNow(k, "lookup", s, call[k].conn, call[k].id)
      BY <1>0, <3>1, CallServer DEF CallSteps, Outcomes
    <3>3. QED
      BY <3>2
  <2>2. CASE conns[s] = None
    <3>1. PICK r \in {"local", "required"} :
            call' = [call EXCEPT ![k] = [@ EXCEPT !.step = "done", !.srv = s, !.res = r]]
      BY <1>1, <2>2 DEF ListDir
    <3>2. CallNow(k, "done", s, call[k].conn, call[k].id)
      BY <1>0, <3>1, CallServer DEF CallSteps, Outcomes
    <3>3. QED
      BY <3>2
  <2>3. QED
    BY <2>1, <2>2
<1>2. ASSUME Lookup(k)
      PROVE  \/ CallNow(k, "done", call[k].srv, call[k].conn, call[k].id)
             \/ /\ conns[call[k].srv] # None
                /\ CallNow(k, "found", call[k].srv, conns[call[k].srv], call[k].id)
  BY <1>0, <1>f, <1>2, CallConn DEF Lookup, Outcomes
<1>3. ASSUME Enter(k) PROVE CallNow(k, "write", call[k].srv, call[k].conn, nextID + 1)
  <2> DEFINE n == nextID + 1
  <2>1. n \in Nat
    BY <1>0
  <2>2. call' = [call EXCEPT ![k] = [@ EXCEPT !.step = "write", !.id = n]]
    BY <1>3 DEF Enter
  <2> HIDE DEF n
  <2>3. CallNow(k, "write", call[k].srv, call[k].conn, n)
    BY <1>0, <2>1, <2>2, CallId
  <2>4. QED
    BY <2>3 DEF n
<1>4. ASSUME Write(k)
      PROVE  \E t \in {"wait", "remove"} : CallNow(k, t, call[k].srv, call[k].conn, call[k].id)
  <2>1. CASE call' = [call EXCEPT ![k].step = "wait"]
    BY <1>0, <2>1, CallStep DEF CallSteps
  <2>2. CASE call' = [call EXCEPT ![k] = [@ EXCEPT !.step = "remove", !.res = "offline"]]
    BY <1>0, <2>2, CallResult DEF CallSteps, Outcomes
  <2>3. QED
    BY <1>4, <2>1, <2>2 DEF Write
<1>5. Answered(k) => CallNow(k, "done", call[k].srv, call[k].conn, call[k].id)
  BY <1>f DEF Answered, Outcomes
<1>6. Timeout(k) => CallNow(k, "remove", call[k].srv, call[k].conn, call[k].id)
  BY <1>0, CallResult DEF Timeout, CallSteps, Outcomes
<1>7. Woken(k) => CallNow(k, "remove", call[k].srv, call[k].conn, call[k].id)
  BY <1>0, CallResult DEF Woken, CallSteps, Outcomes
<1>8. ASSUME Remove(k) PROVE CallNow(k, "done", call[k].srv, call[k].conn, call[k].id)
  <2>1. call[k].res \in Outcomes
    BY <1>0 DEF Listings
  <2>2. QED
    BY <1>f, <1>8, <2>1 DEF Remove
<1>9. QED
  BY <1>1, <1>2, <1>3, <1>4, <1>5, <1>6, <1>7, <1>8

(* The steps of a connection keep the types.                                *)
LEMMA ConnectionType == ASSUME TypeInv, NEW c \in Conns, Connection(c) PROVE TypeInv'
<1>1. ASSUME NEW s \in Servers, Dial(c, s) PROVE TypeInv'
  <2>1. ConnNow(c, "upgraded", s, conn[c].to, conn[c].ans)
    BY <1>1, ConnEffects
  <2>2. QED
    BY <1>1, <2>1 DEF Dial, ConnNow, TypeInv, TypeOK, Filled
<1>2. CASE Register(c)
  <2>1. ConnNow(c, "reading", conn[c].srv, conn[c].to, conn[c].ans)
    BY <1>2, ConnEffects
  <2>2. QED
    BY <1>2, <2>1 DEF Register, ConnNow, TypeInv, TypeOK, Filled
<1>3. CASE Receive(c)
  <2>1. PICK f \in sent[c], p \in pending[c] :
          /\ p.to \in Calls /\ f.req \in Calls
          /\ pending' = [pending EXCEPT ![c] = @ \ {p}]
          /\ ConnNow(c, "sending", conn[c].srv, p.to, f.req)
    BY <1>3, ReceiveEffect
  <2>2. QED
    BY <1>3, <2>1 DEF Receive, ConnNow, TypeInv, TypeOK, Filled
<1>4. CASE Deliver(c)
  <2>1. ConnNow(c, "reading", conn[c].srv, None, None)
    BY <1>4, ConnEffects
  <2>2. QED
    BY <1>4, <2>1 DEF Deliver, ConnNow, TypeInv, TypeOK, Filled
<1>5. CASE ReadError(c)
  <2>1. ConnNow(c, "exit", conn[c].srv, conn[c].to, conn[c].ans)
    BY <1>5, ConnEffects
  <2>2. QED
    BY <1>5, <2>1 DEF ReadError, ConnNow, TypeInv, TypeOK, Filled
<1>6. CASE PingError(c)
  BY <1>6 DEF PingError, TypeInv, TypeOK, Filled
<1>7. CASE Unregister(c)
  <2>1. ConnNow(c, "gone", conn[c].srv, conn[c].to, conn[c].ans)
    BY <1>7, ConnEffects
  <2>2. QED
    BY <1>7, <2>1 DEF Unregister, ConnNow, TypeInv, TypeOK, Filled
<1>8. QED
  BY <1>1, <1>2, <1>3, <1>4, <1>5, <1>6, <1>7 DEF Connection

(* So do those of an administrator's request.                               *)
LEMMA AdministrationType == ASSUME TypeInv, NEW a \in Admins, Administration(a) PROVE TypeInv'
<1>1. ASSUME NEW s \in Servers, Save(a, s) PROVE TypeInv'
  <2>1. AdmNow(a, "saved", s, adm[a].conn)
    BY <1>1, AdmEffects
  <2>2. token' \in [Servers -> Nat]
    BY <1>1 DEF Save, TypeInv, TypeOK
  <2>3. QED
    BY <1>1, <2>1, <2>2 DEF Save, AdmNow, TypeInv, TypeOK, Filled
<1>2. CASE Take(a)
  <2>1. AdmNow(a, "taken", adm[a].srv, conns[adm[a].srv])
    BY <1>2, AdmEffects
  <2>2. QED
    BY <1>2, <2>1 DEF Take, AdmNow, TypeInv, TypeOK, Filled
<1>3. CASE Shut(a)
  <2>1. AdmNow(a, "idle", None, None)
    BY <1>3, AdmEffects
  <2>2. closed' \subseteq Conns
    BY <1>3, Fields DEF Shut, TypeInv, TypeOK
  <2>3. QED
    BY <1>3, <2>1, <2>2 DEF Shut, AdmNow, TypeInv, TypeOK, Filled
<1>4. QED
  BY <1>1, <1>2, <1>3 DEF Administration

(* A listing that moves on, unless it now has a connection it did not have, *)
(* keeps the types.                                                         *)
LEMMA CallNowType ==
  ASSUME TypeInv, NEW k \in Calls, NEW step, NEW srv \in Servers, NEW c, NEW id,
         CallNow(k, step, srv, c, id),
         step \in {"found", "write", "wait", "remove"} => c \in Conns,
         pending' \in [Conns -> SUBSET [id : Nat, to : Calls]],
         sent' \in [Conns -> SUBSET [id : Nat, req : Calls]], nextID' \in Nat,
         chan' \in [Calls -> Calls \cup {None}],
         UNCHANGED <<token, conns, conn, closed, adm>>
  PROVE  TypeInv'
  BY DEF CallNow, TypeInv, TypeOK, Filled

(* So do those of a listing.                                                *)
LEMMA CallingType == ASSUME TypeInv, NEW k \in Calls, Calling(k) PROVE TypeInv'
<1>0. /\ pending \in [Conns -> SUBSET [id : Nat, to : Calls]]
      /\ sent \in [Conns -> SUBSET [id : Nat, req : Calls]]
      /\ nextID \in Nat /\ conns \in [Servers -> Conns \cup {None}]
      /\ chan \in [Calls -> Calls \cup {None}]
      /\ call[k].step # "unused" => call[k].srv \in Servers
      /\ call[k].step \in {"found", "write", "wait", "remove"} => call[k].conn \in Conns
  BY DEF TypeInv, TypeOK, Filled
<1>1. ASSUME NEW s \in Servers, ListDir(k, s) PROVE TypeInv'
  <2>1. PICK t \in {"lookup", "done"} : CallNow(k, t, s, call[k].conn, call[k].id)
    BY <1>1, CallEffects
  <2>2. QED
    BY <1>0, <1>1, <2>1, CallNowType DEF ListDir
<1>2. CASE Lookup(k)
  <2>1. call[k].step # "unused" /\ UNCHANGED <<token, conns, conn, closed, pending, sent, nextID, chan, adm>>
    BY <1>2 DEF Lookup
  <2>2. CASE CallNow(k, "done", call[k].srv, call[k].conn, call[k].id)
    BY <1>0, <2>1, <2>2, CallNowType
  <2>3. CASE /\ conns[call[k].srv] # None
             /\ CallNow(k, "found", call[k].srv, conns[call[k].srv], call[k].id)
    BY <1>0, <2>1, <2>3, CallNowType
  <2>4. QED
    BY <1>2, <2>2, <2>3, CallEffects
<1>3. CASE Enter(k)
  <2>1. CallNow(k, "write", call[k].srv, call[k].conn, nextID + 1)
    BY <1>3, CallEffects
  <2>2. [id |-> nextID + 1, to |-> k] \in [id : Nat, to : Calls]
    BY <1>0
  <2>3. pending' \in [Conns -> SUBSET [id : Nat, to : Calls]] /\ nextID' \in Nat
    BY <1>0, <1>3, <2>2 DEF Enter
  <2>4. QED
    BY <1>0, <1>3, <2>1, <2>3, CallNowType DEF Enter
<1>4. CASE Write(k)
  <2>1. PICK t \in {"wait", "remove"} : CallNow(k, t, call[k].srv, call[k].conn, call[k].id)
    BY <1>4, CallEffects
  <2>2. call[k].id \in Nat
    BY Fields DEF TypeInv, TypeOK
  <2>3. sent' \in [Conns -> SUBSET [id : Nat, req : Calls]]
    BY <1>0, <1>4, <2>2 DEF Write
  <2>4. QED
    BY <1>0, <1>4, <2>1, <2>3, CallNowType DEF Write
<1>5. CASE Answered(k)
  BY <1>0, <1>5, CallEffects, CallNowType DEF Answered
<1>6. CASE Timeout(k)
  BY <1>0, <1>6, CallEffects, CallNowType DEF Timeout
<1>7. CASE Woken(k)
  BY <1>0, <1>7, CallEffects, CallNowType DEF Woken
<1>8. CASE Remove(k)
  <2>1. pending' \in [Conns -> SUBSET [id : Nat, to : Calls]]
    BY <1>0, <1>8 DEF Remove
  <2>2. QED
    BY <1>0, <1>8, <2>1, CallEffects, CallNowType DEF Remove
<1>9. QED
  BY <1>1, <1>2, <1>3, <1>4, <1>5, <1>6, <1>7, <1>8 DEF Calling, Waiting

(* Every step keeps the types.                                              *)
LEMMA NextType == TypeInv /\ [Next]_vars => TypeInv'
<1> SUFFICES ASSUME TypeInv, [Next]_vars PROVE TypeInv'
  OBVIOUS
<1>1. CASE UNCHANGED vars
  BY <1>1 DEF vars, TypeInv, TypeOK, Filled
<1>2. QED
  BY <1>1, ConnectionType, AdministrationType, CallingType DEF Next

(* Type correctness of the connection registry (manager.go).                *)
THEOREM TypeCorrect == Spec => []TypeOK
<1>1. Spec => []TypeInv
  BY Initially, NextType, PTL DEF Spec, Slow
<1>2. TypeInv => TypeOK
  BY DEF TypeInv
<1>3. QED
  BY <1>1, <1>2, PTL

-----------------------------------------------------------------------------
(* The registry.  A connection about to be shut down by an administrator is *)
(* one Remove has taken out, so whoever leaves the registry is closed.      *)

(* A registered connection is past its handshake and not yet done, so Call  *)
(* never writes to a connection whose read loop has ended for good.         *)
RegisteredAlive == \A s \in Servers : conns[s] # None =>
  conn[conns[s]].srv = s /\ conn[conns[s]].step \in {"reading", "sending", "exit"}

Untaken == \A a \in Admins : adm[a].step # "taken" => adm[a].conn = None

RegistryInv == TypeInv /\ RegisteredAlive /\ Untaken /\ NoStray

(* The manager starts with an empty registry.                               *)
LEMMA InitRegistry == Init => RegistryInv
<1> SUFFICES ASSUME Init PROVE RegistryInv
  OBVIOUS
<1>1. TypeInv
  BY Initially
<1>2. RegisteredAlive /\ Untaken
  BY DEF Init, RegisteredAlive, Untaken, IdleAdm
<1>3. NoStray
  BY DEF Init, NoStray, Served, NewConn
<1>4. QED
  BY <1>1, <1>2, <1>3 DEF RegistryInv

(* The registry through the steps of a connection.                          *)
LEMMA ConnectionRegistry ==
  ASSUME RegistryInv, NEW c \in Conns, Connection(c)
  PROVE  RegisteredAlive' /\ Untaken' /\ NoStray'
<1>0. /\ TypeInv /\ RegisteredAlive /\ Untaken /\ NoStray
      /\ conns \in [Servers -> Conns \cup {None}] /\ None \notin Conns
      /\ \A d \in Conns : conn[d].step # "unused" => conn[d].srv \in Servers
  BY NoneAssumption DEF RegistryInv, TypeInv, TypeOK
<1>1. ASSUME NEW s \in Servers, Dial(c, s) PROVE RegisteredAlive' /\ Untaken' /\ NoStray'
  <2>1. ConnNow(c, "upgraded", s, conn[c].to, conn[c].ans)
    BY <1>0, <1>1, ConnEffects
  <2>2. QED
    BY <1>0, <1>1, <2>1 DEF Dial, ConnNow, RegisteredAlive, Untaken, NoStray, Served
<1>2. CASE Register(c)
  <2>1. ConnNow(c, "reading", conn[c].srv, conn[c].to, conn[c].ans)
    BY <1>0, <1>2, ConnEffects
  <2>2. PICK s \in Servers : /\ conn[c].srv = s /\ conn[c].step = "upgraded"
                             /\ closed' = closed \cup ({conns[s]} \ {None})
                             /\ conns' = [conns EXCEPT ![s] = c] /\ adm' = adm
    BY <1>0, <1>2 DEF Register
  <2>3. RegisteredAlive'
    BY <1>0, <2>1, <2>2 DEF ConnNow, RegisteredAlive
  <2>4. NoStray'
    BY <1>0, <2>1, <2>2 DEF ConnNow, NoStray, Served
  <2>5. QED
    BY <1>0, <2>2, <2>3, <2>4 DEF Untaken
<1>3. ASSUME NEW t \in {"reading", "sending", "exit"}, NEW k, NEW r, ConnNow(c, t, conn[c].srv, k, r),
             conn[c].step \in {"reading", "sending"}, t = "exit" => c \in closed',
             closed \subseteq closed', UNCHANGED <<conns, adm>>
      PROVE  RegisteredAlive' /\ Untaken' /\ NoStray'
  BY <1>0, <1>3 DEF ConnNow, RegisteredAlive, Untaken, NoStray, Served
<1>4. CASE Receive(c)
  BY <1>0, <1>3, <1>4, ReceiveEffect DEF Receive
<1>5. CASE Deliver(c)
  BY <1>0, <1>3, <1>5, ConnEffects DEF Deliver
<1>6. CASE ReadError(c)
  BY <1>0, <1>3, <1>6, ConnEffects DEF ReadError
<1>7. CASE PingError(c)
  BY <1>0, <1>7 DEF PingError, RegisteredAlive, Untaken, NoStray, Served
<1>8. CASE Unregister(c)
  <2>1. ConnNow(c, "gone", conn[c].srv, conn[c].to, conn[c].ans)
    BY <1>0, <1>8, ConnEffects
  <2>2. PICK s \in Servers : /\ conn[c].srv = s /\ closed' = closed /\ adm' = adm
                             /\ conns' = IF conns[s] = c THEN [conns EXCEPT ![s] = None] ELSE conns
    BY <1>0, <1>8 DEF Unregister
  <2>3. RegisteredAlive'
    BY <1>0, <2>1, <2>2 DEF ConnNow, RegisteredAlive
  <2>4. NoStray'
    BY <1>0, <2>1, <2>2 DEF ConnNow, NoStray, Served
  <2>5. QED
    BY <1>0, <2>2, <2>3, <2>4 DEF Untaken
<1>9. QED
  BY <1>1, <1>2, <1>4, <1>5, <1>6, <1>7, <1>8 DEF Connection

(* The registry through the steps of an administrator's request.            *)
LEMMA AdministrationRegistry ==
  ASSUME RegistryInv, NEW a \in Admins, Administration(a)
  PROVE  RegisteredAlive' /\ Untaken' /\ NoStray'
<1>0. /\ TypeInv /\ RegisteredAlive /\ Untaken /\ NoStray
      /\ conns \in [Servers -> Conns \cup {None}] /\ None \notin Conns
      /\ \A d \in Conns : conn[d].step # "unused" => conn[d].srv \in Servers
      /\ adm[a].step # "idle" => adm[a].srv \in Servers
  BY NoneAssumption DEF RegistryInv, TypeInv, TypeOK, Filled
<1>1. ASSUME NEW s \in Servers, Save(a, s) PROVE RegisteredAlive' /\ Untaken' /\ NoStray'
  <2>1. AdmNow(a, "saved", s, adm[a].conn) /\ adm[a].step = "idle" /\ UNCHANGED <<conns, conn, closed>>
    BY <1>0, <1>1, AdmEffects DEF Save
  <2>2. QED
    BY <1>0, <2>1 DEF AdmNow, RegisteredAlive, Untaken, NoStray, Served
<1>2. CASE Take(a)
  <2>1. /\ AdmNow(a, "taken", adm[a].srv, conns[adm[a].srv]) /\ adm[a].step = "saved"
        /\ conns' = [conns EXCEPT ![adm[a].srv] = None] /\ UNCHANGED <<conn, closed>>
    BY <1>0, <1>2, AdmEffects DEF Take
  <2>2. RegisteredAlive' /\ Untaken'
    BY <1>0, <2>1 DEF AdmNow, RegisteredAlive, Untaken
  <2>3. NoStray'
    BY <1>0, <2>1 DEF AdmNow, Untaken, NoStray, Served
  <2>4. QED
    BY <2>2, <2>3
<1>3. CASE Shut(a)
  <2>1. /\ AdmNow(a, "idle", None, None) /\ UNCHANGED <<conns, conn>>
        /\ closed' = closed \cup ({adm[a].conn} \ {None})
    BY <1>0, <1>3, AdmEffects DEF Shut
  <2>2. QED
    BY <1>0, <2>1 DEF AdmNow, RegisteredAlive, Untaken, NoStray, Served
<1>4. QED
  BY <1>1, <1>2, <1>3 DEF Administration

(* The registry through every step; a listing never touches it.             *)
LEMMA NextRegistry == RegistryInv /\ [Next]_vars => RegistryInv'
<1> SUFFICES ASSUME RegistryInv, [Next]_vars PROVE RegistryInv'
  OBVIOUS
<1>1. TypeInv'
  BY NextType DEF RegistryInv
<1>2. ASSUME UNCHANGED <<conns, conn, closed, adm>> PROVE RegisteredAlive' /\ Untaken' /\ NoStray'
  BY <1>2 DEF RegistryInv, RegisteredAlive, Untaken, NoStray, Served
<1>3. ASSUME NEW k \in Calls, Calling(k) PROVE UNCHANGED <<conns, conn, closed, adm>>
  BY <1>3 DEF Calling, Waiting, ListDir, Lookup, Enter, Write, Answered, Timeout, Woken, Remove
<1>4. CASE UNCHANGED vars
  BY <1>1, <1>2, <1>4 DEF vars, RegistryInv
<1>5. QED
  BY <1>1, <1>2, <1>3, <1>4, ConnectionRegistry, AdministrationRegistry DEF Next, RegistryInv

(* manager.go Serve, unregister, Remove: for any number of connections and  *)
(* administrators, no live connection is lost from the registry ...         *)
THEOREM NoConnectionLost == Spec => []NoStray
<1>1. Spec => []RegistryInv
  BY InitRegistry, NextRegistry, PTL DEF Spec, Slow
<1>2. RegistryInv => NoStray
  BY DEF RegistryInv
<1>3. QED
  BY <1>1, <1>2, PTL

(* ... and no connection that has ended stays in it.                        *)
THEOREM OnlyLiveRegistered == Spec => []RegisteredAlive
<1>1. Spec => []RegistryInv
  BY InitRegistry, NextRegistry, PTL DEF Spec, Slow
<1>2. RegistryInv => RegisteredAlive
  BY DEF RegistryInv
<1>3. QED
  BY <1>1, <1>2, PTL

-----------------------------------------------------------------------------
(* Requests and answers.  Ids tell the calls apart, a request on the wire   *)
(* carries the id of its call, and an entry in pending, an answer in the    *)
(* hands of a read loop and an answer in a channel exclude each other.      *)

Early == {"unused", "lookup", "found"}

Numbered == \A k \in Calls :
  /\ call[k].step \in Early => call[k].id = 0 /\ chan[k] = None
  /\ call[k].step \in {"write", "wait", "remove"} => call[k].id # 0
  /\ call[k].id <= nextID
  /\ \A j \in Calls : call[j].id = call[k].id /\ call[j].id # 0 => j = k

OnWire == \A c \in Conns : \A f \in sent[c] : f.id # 0 /\ call[f.req].id = f.id

Unanswered == \A c \in Conns : \A p \in pending[c] :
  /\ chan[p.to] = None
  /\ \A d \in Conns : conn[d].step = "sending" => conn[d].to # p.to

Held == \A c \in Conns : conn[c].step = "sending" =>
  /\ conn[c].ans = conn[c].to
  /\ call[conn[c].to].step \notin Early
  /\ chan[conn[c].to] = None
  /\ \A d \in Conns : conn[d].step = "sending" /\ conn[d].to = conn[c].to => d = c

Rpc == Numbered /\ OnWire /\ PendingLive /\ Unanswered /\ Held /\ OwnAnswer

RpcInv == TypeInv /\ Rpc

(* The types the steps below rely on.                                       *)
LEMMA RpcTypes ==
  ASSUME TypeInv
  PROVE  /\ pending \in [Conns -> SUBSET [id : Nat, to : Calls]]
         /\ sent \in [Conns -> SUBSET [id : Nat, req : Calls]]
         /\ \A c \in Conns : \A p \in pending[c] : p.id \in Nat /\ p.to \in Calls
         /\ \A c \in Conns : \A f \in sent[c] : f.id \in Nat /\ f.req \in Calls
         /\ nextID \in Nat /\ \A k \in Calls : call[k].id \in Nat
         /\ chan \in [Calls -> Calls \cup {None}] /\ None \notin Calls
         /\ \A c \in Conns : conn[c].step = "sending" => conn[c].to \in Calls /\ conn[c].ans \in Calls
         /\ \A k \in Calls : call[k].step \in {"found", "write", "wait", "remove"} => call[k].conn \in Conns
<1>1. pending \in [Conns -> SUBSET [id : Nat, to : Calls]] /\ sent \in [Conns -> SUBSET [id : Nat, req : Calls]]
  BY DEF TypeInv, TypeOK
<1>2. \A c \in Conns : \A p \in pending[c] : p.id \in Nat /\ p.to \in Calls
  BY <1>1
<1>3. \A c \in Conns : \A f \in sent[c] : f.id \in Nat /\ f.req \in Calls
  BY <1>1
<1>4. nextID \in Nat /\ chan \in [Calls -> Calls \cup {None}] /\ \A k \in Calls : call[k].id \in Nat
  BY Fields DEF TypeInv, TypeOK
<1>5. QED
  BY <1>1, <1>2, <1>3, <1>4, NoneAssumption DEF TypeInv, TypeOK, Filled

(* Nothing was requested and nothing answered at the start.                 *)
LEMMA InitRpc == Init => RpcInv
<1> SUFFICES ASSUME Init PROVE RpcInv
  OBVIOUS
<1>1. NewCall.step = "unused" /\ NewCall.id = 0 /\ NewConn.step = "unused"
  BY DEF NewCall, NewConn
<1>2. Numbered
  BY <1>1 DEF Init, Numbered, Early
<1>3. OnWire /\ PendingLive /\ Unanswered /\ Held /\ OwnAnswer
  BY <1>1 DEF Init, OnWire, PendingLive, Unanswered, Held, OwnAnswer
<1>4. QED
  BY <1>2, <1>3, Initially DEF RpcInv, Rpc

(* A connection that is not about to hand over an answer disturbs nothing.  *)
LEMMA QuietRpc ==
  ASSUME RpcInv, NEW c \in Conns, NEW t, t # "sending", NEW v, NEW k, NEW r, ConnNow(c, t, v, k, r),
         UNCHANGED <<pending, sent, nextID, call, chan>>
  PROVE  Rpc'
<1>1. Numbered' /\ OnWire' /\ PendingLive' /\ OwnAnswer'
  BY DEF RpcInv, Rpc, Numbered, OnWire, PendingLive, OwnAnswer
<1>2. Unanswered' /\ Held'
  BY DEF RpcInv, Rpc, ConnNow, Unanswered, Held
<1>3. QED
  BY <1>1, <1>2 DEF Rpc

(* handleMessage takes the one entry of the call the answer is for.         *)
LEMMA ReceiveRpc == ASSUME RpcInv, NEW c \in Conns, Receive(c) PROVE Rpc'
<1>0. TypeInv /\ Numbered /\ OnWire /\ PendingLive /\ Unanswered /\ Held /\ OwnAnswer
  BY DEF RpcInv, Rpc
<1>1. PICK f \in sent[c], p \in pending[c] :
        /\ p.id = f.id /\ p.to \in Calls /\ f.req \in Calls
        /\ pending' = [pending EXCEPT ![c] = @ \ {p}]
        /\ ConnNow(c, "sending", conn[c].srv, p.to, f.req)
  BY <1>0, ReceiveEffect
<1>2. /\ UNCHANGED <<sent, nextID, call, chan>> /\ conn[c].step = "reading"
      /\ pending'[c] = pending[c] \ {p} /\ \A d \in Conns : d # c => pending'[d] = pending[d]
  BY <1>0, <1>1, RpcTypes DEF Receive
<1>3. f.req = p.to
  BY <1>0, <1>1 DEF Numbered, OnWire, PendingLive
<1>4. \A d \in Conns : \A q \in pending'[d] : q \in pending[d] /\ q.to # p.to
  <2>1. SUFFICES ASSUME NEW d \in Conns, NEW q \in pending'[d], q \in pending[d], q.to = p.to PROVE FALSE
    BY <1>2
  <2>2. d = c /\ q.id = p.id
    BY <1>0, <2>1 DEF PendingLive
  <2>3. q \in [id : Nat, to : Calls] /\ p \in [id : Nat, to : Calls]
    BY <1>0, <2>1, RpcTypes
  <2>4. q = p
    BY <2>1, <2>2, <2>3
  <2>5. QED
    BY <1>2, <2>1, <2>2, <2>4
<1>5. chan[p.to] = None /\ call[p.to].step \in {"write", "wait", "remove"}
      /\ \A d \in Conns : conn[d].step = "sending" => conn[d].to # p.to
  BY <1>0 DEF Unanswered, PendingLive
<1>6. Numbered' /\ OnWire' /\ OwnAnswer'
  BY <1>0, <1>2 DEF Numbered, OnWire, OwnAnswer
<1>7. PendingLive' /\ Unanswered'
  BY <1>0, <1>1, <1>2, <1>4 DEF PendingLive, Unanswered, ConnNow
<1>8. Held'
  BY <1>0, <1>1, <1>2, <1>3, <1>5 DEF Held, ConnNow, Early
<1>9. QED
  BY <1>6, <1>7, <1>8 DEF Rpc

(* The answer goes into the channel of its own call.                        *)
LEMMA DeliverRpc == ASSUME RpcInv, NEW c \in Conns, Deliver(c) PROVE Rpc'
<1>0. TypeInv /\ Numbered /\ OnWire /\ PendingLive /\ Unanswered /\ Held /\ OwnAnswer
  BY DEF RpcInv, Rpc
<1> DEFINE k == conn[c].to
<1>1. /\ ConnNow(c, "reading", conn[c].srv, None, None) /\ conn[c].step = "sending"
      /\ k \in Calls /\ UNCHANGED <<pending, sent, nextID, call>>
      /\ chan' = [chan EXCEPT ![k] = k]
  BY <1>0, ConnEffects, RpcTypes DEF Deliver, Held
<1>2. chan'[k] = k /\ \A j \in Calls : j # k => chan'[j] = chan[j]
  BY <1>0, <1>1, RpcTypes
<1>3. Numbered' /\ OnWire' /\ OwnAnswer' /\ PendingLive'
  BY <1>0, <1>1, <1>2 DEF Numbered, OnWire, OwnAnswer, PendingLive, Held
<1>4. Unanswered' /\ Held'
  BY <1>0, <1>1, <1>2, RpcTypes DEF ConnNow, Unanswered, Held
<1>5. QED
  BY <1>3, <1>4 DEF Rpc

(* The requests through the steps of a connection.                          *)
LEMMA ConnectionRpc == ASSUME RpcInv, NEW c \in Conns, Connection(c) PROVE Rpc'
<1>0. TypeInv
  BY DEF RpcInv
<1>1. ASSUME NEW s \in Servers, Dial(c, s) PROVE Rpc'
  BY <1>0, <1>1, ConnEffects, QuietRpc DEF Dial
<1>2. CASE Register(c)
  BY <1>0, <1>2, ConnEffects, QuietRpc DEF Register
<1>3. CASE ReadError(c)
  BY <1>0, <1>3, ConnEffects, QuietRpc DEF ReadError
<1>4. CASE Unregister(c)
  BY <1>0, <1>4, ConnEffects, QuietRpc DEF Unregister
<1>5. CASE PingError(c)
  BY <1>5 DEF PingError, RpcInv, Rpc, Numbered, OnWire, PendingLive, Unanswered, Held, OwnAnswer
<1>6. QED
  BY <1>1, <1>2, <1>3, <1>4, <1>5, ReceiveRpc, DeliverRpc DEF Connection

(* A listing that has no id yet, or moves within its wait, disturbs nothing. *)
LEMMA CallRpc ==
  ASSUME RpcInv, NEW k \in Calls, NEW t, NEW v, NEW c, CallNow(k, t, v, c, call[k].id),
         \/ call[k].step \in Early /\ t \in {"lookup", "found", "done"}
         \/ call[k].step \in {"write", "wait"} /\ t \in {"wait", "remove"} /\ c = call[k].conn,
         UNCHANGED <<conn, pending, sent, nextID, chan>>
  PROVE  Rpc'
<1>0. TypeInv /\ Numbered /\ OnWire /\ PendingLive /\ Unanswered /\ Held /\ OwnAnswer
  BY DEF RpcInv, Rpc
<1>1. \A j \in Calls : call'[j].id = call[j].id
  BY DEF CallNow
<1>2. Numbered' /\ OnWire'
  BY <1>0, <1>1, RpcTypes DEF Numbered, OnWire, CallNow, Early
<1>3. PendingLive'
  BY <1>0, <1>1, RpcTypes DEF PendingLive, CallNow, Early
<1>4. Held'
  BY <1>0, RpcTypes DEF Held, CallNow, Early
<1>5. Unanswered' /\ OwnAnswer'
  BY <1>0 DEF Unanswered, OwnAnswer
<1>6. QED
  BY <1>2, <1>3, <1>4, <1>5 DEF Rpc

(* A new id is larger than all those in use.                                *)
LEMMA EnterRpc == ASSUME RpcInv, NEW k \in Calls, Enter(k) PROVE Rpc'
<1>0. TypeInv /\ Numbered /\ OnWire /\ PendingLive /\ Unanswered /\ Held /\ OwnAnswer
  BY DEF RpcInv, Rpc
<1> DEFINE c == call[k].conn
           e == [id |-> nextID + 1, to |-> k]
<1>1. /\ call[k].step = "found" /\ CallNow(k, "write", call[k].srv, c, nextID + 1) /\ c \in Conns
      /\ UNCHANGED <<conn, sent, chan>> /\ nextID' = nextID + 1
  BY <1>0, CallEffects, RpcTypes DEF Enter
<1>2. \A d \in Conns : \A p \in pending'[d] : p \in pending[d] \/ (d = c /\ p = e)
  BY <1>0, <1>1, RpcTypes DEF Enter
<1>3. call[k].id = 0 /\ chan[k] = None /\ \A d \in Conns : conn[d].step = "sending" => conn[d].to # k
  BY <1>0, <1>1 DEF Numbered, Held, Early
<1>4. \A d \in Conns : \A p \in pending[d] : p.to # k
  BY <1>0, <1>1 DEF PendingLive
<1>5. \A d \in Conns : \A f \in sent[d] : f.req # k
  BY <1>0, <1>3 DEF OnWire
<1>6. \A j \in Calls : call[j].id < nextID + 1 /\ call[j].id \in Nat /\ nextID + 1 # 0
  BY <1>0, RpcTypes DEF Numbered
<1>7. Numbered'
  BY <1>0, <1>1, <1>6, RpcTypes DEF Numbered, CallNow, Early
<1>8. OnWire'
  BY <1>0, <1>1, <1>5, RpcTypes DEF OnWire, CallNow
<1>9. PendingLive'
  <2>1. SUFFICES ASSUME NEW d \in Conns, NEW p \in pending'[d]
                 PROVE  /\ call'[p.to].conn = d /\ call'[p.to].id = p.id
                        /\ call'[p.to].step \in {"write", "wait", "remove"}
    BY DEF PendingLive
  <2>2. CASE p \in pending[d]
    BY <1>0, <1>1, <1>4, <2>2, RpcTypes DEF PendingLive, CallNow
  <2>3. CASE d = c /\ p = e
    BY <1>1, <2>3 DEF CallNow
  <2>4. QED
    BY <1>2, <2>2, <2>3
<1>10. Unanswered'
  <2>1. SUFFICES ASSUME NEW d \in Conns, NEW p \in pending'[d]
                 PROVE  chan[p.to] = None /\ \A b \in Conns : conn[b].step = "sending" => conn[b].to # p.to
    BY <1>1 DEF Unanswered
  <2>2. QED
    BY <1>0, <1>2, <1>3, <2>1 DEF Unanswered
<1>11. Held' /\ OwnAnswer'
  BY <1>0, <1>1, <1>3, RpcTypes DEF Held, OwnAnswer, CallNow, Early
<1>12. QED
  BY <1>7, <1>8, <1>9, <1>10, <1>11 DEF Rpc

(* writeJSON puts the id of the call on the wire.                           *)
LEMMA WriteRpc == ASSUME RpcInv, NEW k \in Calls, Write(k) PROVE Rpc'
<1>0. TypeInv /\ Numbered /\ OnWire /\ PendingLive /\ Unanswered /\ Held /\ OwnAnswer
  BY DEF RpcInv, Rpc
<1> DEFINE c == call[k].conn
           e == [id |-> call[k].id, req |-> k]
<1>1. PICK t \in {"wait", "remove"} : CallNow(k, t, call[k].srv, c, call[k].id)
  BY <1>0, CallEffects
<1>2. /\ call[k].step = "write" /\ UNCHANGED <<conn, pending, nextID, chan>>
      /\ sent' = sent \/ sent' = [sent EXCEPT ![c] = @ \cup {e}]
  BY DEF Write
<1>3. \A d \in Conns : \A f \in sent'[d] : f \in sent[d] \/ f = e
  BY <1>0, <1>2, RpcTypes
<1>4. call[k].id # 0 /\ \A j \in Calls : call'[j].id = call[j].id
  BY <1>0, <1>1, <1>2 DEF Numbered, CallNow
<1>5. OnWire'
  <2>1. SUFFICES ASSUME NEW d \in Conns, NEW f \in sent'[d] PROVE f.id # 0 /\ call'[f.req].id = f.id
    BY DEF OnWire
  <2>2. QED
    BY <1>0, <1>3, <1>4, <2>1, RpcTypes DEF OnWire
<1>6. Numbered'
  BY <1>0, <1>1, <1>2, <1>4 DEF Numbered, CallNow, Early
<1>7. PendingLive' /\ Held'
  BY <1>0, <1>1, <1>2, RpcTypes DEF PendingLive, Held, CallNow, Early
<1>8. Unanswered' /\ OwnAnswer'
  BY <1>0, <1>2 DEF Unanswered, OwnAnswer
<1>9. QED
  BY <1>5, <1>6, <1>7, <1>8 DEF Rpc

(* A call that finds its answer has no entry left.                          *)
LEMMA AnsweredRpc == ASSUME RpcInv, NEW k \in Calls, Answered(k) PROVE Rpc'
<1>0. TypeInv /\ Numbered /\ OnWire /\ PendingLive /\ Unanswered /\ Held /\ OwnAnswer
  BY DEF RpcInv, Rpc
<1>1. /\ CallNow(k, "done", call[k].srv, call[k].conn, call[k].id) /\ call[k].step = "wait" /\ chan[k] # None
      /\ UNCHANGED <<conn, pending, sent, nextID>>
  BY <1>0, CallEffects DEF Answered
<1>2. chan'[k] = None /\ \A j \in Calls : j # k => chan'[j] = chan[j]
  BY <1>0, RpcTypes DEF Answered
<1>3. \A j \in Calls : call'[j].id = call[j].id
  BY <1>1 DEF CallNow
<1>4. Numbered' /\ OnWire'
  BY <1>0, <1>1, <1>2, <1>3, RpcTypes DEF Numbered, OnWire, CallNow, Early
<1>5. PendingLive' /\ Unanswered'
  BY <1>0, <1>1, <1>2, RpcTypes DEF PendingLive, Unanswered, CallNow
<1>6. Held' /\ OwnAnswer'
  BY <1>0, <1>1, <1>2, RpcTypes DEF Held, OwnAnswer, CallNow, Early
<1>7. QED
  BY <1>4, <1>5, <1>6 DEF Rpc

(* A call that fails takes its own entry with it.                           *)
LEMMA RemoveRpc == ASSUME RpcInv, NEW k \in Calls, Remove(k) PROVE Rpc'
<1>0. TypeInv /\ Numbered /\ OnWire /\ PendingLive /\ Unanswered /\ Held /\ OwnAnswer
  BY DEF RpcInv, Rpc
<1>1. /\ CallNow(k, "done", call[k].srv, call[k].conn, call[k].id) /\ call[k].step = "remove"
      /\ UNCHANGED <<conn, sent, nextID, chan>>
  BY <1>0, CallEffects DEF Remove
<1>2. \A d \in Conns : \A p \in pending'[d] : p \in pending[d] /\ (d = call[k].conn => p.id # call[k].id)
  BY <1>0, <1>1, RpcTypes DEF Remove
<1>3. \A d \in Conns : \A p \in pending'[d] : p \in pending[d] /\ p.to # k
  BY <1>0, <1>2 DEF PendingLive
<1>4. \A j \in Calls : call'[j].id = call[j].id
  BY <1>1 DEF CallNow
<1>5. Numbered' /\ OnWire'
  BY <1>0, <1>1, <1>4, RpcTypes DEF Numbered, OnWire, CallNow, Early
<1>6. PendingLive' /\ Unanswered'
  BY <1>0, <1>1, <1>3, RpcTypes DEF PendingLive, Unanswered, CallNow
<1>7. Held' /\ OwnAnswer'
  BY <1>0, <1>1, RpcTypes DEF Held, OwnAnswer, CallNow, Early
<1>8. QED
  BY <1>5, <1>6, <1>7 DEF Rpc

(* The requests through the steps of a listing.                             *)
LEMMA CallingRpc == ASSUME RpcInv, NEW k \in Calls, Calling(k) PROVE Rpc'
<1>0. TypeInv
  BY DEF RpcInv
<1>1. ASSUME NEW s \in Servers, ListDir(k, s) PROVE Rpc'
  <2>1. PICK t \in {"lookup", "done"} : CallNow(k, t, s, call[k].conn, call[k].id)
    BY <1>0, <1>1, CallEffects
  <2>2. QED
    BY <1>1, <2>1, CallRpc DEF ListDir, Early
<1>2. CASE Lookup(k)
  <2>1. call[k].step \in Early /\ UNCHANGED <<conn, pending, sent, nextID, chan>>
    BY <1>2 DEF Lookup, Early
  <2>2. PICK t \in {"done", "found"}, c \in {call[k].conn, conns[call[k].srv]} : CallNow(k, t, call[k].srv, c, call[k].id)
    BY <1>0, <1>2, CallEffects
  <2>3. QED
    BY <2>1, <2>2, CallRpc
<1>3. ASSUME NEW t \in {"wait", "remove"}, CallNow(k, t, call[k].srv, call[k].conn, call[k].id),
             call[k].step = "wait", UNCHANGED <<conn, pending, sent, nextID, chan>>
      PROVE  Rpc'
  BY <1>3, CallRpc
<1>4. CASE Timeout(k)
  BY <1>0, <1>3, <1>4, CallEffects DEF Timeout
<1>5. CASE Woken(k)
  BY <1>0, <1>3, <1>5, CallEffects DEF Woken
<1>6. QED
  BY <1>1, <1>2, <1>4, <1>5, EnterRpc, WriteRpc, AnsweredRpc, RemoveRpc DEF Calling, Waiting

(* The requests through every step.                                         *)
LEMMA NextRpc == RpcInv /\ [Next]_vars => RpcInv'
<1> SUFFICES ASSUME RpcInv, [Next]_vars PROVE RpcInv'
  OBVIOUS
<1>1. TypeInv'
  BY NextType DEF RpcInv
<1>2. ASSUME UNCHANGED <<conn, pending, sent, nextID, call, chan>> PROVE Rpc'
  BY <1>2 DEF RpcInv, Rpc, Numbered, OnWire, PendingLive, Unanswered, Held, OwnAnswer
<1>3. ASSUME NEW a \in Admins, Administration(a) PROVE Rpc'
  <2>1. UNCHANGED <<conn, pending, sent, nextID, call, chan>>
    BY <1>3 DEF Administration, Save, Take, Shut
  <2>2. QED
    BY <1>2, <2>1
<1>4. ASSUME UNCHANGED vars PROVE Rpc'
  <2>1. UNCHANGED <<conn, pending, sent, nextID, call, chan>>
    BY <1>4 DEF vars
  <2>2. QED
    BY <1>2, <2>1
<1>5. Rpc'
  BY <1>3, <1>4, ConnectionRpc, CallingRpc DEF Next
<1>6. QED
  BY <1>1, <1>5 DEF RpcInv

(* Hence the invariant holds throughout.                                    *)
LEMMA RpcInvariant == Spec => []RpcInv
  BY InitRpc, NextRpc, PTL DEF Spec, Slow

(* handleMessage: whatever the agent answers, in whatever order and however *)
(* often, a caller only ever finds the answer to its own request.           *)
THEOREM AnswersMatch == Spec => []OwnAnswer
<1>1. RpcInv => OwnAnswer
  BY DEF RpcInv, Rpc
<1>2. QED
  BY <1>1, RpcInvariant, PTL

(* Conn.call leaves no entry behind, on any of its ways out.                *)
THEOREM PendingDoesNotLeak == Spec => []PendingLive
<1>1. RpcInv => PendingLive
  BY DEF RpcInv, Rpc
<1>2. QED
  BY <1>1, RpcInvariant, PTL

(* The read loop of a connection is never blocked by a caller.              *)
THEOREM ReaderNeverBlocks == Spec => []ReaderFree
<1>1. RpcInv => ReaderFree
  BY DEF RpcInv, Rpc, Held, ReaderFree
<1>2. QED
  BY <1>1, RpcInvariant, PTL

-----------------------------------------------------------------------------
(* The promise of Listing.  A listing works on a connection of its own      *)
(* downloader, and what is on the wire of a connection asks for that        *)
(* downloader; a call that waits was sent, and so was one whose answer is   *)
(* in the hands of a read loop; one that was answered gets nothing more.    *)

Aimed ==
  /\ \A k \in Calls : call[k].step \in {"found", "write", "wait", "remove"} =>
       conn[call[k].conn].step # "unused" /\ conn[call[k].conn].srv = call[k].srv
  /\ \A c \in Conns : \A f \in sent[c] :
       /\ conn[c].step # "unused" /\ conn[c].srv = call[f.req].srv
       /\ call[f.req].step \in {"wait", "remove", "done"}

Reached ==
  /\ \A k \in Calls : call[k].step = "wait" => \E f \in sent[call[k].conn] : f.req = k
  /\ \A c \in Conns : conn[c].step = "sending" => \E f \in sent[c] : f.req = conn[c].to

Settled == \A k \in Calls :
  /\ call[k].step = "remove" => call[k].res \in {"timeout", "offline"}
  /\ call[k].step = "done" /\ call[k].res = "answered" =>
       chan[k] = None /\ \A c \in Conns : conn[c].step = "sending" => conn[c].to # k

Kept == Aimed /\ Reached /\ Settled

PromiseInv == RegistryInv /\ RpcInv /\ Kept

(* What the steps of a listing make of its outcome.                         *)
LEMMA Results ==
  ASSUME TypeInv, NEW k \in Calls
  PROVE  /\ \A s \in Servers : ListDir(k, s) =>
              \/ conns[s] # None /\ call'[k].step = "lookup"
              \/ /\ conns[s] = None /\ call'[k].step = "done"
                 /\ call'[k].res = IF s \in Loopback THEN "local" ELSE "required"
         /\ Lookup(k) =>
              \/ conns[call[k].srv] # None /\ call'[k].step = "found"
              \/ conns[call[k].srv] = None /\ call'[k].step = "done" /\ call'[k].res = Outcome(k, "offline")
         /\ Write(k) =>
              \/ /\ call'[k].step = "wait"
                 /\ sent' = [sent EXCEPT ![call[k].conn] = @ \cup {[id |-> call[k].id, req |-> k]}]
              \/ call'[k].step = "remove" /\ call'[k].res = "offline" /\ sent' = sent
         /\ Answered(k) => call'[k].res = "answered"
         /\ Timeout(k)  => call'[k].res = "timeout"
         /\ Woken(k)    => call'[k].res = "offline"
         /\ Remove(k)   => call'[k].res = Outcome(k, call[k].res)
<1>0. call \in [Calls -> Listings] /\ call[k] \in Listings
  BY DEF TypeInv, TypeOK
<1>1. ASSUME NEW m, call' = [call EXCEPT ![k] = m] PROVE call'[k] = m
  BY <1>0, <1>1
<1>2. ASSUME NEW t, NEW r PROVE /\ [call[k] EXCEPT !.step = t, !.res = r].step = t
                                /\ [call[k] EXCEPT !.step = t, !.res = r].res = r
  BY <1>0 DEF Listings
<1>3. ASSUME NEW r, Finish(k, r) PROVE call'[k].step = "done" /\ call'[k].res = Outcome(k, r)
  BY <1>0, <1>3 DEF Finish, Listings
<1>4. ASSUME NEW s \in Servers, ListDir(k, s)
      PROVE  \/ conns[s] # None /\ call'[k].step = "lookup"
             \/ /\ conns[s] = None /\ call'[k].step = "done"
                /\ call'[k].res = IF s \in Loopback THEN "local" ELSE "required"
  BY <1>0, <1>4 DEF ListDir, Listings
<1>5. ASSUME Lookup(k)
      PROVE  \/ conns[call[k].srv] # None /\ call'[k].step = "found"
             \/ conns[call[k].srv] = None /\ call'[k].step = "done" /\ call'[k].res = Outcome(k, "offline")
  BY <1>0, <1>3, <1>5 DEF Lookup, Listings
<1>6. ASSUME Write(k)
      PROVE  \/ /\ call'[k].step = "wait"
                /\ sent' = [sent EXCEPT ![call[k].conn] = @ \cup {[id |-> call[k].id, req |-> k]}]
             \/ call'[k].step = "remove" /\ call'[k].res = "offline" /\ sent' = sent
  <2>1. CASE call' = [call EXCEPT ![k].step = "wait"] /\ call[k].conn \notin closed
             /\ sent' = [sent EXCEPT ![call[k].conn] = @ \cup {[id |-> call[k].id, req |-> k]}]
    <3>1. call'[k].step = "wait"
      BY <1>0, <2>1 DEF Listings
    <3>2. QED
      BY <2>1, <3>1
  <2>2. CASE call' = [call EXCEPT ![k] = [@ EXCEPT !.step = "remove", !.res = "offline"]] /\ sent' = sent
    BY <1>0, <2>2 DEF Listings
  <2>3. QED
    BY <1>6, <2>1, <2>2 DEF Write
<1>7. Answered(k) => call'[k].res = "answered"
  BY <1>3 DEF Answered, Outcome
<1>8. (Timeout(k) => call'[k].res = "timeout") /\ (Woken(k) => call'[k].res = "offline")
  BY <1>0 DEF Timeout, Woken, Listings
<1>9. Remove(k) => call'[k].res = Outcome(k, call[k].res)
  BY <1>3 DEF Remove
<1>10. QED
  BY <1>4, <1>5, <1>6, <1>7, <1>8, <1>9

(* Nothing is asked at the start.                                           *)
LEMMA InitKept == Init => PromiseInv /\ Promise!Init
<1> SUFFICES ASSUME Init PROVE PromiseInv /\ Promise!Init
  OBVIOUS
<1>1. NewCall.step = "unused" /\ NewCall.srv = None /\ NewConn.step = "unused"
  BY DEF NewCall, NewConn
<1>2. Kept
  BY <1>1 DEF Init, Kept, Aimed, Reached, Settled
<1>3. Online = {} /\ Goals = [k \in Calls |-> None] /\ Stages = [k \in Calls |-> "unused"]
  BY <1>1 DEF Init, Online, Goals, Stages, Stage
<1>4. AskedOf = [k \in Calls |-> {}] /\ chan = [k \in Calls |-> None]
  BY DEF Init, AskedOf, Asked
<1>5. QED
  BY <1>2, <1>3, <1>4, InitRegistry, InitRpc DEF PromiseInv, Promise!Init

(* What an update of a listing's record leaves of the view.                 *)
LEMMA ViewOfCall ==
  ASSUME TypeInv, NEW k \in Calls, NEW t, NEW v, NEW c, NEW n, CallNow(k, t, v, c, n)
  PROVE  /\ Goals' = [Goals EXCEPT ![k] = v]
         /\ Stages' = [Stages EXCEPT ![k] = Stage(k)']
         /\ v = call[k].srv => Goals' = Goals
         /\ Stage(k)' = Stage(k) => Stages' = Stages
         /\ Stages[k] = Stage(k) /\ Goals[k] = call[k].srv
<1>0. call \in [Calls -> Listings]
  BY DEF TypeInv, TypeOK
<1>1. Goals' = [Goals EXCEPT ![k] = v] /\ (v = call[k].srv => Goals' = Goals)
  BY <1>0 DEF CallNow, Goals
<1>2. Stages' = [Stages EXCEPT ![k] = Stage(k)'] /\ (Stage(k)' = Stage(k) => Stages' = Stages)
  BY <1>0 DEF CallNow, Stages, Stage
<1>3. QED
  BY <1>1, <1>2 DEF Stages, Goals

(* The view of what was asked depends on the wire and on whom a connection  *)
(* with something on it belongs to.                                         *)
LEMMA ViewOfWire ==
  ASSUME sent' = sent, \A c \in Conns : sent[c] # {} => conn'[c].srv = conn[c].srv
  PROVE  AskedOf' = AskedOf
<1>1. ASSUME NEW k \in Calls
      PROVE {conn'[c].srv : c \in Asked(k)} = {conn[c].srv : c \in Asked(k)}
  BY DEF Asked
<1>2. QED
  BY <1>1 DEF AskedOf, Asked

(* Every listing asked at most one agent, that of its downloader.           *)
LEMMA AskedOwn ==
  ASSUME TypeInv, Aimed, NEW k \in Calls
  PROVE  /\ AskedOf[k] = {conn[c].srv : c \in Asked(k)}
         /\ AskedOf[k] \subseteq {call[k].srv}
         /\ call[k].step \in Early \cup {"write"} => AskedOf[k] = {}
         /\ \A c \in Conns : \A f \in sent[c] : f.req = k => AskedOf[k] # {}
  BY DEF AskedOf, Asked, Aimed, Early

-----------------------------------------------------------------------------
(* A connection that is let in, or moves on with nothing in its hands.      *)
LEMMA QuietKept ==
  ASSUME PromiseInv, NEW c \in Conns, NEW t, t \notin {"sending", "unused"}, NEW v, NEW k, NEW r,
         ConnNow(c, t, v, k, r), v = conn[c].srv \/ conn[c].step = "unused",
         UNCHANGED <<sent, call, chan>>
  PROVE  Kept' /\ AskedOf' = AskedOf
<1>0. TypeInv /\ Aimed /\ Reached /\ Settled
  BY DEF PromiseInv, RpcInv, Kept
<1>1. Aimed'
  BY <1>0, RpcTypes DEF ConnNow, Aimed
<1>2. Reached' /\ Settled'
  BY <1>0 DEF ConnNow, Reached, Settled
<1>3. \A d \in Conns : sent[d] # {} => conn'[d].srv = conn[d].srv
  BY <1>0 DEF ConnNow, Aimed
<1>4. QED
  BY <1>1, <1>2, <1>3, ViewOfWire DEF Kept

(* handleMessage takes an answer up: to the caller nothing has happened.    *)
LEMMA ReceiveKept ==
  ASSUME PromiseInv, NEW c \in Conns, Receive(c)
  PROVE  Kept' /\ AskedOf' = AskedOf
<1>0. /\ TypeInv /\ Aimed /\ Reached /\ Settled
      /\ Numbered /\ OnWire /\ PendingLive /\ Unanswered
  BY DEF PromiseInv, RpcInv, Rpc, Kept
<1>1. PICK f \in sent[c], p \in pending[c] :
        /\ p.id = f.id /\ p.to \in Calls /\ f.req \in Calls
        /\ ConnNow(c, "sending", conn[c].srv, p.to, f.req)
  BY <1>0, ReceiveEffect
<1>2. UNCHANGED <<sent, call, chan>> /\ conn[c].step = "reading"
  BY DEF Receive
<1>3. f.req = p.to
  BY <1>0, <1>1 DEF Numbered, OnWire, PendingLive
<1>4. Aimed'
  BY <1>0, <1>1, <1>2, RpcTypes DEF ConnNow, Aimed
<1>5. Reached'
  BY <1>0, <1>1, <1>2, <1>3 DEF ConnNow, Reached
<1>6. call[p.to].step # "done"
  BY <1>0 DEF PendingLive
<1>7. Settled'
  BY <1>0, <1>1, <1>2, <1>6 DEF ConnNow, Settled
<1>8. AskedOf' = AskedOf
  BY <1>1, <1>2, ViewOfWire DEF ConnNow
<1>9. QED
  BY <1>4, <1>5, <1>7, <1>8 DEF Kept

(* The answer that goes into a channel is the one that arrives.             *)
LEMMA DeliverKept ==
  ASSUME PromiseInv, NEW c \in Conns, Deliver(c)
  PROVE  Kept' /\ Promise!Arrive(conn[c].to)
<1>0. /\ TypeInv /\ Aimed /\ Reached /\ Settled /\ Held
  BY DEF PromiseInv, RpcInv, Rpc, Kept
<1> DEFINE k == conn[c].to
<1>1. /\ ConnNow(c, "reading", conn[c].srv, None, None) /\ conn[c].step = "sending"
      /\ k \in Calls /\ UNCHANGED <<conns, sent, call>>
      /\ chan' = [chan EXCEPT ![k] = k] /\ chan[k] = None
  BY <1>0, ConnEffects, RpcTypes DEF Deliver, Held
<1>2. chan'[k] = k /\ \A j \in Calls : j # k => chan'[j] = chan[j]
  BY <1>0, <1>1, RpcTypes
<1>3. Aimed'
  BY <1>0, <1>1, RpcTypes DEF ConnNow, Aimed
<1>4. Reached'
  BY <1>0, <1>1 DEF ConnNow, Reached
<1>5. ~(call[k].step = "done" /\ call[k].res = "answered")
  BY <1>0, <1>1 DEF Settled
<1>6. Settled'
  BY <1>0, <1>1, <1>2, <1>5 DEF ConnNow, Settled
<1>7. AskedOf' = AskedOf
  BY <1>1, ViewOfWire DEF ConnNow
<1>8. AskedOf[k] # {}
  BY <1>0, <1>1, AskedOwn DEF Reached
<1>9. Stages[k] # "answered"
  BY <1>1, <1>5 DEF Stages, Stage
<1>10. UNCHANGED <<Online, Goals, Stages>>
  BY <1>1 DEF Online, Goals, Stages, Stage
<1>11. QED
  BY <1>1, <1>3, <1>4, <1>6, <1>7, <1>8, <1>9, <1>10 DEF Kept, Promise!Arrive

(* The registry changes for one downloader at a time.                       *)
LEMMA ConnectionPromise ==
  ASSUME PromiseInv, NEW c \in Conns, Connection(c)
  PROVE  Kept' /\ [Promise!Next]_Promise!listing
<1>0. /\ TypeInv /\ conns \in [Servers -> Conns \cup {None}] /\ None \notin Conns
      /\ conn[c].step # "unused" => conn[c].srv \in Servers
  BY NoneAssumption DEF PromiseInv, RpcInv, TypeInv, TypeOK
<1>1. ASSUME UNCHANGED <<conns, call, chan>>, AskedOf' = AskedOf PROVE UNCHANGED Promise!listing
  BY <1>1 DEF Promise!listing, Online, Goals, Stages, Stage
<1>2. ASSUME NEW s \in Servers, Dial(c, s) PROVE Kept' /\ [Promise!Next]_Promise!listing
  BY <1>0, <1>1, <1>2, ConnEffects, QuietKept DEF Dial
<1>3. CASE Register(c)
  <2>1. Kept' /\ AskedOf' = AskedOf
    BY <1>0, <1>3, ConnEffects, QuietKept DEF Register
  <2>2. PICK s \in Servers : conns' = [conns EXCEPT ![s] = c] /\ UNCHANGED <<call, chan>>
    BY <1>0, <1>3 DEF Register
  <2>3. Promise!Come(s)
    BY <1>0, <2>1, <2>2 DEF Promise!Come, Online, Goals, Stages, Stage
  <2>4. QED
    BY <2>1, <2>3 DEF Promise!Next
<1>4. CASE Receive(c)
  BY <1>1, <1>4, ReceiveKept DEF Receive
<1>5. CASE Deliver(c)
  <2>1. conn[c].to \in Calls
    BY <1>0, <1>5, RpcTypes DEF Deliver
  <2>2. QED
    BY <1>5, <2>1, DeliverKept DEF Promise!Next
<1>6. CASE ReadError(c)
  BY <1>0, <1>1, <1>6, ConnEffects, QuietKept DEF ReadError
<1>7. CASE PingError(c)
  <2>1. UNCHANGED <<conns, conn, sent, call, chan>>
    BY <1>7 DEF PingError
  <2>2. Kept'
    BY <2>1 DEF PromiseInv, Kept, Aimed, Reached, Settled
  <2>3. QED
    BY <1>1, <2>1, <2>2, ViewOfWire
<1>8. CASE Unregister(c)
  <2>1. Kept' /\ AskedOf' = AskedOf
    BY <1>0, <1>8, ConnEffects, QuietKept DEF Unregister
  <2>2. PICK s \in Servers : /\ conns' = conns \/ conns' = [conns EXCEPT ![s] = None]
                             /\ UNCHANGED <<call, chan>>
    BY <1>0, <1>8 DEF Unregister
  <2>3. CASE conns' = [conns EXCEPT ![s] = None]
    <3>1. Promise!Go(s)
      BY <1>0, <2>1, <2>2, <2>3 DEF Promise!Go, Online, Goals, Stages, Stage
    <3>2. QED
      BY <2>1, <3>1 DEF Promise!Next
  <2>4. QED
    BY <1>1, <2>1, <2>2, <2>3
<1>9. QED
  BY <1>2, <1>3, <1>4, <1>5, <1>6, <1>7, <1>8 DEF Connection

(* So it does in Remove; saving and shutting down cannot be seen.           *)
LEMMA AdministrationPromise ==
  ASSUME PromiseInv, NEW a \in Admins, Administration(a)
  PROVE  Kept' /\ [Promise!Next]_Promise!listing
<1>0. /\ conns \in [Servers -> Conns \cup {None}] /\ None \notin Conns
      /\ adm[a].step # "idle" => adm[a].srv \in Servers
  BY NoneAssumption DEF PromiseInv, RpcInv, TypeInv, TypeOK, Filled
<1>1. UNCHANGED <<conn, sent, call, chan>>
  BY DEF Administration, Save, Take, Shut
<1>2. Kept'
  BY <1>1 DEF PromiseInv, Kept, Aimed, Reached, Settled
<1>3. UNCHANGED <<Goals, AskedOf, chan, Stages>>
  BY <1>1, ViewOfWire DEF Goals, Stages, Stage
<1>4. CASE Take(a)
  <2>1. Promise!Go(adm[a].srv) /\ adm[a].srv \in Servers
    BY <1>0, <1>3, <1>4 DEF Take, Promise!Go, Online
  <2>2. QED
    BY <1>2, <2>1 DEF Promise!Next
<1>5. CASE conns' = conns
  BY <1>2, <1>3, <1>5 DEF Promise!listing, Online
<1>6. QED
  BY <1>4, <1>5 DEF Administration, Save, Shut

-----------------------------------------------------------------------------
(* A listing that moves on with nothing sent or received keeps what the     *)
(* promise rests on, if its outcome fits and its connection is its own.     *)
LEMMA CallKept ==
  ASSUME PromiseInv, NEW k \in Calls, NEW t, NEW v, NEW c, NEW n, CallNow(k, t, v, c, n),
         UNCHANGED <<conn, sent, chan>>,
         t \in {"found", "write", "wait", "remove"} => conn[c].step # "unused" /\ conn[c].srv = v,
         call[k].step \in Early \cup {"write"} \/ (t \in {"remove", "done"} /\ v = call[k].srv),
         t # "wait", t = "remove" => call'[k].res \in {"timeout", "offline"},
         t = "done" => call'[k].res # "answered"
  PROVE  Kept' /\ AskedOf' = AskedOf
<1>0. TypeInv /\ Aimed /\ Reached /\ Settled
  BY DEF PromiseInv, RpcInv, Kept
<1>1. Aimed'
  BY <1>0, RpcTypes DEF CallNow, Aimed, Early
<1>2. Reached' /\ Settled'
  BY <1>0 DEF CallNow, Reached, Settled
<1>3. QED
  BY <1>1, <1>2, ViewOfWire DEF Kept

(* listFsDir begins, with an agent or without one.                          *)
LEMMA ListDirKept ==
  ASSUME PromiseInv, NEW k \in Calls, NEW s \in Servers, ListDir(k, s)
  PROVE  Kept' /\ Promise!Begin(k, s)
<1>0. TypeInv
  BY DEF PromiseInv, RpcInv
<1>1. /\ call[k].step = "unused" /\ UNCHANGED <<conns, conn, sent, chan>>
  BY DEF ListDir
<1>2. PICK t \in {"lookup", "done"} : CallNow(k, t, s, call[k].conn, call[k].id)
  BY <1>0, CallEffects
<1>3. \/ conns[s] # None /\ call'[k].step = "lookup"
      \/ /\ conns[s] = None /\ call'[k].step = "done"
         /\ call'[k].res = IF s \in Loopback THEN "local" ELSE "required"
  BY <1>0, Results
<1>4. call'[k].step = t /\ (t = "done" => call'[k].res # "answered")
  BY <1>2, <1>3 DEF CallNow
<1>5. Kept' /\ AskedOf' = AskedOf
  <2>1. t \notin {"found", "write", "wait", "remove"} /\ call[k].step \in Early
    BY <1>1, <1>2 DEF Early
  <2>2. QED
    BY <1>1, <1>2, <1>4, <2>1, CallKept
<1>6. Stage(k)' = IF s \in Online THEN "open" ELSE IF s \in Loopback THEN "local" ELSE "required"
  BY <1>3 DEF Stage, Online
<1>7. /\ Goals' = [Goals EXCEPT ![k] = s] /\ Stages' = [Stages EXCEPT ![k] = Stage(k)']
      /\ Stages[k] = "unused"
  BY <1>0, <1>1, <1>2, ViewOfCall DEF Stage
<1>8. Online' = Online
  BY <1>1 DEF Online
<1>9. QED
  BY <1>1, <1>5, <1>6, <1>7, <1>8 DEF Promise!Begin, Promise!Move, Promise!WithoutAgent

(* Call finds the connection registered, which is its downloader's, or none. *)
LEMMA LookupKept ==
  ASSUME PromiseInv, NEW k \in Calls, Lookup(k)
  PROVE  Kept' /\ [Promise!Next]_Promise!listing
<1>0. /\ TypeInv /\ RegisteredAlive /\ Aimed
      /\ call[k].step = "lookup" /\ call[k].srv \in Servers
      /\ UNCHANGED <<conns, conn, sent, chan>> /\ Online' = Online
  BY DEF PromiseInv, RegistryInv, TypeInv, Filled, Kept, Lookup, Online
<1> DEFINE s == call[k].srv
<1>1. CASE /\ conns[s] # None
           /\ CallNow(k, "found", s, conns[s], call[k].id)
  <2>1. conn[conns[s]].srv = s /\ conn[conns[s]].step # "unused"
    BY <1>0, <1>1 DEF RegisteredAlive
  <2>2. Kept' /\ AskedOf' = AskedOf
    BY <1>0, <1>1, <2>1, CallKept DEF Early
  <2>3. Stage(k) = "open" /\ Stage(k)' = "open"
    BY <1>0, <1>1 DEF Stage, CallNow
  <2>4. UNCHANGED <<Goals, Stages>>
    BY <1>0, <1>1, <2>3, ViewOfCall
  <2>5. QED
    BY <1>0, <2>2, <2>4 DEF Promise!listing
<1>2. CASE CallNow(k, "done", s, call[k].conn, call[k].id)
  <2>1. conns[s] = None /\ call'[k].res = Outcome(k, "offline") /\ call'[k].step = "done"
    BY <1>0, <1>2, Results DEF CallNow
  <2>2. call'[k].res = IF s \in Loopback THEN "local" ELSE "offline"
    BY <2>1 DEF Outcome
  <2>3. Kept' /\ AskedOf' = AskedOf
    BY <1>0, <1>2, <2>2, CallKept DEF Early
  <2>4. Stage(k) = "open" /\ Stage(k)' = IF s \in Loopback THEN "local" ELSE "offline"
    BY <1>0, <2>1, <2>2 DEF Stage
  <2>5. /\ Goals' = Goals /\ Goals[k] = s /\ Stages' = [Stages EXCEPT ![k] = Stage(k)'] /\ Stages[k] = "open"
    BY <1>0, <1>2, <2>4, ViewOfCall
  <2>6. AskedOf[k] = {} /\ s \notin Online
    BY <1>0, <2>1, AskedOwn DEF Early, Online
  <2>7. Promise!Miss(k)
    BY <1>0, <2>3, <2>4, <2>5, <2>6 DEF Promise!Miss, Promise!Move, Promise!WithoutAgent
  <2>8. QED
    BY <2>3, <2>7 DEF Promise!Next
<1>3. QED
  BY <1>0, <1>1, <1>2, CallEffects

(* The id and the entry in pending cannot be seen.                          *)
LEMMA EnterKept ==
  ASSUME PromiseInv, NEW k \in Calls, Enter(k)
  PROVE  Kept' /\ UNCHANGED Promise!listing
<1>0. /\ TypeInv /\ Aimed /\ call[k].step = "found"
      /\ UNCHANGED <<conns, conn, sent, chan>> /\ Online' = Online
  BY DEF PromiseInv, RpcInv, Kept, Enter, Online
<1>1. CallNow(k, "write", call[k].srv, call[k].conn, nextID + 1)
  BY <1>0, CallEffects
<1>2. Kept' /\ AskedOf' = AskedOf
  <2>1. conn[call[k].conn].step # "unused" /\ conn[call[k].conn].srv = call[k].srv
    BY <1>0 DEF Aimed
  <2>2. QED
    BY <1>0, <1>1, <2>1, CallKept DEF Early
<1>3. Stage(k)' = Stage(k)
  BY <1>0, <1>1 DEF Stage, CallNow
<1>4. QED
  BY <1>0, <1>1, <1>2, <1>3, ViewOfCall DEF Promise!listing

(* writeJSON asks the agent, once, or finds that it has gone.               *)
LEMMA WriteKept ==
  ASSUME PromiseInv, NEW k \in Calls, Write(k)
  PROVE  Kept' /\ (Promise!Ask(k) \/ Promise!CutOff(k))
<1>0. /\ TypeInv /\ Aimed /\ Reached /\ Settled
      /\ call[k].step = "write" /\ UNCHANGED <<conns, conn, chan>> /\ Online' = Online
  BY DEF PromiseInv, RpcInv, Kept, Write, Online
<1> DEFINE c == call[k].conn
           e == [id |-> call[k].id, req |-> k]
<1>1. PICK t \in {"wait", "remove"} : CallNow(k, t, call[k].srv, c, call[k].id)
  BY <1>0, CallEffects
<1>2. call'[k].step = t
  BY <1>1 DEF CallNow
<1>3. c \in Conns /\ conn[c].step # "unused" /\ conn[c].srv = call[k].srv
  BY <1>0, RpcTypes DEF Aimed
<1>4. /\ Goals' = Goals /\ Goals[k] = call[k].srv
      /\ Stage(k)' = Stage(k) => Stages' = Stages
      /\ Stages' = [Stages EXCEPT ![k] = Stage(k)'] /\ Stages[k] = "open" /\ Stage(k) = "open"
  BY <1>0, <1>1, ViewOfCall DEF Stage
<1>5. CASE t = "wait" /\ sent' = [sent EXCEPT ![c] = @ \cup {e}]
  <2>1. sent'[c] = sent[c] \cup {e} /\ \A d \in Conns : d # c => sent'[d] = sent[d]
    BY <1>0, <1>3, <1>5, RpcTypes
  <2>2. Aimed'
    <3>1. ASSUME NEW d \in Conns, NEW f \in sent'[d]
          PROVE  /\ conn[d].step # "unused" /\ conn[d].srv = call'[f.req].srv
                 /\ call'[f.req].step \in {"wait", "remove", "done"}
      <4>1. CASE f \in sent[d]
        BY <1>0, <1>1, <1>5, <4>1, RpcTypes DEF Aimed, CallNow
      <4>2. CASE d = c /\ f = e
        BY <1>1, <1>3, <1>5, <4>2 DEF CallNow
      <4>3. QED
        BY <2>1, <3>1, <4>1, <4>2
    <3>2. QED
      BY <1>0, <1>1, <1>3, <1>5, <3>1 DEF Aimed, CallNow
  <2>3. Reached'
    <3>1. \A d \in Conns : sent[d] \subseteq sent'[d]
      BY <2>1
    <3>2. e \in sent'[c] /\ e.req = k
      BY <2>1
    <3>3. \A j \in Calls : call'[j].step = "wait" =>
            \E f \in sent'[call'[j].conn] : f.req = j
      <4>1. ASSUME NEW j \in Calls, call'[j].step = "wait", j # k
            PROVE  \E f \in sent'[call'[j].conn] : f.req = j
        <5>1. call'[j] = call[j] /\ call[j].conn \in Conns
          BY <1>0, <1>1, <4>1, RpcTypes DEF CallNow
        <5>2. QED
          BY <1>0, <3>1, <4>1, <5>1 DEF Reached
      <4>2. call'[k].conn = c
        BY <1>1 DEF CallNow
      <4>3. QED
        BY <3>2, <4>1, <4>2
    <3>4. \A d \in Conns : conn[d].step = "sending" => \E f \in sent'[d] : f.req = conn[d].to
      BY <1>0, <3>1 DEF Reached
    <3>5. QED
      BY <1>0, <3>3, <3>4 DEF Reached
  <2>4. Settled'
    BY <1>0, <1>1, <1>5 DEF Settled, CallNow
  <2>5. Stages' = Stages
    BY <1>2, <1>4, <1>5 DEF Stage
  <2>6. AskedOf[k] = {}
    BY <1>0, AskedOwn DEF Early
  <2>7. Asked(k)' = {c} /\ \A j \in Calls : j # k => Asked(j)' = Asked(j)
    <3>1. \A d \in Conns : \A f \in sent[d] : f.req # k
      BY <1>0 DEF Aimed
    <3>2. e.req = k
      OBVIOUS
    <3> HIDE DEF c, e
    <3>3. ASSUME NEW d \in Conns, NEW j \in Calls
          PROVE  (\E f \in sent'[d] : f.req = j) <=> (IF j = k THEN d = c ELSE \E f \in sent[d] : f.req = j)
      <4>1. CASE d = c
        BY <1>3, <2>1, <3>1, <3>2, <4>1
      <4>2. CASE d # c
        BY <2>1, <3>1, <4>2
      <4>3. QED
        BY <4>1, <4>2
    <3>4. Asked(k)' = {c}
      BY <1>3, <3>3 DEF Asked
    <3>5. \A j \in Calls : j # k => Asked(j)' = Asked(j)
      BY <3>3 DEF Asked
    <3>6. QED
      BY <3>4, <3>5
  <2>8. AskedOf' = [AskedOf EXCEPT ![k] = {call[k].srv}]
    BY <1>0, <1>3, <2>7 DEF AskedOf
  <2>9. Promise!Ask(k)
    BY <1>0, <1>4, <2>5, <2>6, <2>8 DEF Promise!Ask
  <2>10. QED
    BY <2>2, <2>3, <2>4, <2>9 DEF Kept
<1>6. CASE t = "remove" /\ call'[k].res = "offline" /\ sent' = sent
  <2>1. Kept' /\ AskedOf' = AskedOf
    BY <1>0, <1>1, <1>3, <1>6, CallKept DEF Early
  <2>2. Stage(k)' = "cut"
    BY <1>2, <1>6 DEF Stage
  <2>3. Promise!CutOff(k)
    BY <1>0, <1>4, <2>1, <2>2 DEF Promise!CutOff, Promise!Move
  <2>4. QED
    BY <2>1, <2>3
<1>7. QED
  BY <1>0, <1>2, <1>5, <1>6, Results

(* The answer that is passed on is the call's own, and the last one.        *)
LEMMA AnsweredKept ==
  ASSUME PromiseInv, NEW k \in Calls, Answered(k)
  PROVE  Kept' /\ Promise!Answer(k)
<1>0. /\ TypeInv /\ Aimed /\ Reached /\ Settled /\ Held /\ OwnAnswer
      /\ call[k].step = "wait" /\ chan[k] # None /\ chan' = [chan EXCEPT ![k] = None]
      /\ UNCHANGED <<conns, conn, sent>> /\ Online' = Online
  BY DEF PromiseInv, RpcInv, Rpc, Kept, Answered, Online
<1>1. CallNow(k, "done", call[k].srv, call[k].conn, call[k].id) /\ call'[k].res = "answered"
  BY <1>0, CallEffects, Results
<1>2. chan'[k] = None /\ \A j \in Calls : j # k => chan'[j] = chan[j]
  BY <1>0, RpcTypes
<1>3. Aimed' /\ Reached'
  BY <1>0, <1>1, RpcTypes DEF CallNow, Aimed, Reached
<1>4. Settled'
  BY <1>0, <1>1, <1>2 DEF CallNow, Settled, Held
<1>5. AskedOf' = AskedOf
  BY <1>0, ViewOfWire
<1>6. Stage(k) = "open" /\ Stage(k)' = "answered"
  BY <1>0, <1>1 DEF Stage, CallNow
<1>7. Goals' = Goals /\ Stages' = [Stages EXCEPT ![k] = "answered"] /\ Stages[k] = "open"
  BY <1>0, <1>1, <1>6, ViewOfCall
<1>8. chan[k] = k
  BY <1>0 DEF OwnAnswer
<1>9. QED
  BY <1>0, <1>3, <1>4, <1>5, <1>7, <1>8 DEF Kept, Promise!Answer, Promise!Move

(* The timer, or the close, and what it means for a downloader on this      *)
(* machine and on another.                                                  *)
LEMMA FailureKept ==
  ASSUME PromiseInv, NEW k \in Calls, Timeout(k) \/ Woken(k) \/ Remove(k)
  PROVE  Kept' /\ (Promise!GiveUp(k) \/ Promise!CutOff(k) \/ Promise!End(k))
<1>0. /\ TypeInv /\ Aimed /\ Reached /\ Settled
      /\ UNCHANGED <<conns, conn, sent, chan>> /\ Online' = Online
  BY DEF PromiseInv, RpcInv, Kept, Timeout, Woken, Remove, Online
<1> DEFINE c == call[k].conn
<1>1. ASSUME call[k].step \in {"wait", "remove"}
      PROVE  conn[c].step # "unused" /\ conn[c].srv = call[k].srv
  BY <1>0, <1>1 DEF Aimed
<1>2. ASSUME CallNow(k, "remove", call[k].srv, c, call[k].id), call[k].step = "wait",
             call'[k].res \in {"timeout", "offline"}
      PROVE  /\ Kept' /\ AskedOf' = AskedOf /\ Goals' = Goals /\ Stages[k] = "open"
             /\ Stages' = [Stages EXCEPT ![k] = IF call'[k].res = "timeout" THEN "late" ELSE "cut"]
  <2>1. Kept' /\ AskedOf' = AskedOf
    BY <1>0, <1>1, <1>2, CallKept
  <2>2. Stage(k) = "open" /\ Stage(k)' = IF call'[k].res = "timeout" THEN "late" ELSE "cut"
    BY <1>2 DEF Stage, CallNow
  <2>3. QED
    BY <1>0, <1>2, <2>1, <2>2, ViewOfCall
<1>3. CASE Timeout(k)
  <2>1. call[k].step = "wait" /\ call'[k].res = "timeout"
    BY <1>0, <1>3, Results DEF Timeout
  <2>2. CallNow(k, "remove", call[k].srv, c, call[k].id)
    BY <1>0, <1>3, CallEffects
  <2>3. AskedOf[k] # {}
    BY <1>0, <2>1, AskedOwn, RpcTypes DEF Reached
  <2>4. /\ Kept' /\ AskedOf' = AskedOf /\ Goals' = Goals /\ Stages[k] = "open"
        /\ Stages' = [Stages EXCEPT ![k] = "late"]
    BY <1>2, <2>1, <2>2
  <2>5. QED
    BY <1>0, <2>3, <2>4 DEF Promise!GiveUp, Promise!Move
<1>4. CASE Woken(k)
  <2>1. call[k].step = "wait" /\ call'[k].res = "offline"
    BY <1>0, <1>4, Results DEF Woken
  <2>2. CallNow(k, "remove", call[k].srv, c, call[k].id)
    BY <1>0, <1>4, CallEffects
  <2>3. /\ Kept' /\ AskedOf' = AskedOf /\ Goals' = Goals /\ Stages[k] = "open"
        /\ Stages' = [Stages EXCEPT ![k] = "cut"]
    BY <1>2, <2>1, <2>2
  <2>4. QED
    BY <1>0, <2>3 DEF Promise!CutOff, Promise!Move
<1>5. CASE Remove(k)
  <2>1. /\ call[k].step = "remove" /\ call'[k].res = Outcome(k, call[k].res)
        /\ CallNow(k, "done", call[k].srv, c, call[k].id)
    BY <1>0, <1>5, CallEffects, Results DEF Remove
  <2>2. \/ call[k].res = "timeout" /\ call'[k].res = "timeout"
        \/ /\ call[k].res = "offline"
           /\ call'[k].res = IF call[k].srv \in Loopback THEN "local" ELSE "offline"
    BY <1>0, <2>1 DEF Settled, Outcome
  <2>3. Kept' /\ AskedOf' = AskedOf
    BY <1>0, <1>1, <2>1, <2>2, CallKept
  <2>4. /\ Stage(k) = IF call[k].res = "timeout" THEN "late" ELSE "cut"
        /\ Stage(k)' = call'[k].res
    BY <2>1 DEF Stage, CallNow
  <2>5. /\ Goals' = Goals /\ Goals[k] = call[k].srv /\ Stages[k] = Stage(k)
        /\ Stages' = [Stages EXCEPT ![k] = call'[k].res]
    BY <1>0, <2>1, <2>4, ViewOfCall
  <2>6. QED
    BY <1>0, <2>2, <2>3, <2>4, <2>5 DEF Promise!End, Promise!Move, Promise!WithoutAgent
<1>6. QED
  BY <1>3, <1>4, <1>5

(* Every step keeps the promise, or cannot be seen.                         *)
LEMMA NextKept == PromiseInv /\ [Next]_vars => PromiseInv' /\ [Promise!Next]_Promise!listing
<1> SUFFICES ASSUME PromiseInv, [Next]_vars PROVE PromiseInv' /\ [Promise!Next]_Promise!listing
  OBVIOUS
<1>1. RegistryInv' /\ RpcInv'
  BY NextRegistry, NextRpc DEF PromiseInv
<1>2. ASSUME NEW k \in Calls, Calling(k) PROVE Kept' /\ [Promise!Next]_Promise!listing
  <2>1. ASSUME NEW s \in Servers, ListDir(k, s) PROVE Kept' /\ Promise!Next
    BY <2>1, ListDirKept DEF Promise!Next
  <2>2. CASE Lookup(k)
    BY <2>2, LookupKept
  <2>3. CASE Enter(k)
    BY <2>3, EnterKept
  <2>4. CASE Write(k)
    BY <2>4, WriteKept DEF Promise!Next
  <2>5. CASE Answered(k)
    BY <2>5, AnsweredKept DEF Promise!Next
  <2>6. CASE Timeout(k) \/ Woken(k) \/ Remove(k)
    BY <2>6, FailureKept DEF Promise!Next
  <2>7. QED
    BY <1>2, <2>1, <2>2, <2>3, <2>4, <2>5, <2>6 DEF Calling, Waiting
<1>3. ASSUME UNCHANGED vars PROVE Kept' /\ [Promise!Next]_Promise!listing
  <2>1. Kept'
    BY <1>3 DEF vars, PromiseInv, Kept, Aimed, Reached, Settled
  <2>2. UNCHANGED Promise!listing
    BY <1>3 DEF vars, Promise!listing, Online, Goals, AskedOf, Asked, Stages, Stage
  <2>3. QED
    BY <2>1, <2>2
<1>4. Kept' /\ [Promise!Next]_Promise!listing
  BY <1>2, <1>3, ConnectionPromise, AdministrationPromise DEF Next
<1>5. QED
  BY <1>1, <1>4 DEF PromiseInv

(* manager.go and fs.go keep the promise of Listing, for any number of      *)
(* downloaders, connections, listings and administrators, and whatever the  *)
(* agents answer.                                                           *)
THEOREM ListingsKeepPromise == Spec => ListingKept
<1>1. Init => PromiseInv /\ Promise!Init
  BY InitKept
<1>2. PromiseInv /\ [Next]_vars => PromiseInv' /\ [Promise!Next]_Promise!listing
  BY NextKept
<1>3. QED
  BY <1>1, <1>2, PTL DEF Spec, Slow, ListingKept, Promise!Spec
=============================================================================
