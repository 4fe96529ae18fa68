-------------------------- MODULE QbtSessionProofs --------------------------
(* Theorems about QbtSession, for any number of instances and handlers and  *)
(* any bounds.  Records of requests are kept opaque: every way a step       *)
(* changes one is a lemma of its own.                                       *)
EXTENDS QbtSession, TLAPS

(* What a step leaves of the requests: the others as they were, and that of *)
(* h with the given fields.                                                 *)
ReqNow(h, kind, step, retry, n, fx, res) ==
  /\ req' \in [Handlers -> Requests]
  /\ \A g \in Handlers : g # h => req'[g] = req[g]
  /\ req'[h].kind = kind /\ req'[h].step = step /\ req'[h].retry = retry
  /\ req'[h].sid = n /\ req'[h].fx = fx /\ req'[h].res = res

(* A request begins.                                                        *)
LEMMA ReqBegin ==
  ASSUME req \in [Handlers -> Requests], NEW h \in Handlers, NEW kind \in Kinds, NEW step \in Steps,
         NEW conn \in Conns \cup {None},
         req' = [req EXCEPT ![h] = New(kind, step, conn)]
  PROVE  ReqNow(h, kind, step, FALSE, 0, 0, "none") /\ req'[h].conn = conn
<1> DEFINE m == New(kind, step, conn)
<1>1. /\ m \in Requests /\ m.kind = kind /\ m.step = step /\ m.retry = FALSE
      /\ m.sid = 0 /\ m.fx = 0 /\ m.res = "none" /\ m.conn = conn
  BY DEF New, Requests, Results
<1>2. req' = [req EXCEPT ![h] = m]
  BY DEF Done
<1> HIDE DEF m
<1>3. QED
  BY <1>1, <1>2 DEF ReqNow

(* A request ends.                                                          *)
LEMMA ReqDone ==
  ASSUME req \in [Handlers -> Requests], NEW h \in Handlers, NEW res \in Results, NEW n \in Nat,
         Done(h, res, n)
  PROVE  ReqNow(h, req[h].kind, "done", FALSE, 0, n, res)
<1> DEFINE m == [New(req[h].kind, "done", None) EXCEPT !.res = res, !.fx = n]
<1>1. /\ m \in Requests /\ m.kind = req[h].kind /\ m.step = "done" /\ m.retry = FALSE
      /\ m.sid = 0 /\ m.fx = n /\ m.res = res
  BY DEF New, Requests, Steps
<1>2. req' = [req EXCEPT ![h] = m]
  BY DEF Done
<1> HIDE DEF m
<1>3. QED
  BY <1>1, <1>2 DEF ReqNow

(* A request goes on to its next step ...                                   *)
LEMMA ReqMove ==
  ASSUME req \in [Handlers -> Requests], NEW h \in Handlers, NEW s \in Steps,
         req' = [req EXCEPT ![h].step = s]
  PROVE  ReqNow(h, req[h].kind, s, req[h].retry, req[h].sid, req[h].fx, req[h].res) /\ req'[h].conn = req[h].conn
<1> DEFINE m == [req[h] EXCEPT !.step = s]
<1>1. /\ m \in Requests /\ m.kind = req[h].kind /\ m.step = s /\ m.retry = req[h].retry
      /\ m.sid = req[h].sid /\ m.fx = req[h].fx /\ m.res = req[h].res /\ m.conn = req[h].conn
  BY DEF Requests
<1>2. req' = [req EXCEPT ![h] = m]
  BY DEF Done
<1> HIDE DEF m
<1>3. QED
  BY <1>1, <1>2 DEF ReqNow

(* ... with a session in hand ...                                           *)
LEMMA ReqHold ==
  ASSUME req \in [Handlers -> Requests], NEW h \in Handlers, NEW s \in Steps, NEW n \in Nat,
         req' = [req EXCEPT ![h] = [@ EXCEPT !.step = s, !.sid = n]]
  PROVE  ReqNow(h, req[h].kind, s, req[h].retry, n, req[h].fx, req[h].res) /\ req'[h].conn = req[h].conn
<1> DEFINE m == [req[h] EXCEPT !.step = s, !.sid = n]
<1>1. /\ m \in Requests /\ m.kind = req[h].kind /\ m.step = s /\ m.retry = req[h].retry
      /\ m.sid = n /\ m.fx = req[h].fx /\ m.res = req[h].res /\ m.conn = req[h].conn
  BY DEF Requests
<1>2. req' = [req EXCEPT ![h] = m]
  BY DEF Done
<1> HIDE DEF m
<1>3. QED
  BY <1>1, <1>2 DEF ReqNow

(* ... or for the second time.                                              *)
LEMMA ReqRetry ==
  ASSUME req \in [Handlers -> Requests], NEW h \in Handlers, NEW s \in Steps,
         req' = [req EXCEPT ![h] = [@ EXCEPT !.step = s, !.retry = TRUE]]
  PROVE  ReqNow(h, req[h].kind, s, TRUE, req[h].sid, req[h].fx, req[h].res) /\ req'[h].conn = req[h].conn
<1> DEFINE m == [req[h] EXCEPT !.step = s, !.retry = TRUE]
<1>1. /\ m \in Requests /\ m.kind = req[h].kind /\ m.step = s /\ m.retry = TRUE
      /\ m.sid = req[h].sid /\ m.fx = req[h].fx /\ m.res = req[h].res /\ m.conn = req[h].conn
  BY DEF Requests
<1>2. req' = [req EXCEPT ![h] = m]
  BY DEF Done
<1> HIDE DEF m
<1>3. QED
  BY <1>1, <1>2 DEF ReqNow

-----------------------------------------------------------------------------
(* Type correctness.                                                        *)

(* Initially every variable has its type.                                   *)
LEMMA InitType == Init => TypeOK
<1> SUFFICES ASSUME Init PROVE TypeOK
  OBVIOUS
<1>1. \A h \in Handlers : req[h] = New("proxy", "done", None)
  BY DEF Init
<1>2. req \in [Handlers -> Requests] /\ \A h \in Handlers : req[h].sid = 0 /\ req[h].step = "done"
  BY <1>1 DEF Init, New, Requests, Kinds, Steps, Results
<1>3. QED
  BY <1>2, BoundAssumption DEF Init, TypeOK

(* What a step within one request has to keep for the types to hold.        *)
LEMMA TypeOfRequest ==
  ASSUME TypeOK, NEW h \in Handlers, UNCHANGED <<conf, down>>,
         calm' \in [Handlers -> BOOLEAN], left' \in Nat,
         minted' \in Nat, minted' >= minted, sid' \in 0..minted', alive' \in [Instances -> SUBSET (1..minted')],
         req' \in [Handlers -> Requests],
         \A g \in Handlers : g # h => req'[g] = req[g],
         req'[h].sid <= minted',
         req'[h].step \notin {"done", "forget"} => req'[h].conn \in Conns
  PROVE  TypeOK'
<1>1. \A g \in Handlers : req'[g].sid \in Nat /\ req[g].sid \in Nat /\ req[g].sid <= minted
  BY DEF TypeOK, Requests
<1>2. \A g \in Handlers : req'[g].sid <= minted'
  BY <1>1 DEF TypeOK
<1>3. QED
  BY <1>2 DEF TypeOK

(* The case of a step that hands out and stores no session.                 *)
LEMMA TypeOfPlain ==
  ASSUME TypeOK, NEW h \in Handlers, UNCHANGED <<conf, sid, alive, down, minted>>,
         calm' \in [Handlers -> BOOLEAN], left' \in Nat,
         req' \in [Handlers -> Requests],
         \A g \in Handlers : g # h => req'[g] = req[g],
         req'[h].sid <= minted,
         req'[h].step \notin {"done", "forget"} => req'[h].conn \in Conns
  PROVE  TypeOK'
<1>1. minted \in Nat /\ minted >= minted /\ sid \in 0..minted /\ alive \in [Instances -> SUBSET (1..minted)]
  BY DEF TypeOK
<1>2. QED
  BY <1>1, TypeOfRequest

(* What each step of a request does to the requests.                        *)
LEMMA ArriveNow ==
  ASSUME TypeOK, NEW h \in Handlers, NEW kind \in {"proxy", "typed"}, Arrive(h, kind)
  PROVE  ReqNow(h, kind, "ensure", FALSE, 0, 0, "none") /\ req'[h].conn = conf /\ conf \in Conns
<1>1. req \in [Handlers -> Requests] /\ conf \in Conns /\ kind \in Kinds /\ "ensure" \in Steps
  BY DEF Arrive, TypeOK, Kinds, Steps
<1>2. QED
  BY <1>1, ReqBegin DEF Arrive

(* A connection test begins with the login.                                 *)
LEMMA TestNow ==
  ASSUME TypeOK, NEW h \in Handlers, NEW draft \in Conns, Test(h, draft)
  PROVE  ReqNow(h, "test", "login", FALSE, 0, 0, "none") /\ req'[h].conn = draft
<1>1. req \in [Handlers -> Requests]
  BY DEF TypeOK
<1>2. QED
  BY <1>1, ReqBegin DEF Test, Kinds, Steps

(* A request with or without a session to use.                              *)
LEMMA EnsureNow ==
  ASSUME TypeOK, NEW h \in Handlers, Ensure(h)
  PROVE  \E s \in {"send", "login"} :
           ReqNow(h, req[h].kind, s, req[h].retry, req[h].sid, req[h].fx, req[h].res) /\ req'[h].conn = req[h].conn
<1>1. PICK s \in {"send", "login"} : req' = [req EXCEPT ![h].step = s]
  BY DEF Ensure
<1>2. req \in [Handlers -> Requests] /\ s \in Steps
  BY DEF TypeOK, Steps
<1>3. QED
  BY <1>1, <1>2, ReqMove

(* A login ends the request or leaves it with a session in hand.            *)
LEMMA LoginNow ==
  ASSUME TypeOK, NEW h \in Handlers, Login(h)
  PROVE  \/ /\ ReqNow(h, req[h].kind, "done", FALSE, 0, req[h].fx, "refused")
            /\ ~req[h].conn.good \/ req[h].conn.at \in down
            /\ UNCHANGED <<alive, minted>>
         \/ /\ ReqNow(h, req[h].kind, "store", req[h].retry, minted + 1, req[h].fx, req[h].res)
            /\ req'[h].conn = req[h].conn
            /\ minted' = minted + 1
            /\ alive' = [alive EXCEPT ![req[h].conn.at] = @ \cup {minted + 1}]
<1>1. req \in [Handlers -> Requests] /\ req[h].fx \in Nat /\ minted + 1 \in Nat
  BY DEF TypeOK, Requests
<1>2. Done(h, "refused", req[h].fx) => ReqNow(h, req[h].kind, "done", FALSE, 0, req[h].fx, "refused")
  BY <1>1, ReqDone DEF Results
<1>3. req' = [req EXCEPT ![h] = [@ EXCEPT !.step = "store", !.sid = minted + 1]] =>
        ReqNow(h, req[h].kind, "store", req[h].retry, minted + 1, req[h].fx, req[h].res) /\ req'[h].conn = req[h].conn
  BY <1>1, ReqHold DEF Steps
<1>4. QED
  BY <1>2, <1>3 DEF Login

(* Storing a session ends a test and lets other requests go on.             *)
LEMMA StoreNow ==
  ASSUME TypeOK, NEW h \in Handlers, Store(h)
  PROVE  \/ req[h].kind = "test" /\ ReqNow(h, req[h].kind, "done", FALSE, 0, 0, "served")
         \/ /\ ReqNow(h, req[h].kind, "send", req[h].retry, req[h].sid, req[h].fx, req[h].res)
            /\ req[h].kind # "test" /\ req'[h].conn = req[h].conn
<1>1. req \in [Handlers -> Requests]
  BY DEF TypeOK
<1>2. Done(h, "served", 0) => ReqNow(h, req[h].kind, "done", FALSE, 0, 0, "served")
  BY <1>1, ReqDone DEF Results
<1>3. req' = [req EXCEPT ![h].step = "send"] =>
        ReqNow(h, req[h].kind, "send", req[h].retry, req[h].sid, req[h].fx, req[h].res) /\ req'[h].conn = req[h].conn
  BY <1>1, ReqMove DEF Steps
<1>4. QED
  BY <1>2, <1>3 DEF Store

(* An attempt carries the session of the moment.                            *)
LEMMA SendNow ==
  ASSUME TypeOK, NEW h \in Handlers, Send(h)
  PROVE  ReqNow(h, req[h].kind, "flying", req[h].retry, sid, req[h].fx, req[h].res) /\ req'[h].conn = req[h].conn
<1>1. /\ req \in [Handlers -> Requests] /\ sid \in Nat /\ "flying" \in Steps
      /\ req' = [req EXCEPT ![h] = [@ EXCEPT !.step = "flying", !.sid = sid]]
  BY DEF TypeOK, Send, Steps
<1>2. QED
  BY <1>1, ReqHold

(* The instance's answer ends the request or sends it to a login.           *)
LEMMA AnswerNow ==
  ASSUME TypeOK, NEW h \in Handlers, Answer(h)
  PROVE  \/ req[h].conn.at \in down /\ ReqNow(h, req[h].kind, "done", FALSE, 0, req[h].fx, "unreachable")
         \/ ReqNow(h, req[h].kind, "done", FALSE, 0, req[h].fx + 1, "served")
         \/ /\ ReqNow(h, req[h].kind, "login", TRUE, req[h].sid, req[h].fx, req[h].res)
            /\ ~req[h].retry /\ req'[h].conn = req[h].conn
         \/ /\ ReqNow(h, req[h].kind, "done", FALSE, 0, req[h].fx, "forbidden")
            /\ req[h].retry /\ ~Live(h)
<1>1. req \in [Handlers -> Requests] /\ req[h].fx \in Nat /\ req[h].fx + 1 \in Nat
  BY DEF TypeOK, Requests
<1>2. \A res \in Results, n \in Nat : Done(h, res, n) => ReqNow(h, req[h].kind, "done", FALSE, 0, n, res)
  BY <1>1, ReqDone
<1>3. req' = [req EXCEPT ![h] = [@ EXCEPT !.step = "login", !.retry = TRUE]] =>
        ReqNow(h, req[h].kind, "login", TRUE, req[h].sid, req[h].fx, req[h].res) /\ req'[h].conn = req[h].conn
  BY <1>1, ReqRetry DEF Steps
<1>4. QED
  BY <1>1, <1>2, <1>3 DEF Answer, Results

(* A lost answer ends the request.                                          *)
LEMMA LostNow ==
  ASSUME TypeOK, NEW h \in Handlers, Lost(h)
  PROVE  ReqNow(h, req[h].kind, "done", FALSE, 0, req[h].fx + 1, "unreachable")
<1>1. req \in [Handlers -> Requests] /\ req[h].fx + 1 \in Nat
  BY DEF TypeOK, Requests
<1>2. QED
  BY <1>1, ReqDone DEF Lost, Results

(* A login that fails for the instance's own reasons ends it too.            *)
LEMMA LoginFailsNow ==
  ASSUME TypeOK, NEW h \in Handlers, LoginFails(h)
  PROVE  ReqNow(h, req[h].kind, "done", FALSE, 0, req[h].fx, "refused")
<1>1. req \in [Handlers -> Requests] /\ req[h].fx \in Nat
  BY DEF TypeOK, Requests
<1>2. QED
  BY <1>1, ReqDone DEF LoginFails, Results

(* A deletion begins, and ends.                                             *)
LEMMA DeleteNow ==
  ASSUME TypeOK, NEW h \in Handlers
  PROVE  /\ Delete(h) => ReqNow(h, "delete", "forget", FALSE, 0, 0, "none")
         /\ Remove(h) => ReqNow(h, req[h].kind, "done", FALSE, 0, 0, "served")
<1>1. req \in [Handlers -> Requests]
  BY DEF TypeOK
<1>2. ASSUME Delete(h) PROVE ReqNow(h, "delete", "forget", FALSE, 0, 0, "none")
  BY <1>1, <1>2, ReqBegin DEF Delete, Kinds, Steps
<1>3. ASSUME Remove(h) PROVE ReqNow(h, req[h].kind, "done", FALSE, 0, 0, "served")
  BY <1>1, <1>3, ReqDone DEF Remove, Results
<1>4. QED
  BY <1>2, <1>3

(* Every step of a request keeps the types.                                 *)
LEMMA ServeType ==
  ASSUME TypeOK, NEW h \in Handlers, Serve(h)
  PROVE  TypeOK'
<1> USE DEF At
<1>0. /\ minted \in Nat /\ sid \in 0..minted /\ req[h].sid \in 0..minted /\ left \in Nat
      /\ alive \in [Instances -> SUBSET (1..minted)] /\ calm \in [Handlers -> BOOLEAN]
      /\ req[h].step \notin {"done", "forget"} => req[h].conn \in Conns
  BY DEF TypeOK, Requests
<1>1. ASSUME NEW kind \in {"proxy", "typed"}, Arrive(h, kind) PROVE TypeOK'
  <2>1. ReqNow(h, kind, "ensure", FALSE, 0, 0, "none") /\ req'[h].conn = conf /\ conf \in Conns
    BY <1>1, ArriveNow
  <2>2. calm' \in [Handlers -> BOOLEAN] /\ UNCHANGED <<conf, sid, alive, down, minted, left>>
    BY <1>0, <1>1, <2>1 DEF Arrive, Conns
  <2>3. QED
    BY <1>0, <2>1, <2>2, TypeOfPlain DEF ReqNow
<1>2. ASSUME NEW draft \in Conns, Test(h, draft) PROVE TypeOK'
  <2>1. ReqNow(h, "test", "login", FALSE, 0, 0, "none") /\ req'[h].conn = draft
    BY <1>2, TestNow
  <2>2. calm' \in [Handlers -> BOOLEAN] /\ UNCHANGED <<conf, sid, alive, down, minted, left>>
    BY <1>0, <1>2 DEF Test
  <2>3. QED
    BY <1>0, <2>1, <2>2, TypeOfPlain DEF ReqNow
<1>3. CASE Ensure(h)
  <2>1. UNCHANGED <<conf, sid, alive, down, minted, calm, left>> /\ req[h].conn \in Conns
    BY <1>0, <1>3 DEF Ensure
  <2>2. QED
    BY <1>0, <1>3, <2>1, EnsureNow, TypeOfPlain DEF ReqNow
<1>4. CASE Login(h)
  <2>0. UNCHANGED <<conf, sid, down, calm, left>> /\ req[h].conn \in Conns
    BY <1>0, <1>4 DEF Login
  <2>1. CASE ReqNow(h, req[h].kind, "done", FALSE, 0, req[h].fx, "refused") /\ UNCHANGED <<alive, minted>>
    BY <1>0, <2>0, <2>1, TypeOfPlain DEF ReqNow
  <2>2. CASE /\ ReqNow(h, req[h].kind, "store", req[h].retry, minted + 1, req[h].fx, req[h].res)
             /\ req'[h].conn = req[h].conn
             /\ minted' = minted + 1
             /\ alive' = [alive EXCEPT ![req[h].conn.at] = @ \cup {minted + 1}]
    <3>1. minted + 1 \in Nat /\ minted + 1 \in 1..(minted + 1) /\ 1..minted \subseteq 1..(minted + 1)
      BY <1>0
    <3>2. alive' \in [Instances -> SUBSET (1..minted')]
      BY <2>2, <3>1, <1>0
    <3>3. minted' \in Nat /\ minted' >= minted /\ sid \in 0..minted' /\ minted + 1 <= minted'
      BY <2>2, <1>0
    <3>4. QED
      BY <1>0, <2>0, <2>2, <3>2, <3>3, TypeOfRequest DEF ReqNow
  <2>3. QED
    BY <1>4, <2>1, <2>2, LoginNow
<1>5. CASE Store(h)
  <2>1. UNCHANGED <<conf, alive, down, minted, calm, left>> /\ sid' = req[h].sid /\ req[h].conn \in Conns
    BY <1>0, <1>5 DEF Store
  <2>2. QED
    <3>1. CASE ReqNow(h, req[h].kind, "done", FALSE, 0, 0, "served")
      BY <1>0, <2>1, <3>1, TypeOfRequest DEF ReqNow
    <3>2. CASE ReqNow(h, req[h].kind, "send", req[h].retry, req[h].sid, req[h].fx, req[h].res) /\ req'[h].conn = req[h].conn
      BY <1>0, <2>1, <3>2, TypeOfRequest DEF ReqNow
    <3>3. QED
      BY <1>5, <3>1, <3>2, StoreNow
<1>6. CASE Send(h)
  <2>1. UNCHANGED <<conf, sid, alive, down, minted, calm, left>> /\ req[h].conn \in Conns
    BY <1>0, <1>6 DEF Send
  <2>2. QED
    BY <1>0, <1>6, <2>1, SendNow, TypeOfPlain DEF ReqNow
<1>7. CASE Answer(h)
  <2>1. UNCHANGED <<conf, sid, alive, down, minted, calm, left>> /\ req[h].conn \in Conns
    BY <1>0, <1>7 DEF Answer
  <2>2. QED
    <3>1. ASSUME NEW n, NEW res, ReqNow(h, req[h].kind, "done", FALSE, 0, n, res) PROVE TypeOK'
      BY <1>0, <2>1, <3>1, TypeOfPlain DEF ReqNow
    <3>2. CASE ReqNow(h, req[h].kind, "login", TRUE, req[h].sid, req[h].fx, req[h].res) /\ req'[h].conn = req[h].conn
      BY <1>0, <2>1, <3>2, TypeOfPlain DEF ReqNow
    <3>3. QED
      BY <1>7, <3>1, <3>2, AnswerNow
<1>8. CASE Lost(h)
  <2>1. calm' \in [Handlers -> BOOLEAN] /\ left' \in Nat /\ UNCHANGED <<conf, sid, alive, down, minted>>
    BY <1>0, <1>8 DEF Lost, Event
  <2>2. QED
    <3>1. ReqNow(h, req[h].kind, "done", FALSE, 0, req[h].fx + 1, "unreachable")
      BY <1>8, LostNow
    <3>2. QED
      BY <1>0, <2>1, <3>1, TypeOfPlain DEF ReqNow
<1>11. CASE LoginFails(h)
  <2>1. calm' \in [Handlers -> BOOLEAN] /\ left' \in Nat /\ UNCHANGED <<conf, sid, alive, down, minted>>
    BY <1>0, <1>11 DEF LoginFails, Event
  <2>2. QED
    <3>1. ReqNow(h, req[h].kind, "done", FALSE, 0, req[h].fx, "refused")
      BY <1>0, <1>11, LoginFailsNow
    <3>2. QED
      BY <1>0, <2>1, <3>1, TypeOfPlain DEF ReqNow
<1>9. CASE Delete(h)
  <2>1. calm' \in [Handlers -> BOOLEAN] /\ left' \in Nat /\ conf' = None /\ UNCHANGED <<sid, alive, down, minted>>
    BY <1>0, <1>9 DEF Delete, Event
  <2>2. QED
    <3>1. ReqNow(h, "delete", "forget", FALSE, 0, 0, "none")
      BY <1>9, DeleteNow
    <3>2. QED
      BY <1>0, <2>1, <3>1 DEF TypeOK, ReqNow
<1>10. CASE Remove(h)
  <2>1. sid' = 0 /\ UNCHANGED <<conf, alive, down, minted, calm, left>>
    BY <1>10 DEF Remove
  <2>2. QED
    <3>1. ReqNow(h, req[h].kind, "done", FALSE, 0, 0, "served")
      BY <1>10, DeleteNow
    <3>2. QED
      BY <1>0, <2>1, <3>1, TypeOfRequest DEF ReqNow
<1>12. QED
  BY <1>1, <1>2, <1>3, <1>4, <1>5, <1>6, <1>7, <1>8, <1>9, <1>10, <1>11 DEF Serve

(* What disturbs the requests keeps the types.                              *)
LEMMA EventType ==
  ASSUME TypeOK, (\E i \in Instances : Expire(i) \/ Toggle(i)) \/ (\E c \in Conns : Update(c))
  PROVE  TypeOK'
<1>1. ASSUME NEW i \in Instances, Expire(i) PROVE TypeOK'
  BY <1>1 DEF TypeOK, Expire, Event
<1>2. ASSUME NEW i \in Instances, Toggle(i) PROVE TypeOK'
  BY <1>2 DEF TypeOK, Toggle, Event
<1>3. ASSUME NEW c \in Conns, Update(c) PROVE TypeOK'
  BY <1>3 DEF TypeOK, Update, Event
<1>4. QED
  BY <1>1, <1>2, <1>3

(* The type invariant is inductive.                                         *)
LEMMA NextType == TypeOK /\ [Next]_vars => TypeOK'
<1>1. ASSUME TypeOK, UNCHANGED vars PROVE TypeOK'
  BY <1>1 DEF TypeOK, vars
<1>2. QED
  BY <1>1, ServeType, EventType DEF Next

(* Type correctness of the session manager (qbt/client.go) and the requests *)
(* that use it.                                                             *)
THEOREM TypeCorrect == Spec => []TypeOK
  BY InitType, NextType, PTL DEF Spec

-----------------------------------------------------------------------------
(* A request has its effect at most once.  While it is under way it has had *)
(* none yet, since the one answer that follows an effect ends it.           *)
Effects ==
  \A h \in Handlers :
    /\ req[h].step # "done" => req[h].fx = 0 /\ req[h].res = "none"
    /\ req[h].step = "forget" => req[h].kind = "delete"

ExecInv == TypeOK /\ Effects /\ ExecutedOnce

(* The invariant holds as soon as it holds of the request that has moved.   *)
LEMMA ExecOfRequest ==
  ASSUME ExecInv, NEW h \in Handlers,
         \A g \in Handlers : g # h => req'[g] = req[g],
         req'[h].step # "done" => req'[h].fx = 0 /\ req'[h].res = "none",
         req'[h].step = "forget" => req'[h].kind = "delete",
         req'[h].fx \in {0, 1},
         req'[h].kind \in {"proxy", "typed"} /\ req'[h].res = "served" => req'[h].fx = 1,
         req'[h].res \in {"refused", "forbidden"} => req'[h].fx = 0
  PROVE  Effects' /\ ExecutedOnce'
  BY DEF ExecInv, Effects, ExecutedOnce

(* Every step of a request keeps the invariant.                             *)
LEMMA ServeExec ==
  ASSUME ExecInv, NEW h \in Handlers, Serve(h)
  PROVE  Effects' /\ ExecutedOnce'
<1> USE DEF At, ReqNow
<1>0. /\ TypeOK
      /\ req[h].step # "done" => req[h].fx = 0 /\ req[h].res = "none"
      /\ req[h].step = "forget" => req[h].kind = "delete"
  BY DEF ExecInv, Effects
<1>1. ASSUME NEW kind \in {"proxy", "typed"}, Arrive(h, kind) PROVE Effects' /\ ExecutedOnce'
  BY <1>0, <1>1, ArriveNow, ExecOfRequest
<1>2. ASSUME NEW draft \in Conns, Test(h, draft) PROVE Effects' /\ ExecutedOnce'
  BY <1>0, <1>2, TestNow, ExecOfRequest
<1>3. CASE Ensure(h)
  BY <1>0, <1>3, EnsureNow, ExecOfRequest DEF Ensure
<1>4. CASE Login(h)
  <2>1. req[h].step = "login"
    BY <1>4 DEF Login
  <2>2. QED
    BY <1>0, <1>4, <2>1, LoginNow, ExecOfRequest
<1>5. CASE Store(h)
  <2>1. req[h].step = "store"
    BY <1>5 DEF Store
  <2>2. QED
    BY <1>0, <1>5, <2>1, StoreNow, ExecOfRequest
<1>6. CASE Send(h)
  <2>1. req[h].step = "send"
    BY <1>6 DEF Send
  <2>2. QED
    BY <1>0, <1>6, <2>1, SendNow, ExecOfRequest
<1>7. CASE Answer(h)
  <2>1. req[h].step = "flying"
    BY <1>7 DEF Answer
  <2>2. QED
    <3>1. req[h].fx = 0 /\ req[h].fx + 1 = 1 /\ req[h].res = "none"
      BY <1>0, <2>1
    <3>2. CASE ReqNow(h, req[h].kind, "done", FALSE, 0, req[h].fx, "unreachable")
      BY <1>0, <3>1, <3>2, ExecOfRequest
    <3>3. CASE ReqNow(h, req[h].kind, "done", FALSE, 0, req[h].fx + 1, "served")
      BY <1>0, <3>1, <3>3, ExecOfRequest
    <3>4. CASE ReqNow(h, req[h].kind, "login", TRUE, req[h].sid, req[h].fx, req[h].res)
      BY <1>0, <3>1, <3>4, ExecOfRequest
    <3>5. CASE ReqNow(h, req[h].kind, "done", FALSE, 0, req[h].fx, "forbidden")
      BY <1>0, <3>1, <3>5, ExecOfRequest
    <3>6. QED
      <4> HIDE DEF ReqNow
      <4>1. QED
        BY <1>7, <1>0, <3>2, <3>3, <3>4, <3>5, AnswerNow
<1>8. CASE Lost(h)
  <2>1. req[h].step = "flying"
    BY <1>8 DEF Lost
  <2>2. QED
    <3>1. req[h].fx + 1 = 1
      BY <1>0, <2>1
    <3>2. ReqNow(h, req[h].kind, "done", FALSE, 0, req[h].fx + 1, "unreachable")
      <4> HIDE DEF ReqNow
      <4>1. QED
        BY <1>0, <1>8, LostNow
    <3>3. QED
      BY <1>0, <3>1, <3>2, ExecOfRequest
<1>11. CASE LoginFails(h)
  <2>1. req[h].step = "login"
    BY <1>11 DEF LoginFails
  <2>2. QED
    BY <1>0, <1>11, <2>1, LoginFailsNow, ExecOfRequest
<1>9. CASE Delete(h)
  BY <1>0, <1>9, DeleteNow, ExecOfRequest
<1>10. CASE Remove(h)
  <2>1. req[h].step = "forget"
    BY <1>10 DEF Remove
  <2>2. QED
    BY <1>0, <1>10, <2>1, DeleteNow, ExecOfRequest
<1>12. QED
  BY <1>1, <1>2, <1>3, <1>4, <1>5, <1>6, <1>7, <1>8, <1>9, <1>10, <1>11 DEF Serve

(* The invariant holds initially ...                                        *)
LEMMA InitExec == Init => ExecInv
<1> SUFFICES ASSUME Init PROVE Effects /\ ExecutedOnce
  BY InitType DEF ExecInv
<1>1. \A h \in Handlers : req[h] = New("proxy", "done", None)
  BY DEF Init
<1>2. \A h \in Handlers : req[h].step = "done" /\ req[h].fx = 0 /\ req[h].res = "none"
  BY <1>1 DEF New
<1>3. QED
  BY <1>2 DEF Effects, ExecutedOnce

(* ... and is inductive.                                                    *)
LEMMA NextExec == ExecInv /\ [Next]_vars => ExecInv'
<1> SUFFICES ASSUME ExecInv, [Next]_vars PROVE Effects' /\ ExecutedOnce'
  BY NextType DEF ExecInv
<1>1. CASE UNCHANGED req
  BY <1>1 DEF ExecInv, Effects, ExecutedOnce
<1>2. ASSUME NEW h \in Handlers, Serve(h) PROVE Effects' /\ ExecutedOnce'
  BY <1>2, ServeExec
<1>3. UNCHANGED req \/ \E h \in Handlers : Serve(h)
  BY DEF Next, vars, Expire, Toggle, Update
<1>4. QED
  BY <1>1, <1>2, <1>3

(* No request is executed twice by qBittorrent, however often sessions die, *)
(* servers move and answers get lost (doWithRetry, proxyToQbt).             *)
THEOREM NeverExecutedTwice == Spec => []ExecutedOnce
<1>1. Spec => []ExecInv
  BY InitExec, NextExec, PTL DEF Spec
<1>2. QED
  BY <1>1, PTL DEF ExecInv

-----------------------------------------------------------------------------
(* An undisturbed request is served.  Its settings fit, every other request *)
(* under way goes to the same instance, and on a second attempt the entry   *)
(* holds a session the instance accepts, whoever stored it last.            *)
UnderWay(h) == req[h].step \notin {"done", "forget"}

Company(h) ==
  \A g \in Handlers : UnderWay(g) =>
    req[g].conn.at = req[h].conn.at /\ (req[g].step = "store" => req[g].sid \in alive[req[h].conn.at])

Undisturbed(h) ==
  /\ req[h].step \notin {"forget"} /\ req[h].kind # "test"
  /\ conf = req[h].conn /\ conf \in Conns /\ conf.good /\ conf.at \notin down
  /\ Company(h)
  /\ req[h].retry =>
       /\ req[h].step \in {"login", "store", "send", "flying"}
       /\ req[h].step = "send" => sid \in alive[conf.at]
       /\ req[h].step = "flying" => Live(h)

CalmInv ==
  /\ TypeOK
  /\ \A h \in Handlers : req[h].step = "forget" => conf = None
  /\ \A h \in Handlers : calm[h] =>
       IF req[h].step = "done" THEN req[h].res = "served" ELSE Undisturbed(h)

(* An event disturbs every request.                                         *)
LEMMA EventCalm ==
  ASSUME CalmInv, Event, TypeOK', \A h \in Handlers : req'[h].step = "forget" => conf' = None
  PROVE  CalmInv'
<1>1. \A h \in Handlers : calm'[h] = FALSE
  BY DEF Event
<1>2. QED
  BY <1>1 DEF CalmInv

(* A step of one request changes the entry, if at all, for a session of the *)
(* common instance, and so leaves the others undisturbed.                   *)
LEMMA OthersCalm ==
  ASSUME CalmInv, TypeOK', NEW h \in Handlers, NEW g \in Handlers, g # h, calm[g], ~(req[g].step = "done"),
         UNCHANGED <<conf, down>>, req'[g] = req[g],
         \A f \in Handlers : f # h => req'[f] = req[f],
         \A i \in Instances : alive[i] \subseteq alive'[i],
         UnderWay(h)' => req'[h].conn.at = req[g].conn.at
                         /\ (req'[h].step = "store" => req'[h].sid \in alive'[req[g].conn.at]),
         sid' = sid \/ sid' \in alive'[conf.at]
  PROVE  Undisturbed(g)'
<1>1. Undisturbed(g)
  BY DEF CalmInv
<1>2. conf \in Conns /\ conf.at \in Instances /\ conf = req[g].conn
  BY <1>1 DEF Undisturbed, Conns
<1>3. Company(g)'
  <2>1. ASSUME NEW f \in Handlers, UnderWay(f)'
        PROVE  req'[f].conn.at = req[g].conn.at /\ (req'[f].step = "store" => req'[f].sid \in alive'[req[g].conn.at])
    BY <1>1, <1>2, <2>1 DEF Undisturbed, Company, UnderWay
  <2>2. QED
    BY <2>1 DEF Company
<1>4. QED
  BY <1>1, <1>2, <1>3 DEF Undisturbed, Live

(* The invariant holds as soon as it holds of the request that has moved,   *)
(* when the others are left as they were.                                   *)
LEMMA CalmOfRequest ==
  ASSUME CalmInv, TypeOK', NEW h \in Handlers,
         UNCHANGED <<conf, down>>,
         \A g \in Handlers : g # h /\ calm'[g] => calm[g],
         \A f \in Handlers : f # h => req'[f] = req[f],
         \A i \in Instances : alive[i] \subseteq alive'[i],
         \A g \in Handlers : g # h /\ calm'[g] /\ req[g].step # "done" =>
           /\ UnderWay(h)' => req'[h].conn.at = req[g].conn.at
                              /\ (req'[h].step = "store" => req'[h].sid \in alive'[req[g].conn.at])
           /\ sid' = sid \/ sid' \in alive'[conf.at],
         req'[h].step # "forget",
         calm'[h] => IF req'[h].step = "done" THEN req'[h].res = "served" ELSE Undisturbed(h)'
  PROVE  CalmInv'
<1>1. ASSUME NEW g \in Handlers, calm'[g]
      PROVE  IF req'[g].step = "done" THEN req'[g].res = "served" ELSE Undisturbed(g)'
  <2>1. CASE g = h
    BY <1>1, <2>1
  <2>2. CASE g # h /\ req[g].step = "done"
    BY <1>1, <2>2 DEF CalmInv
  <2>3. CASE g # h /\ req[g].step # "done"
    BY <1>1, <2>3, OthersCalm
  <2>4. QED
    BY <2>1, <2>2, <2>3
<1>2. \A g \in Handlers : req'[g].step = "forget" => conf' = None
  BY DEF CalmInv
<1>3. QED
  BY <1>1, <1>2 DEF CalmInv

(* What the invariant says of the others when h moves.                      *)
LEMMA CompanyOf ==
  ASSUME CalmInv, NEW h \in Handlers, NEW g \in Handlers, calm[g], req[g].step # "done"
  PROVE  /\ conf \in Conns /\ conf.at \in Instances /\ conf # None /\ req[g].conn = conf
         /\ conf.good /\ conf.at \notin down
         /\ UnderWay(h) => req[h].conn.at = conf.at
         /\ req[h].step = "store" => req[h].sid \in alive[conf.at]
<1>1. Undisturbed(g)
  BY DEF CalmInv
<1>2. QED
  BY <1>1, NoneAssumption DEF Undisturbed, Company, Conns, UnderWay

(* Every step of a request keeps the invariant.                             *)
LEMMA ServeCalm ==
  ASSUME CalmInv, TypeOK', NEW h \in Handlers, Serve(h)
  PROVE  CalmInv'
<1> USE DEF At
<1>0. TypeOK /\ (calm[h] /\ req[h].step # "done" => Undisturbed(h)) /\ calm \in [Handlers -> BOOLEAN]
  BY DEF CalmInv, TypeOK
<1>1. ASSUME NEW kind \in {"proxy", "typed"}, Arrive(h, kind) PROVE CalmInv'
  <2>1. /\ ReqNow(h, kind, "ensure", FALSE, 0, 0, "none") /\ req'[h].conn = conf /\ conf \in Conns
        /\ UNCHANGED <<conf, sid, alive, down>>
        /\ \A g \in Handlers : g # h /\ calm'[g] => calm[g]
    BY <1>0, <1>1, ArriveNow DEF Arrive
  <2>2. ASSUME calm'[h] PROVE Undisturbed(h)'
    <3>1. conf.good /\ conf.at \notin down /\ \A g \in Handlers \ {h} : Harmless(g, conf)
      BY <1>0, <1>1, <2>2 DEF Arrive
    <3>2. Company(h)'
      BY <2>1, <3>1 DEF Company, Harmless, ReqNow, UnderWay
    <3>3. QED
      BY <2>1, <3>1, <3>2 DEF Undisturbed, ReqNow
  <2>3. QED
    BY <1>0, <2>1, <2>2, CompanyOf, CalmOfRequest DEF ReqNow
<1>2. ASSUME NEW draft \in Conns, Test(h, draft) PROVE CalmInv'
  <2>1. /\ ReqNow(h, "test", "login", FALSE, 0, 0, "none") /\ req'[h].conn = draft
        /\ UNCHANGED <<conf, sid, alive, down>>
        /\ calm'[h] = FALSE
        /\ \A g \in Handlers : g # h /\ calm'[g] => calm[g] /\ (req[g].step = "done" \/ req[g].conn.at = draft.at)
    BY <1>0, <1>2, TestNow DEF Test
  <2>2. QED
    BY <1>0, <2>1, CalmOfRequest DEF ReqNow
<1>3. CASE Ensure(h)
  <2>1. PICK s \in {"send", "login"} :
          ReqNow(h, req[h].kind, s, req[h].retry, req[h].sid, req[h].fx, req[h].res) /\ req'[h].conn = req[h].conn
    BY <1>0, <1>3, EnsureNow
  <2>2. UNCHANGED <<conf, sid, alive, down, calm>> /\ req[h].step = "ensure"
    BY <1>3 DEF Ensure
  <2>3. ASSUME calm[h] PROVE Undisturbed(h)'
    <3>1. Undisturbed(h) /\ ~req[h].retry
      BY <1>0, <2>2, <2>3 DEF Undisturbed
    <3>2. Company(h)'
      BY <2>1, <2>2, <3>1 DEF Undisturbed, Company, ReqNow, UnderWay
    <3>3. QED
      BY <2>1, <2>2, <3>1, <3>2 DEF Undisturbed, ReqNow
  <2>4. \A g \in Handlers : g # h /\ calm[g] /\ req[g].step # "done" => req[h].conn.at = req[g].conn.at
    BY <2>2, CompanyOf DEF UnderWay
  <2>5. QED
    BY <1>0, <2>1, <2>2, <2>3, <2>4, CalmOfRequest DEF ReqNow
<1>4. CASE Login(h)
  <2>1. UNCHANGED <<conf, sid, down, calm>> /\ req[h].step = "login" /\ req[h].conn \in Conns
    BY <1>0, <1>4 DEF Login, TypeOK
  <2>2. \A g \in Handlers : g # h /\ calm[g] /\ req[g].step # "done" => req[h].conn.at = req[g].conn.at
    BY <2>1, CompanyOf DEF UnderWay
  <2>3. CASE /\ ReqNow(h, req[h].kind, "done", FALSE, 0, req[h].fx, "refused")
             /\ ~req[h].conn.good \/ req[h].conn.at \in down
             /\ UNCHANGED <<alive, minted>>
    <3>1. ~calm[h]
      BY <1>0, <2>1, <2>3 DEF Undisturbed
    <3>2. QED
      BY <1>0, <2>1, <2>2, <2>3, <3>1, CalmOfRequest DEF ReqNow, UnderWay
  <2>4. CASE /\ ReqNow(h, req[h].kind, "store", req[h].retry, minted + 1, req[h].fx, req[h].res)
             /\ req'[h].conn = req[h].conn
             /\ minted' = minted + 1
             /\ alive' = [alive EXCEPT ![req[h].conn.at] = @ \cup {minted + 1}]
    <3>1. /\ req[h].conn.at \in Instances /\ alive \in [Instances -> SUBSET (1..minted)]
      BY <1>0, <2>1 DEF Conns, TypeOK
    <3>2. (\A i \in Instances : alive[i] \subseteq alive'[i]) /\ minted + 1 \in alive'[req[h].conn.at]
      BY <2>4, <3>1
    <3>3. ASSUME calm[h] PROVE Undisturbed(h)'
      <4>1. Undisturbed(h)
        BY <1>0, <2>1, <3>3
      <4>2. Company(h)'
        BY <2>1, <2>4, <3>1, <3>2, <4>1 DEF Undisturbed, Company, ReqNow, UnderWay
      <4>3. QED
        BY <2>1, <2>4, <4>1, <4>2 DEF Undisturbed, ReqNow
    <3>4. QED
      BY <1>0, <2>1, <2>2, <2>4, <3>2, <3>3, CalmOfRequest DEF ReqNow
  <2>5. QED
    BY <1>0, <1>4, <2>3, <2>4, LoginNow
<1>5. CASE Store(h)
  <2>1. UNCHANGED <<conf, alive, down, calm>> /\ sid' = req[h].sid /\ req[h].step = "store"
    BY <1>5 DEF Store
  <2>2. \A g \in Handlers : calm[g] /\ req[g].step # "done" =>
          req[h].conn.at = req[g].conn.at /\ req[h].sid \in alive[conf.at]
    BY <2>1, CompanyOf DEF UnderWay
  <2>3. CASE ReqNow(h, req[h].kind, "done", FALSE, 0, 0, "served")
    BY <1>0, <2>1, <2>2, <2>3, CalmOfRequest DEF ReqNow, UnderWay
  <2>4. CASE /\ ReqNow(h, req[h].kind, "send", req[h].retry, req[h].sid, req[h].fx, req[h].res)
             /\ req'[h].conn = req[h].conn
    <3>1. ASSUME calm[h] PROVE Undisturbed(h)'
      <4>1. Undisturbed(h) /\ req[h].sid \in alive[conf.at]
        BY <1>0, <2>1, <2>2, <3>1
      <4>2. Company(h)'
        BY <2>1, <2>4, <4>1 DEF Undisturbed, Company, ReqNow, UnderWay
      <4>3. QED
        BY <2>1, <2>4, <4>1, <4>2 DEF Undisturbed, ReqNow
    <3>2. QED
      BY <1>0, <2>1, <2>2, <2>4, <3>1, CalmOfRequest DEF ReqNow
  <2>5. QED
    BY <1>0, <1>5, <2>3, <2>4, StoreNow
<1>6. CASE Send(h)
  <2>1. UNCHANGED <<conf, sid, alive, down, calm>> /\ req[h].step = "send"
    BY <1>6 DEF Send
  <2>2. ReqNow(h, req[h].kind, "flying", req[h].retry, sid, req[h].fx, req[h].res) /\ req'[h].conn = req[h].conn
    BY <1>0, <1>6, SendNow
  <2>3. \A g \in Handlers : g # h /\ calm[g] /\ req[g].step # "done" => req[h].conn.at = req[g].conn.at
    BY <2>1, CompanyOf DEF UnderWay
  <2>4. ASSUME calm[h] PROVE Undisturbed(h)'
    <3>1. Undisturbed(h)
      BY <1>0, <2>1, <2>4
    <3>2. Company(h)'
      BY <2>1, <2>2, <3>1 DEF Undisturbed, Company, ReqNow, UnderWay
    <3>3. QED
      BY <2>1, <2>2, <3>1, <3>2 DEF Undisturbed, ReqNow, Live
  <2>5. QED
    BY <1>0, <2>1, <2>2, <2>3, <2>4, CalmOfRequest DEF ReqNow
<1>7. CASE Answer(h)
  <2>1. UNCHANGED <<conf, sid, alive, down, calm>> /\ req[h].step = "flying"
    BY <1>7 DEF Answer
  <2>2. \A g \in Handlers : g # h /\ calm[g] /\ req[g].step # "done" => req[h].conn.at = req[g].conn.at
    BY <2>1, CompanyOf DEF UnderWay
  <2>3. calm[h] => Undisturbed(h)
    BY <1>0, <2>1
  <2>4. ASSUME NEW n, NEW res, ReqNow(h, req[h].kind, "done", FALSE, 0, n, res), calm[h] => res = "served"
        PROVE  CalmInv'
    BY <1>0, <2>1, <2>2, <2>4, CalmOfRequest DEF ReqNow, UnderWay
  <2>5. CASE /\ ReqNow(h, req[h].kind, "login", TRUE, req[h].sid, req[h].fx, req[h].res)
             /\ req'[h].conn = req[h].conn
    <3>1. ASSUME calm[h] PROVE Undisturbed(h)'
      <4>1. Company(h)'
        BY <2>1, <2>3, <2>5, <3>1 DEF Undisturbed, Company, ReqNow, UnderWay
      <4>2. QED
        BY <2>1, <2>3, <2>5, <3>1, <4>1 DEF Undisturbed, ReqNow
    <3>2. QED
      BY <1>0, <2>1, <2>2, <2>5, <3>1, CalmOfRequest DEF ReqNow
  <2>6. ~calm[h] \/ (req[h].conn.at \notin down /\ (req[h].retry => Live(h)))
    BY <2>1, <2>3 DEF Undisturbed
  <2>7. QED
    BY <1>0, <1>7, <2>4, <2>5, <2>6, AnswerNow
<1>8. CASE Lost(h)
  <2>1. Event /\ conf' = conf /\ ReqNow(h, req[h].kind, "done", FALSE, 0, req[h].fx + 1, "unreachable")
    BY <1>0, <1>8, LostNow DEF Lost
  <2>2. \A g \in Handlers : req'[g].step = "forget" => conf' = None
    BY <2>1 DEF CalmInv, ReqNow
  <2>3. QED
    BY <2>1, <2>2, EventCalm
<1>11. CASE LoginFails(h)
  <2>1. Event /\ conf' = conf /\ ReqNow(h, req[h].kind, "done", FALSE, 0, req[h].fx, "refused")
    BY <1>0, <1>11, LoginFailsNow DEF LoginFails
  <2>2. \A g \in Handlers : req'[g].step = "forget" => conf' = None
    BY <2>1 DEF CalmInv, ReqNow
  <2>3. QED
    BY <1>0, <2>1, <2>2, EventCalm
<1>9. CASE Delete(h)
  BY <1>9, EventCalm DEF Delete
<1>10. CASE Remove(h)
  <2>1. UNCHANGED <<conf, alive, down, calm>> /\ req[h].step = "forget" /\ conf = None
    BY <1>10 DEF Remove, CalmInv
  <2>2. ReqNow(h, req[h].kind, "done", FALSE, 0, 0, "served")
    BY <1>0, <1>10, DeleteNow
  <2>3. \A g \in Handlers : ~(calm[g] /\ req[g].step # "done")
    BY <2>1, CompanyOf
  <2>4. QED
    BY <1>0, <2>1, <2>2, <2>3, CalmOfRequest DEF ReqNow
<1>12. QED
  BY <1>1, <1>2, <1>3, <1>4, <1>5, <1>6, <1>7, <1>8, <1>9, <1>10, <1>11 DEF Serve

(* The invariant holds initially, when nothing has been asked for yet ...   *)
LEMMA InitCalm == Init => CalmInv
<1> SUFFICES ASSUME Init PROVE CalmInv
  OBVIOUS
<1>1. \A h \in Handlers : req[h].step = "done" /\ calm[h] = FALSE
  BY DEF Init, New
<1>2. QED
  BY <1>1, InitType DEF CalmInv

(* ... and is inductive.                                                    *)
LEMMA NextCalm == CalmInv /\ [Next]_vars => CalmInv'
<1> SUFFICES ASSUME CalmInv, [Next]_vars PROVE CalmInv'
  OBVIOUS
<1>0. TypeOK'
  BY NextType DEF CalmInv
<1>1. ASSUME NEW h \in Handlers, Serve(h) PROVE CalmInv'
  BY <1>0, <1>1, ServeCalm
<1>2. ASSUME Event, UNCHANGED req, conf # None \/ conf' = conf, conf = None => conf' = None PROVE CalmInv'
  BY <1>0, <1>2, EventCalm DEF CalmInv
<1>3. CASE UNCHANGED vars
  <2>1. \A h \in Handlers : Undisturbed(h) => Undisturbed(h)'
    BY <1>3 DEF vars, Undisturbed, Company, UnderWay, Live
  <2>2. QED
    BY <1>0, <1>3, <2>1 DEF vars, CalmInv
<1>4. QED
  BY <1>1, <1>2, <1>3 DEF Next, Expire, Toggle, Update

(* The retry after a 403 always works out: a request that nothing disturbs  *)
(* is served, whatever was left in the entry before and however many other  *)
(* requests for the same instance log in meanwhile.                         *)
THEOREM UndisturbedServed == Spec => []HealthyServed
<1>1. CalmInv => HealthyServed
  BY DEF CalmInv, HealthyServed
<1>2. QED
  BY <1>1, InitCalm, NextCalm, PTL DEF Spec
=============================================================================
