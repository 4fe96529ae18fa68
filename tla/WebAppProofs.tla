----------------------------- MODULE WebAppProofs -----------------------------
(***************************************************************************)
(* Proofs about the frontend as a whole, for any servers, any number of    *)
(* calls in flight and any happenings of the outside.                      *)
(***************************************************************************)
EXTENDS WebApp, TLAPS

(* A call has its five fields, whatever happened to it.                     *)
IsCall(r) == r = [op |-> r.op, srv |-> r.srv, list |-> r.list, cred |-> r.cred, verdict |-> r.verdict]

CallTable == calls = [c \in Slots |-> calls[c]] /\ \A c \in Slots : IsCall(calls[c])

(* A session is granted before any call carries it.                         *)
Granted(cred, fresh) == cred \in Int /\ cred < fresh

CredsGranted ==
  /\ budget \in [Happenings -> Int] /\ Fresh \in Int /\ Granted(0, Fresh) /\ Granted(cookie, Fresh)
  /\ \A n \in sessions : Granted(n, Fresh)
  /\ \A c \in Slots : Granted(calls[c].cred, Fresh)

(* A 401 stands for a session the backend does not accept, now or later.    *)
Barred ==
  \A c \in Slots : calls[c].op \in ProtectedOps /\ calls[c].verdict = "unauth" => ~Admitted(c)

(* While the state of the account is asked for, nothing else goes on, and    *)
(* it is asked for only then.                                               *)
Booted == status \notin {"loading", "error"}

Booting ==
  /\ \A c \in Slots : calls[c].op = "status" => status = "loading"
  /\ \A c, d \in Slots : calls[c].op = "status" /\ calls[d].op = "status" => c = d
  /\ ~Booted => servers = {} /\ \A c \in Slots : calls[c].op \in {"free", "status"}

WebInv == CallTable /\ CredsGranted /\ Barred /\ Booting /\ OneRound

LEMMA CallMade ==
  ASSUME NEW op, NEW srv, NEW list, NEW cred, NEW verdict, NEW r,
         r = [op |-> op, srv |-> srv, list |-> list, cred |-> cred, verdict |-> verdict]
  PROVE  IsCall(r) /\ r.op = op /\ r.srv = srv /\ r.cred = cred /\ r.verdict = verdict
  BY DEF IsCall

LEMMA NewCallMade ==
  ASSUME NEW op, NEW srv, NEW list
  PROVE  LET n == NewCall(op, srv, list)
         IN  IsCall(n) /\ n.op = op /\ n.srv = srv /\ n.cred = cookie /\ n.verdict = "sent"
  BY DEF NewCall, IsCall

LEMMA NoCallMade == IsCall(NoCall) /\ NoCall.op = "free" /\ NoCall.cred = 0 /\ NoCall.verdict = "sent"
  BY DEF NoCall, IsCall

(* Every call of New is in flight afterwards, in a slot of its own that was  *)
(* free; the others stay but for those of Done.                             *)
LEMMA Sending ==
  ASSUME NEW Gone, NEW New, Send(Gone, New)
  PROVE  /\ calls' = [c \in Slots |-> calls'[c]]
         /\ \A c \in Slots : \/ calls'[c] \in New /\ (c \in Gone \/ calls[c].op = "free")
                             \/ c \in Gone /\ calls'[c] = NoCall
                             \/ c \notin Gone /\ calls'[c] = calls[c]
         /\ \A n \in New : \E c \in Slots : calls'[c] = n
         /\ NoCall \notin New /\ (\A c \in Slots : c \in Gone \/ calls[c] \notin New) =>
              \A c, d \in Slots : calls'[c] \in New /\ calls'[c] = calls'[d] => c = d
<1> DEFINE table == Cleared(Gone)
           free  == {c \in Slots : table[c].op = "free"}
<1>1. PICK place \in Places(free, New) : calls' = Placed(table, New, place)
  BY DEF Send
<1>2. /\ \A n \in New : place[n] \in free
      /\ \A n, m \in New : place[n] = place[m] => n = m
  BY <1>1 DEF Places, Injection, IsInjective
<1>3. \A c \in Slots : (\E n \in New : place[n] = c) => calls'[c] \in New /\ place[calls'[c]] = c
  BY <1>1 DEF Placed
<1>4. \A c \in Slots : ~(\E n \in New : place[n] = c) => calls'[c] = table[c]
  BY <1>1 DEF Placed
<1>5. \A c \in Slots : table[c] = IF c \in Gone THEN NoCall ELSE calls[c]
  BY DEF Cleared
<1>6. calls' = [c \in Slots |-> calls'[c]]
  BY <1>1 DEF Placed
<1>7. \A c \in Slots : \/ calls'[c] \in New /\ (c \in Gone \/ calls[c].op = "free")
                       \/ c \in Gone /\ calls'[c] = NoCall
                       \/ c \notin Gone /\ calls'[c] = calls[c]
  BY <1>2, <1>3, <1>4, <1>5
<1>8. \A n \in New : \E c \in Slots : calls'[c] = n
  BY <1>2, <1>3
<1>9. ASSUME NoCall \notin New, \A c \in Slots : c \in Gone \/ calls[c] \notin New
      PROVE  \A c, d \in Slots : calls'[c] \in New /\ calls'[c] = calls'[d] => c = d
  <2>1. \A c \in Slots : calls'[c] \in New => place[calls'[c]] = c
    BY <1>3, <1>4, <1>5, <1>9
  <2>2. QED
    BY <2>1
<1>10. QED
  BY <1>6, <1>7, <1>8, <1>9

-----------------------------------------------------------------------------
(* What a step may do to sessions and budget: the numbers of sessions grow.  *)
Credited ==
  /\ budget' \in [Happenings -> Int] /\ Fresh' \in Int /\ Fresh' >= Fresh
  /\ Granted(cookie', Fresh')
  /\ \A n \in sessions' : Granted(n, Fresh')
  /\ sessions' \subseteq sessions \cup {Fresh}

LEMMA Later ==
  ASSUME CredsGranted, Fresh' \in Int, Fresh' >= Fresh, NEW n, Granted(n, Fresh)
  PROVE  Granted(n, Fresh')
  BY DEF CredsGranted, Granted

LEMMA Unspent ==
  ASSUME CredsGranted, UNCHANGED <<cookie, sessions, budget>>
  PROVE  Credited
  BY DEF CredsGranted, Credited, Granted, Fresh

LEMMA TakeCounts ==
  ASSUME CredsGranted, NEW e \in Happenings, Take(e)
  PROVE  /\ budget' \in [Happenings -> Int] /\ Fresh' \in Int /\ Fresh' >= Fresh
         /\ e = "grant" => Fresh' = Fresh + 1
<1>1. /\ budget' = [budget EXCEPT ![e] = @ - 1, !["any"] = IF e = "grant" THEN @ ELSE @ - 1]
      /\ budget \in [Happenings -> Int] /\ Limit["grant"] \in Int
      /\ "any" \in Happenings /\ "grant" \in Happenings
  BY LimitAssumption DEF CredsGranted, Take, Happenings
<1>2. budget' \in [Happenings -> Int]
  BY <1>1
<1>3. budget'["grant"] = IF e = "grant" THEN budget["grant"] - 1 ELSE budget["grant"]
  BY <1>1
<1>4. budget["grant"] \in Int
  BY <1>1
<1>5. QED
  BY <1>1, <1>2, <1>3, <1>4 DEF Fresh

LEMMA Spent ==
  ASSUME CredsGranted, NEW e \in Happenings, Take(e), UNCHANGED <<cookie, sessions>>
  PROVE  Credited
<1>1. budget' \in [Happenings -> Int] /\ Fresh' \in Int /\ Fresh' >= Fresh
  BY TakeCounts
<1>2. \A n : Granted(n, Fresh) => Granted(n, Fresh')
  BY <1>1, Later
<1>3. QED
  BY <1>1, <1>2 DEF CredsGranted, Credited

-----------------------------------------------------------------------------
(* The calls stay as they are.                                              *)
LEMMA QuietStep ==
  ASSUME WebInv, Credited, UNCHANGED <<calls, running, status, servers>>
  PROVE  WebInv'
<1>1. CallTable' /\ Booting' /\ OneRound'
  BY DEF WebInv, CallTable, Booting, Booted, OneRound, InFlight
<1>2. CredsGranted'
  BY Later DEF WebInv, CredsGranted, Credited
<1>3. Barred'
  BY DEF WebInv, Barred, Admitted, CredsGranted, Credited, Granted
<1>4. QED
  BY <1>1, <1>2, <1>3 DEF WebInv

(* One call is answered, or its answer lost; an answer goes on to carry the  *)
(* session the call did, or one just granted.                               *)
Settled(c) ==
  /\ calls' = [d \in Slots |-> calls'[d]] /\ IsCall(calls'[c])
  /\ \A d \in Slots : d # c => calls'[d] = calls[d]
  /\ calls'[c].op = calls[c].op /\ (calls[c].op = "poll" => calls'[c].srv = calls[c].srv)
  /\ calls'[c].cred = calls[c].cred \/ Granted(calls'[c].cred, Fresh')
  /\ calls[c].op \in ProtectedOps /\ calls'[c].verdict = "unauth" =>
       ~Admitted(c) /\ calls'[c].cred = calls[c].cred

LEMMA AnswerStep ==
  ASSUME WebInv, Credited, UNCHANGED running, NEW c \in Slots, Settled(c),
         UNCHANGED <<status, servers>> \/ (Booted /\ Booted')
  PROVE  WebInv'
<1>1. CallTable'
  BY DEF WebInv, CallTable, Settled
<1>2. CredsGranted'
  <2>1. \A d \in Slots : Granted(calls'[d].cred, Fresh')
    BY Later DEF WebInv, CredsGranted, Credited, Settled
  <2>2. Granted(0, Fresh')
    BY Later DEF WebInv, CredsGranted, Credited
  <2>3. QED
    BY <2>1, <2>2 DEF CredsGranted, Credited
<1>3. Barred'
  <2>1. \A d \in Slots : ~Admitted(d) => calls[d].cred \notin sessions'
    BY DEF WebInv, CredsGranted, Credited, Granted, Admitted
  <2>2. ASSUME NEW d \in Slots, calls'[d].op \in ProtectedOps, calls'[d].verdict = "unauth"
        PROVE  calls'[d].cred \notin sessions'
    <3>1. CASE d = c
      BY <2>1, <2>2, <3>1 DEF Settled
    <3>2. CASE d # c
      BY <2>1, <2>2, <3>2 DEF WebInv, Barred, Settled
    <3>3. QED
      BY <3>1, <3>2
  <2>3. QED
    BY <2>2 DEF Barred, Admitted
<1>4. \A d \in Slots : calls'[d].op = calls[d].op /\ (calls[d].op = "poll" => calls'[d].srv = calls[d].srv)
  BY DEF Settled
<1>5. Booting'
  BY <1>4 DEF WebInv, Booting, Booted
<1>6. OneRound'
  <2>1. InFlight({"poll"})' = InFlight({"poll"})
    BY <1>4 DEF InFlight
  <2>2. \A d \in InFlight({"poll"}) : calls'[d].srv = calls[d].srv
    BY <1>4 DEF InFlight
  <2>3. QED
    BY <2>1, <2>2 DEF WebInv, OneRound
<1>7. QED
  BY <1>1, <1>2, <1>3, <1>5, <1>6 DEF WebInv

(* Calls end and others go out, none of them for a poll.                    *)
Exchange(Gone, New) ==
  /\ Send(Gone, New)
  /\ \A c \in Gone : calls[c].op # "poll"
  /\ \A n \in New : IsCall(n) /\ n.op \notin {"free", "poll"} /\ n.verdict = "sent" /\ Granted(n.cred, Fresh')

LEMMA SendStep ==
  ASSUME WebInv, Credited, NEW Gone, NEW New, Send(Gone, New),
         \A n \in New : IsCall(n) /\ n.verdict = "sent" /\ Granted(n.cred, Fresh')
  PROVE  CallTable' /\ CredsGranted' /\ Barred'
<1>1. \A c \in Slots : \/ calls'[c] \in New
                       \/ calls'[c] = NoCall
                       \/ calls'[c] = calls[c]
  BY Sending
<1>2. CallTable'
  BY <1>1, Sending, NoCallMade DEF WebInv, CallTable
<1>3. Granted(0, Fresh')
  BY Later DEF WebInv, CredsGranted, Credited
<1>4. \A c \in Slots : Granted(calls'[c].cred, Fresh')
  <2>1. \A c \in Slots : Granted(calls[c].cred, Fresh')
    BY Later DEF WebInv, CredsGranted, Credited
  <2>2. QED
    BY <1>1, <1>3, <2>1, NoCallMade
<1>5. CredsGranted'
  BY <1>3, <1>4 DEF CredsGranted, Credited
<1>6. Barred'
  <2>1. \A c \in Slots : ~Admitted(c) => calls[c].cred \notin sessions'
    BY DEF WebInv, CredsGranted, Credited, Granted, Admitted
  <2>2. \A c \in Slots : calls'[c].verdict = "unauth" => calls'[c] = calls[c]
    BY <1>1, NoCallMade
  <2>3. QED
    BY <2>1, <2>2 DEF WebInv, Barred, Admitted
<1>7. QED
  BY <1>2, <1>5, <1>6

LEMMA ExchangeStep ==
  ASSUME WebInv, Credited, UNCHANGED running, NEW Gone, NEW New, Exchange(Gone, New)
  PROVE  /\ CallTable' /\ CredsGranted' /\ Barred' /\ OneRound'
         /\ Booted' /\ (\A n \in New : n.op # "status")
              /\ (Booted \/ \A c \in Slots : calls[c].op = "status" => c \in Gone) => Booting'
<1>1. CallTable' /\ CredsGranted' /\ Barred'
  BY SendStep DEF Exchange
<1>2. \A c \in Slots : \/ calls'[c] \in New /\ (c \in Gone \/ calls[c].op = "free")
                       \/ c \in Gone /\ calls'[c] = NoCall
                       \/ c \notin Gone /\ calls'[c] = calls[c]
  BY Sending DEF Exchange
<1>3. OneRound'
  <2>1. \A c \in Slots : (calls'[c].op = "poll" <=> calls[c].op = "poll")
                        /\ (calls[c].op = "poll" => calls'[c] = calls[c])
    BY <1>2, NoCallMade DEF Exchange
  <2>2. InFlight({"poll"})' = InFlight({"poll"}) /\ \A d \in InFlight({"poll"}) : calls'[d].srv = calls[d].srv
    BY <2>1 DEF InFlight
  <2>3. QED
    BY <2>2 DEF WebInv, OneRound
<1>4. ASSUME Booted', \A n \in New : n.op # "status",
             Booted \/ \A c \in Slots : calls[c].op = "status" => c \in Gone
      PROVE  Booting'
  <2>1. \A c \in Slots : calls[c].op = "status" => c \in Gone
    BY <1>4 DEF WebInv, Booting, Booted
  <2>2. \A c \in Slots : calls'[c].op # "status"
    BY <1>2, <1>4, <2>1, NoCallMade
  <2>3. QED
    BY <1>4, <2>2 DEF Booting
<1>5. QED
  BY <1>1, <1>3, <1>4

-----------------------------------------------------------------------------
(* The poll.  Nothing is polled while the account is asked for.             *)

LEMMA PollStep ==
  ASSUME WebInv, PollAll, servers # {}, UNCHANGED <<cookie, sessions, budget, status, servers>>
  PROVE  WebInv'
<1> DEFINE New == PollCalls(servers)
<1>0. CallTable /\ CredsGranted /\ Booting /\ OneRound /\ Booted /\ Credited
  BY Unspent DEF WebInv, Booting
<1>1. CASE running
  <2>1. UNCHANGED <<calls, running>>
    BY <1>1 DEF PollAll
  <2>2. QED
    BY <1>0, <2>1, QuietStep
<1>2. CASE ~running
  <2>1. running' = TRUE /\ Send({}, New)
    BY <1>2 DEF PollAll
  <2>2. \A n \in New : /\ IsCall(n) /\ n.op = "poll" /\ n.verdict = "sent" /\ n.cred = cookie
                      /\ \E s \in servers : n = NewCall("poll", {s}, None) /\ n.srv = {s}
    <3>1. ASSUME NEW n \in New
          PROVE  /\ IsCall(n) /\ n.op = "poll" /\ n.verdict = "sent" /\ n.cred = cookie
                 /\ \E s \in servers : n = NewCall("poll", {s}, None) /\ n.srv = {s}
      <4>1. PICK s \in servers : n = NewCall("poll", {s}, None)
        BY DEF PollCalls
      <4>2. IsCall(n) /\ n.op = "poll" /\ n.verdict = "sent" /\ n.cred = cookie /\ n.srv = {s}
        BY <4>1, NewCallMade
      <4>3. QED
        BY <4>1, <4>2
    <3>2. QED
      BY <3>1
  <2>3. \A n \in New : IsCall(n) /\ n.verdict = "sent" /\ Granted(n.cred, Fresh')
    BY <1>0, <2>2, Later DEF CredsGranted, Credited
  <2>4. CallTable' /\ CredsGranted' /\ Barred'
    BY <1>0, <2>1, <2>3, SendStep
  <2> HIDE DEF New
  <2>5. \A c \in Slots : (calls'[c] \in New /\ calls[c].op = "free") \/ calls'[c] = calls[c]
    BY <2>1, Sending
  <2>6. \A c \in Slots : calls[c].op # "poll"
    BY <1>0, <1>2 DEF OneRound, InFlight
  <2>7. \A c \in Slots : calls'[c].op = "poll" => calls'[c] \in New
    BY <2>5, <2>6
  <2>8. OneRound'
    <3>1. \E n \in New : TRUE
      BY DEF New, PollCalls
    <3>2. InFlight({"poll"})' # {}
      BY <2>1, <2>2, <3>1, Sending DEF InFlight
    <3>3. NoCall \notin New /\ \A c \in Slots : calls[c] \notin New
      BY <2>2, <2>6, NoCallMade
    <3>4. \A c, d \in Slots : calls'[c] \in New /\ calls'[c] = calls'[d] => c = d
      BY <2>1, <3>3, Sending
    <3>5. \A n, m \in New : n.srv = m.srv => n = m
      BY <2>2
    <3>6. \A c, d \in InFlight({"poll"})' : calls'[c].srv = calls'[d].srv => c = d
      BY <2>7, <3>4, <3>5 DEF InFlight
    <3>7. QED
      BY <2>1, <3>2, <3>6 DEF OneRound
  <2>9. Booting'
    BY <1>0, <2>2, <2>5 DEF Booting, Booted
  <2>10. QED
    BY <2>4, <2>8, <2>9 DEF WebInv
<1>3. QED
  BY <1>1, <1>2

LEMMA EffectStep ==
  ASSUME WebInv, Effect
  PROVE  WebInv'
<1>1. UNCHANGED <<cookie, sessions, budget, status, servers>>
  BY DEF Effect, storeVars, authVars
<1>2. CASE loading \/ servers = {}
  <2>1. UNCHANGED <<calls, running>> /\ Credited
    BY <1>1, <1>2, Unspent DEF Effect, WebInv
  <2>2. QED
    BY <1>1, <2>1, QuietStep
<1>3. CASE ~(loading \/ servers = {})
  BY <1>1, <1>3, PollStep DEF Effect
<1>4. QED
  BY <1>2, <1>3

LEMMA TickStep ==
  ASSUME WebInv, Tick
  PROVE  WebInv'
<1>1. UNCHANGED <<cookie, sessions, budget, status, servers>> /\ PollAll /\ servers # {}
  BY DEF Tick, storeVars, authVars
<1>2. QED
  BY <1>1, PollStep

(* The last answer of a round, and no other, takes the flag down.           *)
LEMMA SnapshotStep ==
  ASSUME WebInv, NEW c \in Slots, SnapshotDone(c)
  PROVE  WebInv'
<1>1. /\ UNCHANGED <<cookie, sessions, budget, status, servers>> /\ Send({c}, {})
      /\ running' = (running /\ ~LastOfRound(c)) /\ calls[c].op \in {"poll", "refresh"}
  BY DEF SnapshotDone, storeVars, authVars, SnapshotOps
<1>2. Credited /\ OneRound /\ Booting
  BY <1>1, Unspent DEF WebInv
<1>3. CallTable' /\ CredsGranted' /\ Barred'
  BY <1>1, <1>2, SendStep
<1>4. calls'[c] = NoCall /\ \A d \in Slots : d # c => calls'[d] = calls[d]
  BY <1>1, Sending
<1>5. InFlight({"poll"})' = InFlight({"poll"}) \ {c}
  BY <1>4, NoCallMade DEF InFlight
<1>6. running' <=> InFlight({"poll"})' # {}
  <2>1. CASE LastOfRound(c)
    BY <1>1, <1>5, <2>1 DEF LastOfRound
  <2>2. CASE ~LastOfRound(c) /\ c \in InFlight({"poll"})
    BY <1>1, <1>2, <1>5, <2>2 DEF LastOfRound, OneRound
  <2>3. CASE ~LastOfRound(c) /\ c \notin InFlight({"poll"})
    BY <1>1, <1>2, <1>5, <2>3 DEF OneRound
  <2>4. QED
    BY <2>1, <2>2, <2>3
<1>7. \A a, b \in InFlight({"poll"})' : calls'[a].srv = calls'[b].srv => a = b
  <2>1. \A a \in InFlight({"poll"})' : a \in InFlight({"poll"}) /\ calls'[a] = calls[a]
    BY <1>4, <1>5 DEF InFlight
  <2>2. QED
    BY <1>2, <2>1 DEF OneRound
<1>8. Booting'
  BY <1>1, <1>2, <1>4, NoCallMade DEF Booting, Booted
<1>9. QED
  BY <1>3, <1>6, <1>7, <1>8 DEF WebInv, OneRound

-----------------------------------------------------------------------------
(* What the user does.                                                      *)

LEMMA ClickStep ==
  ASSUME WebInv, Click
  PROVE  WebInv'
<1>1. CredsGranted /\ Booting /\ \A op, srv, list : Granted(NewCall(op, srv, list).cred, Fresh)
  BY NewCallMade DEF WebInv, CredsGranted
<1>2. ASSUME NEW e \in Happenings, Take(e), UNCHANGED <<cookie, sessions, running, status>>,
             NEW op, NEW srv, NEW list, Start({NewCall(op, srv, list)}), op \notin {"free", "poll", "status"}, Booted
      PROVE  WebInv'
  <2> DEFINE n == NewCall(op, srv, list)
  <2>1. Credited
    BY <1>1, <1>2, Spent
  <2>2. IsCall(n) /\ n.op = op /\ n.verdict = "sent" /\ Granted(n.cred, Fresh')
    BY <1>1, <2>1, NewCallMade, Later DEF Credited
  <2> HIDE DEF n
  <2>3. Exchange({}, {n})
    BY <1>2, <2>2 DEF Exchange, Start, n
  <2>4. QED
    BY <1>2, <2>1, <2>2, <2>3, ExchangeStep DEF Booted, WebInv
<1>3. CASE status = "authenticated" /\ StoreClick /\ UNCHANGED <<authVars, PollVars>>
  <2>0. Booted /\ UNCHANGED <<status, running>>
    BY <1>3 DEF Booted, authVars, PollVars
  <2>1. CASE Reload
    BY <1>2, <2>0, <2>1 DEF Reload, LoadCall, Happenings
  <2>2. CASE AddServer
    BY <1>2, <2>0, <2>2 DEF AddServer, Happenings
  <2>3. ASSUME NEW s \in servers, UpdateServer(s) PROVE WebInv'
    BY <1>2, <2>0, <2>3 DEF UpdateServer, Happenings
  <2>4. ASSUME NEW s \in servers, RemoveServer(s) PROVE WebInv'
    BY <1>2, <2>0, <2>4 DEF RemoveServer, Happenings
  <2>5. ASSUME NEW s \in servers, SelectServer(s) PROVE WebInv'
    <3>1. Credited
      BY <1>1, <2>5, Spent DEF SelectServer, Happenings
    <3>2. QED
      BY <2>0, <2>5, <3>1, QuietStep DEF SelectServer
  <2>6. QED
    BY <1>3, <2>1, <2>2, <2>3, <2>4, <2>5 DEF StoreClick
<1>4. CASE Bootstrap /\ UNCHANGED PollVars
  <2> DEFINE n == NewCall("status", None, None)
  <2>1. /\ status = "error" /\ status' = "loading" /\ Send({}, {n})
        /\ UNCHANGED <<cookie, sessions, servers, running>> /\ Take("click")
    BY <1>4 DEF Bootstrap, Start, storeVars, PollVars
  <2>2. Credited
    BY <1>1, <2>1, Spent DEF Happenings
  <2>3. IsCall(n) /\ n.op = "status" /\ n.verdict = "sent" /\ Granted(n.cred, Fresh')
    BY <1>1, <2>2, NewCallMade, Later DEF Credited
  <2> HIDE DEF n
  <2>4. CallTable' /\ CredsGranted' /\ Barred' /\ OneRound'
    <3>1. Exchange({}, {n})
      BY <2>1, <2>3 DEF Exchange
    <3>2. QED
      BY <2>1, <2>2, <3>1, ExchangeStep
  <2>5. \A c \in Slots : calls[c].op = "free"
    BY <1>1, <2>1 DEF Booting, Booted
  <2>6. /\ \A c \in Slots : calls'[c] = n \/ calls'[c] = calls[c]
        /\ \A c, d \in Slots : calls'[c] = n /\ calls'[d] = n => c = d
    BY <2>1, <2>3, <2>5, Sending, NoCallMade
  <2>7. Booting'
    BY <1>1, <2>1, <2>3, <2>5, <2>6 DEF Booting, Booted
  <2>8. QED
    BY <2>4, <2>7 DEF WebInv
<1>5. ASSUME NEW op \in {"login", "setup", "logout", "password"}, NEW phase \in {"anonymous", "setup", "authenticated"},
             Submit(op, phase), UNCHANGED PollVars
      PROVE  WebInv'
  <2>1. Take("click") /\ Start({NewCall(op, None, None)}) /\ UNCHANGED <<cookie, sessions, running, status>> /\ Booted
    BY <1>5 DEF Submit, authVars, PollVars, Booted
  <2>2. QED
    BY <1>2, <2>1 DEF Happenings
<1>6. ASSUME NEW s \in Ids, RefreshServer(s) PROVE WebInv'
  <2>1. /\ Take("click") /\ Start({NewCall("refresh", {s}, None)})
        /\ UNCHANGED <<cookie, sessions, running, status>> /\ Booted
    BY <1>6 DEF RefreshServer, authVars, Booted
  <2>2. QED
    BY <1>2, <2>1 DEF Happenings
<1>7. QED
  BY <1>3, <1>4, <1>5, <1>6 DEF Click, AuthClick, LoginPage, SetupPage, Logout, AccountTab

-----------------------------------------------------------------------------
(* What the backend and the network do.                                     *)

LEMMA VerdictSettles ==
  ASSUME WebInv, NEW c \in Slots, NEW v, Settle(c, v),
         calls[c].op \in ProtectedOps /\ v = "unauth" => ~Admitted(c)
  PROVE  Settled(c)
<1>1. calls' = [calls EXCEPT ![c].verdict = v] /\ calls = [d \in Slots |-> calls[d]] /\ IsCall(calls[c])
  BY DEF Settle, WebInv, CallTable
<1>2. calls' = [d \in Slots |-> calls'[d]] /\ \A d \in Slots : d # c => calls'[d] = calls[d]
  BY <1>1
<1>3. calls'[c] = [op |-> calls[c].op, srv |-> calls[c].srv, list |-> calls[c].list,
                   cred |-> calls[c].cred, verdict |-> v]
  BY <1>1 DEF IsCall
<1>4. QED
  BY <1>2, <1>3 DEF Settled, IsCall

LEMMA GrantSettles ==
  ASSUME WebInv, NEW c \in Slots, NEW n, Granted(n, Fresh'),
         calls' = [calls EXCEPT ![c].verdict = "ok", ![c].cred = n]
  PROVE  Settled(c)
<1>1. calls = [d \in Slots |-> calls[d]] /\ IsCall(calls[c])
  BY DEF WebInv, CallTable
<1>2. calls' = [d \in Slots |-> calls'[d]] /\ \A d \in Slots : d # c => calls'[d] = calls[d]
  BY <1>1
<1>3. calls'[c] = [op |-> calls[c].op, srv |-> calls[c].srv, list |-> calls[c].list,
                   cred |-> n, verdict |-> "ok"]
  BY <1>1 DEF IsCall
<1>4. /\ calls'[c].op = calls[c].op /\ calls'[c].srv = calls[c].srv /\ calls'[c].cred = n
      /\ calls'[c].verdict = "ok" /\ IsCall(calls'[c])
  BY <1>3, CallMade
<1>5. Granted(calls'[c].cred, Fresh')
  BY <1>4
<1>6. QED
  BY <1>2, <1>4, <1>5 DEF Settled

LEMMA ListSettles ==
  ASSUME WebInv, NEW c \in Slots, NEW x,
         \/ calls' = [calls EXCEPT ![c].verdict = "ok", ![c].list = x]
         \/ calls[c].op = "create" /\ calls' = [calls EXCEPT ![c].verdict = "ok", ![c].srv = x]
  PROVE  Settled(c)
<1>1. calls = [d \in Slots |-> calls[d]] /\ IsCall(calls[c])
  BY DEF WebInv, CallTable
<1>2. calls' = [d \in Slots |-> calls'[d]] /\ \A d \in Slots : d # c => calls'[d] = calls[d]
  BY <1>1
<1>3. \/ calls'[c] = [op |-> calls[c].op, srv |-> calls[c].srv, list |-> x,
                      cred |-> calls[c].cred, verdict |-> "ok"]
      \/ /\ calls[c].op = "create"
         /\ calls'[c] = [op |-> calls[c].op, srv |-> x, list |-> calls[c].list,
                         cred |-> calls[c].cred, verdict |-> "ok"]
  BY <1>1 DEF IsCall
<1>4. QED
  BY <1>2, <1>3 DEF Settled, IsCall

(* A login, a set-up and a change of the password grant one new session.    *)
LEMMA Grants ==
  ASSUME CredsGranted, Take("grant"), UNCHANGED cookie, sessions' \subseteq sessions \cup {Fresh}
  PROVE  Credited /\ Granted(Fresh, Fresh')
<1>1. /\ budget' \in [Happenings -> Int] /\ Fresh' \in Int /\ Fresh' >= Fresh /\ Fresh' = Fresh + 1
      /\ Fresh \in Int
  BY TakeCounts DEF Happenings, CredsGranted
<1>2. Granted(Fresh, Fresh')
  BY <1>1 DEF Granted
<1>3. \A n \in sessions' : Granted(n, Fresh')
  BY <1>1, <1>2, Later DEF CredsGranted
<1>4. Granted(cookie', Fresh')
  BY <1>1, Later DEF CredsGranted
<1>5. QED
  BY <1>1, <1>2, <1>3, <1>4 DEF Credited

LEMMA ServeStep ==
  ASSUME WebInv, NEW c \in Slots, Serve(c)
  PROVE  WebInv'
<1>1. CredsGranted
  BY DEF WebInv
<1>2. CASE Refuse(c) /\ UNCHANGED <<storeVars, authVars, PollVars>>
  <2>1. Settled(c)
    BY <1>2, VerdictSettles DEF Refuse
  <2>2. QED
    BY <1>1, <1>2, <2>1, Unspent, AnswerStep DEF Refuse, storeVars, authVars, PollVars
<1>3. CASE HandleServers(c) /\ UNCHANGED <<authVars, PollVars>>
  <2>1. UNCHANGED <<cookie, sessions, budget, servers, status, running>>
    BY <1>3 DEF HandleServers, authVars, PollVars
  <2>2. Settled(c)
    <3>1. CASE Pending(c, "list") /\ calls' = [calls EXCEPT ![c].verdict = "ok", ![c].list = stored]
      BY <3>1, ListSettles
    <3>2. CASE Pending(c, "create") /\ \E s \in Ids \ stored : calls' = [calls EXCEPT ![c].verdict = "ok", ![c].srv = {s}]
      BY <3>2, ListSettles DEF Pending
    <3>3. CASE Settle(c, IF calls[c].srv \subseteq stored THEN "ok" ELSE "fail")
      BY <3>3, VerdictSettles
    <3>4. QED
      BY <1>3, <3>1, <3>2, <3>3 DEF HandleServers
  <2>3. QED
    BY <1>1, <2>1, <2>2, Unspent, AnswerStep
<1>4. CASE Handle(c) /\ UNCHANGED PollVars
  <2>1. UNCHANGED <<cookie, servers, status, running>>
    BY <1>4 DEF Handle, storeVars, PollVars
  <2>2. CASE HandleAuth(c)
    <3>1. CASE Sent(c, "status") /\ UNCHANGED <<sessions, budget>>
               /\ Settle(c, IF ~hasAccount THEN "setup" ELSE IF Admitted(c) THEN "ok" ELSE "anonymous")
      <4>1. Settled(c)
        BY <3>1, VerdictSettles
      <4>2. QED
        BY <1>1, <2>1, <3>1, <4>1, Unspent, AnswerStep
    <3>2. CASE Take("grant") /\ Grant(c) /\ (sessions' = sessions \cup {Fresh} \/ sessions' = {Fresh})
      <4>1. Credited /\ Granted(Fresh, Fresh')
        BY <1>1, <2>1, <3>2, Grants
      <4>2. Settled(c)
        BY <3>2, <4>1, GrantSettles DEF Grant
      <4>3. QED
        BY <2>1, <4>1, <4>2, AnswerStep
    <3>3. CASE UNCHANGED <<sessions, budget>> /\ calls' = [calls EXCEPT ![c].verdict = "ok", ![c].cred = 0]
      <4>1. Credited
        BY <1>1, <2>1, <3>3, Unspent
      <4>2. Granted(0, Fresh')
        BY <1>1, <4>1, Later DEF CredsGranted, Credited
      <4>3. Settled(c)
        BY <3>3, <4>2, GrantSettles
      <4>4. QED
        BY <2>1, <4>1, <4>3, AnswerStep
    <3>4. QED
      BY <2>2, <3>1, <3>2, <3>3 DEF HandleAuth
  <2>3. CASE Deny(c) /\ UNCHANGED <<sessions, hasAccount>>
    <3>1. CASE (Sent(c, "login") \/ Sent(c, "password")) /\ Take("wrong") /\ Settle(c, "unauth")
      <4>1. Settled(c)
        BY <3>1, VerdictSettles DEF Sent, ProtectedOps, ServerOps, SnapshotOps
      <4>2. Credited
        BY <1>1, <2>1, <2>3, <3>1, Spent DEF Happenings
      <4>3. QED
        BY <2>1, <4>1, <4>2, AnswerStep
    <3>2. CASE Settle(c, "fail") /\ UNCHANGED budget
      <4>1. Settled(c)
        BY <3>2, VerdictSettles
      <4>2. QED
        BY <1>1, <2>1, <2>3, <3>2, <4>1, Unspent, AnswerStep
    <3>3. QED
      BY <2>3, <3>1, <3>2 DEF Deny
  <2>4. QED
    BY <1>4, <2>2, <2>3 DEF Handle
<1>5. CASE HandleSnapshot(c)
  <2>1. Settled(c)
    BY <1>5, VerdictSettles DEF HandleSnapshot
  <2>2. QED
    BY <1>1, <1>5, <2>1, Unspent, AnswerStep DEF HandleSnapshot, storeVars, authVars
<1>6. QED
  BY <1>2, <1>3, <1>4, <1>5 DEF Serve

LEMMA OutsideStep ==
  ASSUME WebInv, Outside \/ (Unmute /\ UNCHANGED <<storeVars, authVars, PollVars>>)
  PROVE  WebInv'
<1>1. CredsGranted
  BY DEF WebInv
<1>2. CASE Unmute /\ UNCHANGED <<storeVars, authVars, PollVars>>
  BY <1>1, <1>2, Unspent, QuietStep DEF Unmute, storeVars, authVars, PollVars
<1>3. CASE Expire /\ UNCHANGED <<storeVars, authVars, PollVars>>
  <2>1. Take("expire") /\ sessions' = sessions \ {cookie} /\ UNCHANGED <<calls, cookie, running, status, servers>>
    BY <1>3 DEF Expire, storeVars, authVars, PollVars
  <2>2. budget' \in [Happenings -> Int] /\ Fresh' \in Int /\ Fresh' >= Fresh
    BY <1>1, <2>1, TakeCounts DEF Happenings
  <2>3. \A n : Granted(n, Fresh) => Granted(n, Fresh')
    BY <1>1, <2>2, Later
  <2>4. Credited
    BY <1>1, <2>1, <2>2, <2>3 DEF CredsGranted, Credited
  <2>5. QED
    BY <2>1, <2>4, QuietStep
<1>4. CASE SetUpElsewhere /\ UNCHANGED PollVars
  <2>1. Credited
    BY <1>1, <1>4, Spent DEF SetUpElsewhere, Happenings
  <2>2. QED
    BY <1>4, <2>1, QuietStep DEF SetUpElsewhere, storeVars, PollVars
<1>5. ASSUME NEW c \in Slots, Lose(c), UNCHANGED <<storeVars, authVars, PollVars>> PROVE WebInv'
  <2>1. Credited
    BY <1>1, <1>5, Spent DEF Lose, Happenings
  <2>2. Settled(c)
    BY <1>5, VerdictSettles DEF Lose
  <2>3. QED
    BY <1>5, <2>1, <2>2, AnswerStep DEF storeVars, authVars, PollVars
<1>6. ASSUME NEW c \in Slots, Renew(c), UNCHANGED <<storeVars, authVars, PollVars>> PROVE WebInv'
  <2>1. Take("renew") /\ cookie' = calls[c].cred /\ UNCHANGED <<calls, sessions, running, status, servers>>
    BY <1>6 DEF Renew, storeVars, authVars, PollVars
  <2>2. budget' \in [Happenings -> Int] /\ Fresh' \in Int /\ Fresh' >= Fresh
    BY <1>1, <2>1, TakeCounts DEF Happenings
  <2>3. \A n : Granted(n, Fresh) => Granted(n, Fresh')
    BY <1>1, <2>2, Later
  <2>4. Credited
    BY <1>1, <2>1, <2>2, <2>3 DEF CredsGranted, Credited
  <2>5. QED
    BY <2>1, <2>4, QuietStep
<1>7. QED
  BY <1>2, <1>3, <1>4, <1>5, <1>6 DEF Outside

-----------------------------------------------------------------------------
(* The continuations.                                                       *)

(* A call other than the first of a page is in flight only once it is known  *)
(* who is logged in.                                                        *)
LEMMA BootedBy ==
  ASSUME WebInv, NEW c \in Slots, calls[c].op \notin {"free", "status"}
  PROVE  Booted
  BY DEF WebInv, Booting

(* A list is asked for by one continuation, or nothing is.                  *)
LEMMA ContinueStep ==
  ASSUME WebInv, Credited, UNCHANGED running, NEW c \in Slots, calls[c].op # "poll",
         Send({c}, {}) \/ \E n : Send({c}, {n}) /\ n.op = "list" /\ IsCall(n)
                                  /\ n.verdict = "sent" /\ Granted(n.cred, Fresh')
  PROVE  /\ CallTable' /\ CredsGranted' /\ Barred' /\ OneRound'
         /\ Booted' /\ (Booted \/ calls[c].op = "status") => Booting'
<1>1. calls[c].op = "status" => \A d \in Slots : calls[d].op = "status" => d \in {c}
  BY DEF WebInv, Booting
<1>2. CASE Send({c}, {})
  <2>1. Exchange({c}, {})
    BY <1>2 DEF Exchange
  <2>2. QED
    BY <1>1, <2>1, ExchangeStep
<1>3. ASSUME NEW n, Send({c}, {n}), n.op = "list", IsCall(n), n.verdict = "sent", Granted(n.cred, Fresh')
      PROVE  /\ CallTable' /\ CredsGranted' /\ Barred' /\ OneRound'
             /\ Booted' /\ (Booted \/ calls[c].op = "status") => Booting'
  <2>1. Exchange({c}, {n})
    BY <1>3 DEF Exchange
  <2>2. QED
    BY <1>1, <1>3, <2>1, ExchangeStep
<1>4. QED
  BY <1>2, <1>3

LEMMA EnterSends ==
  ASSUME NEW c, NEW newStatus, NEW newCookie, Enter(c, newStatus, newCookie), Granted(newCookie, Fresh')
  PROVE  Send({c}, {}) \/ \E n : Send({c}, {n}) /\ n.op = "list" /\ IsCall(n)
                                  /\ n.verdict = "sent" /\ Granted(n.cred, Fresh')
<1> DEFINE n == [LoadCall EXCEPT !.cred = newCookie]
<1>1. n.op = "list" /\ IsCall(n) /\ n.verdict = "sent" /\ n.cred = newCookie
  BY DEF LoadCall, NewCall, IsCall
<1> HIDE DEF n
<1>2. Send({c}, {n}) \/ Send({c}, {})
  BY DEF Enter, n
<1>3. QED
  BY <1>1, <1>2

LEMMA StoreDoneStep ==
  ASSUME WebInv, NEW c \in Slots, StoreDone(c), UNCHANGED <<authVars, PollVars>>
  PROVE  WebInv'
<1>1. /\ UNCHANGED <<cookie, sessions, budget, status, running>> /\ calls[c].op \in ServerOps
      /\ Send({c}, {}) \/ Send({c}, {LoadCall})
  BY DEF StoreDone, LoadServersDone, AddServerDone, UpdateServerDone, RemoveServerDone, Done, ServerOps,
         authVars, PollVars
<1>2. Credited /\ CredsGranted
  BY <1>1, Unspent DEF WebInv
<1>3. Booted /\ Booted'
  BY <1>1, BootedBy DEF Booted, ServerOps
<1>4. LoadCall.op = "list" /\ IsCall(LoadCall) /\ LoadCall.verdict = "sent" /\ Granted(LoadCall.cred, Fresh')
  BY <1>2, NewCallMade, Later DEF LoadCall, CredsGranted, Credited
<1>5. QED
  BY <1>1, <1>2, <1>3, <1>4, ContinueStep DEF WebInv, ServerOps

LEMMA UnauthorizedStep ==
  ASSUME WebInv, NEW c \in Slots, Unauthorized(c), UNCHANGED PollVars
  PROVE  WebInv'
<1>1. UNCHANGED <<cookie, sessions, budget, running>> /\ Throw(c) /\ CredsGranted
  BY DEF Unauthorized, PollVars, WebInv
<1>2. Settled(c)
  BY <1>1, VerdictSettles DEF Throw, Settle
<1>3. CASE Dispatched(c) /\ ~muted
  <2>1. status' = "anonymous" /\ calls[c].op \in ProtectedOps
    BY <1>3 DEF Unauthorized, Dispatched
  <2>2. Booted /\ Booted'
    BY <2>1, BootedBy DEF Booted, ProtectedOps, ServerOps, SnapshotOps
  <2>3. QED
    BY <1>1, <1>2, <2>2, Unspent, AnswerStep
<1>4. CASE ~(Dispatched(c) /\ ~muted)
  <2>1. UNCHANGED <<status, servers>>
    BY <1>4 DEF Unauthorized
  <2>2. QED
    BY <1>1, <1>2, <2>1, Unspent, AnswerStep
<1>5. QED
  BY <1>3, <1>4

LEMMA AuthDoneStep ==
  ASSUME WebInv, NEW c \in Slots, AuthDone(c), UNCHANGED PollVars
  PROVE  WebInv'
<1>1. /\ UNCHANGED <<sessions, budget, running>> /\ CredsGranted
      /\ calls[c].op \in AuthOps /\ cookie' \in {cookie, calls[c].cred}
  BY DEF AuthDone, BootstrapDone, LoginDone, LogoutDone, PasswordDone, Done, Enter, AuthOps, authVars, PollVars, WebInv
<1>2. Fresh' = Fresh /\ \A n : Granted(n, Fresh) => Granted(n, Fresh')
  BY <1>1 DEF Fresh
<1>3. Granted(cookie', Fresh') /\ Granted(cookie, Fresh') /\ Granted(calls[c].cred, Fresh')
  BY <1>1, <1>2 DEF CredsGranted
<1>4. Credited
  BY <1>1, <1>2, <1>3 DEF Credited, CredsGranted
<1>5. Send({c}, {}) \/ \E n : Send({c}, {n}) /\ n.op = "list" /\ IsCall(n)
                               /\ n.verdict = "sent" /\ Granted(n.cred, Fresh')
  BY <1>3, EnterSends DEF AuthDone, BootstrapDone, LoginDone, LogoutDone, PasswordDone
<1>6. /\ CallTable' /\ CredsGranted' /\ Barred' /\ OneRound'
      /\ Booted' /\ (Booted \/ calls[c].op = "status") => Booting'
  BY <1>1, <1>4, <1>5, ContinueStep DEF AuthOps
<1>7. Booting'
  <2>1. CASE calls[c].op # "status"
    <3>1. Booted
      BY <1>1, <2>1, BootedBy DEF AuthOps
    <3>2. Booted'
      BY <2>1, <3>1 DEF AuthDone, BootstrapDone, LoginDone, LogoutDone, PasswordDone, Done, Enter, Booted, authVars
    <3>3. QED
      BY <1>6, <3>1, <3>2
  <2>2. CASE calls[c].op = "status"
    <3>1. BootstrapDone(c)
      BY <2>2 DEF AuthDone, LoginDone, LogoutDone, PasswordDone, Done
    <3>2. CASE Booted'
      BY <1>6, <2>2, <3>2
    <3>3. CASE ~Booted'
      <4>1. Enter(c, "error", cookie) /\ servers' = servers
        BY <3>1, <3>3 DEF BootstrapDone, Enter, Booted
      <4>2. Send({c}, {}) /\ status' = "error"
        BY <4>1 DEF Enter
      <4>3. \A d \in Slots : d # c => calls[d].op = "free"
        BY <2>2 DEF WebInv, Booting, Booted
      <4>4. servers = {}
        BY <2>2 DEF WebInv, Booting, Booted
      <4>5. \A d \in Slots : calls'[d].op = "free"
        BY <4>2, <4>3, Sending, NoCallMade
      <4>6. QED
        BY <4>1, <4>4, <4>5 DEF Booting
    <3>4. QED
      BY <3>2, <3>3
  <2>3. QED
    BY <2>1, <2>2
<1>8. QED
  BY <1>6, <1>7 DEF WebInv

-----------------------------------------------------------------------------

LEMMA WebInitially == WebInit => WebInv
<1> SUFFICES ASSUME WebInit PROVE WebInv
  OBVIOUS
<1> DEFINE first == NewCall("status", {}, {})
<1>1. /\ calls = [c \in Slots |-> IF c = 1 THEN first ELSE NoCall]
      /\ cookie = 1 /\ sessions \in {{}, {1}} /\ budget = Limit
      /\ servers = {} /\ status = "loading" /\ running = FALSE
  BY DEF WebInit, ClientInit, StoreInit, AuthInit
<1>2. IsCall(first) /\ first.op = "status" /\ first.cred = 1 /\ first.verdict = "sent"
  BY <1>1, NewCallMade
<1> HIDE DEF first
<1>3. CallTable
  BY <1>1, <1>2, NoCallMade DEF CallTable
<1>4. CredsGranted
  <2>1. budget \in [Happenings -> Int] /\ Fresh = 2
    BY <1>1, LimitAssumption DEF Fresh, Happenings
  <2>2. Granted(0, Fresh) /\ Granted(1, Fresh)
    BY <2>1 DEF Granted
  <2>3. QED
    BY <1>1, <1>2, <2>1, <2>2, NoCallMade DEF CredsGranted
<1>5. Barred /\ OneRound
  BY <1>1, <1>2, NoCallMade DEF Barred, OneRound, InFlight, ProtectedOps, ServerOps, SnapshotOps
<1>6. Booting
  BY <1>1, <1>2, NoCallMade DEF Booting
<1>7. QED
  BY <1>3, <1>4, <1>5, <1>6 DEF WebInv

LEMMA WebStep == WebInv /\ [WebNext]_webVars => WebInv'
<1> SUFFICES ASSUME WebInv, [WebNext]_webVars PROVE WebInv'
  OBVIOUS
<1>1. CASE UNCHANGED webVars
  BY <1>1, Unspent, QuietStep DEF webVars, clientVars, storeVars, authVars, WebInv
<1>2. ASSUME NEW c \in Slots, Continue(c) PROVE WebInv'
  BY <1>2, UnauthorizedStep, StoreDoneStep, AuthDoneStep, SnapshotStep DEF Continue
<1>3. QED
  BY <1>1, <1>2, EffectStep, ClickStep, TickStep, OutsideStep, ServeStep DEF WebNext

LEMMA WebInvariant == WebSpec => []WebInv
  BY WebInitially, WebStep, PTL DEF WebSpec

(* useTorrentPolling.ts: a round of the poll starts only when the calls of   *)
(* the one before have all ended, and asks each server once.                *)
THEOREM RoundsDoNotOverlap == WebSpec => []OneRound
<1>1. WebInv => OneRound
  BY DEF WebInv
<1>2. QED
  BY <1>1, WebInvariant, PTL

(* A step that ends a login in the browser.                                 *)
LEMMA LoginEnds ==
  ASSUME WebInv, WebNext, status = "authenticated", status' = "anonymous"
  PROVE  \/ InFlight({"logout"}) # {}
         \/ \E c \in InFlight(ProtectedOps) : calls[c].verdict = "unauth" /\ ~Admitted(c)
<1>1. PICK c \in Slots : Unauthorized(c) \/ AuthDone(c)
  BY DEF WebNext, Effect, Click, StoreClick, AuthClick, Bootstrap, LoginPage, SetupPage, Logout, AccountTab, Submit,
         Tick, RefreshServer, Outside, Unmute, SetUpElsewhere, Serve, Handle, HandleSnapshot, Continue, SnapshotDone,
         authVars
<1>2. CASE Unauthorized(c)
  <2>1. Dispatched(c)
    BY <1>2 DEF Unauthorized
  <2>2. QED
    BY <2>1 DEF Dispatched, InFlight, WebInv, Barred
<1>3. CASE AuthDone(c)
  <2>1. calls[c].op # "status"
    BY DEF WebInv, Booting
  <2>2. LogoutDone(c)
    BY <1>3, <2>1 DEF AuthDone, BootstrapDone, LoginDone, PasswordDone, Done, Enter, authVars
  <2>3. QED
    BY <2>2 DEF LogoutDone, Done, InFlight
<1>4. QED
  BY <1>1, <1>2, <1>3

(* client.ts, authStore.ts: a 401 throws the user out only if the backend    *)
(* does not accept the session that call carried; a late answer, or one to a *)
(* path of the login, never does.                                           *)
THEOREM LogoutsHaveACause == WebSpec => KickedOutForCause
<1> DEFINE Caused == status = "authenticated" /\ status' = "anonymous" =>
        \/ InFlight({"logout"}) # {}
        \/ \E c \in InFlight(ProtectedOps) : calls[c].verdict = "unauth" /\ ~Admitted(c)
<1>1. WebInv /\ [WebNext]_webVars => [Caused]_webVars
  BY LoginEnds
<1>2. QED
  BY <1>1, WebInvariant, PTL DEF WebSpec, KickedOutForCause
=============================================================================
