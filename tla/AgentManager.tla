---------------------------- MODULE AgentManager ----------------------------
(***************************************************************************)
(* The reverse connections of the agents: internal/agent/manager.go with   *)
(* the handlers that feed it (internal/api/agent_ws.go, the fs and         *)
(* agent-token handlers of internal/api/fs.go, deleteServer).              *)
(*                                                                         *)
(* A connection is one goroutine in Serve (register, read until an error,  *)
(* unregister) and one in pingLoop; a directory listing is a goroutine in  *)
(* Call; an administrator's request changes the token of a server in the   *)
(* store and only then calls Remove.  Mutexes guard single steps, so every *)
(* action below is one locked section or one channel operation.            *)
(*                                                                         *)
(* Connections and calls are identities used once: Conns and Calls bound   *)
(* how many there are.  A request and its answer are named by the call     *)
(* they belong to.  The agent is outside the repository: it answers the    *)
(* requests it was sent in any order, late, several times or never.        *)
(***************************************************************************)
EXTENDS Naturals, FiniteSets

CONSTANTS
  Servers,    \* configured downloaders
  Loopback,   \* those whose URL is a loopback address
  Conns,      \* WebSocket connections, each opened at most once
  Calls,      \* directory listings, each requested at most once
  Admins,     \* goroutines serving agent-token and delete requests
  None,       \* no connection, no call, nothing in a channel
  MaxToken    \* bound on the regenerations of one server's token

ASSUME LoopbackAssumption == Loopback \subseteq Servers
ASSUME NoneAssumption == None \notin Conns \cup Calls
ASSUME MaxTokenAssumption == MaxToken \in Nat

VARIABLES
  token,    \* store: the server's token, 0 once the server is deleted
  conns,    \* Manager.conns
  conn,     \* per connection, where Serve is: [step, srv, tok, out]
  closed,   \* connections whose closeCh and socket are closed
  pending,  \* per connection, Conn.pending as a set of [id, to]
  sent,     \* per connection, the requests on the wire: [id, req]
  nextID,   \* Manager.nextID
  call,     \* per call, where it is: [step, srv, conn, id, res]
  chan,     \* per call, its channel of capacity one
  adm       \* per administrator: [step, srv, conn]

vars == <<token, conns, conn, closed, pending, sent, nextID, call, chan, adm>>

Outcomes == {"none", "answered", "timeout", "offline", "local", "required"}

LinkSteps == {"unused", "upgraded", "reading", "sending", "exit", "gone"}
CallSteps == {"unused", "lookup", "found", "write", "wait", "remove", "done"}
AdmSteps  == {"idle", "saved", "taken"}

Links    == [step : LinkSteps, srv : Servers \cup {None}, tok : Nat,
             to : Calls \cup {None}, ans : Calls \cup {None}]
Listings == [step : CallSteps, srv : Servers \cup {None}, conn : Conns \cup {None},
             id : Nat, res : Outcomes]
Requests == [step : AdmSteps, srv : Servers \cup {None}, conn : Conns \cup {None}]

NewConn == [step |-> "unused", srv |-> None, tok |-> 0, to |-> None, ans |-> None]
NewCall == [step |-> "unused", srv |-> None, conn |-> None, id |-> 0, res |-> "none"]
IdleAdm == [step |-> "idle", srv |-> None, conn |-> None]

Init ==
  /\ token = [s \in Servers |-> 1]
  /\ conns = [s \in Servers |-> None]
  /\ conn = [c \in Conns |-> NewConn]
  /\ closed = {}
  /\ pending = [c \in Conns |-> {}]
  /\ sent = [c \in Conns |-> {}]
  /\ nextID = 0
  /\ call = [k \in Calls |-> NewCall]
  /\ chan = [k \in Calls |-> None]
  /\ adm = [a \in Admins |-> IdleAdm]

-----------------------------------------------------------------------------
(* The life of a connection.                                                *)

(* handleAgentWs lets the connection in: the server exists and the token is *)
(* its own.  (Any other attempt is answered 401 and leaves no trace.)       *)
Dial(c, s) ==
  /\ conn[c].step = "unused"
  /\ token[s] # 0
  /\ conn' = [conn EXCEPT ![c] = [@ EXCEPT !.step = "upgraded", !.srv = s, !.tok = token[s]]]
  /\ UNCHANGED <<token, conns, closed, pending, sent, nextID, call, chan, adm>>

Served(c) == conn[c].step \in {"reading", "sending"}

(* Serve: replace whoever is registered, under Manager.mu                   *)
Register(c) ==
  /\ conn[c].step = "upgraded"
  /\ LET s == conn[c].srv IN
       /\ closed' = closed \cup ({conns[s]} \ {None})
       /\ conns' = [conns EXCEPT ![s] = c]
  /\ conn' = [conn EXCEPT ![c].step = "reading"]
  /\ UNCHANGED <<token, pending, sent, nextID, call, chan, adm>>

(* Mutant: the entry stays in pending until the caller removes it.           *)
ReceiveKeeping(c) ==
  /\ conn[c].step = "reading"
  /\ \E f \in sent[c], p \in pending[c] :
       /\ p.id = f.id
       /\ conn' = [conn EXCEPT ![c] = [@ EXCEPT !.step = "sending", !.to = p.to, !.ans = f.req]]
  /\ UNCHANGED <<token, conns, closed, pending, sent, nextID, call, chan, adm>>

(* handleMessage: an answer takes its call out of pending; one nobody waits *)
(* for any more is dropped.                                                 *)
Receive(c) ==
  /\ conn[c].step = "reading"
  /\ \E f \in sent[c], p \in pending[c] :
       /\ p.id = f.id
       /\ pending' = [pending EXCEPT ![c] = @ \ {p}]
       /\ conn' = [conn EXCEPT ![c] = [@ EXCEPT !.step = "sending", !.to = p.to, !.ans = f.req]]
  /\ UNCHANGED <<token, conns, closed, sent, nextID, call, chan, adm>>

(* Mutant: the channel is not buffered, the read loop waits for the caller.  *)
DeliverUnbuffered(c) ==
  /\ conn[c].step = "sending"
  /\ chan[conn[c].to] = None
  /\ call[conn[c].to].step = "wait"
  /\ chan' = [chan EXCEPT ![conn[c].to] = conn[c].ans]
  /\ conn' = [conn EXCEPT ![c] = [@ EXCEPT !.step = "reading", !.to = None, !.ans = None]]
  /\ UNCHANGED <<token, conns, closed, pending, sent, nextID, call, adm>>

(* ch <- &resp, into the buffer of one                                      *)
Deliver(c) ==
  /\ conn[c].step = "sending"
  /\ chan[conn[c].to] = None
  /\ chan' = [chan EXCEPT ![conn[c].to] = conn[c].ans]
  /\ conn' = [conn EXCEPT ![c] = [@ EXCEPT !.step = "reading", !.to = None, !.ans = None]]
  /\ UNCHANGED <<token, conns, closed, pending, sent, nextID, call, adm>>

(* ReadMessage fails: the peer or the network is gone, no pong in time, or  *)
(* the connection was shut down.                                            *)
ReadError(c) ==
  /\ conn[c].step = "reading"
  /\ closed' = closed \cup {c}
  /\ conn' = [conn EXCEPT ![c].step = "exit"]
  /\ UNCHANGED <<token, conns, pending, sent, nextID, call, chan, adm>>

(* pingLoop: a ping that cannot be written shuts the connection down.       *)
PingError(c) ==
  /\ Served(c) /\ c \notin closed
  /\ closed' = closed \cup {c}
  /\ UNCHANGED <<token, conns, conn, pending, sent, nextID, call, chan, adm>>

(* Mutant: the entry is deleted whoever it belongs to.                       *)
UnregisterAny(c) ==
  /\ conn[c].step = "exit"
  /\ conns' = [conns EXCEPT ![conn[c].srv] = None]
  /\ conn' = [conn EXCEPT ![c].step = "gone"]
  /\ UNCHANGED <<token, closed, pending, sent, nextID, call, chan, adm>>

(* unregister: only the connection's own entry                              *)
Unregister(c) ==
  /\ conn[c].step = "exit"
  /\ LET s == conn[c].srv IN
       conns' = IF conns[s] = c THEN [conns EXCEPT ![s] = None] ELSE conns
  /\ conn' = [conn EXCEPT ![c].step = "gone"]
  /\ UNCHANGED <<token, closed, pending, sent, nextID, call, chan, adm>>

-----------------------------------------------------------------------------
(* regenerateAgentToken and deleteServer: the store first, then Remove.     *)

Save(a, s) ==
  /\ adm[a].step = "idle" /\ token[s] # 0
  /\ \/ token[s] < MaxToken /\ token' = [token EXCEPT ![s] = @ + 1]
     \/ token' = [token EXCEPT ![s] = 0]
  /\ adm' = [adm EXCEPT ![a] = [@ EXCEPT !.step = "saved", !.srv = s]]
  /\ UNCHANGED <<conns, conn, closed, pending, sent, nextID, call, chan>>

(* Remove, under Manager.mu *)
Take(a) ==
  /\ adm[a].step = "saved"
  /\ adm' = [adm EXCEPT ![a] = [@ EXCEPT !.step = "taken", !.conn = conns[adm[a].srv]]]
  /\ conns' = [conns EXCEPT ![adm[a].srv] = None]
  /\ UNCHANGED <<token, conn, closed, pending, sent, nextID, call, chan>>

(* Remove, after the unlock: shutdown *)
Shut(a) ==
  /\ adm[a].step = "taken"
  /\ closed' = closed \cup ({adm[a].conn} \ {None})
  /\ adm' = [adm EXCEPT ![a] = IdleAdm]
  /\ UNCHANGED <<token, conns, conn, pending, sent, nextID, call, chan>>

-----------------------------------------------------------------------------
(* A directory listing.                                                     *)

(* Mutant: any failure of the agent falls back to this machine.              *)
OutcomeAny(k, res) == IF res # "answered" /\ call[k].srv \in Loopback THEN "local" ELSE res

(* listFsDir's last word on an RPC error: a downloader on this machine is   *)
(* listed locally when the agent has just gone.                             *)
Outcome(k, res) == IF res = "offline" /\ call[k].srv \in Loopback THEN "local" ELSE res

Finish(k, res) == call' = [call EXCEPT ![k] = [@ EXCEPT !.step = "done", !.res = Outcome(k, res)]]

(* listFsDir: the server is looked up in the store, then Status.  Nothing   *)
(* that happens to the store in between is seen by the rest of the listing. *)
ListDir(k, s) ==
  /\ call[k].step = "unused" /\ token[s] # 0
  /\ call' = [call EXCEPT ![k] =
       IF conns[s] # None
       THEN [@ EXCEPT !.step = "lookup", !.srv = s]
       ELSE [@ EXCEPT !.step = "done", !.srv = s, !.res = IF s \in Loopback THEN "local" ELSE "required"]]
  /\ UNCHANGED <<token, conns, conn, closed, pending, sent, nextID, chan, adm>>

(* Mutant: Call trusts that the agent Status saw is still there.             *)
LookupTrusting(k) ==
  /\ call[k].step = "lookup"
  /\ call' = [call EXCEPT ![k] = [@ EXCEPT !.step = "found", !.conn = conns[call[k].srv]]]
  /\ UNCHANGED <<token, conns, conn, closed, pending, sent, nextID, chan, adm>>

(* Manager.Call: the registry is looked up again.                           *)
Lookup(k) ==
  /\ call[k].step = "lookup"
  /\ LET c == conns[call[k].srv] IN
       \/ c = None /\ Finish(k, "offline")
       \/ c # None /\ call' = [call EXCEPT ![k] = [@ EXCEPT !.step = "found", !.conn = c]]
  /\ UNCHANGED <<token, conns, conn, closed, pending, sent, nextID, chan, adm>>

(* Mutant: the id is read from the counter but not advanced.                 *)
EnterSameId(k) ==
  /\ call[k].step = "found"
  /\ LET c == call[k].conn
         id == nextID
     IN  /\ nextID' = nextID
         /\ pending' = [pending EXCEPT ![c] = {p \in @ : p.id # id} \cup {[id |-> id, to |-> k]}]
         /\ call' = [call EXCEPT ![k] = [@ EXCEPT !.step = "write", !.id = id]]
  /\ UNCHANGED <<token, conns, conn, closed, sent, chan, adm>>

(* nextID.Add(1), and the channel goes into pending                         *)
Enter(k) ==
  /\ call[k].step = "found"
  /\ LET c == call[k].conn
         id == nextID + 1
     IN  /\ nextID' = id
         /\ pending' = [pending EXCEPT ![c] = {p \in @ : p.id # id} \cup {[id |-> id, to |-> k]}]
         /\ call' = [call EXCEPT ![k] = [@ EXCEPT !.step = "write", !.id = id]]
  /\ UNCHANGED <<token, conns, conn, closed, sent, chan, adm>>

(* writeJSON: fails on a closed socket, and may fail on any other           *)
Write(k) ==
  /\ call[k].step = "write"
  /\ LET c == call[k].conn IN
       \/ /\ c \notin closed
          /\ sent' = [sent EXCEPT ![c] = @ \cup {[id |-> call[k].id, req |-> k]}]
          /\ call' = [call EXCEPT ![k].step = "wait"]
       \/ /\ call' = [call EXCEPT ![k] = [@ EXCEPT !.step = "remove", !.res = "offline"]]
          /\ UNCHANGED sent
  /\ UNCHANGED <<token, conns, conn, closed, pending, nextID, chan, adm>>

(* The select of Conn.call takes any branch that is ready.                  *)
Answered(k) ==
  /\ call[k].step = "wait" /\ chan[k] # None
  /\ chan' = [chan EXCEPT ![k] = None]
  /\ Finish(k, "answered")
  /\ UNCHANGED <<token, conns, conn, closed, pending, sent, nextID, adm>>

(* Mutant: no timer.                                                         *)
TimeoutNever(k) == FALSE /\ UNCHANGED vars

Timeout(k) ==
  /\ call[k].step = "wait"
  /\ call' = [call EXCEPT ![k] = [@ EXCEPT !.step = "remove", !.res = "timeout"]]
  /\ UNCHANGED <<token, conns, conn, closed, pending, sent, nextID, chan, adm>>

Woken(k) ==
  /\ call[k].step = "wait" /\ call[k].conn \in closed
  /\ call' = [call EXCEPT ![k] = [@ EXCEPT !.step = "remove", !.res = "offline"]]
  /\ UNCHANGED <<token, conns, conn, closed, pending, sent, nextID, chan, adm>>

(* Mutant: a call that fails leaves its entry behind.                        *)
RemoveForgotten(k) ==
  /\ call[k].step = "remove"
  /\ Finish(k, call[k].res)
  /\ UNCHANGED <<token, conns, conn, closed, pending, sent, nextID, chan, adm>>

(* remove() and the return with an error                                    *)
Remove(k) ==
  /\ call[k].step = "remove"
  /\ pending' = [pending EXCEPT ![call[k].conn] = {p \in @ : p.id # call[k].id}]
  /\ Finish(k, call[k].res)
  /\ UNCHANGED <<token, conns, conn, closed, sent, nextID, chan, adm>>

-----------------------------------------------------------------------------
Connection(c) ==
  \/ \E s \in Servers : Dial(c, s)
  \/ Register(c) \/ Receive(c) \/ Deliver(c) \/ ReadError(c) \/ PingError(c) \/ Unregister(c)

Administration(a) == (\E s \in Servers : Save(a, s)) \/ Take(a) \/ Shut(a)

Waiting(k) == Answered(k) \/ Timeout(k) \/ Woken(k)

Calling(k) ==
  \/ \E s \in Servers : ListDir(k, s)
  \/ Lookup(k) \/ Enter(k) \/ Write(k) \/ Waiting(k) \/ Remove(k)

Next ==
  \/ \E c \in Conns : Connection(c)
  \/ \E a \in Admins : Administration(a)
  \/ \E k \in Calls : Calling(k)

(* Goroutines that can go on do; a read on a socket that was closed returns. *)
(* Nothing obliges an agent to connect or to answer, or the network to fail. *)
Running ==
  /\ \A c \in Conns : WF_vars(Register(c)) /\ WF_vars(Deliver(c)) /\ WF_vars(Unregister(c))
                      /\ WF_vars(c \in closed /\ ReadError(c))
  /\ \A a \in Admins : WF_vars(Take(a)) /\ WF_vars(Shut(a))
  /\ \A k \in Calls : WF_vars(Lookup(k)) /\ WF_vars(Enter(k)) /\ WF_vars(Write(k)) /\ WF_vars(Remove(k))
                      /\ WF_vars(Answered(k)) /\ WF_vars(Woken(k))

Timers == \A k \in Calls : WF_vars(Timeout(k))

(* Slow: no timer need ever fire.                                            *)
Slow == Init /\ [][Next]_vars /\ Running
Spec == Slow /\ Timers

-----------------------------------------------------------------------------
(* Properties.                                                              *)

(* Type invariant; a call that found a connection has one, and a connection *)
(* that was let in has a server.                                            *)
TypeOK ==
  /\ token \in [Servers -> Nat]
  /\ conns \in [Servers -> Conns \cup {None}]
  /\ conn \in [Conns -> Links]
  /\ closed \subseteq Conns
  /\ pending \in [Conns -> SUBSET [id : Nat, to : Calls]]
  /\ sent \in [Conns -> SUBSET [id : Nat, req : Calls]]
  /\ nextID \in Nat
  /\ call \in [Calls -> Listings]
  /\ chan \in [Calls -> Calls \cup {None}]
  /\ adm \in [Admins -> Requests]
  /\ \A c \in Conns : conn[c].step # "unused" => conn[c].srv \in Servers
  /\ \A k \in Calls : call[k].step \in {"found", "write", "wait", "remove"} => call[k].conn \in Conns

(* No connection is lost track of (Serve, unregister, Remove): one that is  *)
(* still being read and was not shut down is registered under its server,   *)
(* or an administrator is about to shut it down.                            *)
NoStray ==
  \A c \in Conns : Served(c) /\ c \notin closed =>
    conns[conn[c].srv] = c \/ \E a \in Admins : adm[a].conn = c

(* handleMessage pairs answers with calls by id: what a caller finds in its *)
(* channel answers its own request.                                         *)
OwnAnswer == \A k \in Calls : chan[k] \in {None, k}

(* The read loop never waits for a caller: there is room in the channel for *)
(* the answer it holds, however often the agent answers.                    *)
ReaderFree == \A c \in Conns : conn[c].step = "sending" => chan[conn[c].to] = None

(* Conn.pending does not leak: an entry belongs to a call still under way   *)
(* on that connection.                                                      *)
PendingLive ==
  \A c \in Conns : \A p \in pending[c] :
    call[p.to].conn = c /\ call[p.to].id = p.id /\ call[p.to].step \in {"write", "wait", "remove"}

(* Listing's view: which agents are connected, which were asked what, and   *)
(* what has become of each listing.                                         *)
Online   == {s \in Servers : conns[s] # None}
Goals    == [k \in Calls |-> call[k].srv]
Asked(k) == {c \in Conns : \E f \in sent[c] : f.req = k}
AskedOf  == [k \in Calls |-> {conn[c].srv : c \in Asked(k)}]

Stage(k) ==
  CASE call[k].step = "unused" -> "unused"
    [] call[k].step = "remove" -> IF call[k].res = "timeout" THEN "late" ELSE "cut"
    [] call[k].step = "done"   -> call[k].res
    [] OTHER                   -> "open"

Stages == [k \in Calls |-> Stage(k)]

Promise == INSTANCE Listing WITH online <- Online, goal <- Goals, asked <- AskedOf, box <- chan,
                                 stage <- Stages

(* Whatever connections replace one another, and however agents answer, a   *)
(* listing keeps the promise of Listing: its own agent asked at most once,  *)
(* its own answer passed on once, the backend's own directories only where  *)
(* no agent is there to be asked (listFsDir, Call, handleMessage).          *)
ListingKept == Promise!Spec

(* backend/README.md: once a token is regenerated (or its server deleted)   *)
(* and Remove has returned, no connection let in by an older token is live. *)
OldTokenCut ==
  \A s \in Servers :
    (\A a \in Admins : adm[a].step = "idle") /\ conns[s] # None /\ conns[s] \notin closed
      => conn[conns[s]].tok = token[s]

(* Every listing is answered, by the agent, the timer or the close, as long *)
(* as the timers fire.                                                      *)
CallsReturn == Timers => \A k \in Calls : call[k].step = "lookup" ~> call[k].step = "done"

(* A connection that was shut down leaves the registry: its read loop is    *)
(* never stuck on a caller that has given up.                               *)
ClosedLeaves == \A c \in Conns : (c \in closed) ~> (conn[c].step = "gone" /\ \A s \in Servers : conns[s] # c)
=============================================================================
