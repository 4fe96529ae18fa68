----------------------------- MODULE McpManager -----------------------------
(***************************************************************************)
(* The external MCP servers of the AI assistant (internal/ai/mcp/          *)
(* manager.go), the chats that start and call them (internal/ai/service.go)*)
(* and the settings endpoint that stops them (internal/api/ai.go).         *)
(*                                                                         *)
(* One stdio server is followed: the servers share nothing but Manager.mu, *)
(* under which the registry is read and changed in single steps.  Each     *)
(* configuration it is started with is an entry (managed) of its own,      *)
(* whose startMu is held for as long as a start or a shutdown takes.  A    *)
(* session is also the process behind it: it can be closed, or die.        *)
(***************************************************************************)
EXTENDS Naturals

CONSTANTS
  Chats,        \* goroutines of ChatStream
  Savers,       \* goroutines of PUT /ai/config
  McpConfs,     \* fingerprints of enabled configurations
  Off,          \* the server is disabled, or removed
  MaxEntries,   \* entries made (a bound)
  MaxSessions,  \* sessions opened (a bound)
  MaxMoves      \* saves, chats and calls begun (a bound)

ASSUME McpAssumption ==
  Off \notin McpConfs /\ MaxEntries \in Nat /\ MaxSessions \in Nat /\ MaxMoves \in Nat

VARIABLES
  mcpConf,   \* what the settings store holds
  registry,  \* Manager.servers[id], 0 for none
  entries,   \* managed: [conf, status, sess, cmd, locked, ending, last]
  made,      \* entries so far
  sessions,  \* [entry, state, watched]
  dialled,   \* sessions so far
  chats,     \* [step, conf, entry, sess]
  savers,    \* [step, conf]
  moves      \* saves, chats and calls so far

mcpVars == <<mcpConf, registry, entries, made, sessions, dialled, chats, savers, moves>>

McpEntries  == 1..MaxEntries
Sessions == 1..MaxSessions

(* ending: the shutdown of the entry is "due", "closing" its session, "over" *)
NewEntry(c) == [conf |-> c, status |-> "stopped", sess |-> 0, cmd |-> 0,
                locked |-> FALSE, ending |-> "no", last |-> 0]

QuietChat == [step |-> "idle", conf |-> Off, entry |-> 0, sess |-> 0]

McpInit ==
  /\ mcpConf \in McpConfs
  /\ registry = 0 /\ made = 0 /\ dialled = 0 /\ moves = 0
  /\ entries = [e \in McpEntries |-> NewEntry(Off)]
  /\ sessions = [s \in Sessions |-> [entry |-> 0, state |-> "unborn", watched |-> FALSE]]
  /\ chats = [k \in Chats |-> QuietChat]
  /\ savers = [h \in Savers |-> [step |-> "idle", conf |-> Off]]

Move == moves < MaxMoves /\ moves' = moves + 1

ChatStep(k, step) == chats' = [chats EXCEPT ![k].step = step]

-----------------------------------------------------------------------------
(* The settings page.  SaveAIConfig keeps what it could not write: then the  *)
(* configuration changes, too, but nothing is aligned with it.              *)
SaveMcp(h, c) ==
  /\ savers[h].step = "idle" /\ Move
  /\ mcpConf' = c
  /\ \E step \in {"reconcile", "idle"} : savers' = [savers EXCEPT ![h] = [step |-> step, conf |-> c]]
  /\ UNCHANGED <<registry, entries, made, sessions, dialled, chats>>

(* Reconcile takes the entry off the registry; its shutdown follows.        *)
ReconcileMcp(h) ==
  /\ savers[h].step = "reconcile"
  /\ savers' = [savers EXCEPT ![h].step = "idle"]
  /\ IF registry # 0 /\ entries[registry].conf # savers[h].conf
     THEN registry' = 0 /\ entries' = [entries EXCEPT ![registry].ending = "due"]
     ELSE UNCHANGED <<registry, entries>>
  /\ UNCHANGED <<mcpConf, made, sessions, dialled, chats, moves>>

-----------------------------------------------------------------------------
(* A chat begins: the configuration is read once.                           *)
BeginChat(k) ==
  /\ chats[k].step = "idle" /\ mcpConf # Off /\ Move
  /\ chats' = [chats EXCEPT ![k] = [QuietChat EXCEPT !.step = "ensure", !.conf = mcpConf]]
  /\ UNCHANGED <<mcpConf, registry, entries, made, sessions, dialled, savers>>

(* EnsureStarted up to the release of Manager.mu                            *)
Fitting(k) == registry # 0 /\ entries[registry].conf = chats[k].conf

EnsureKnown(k) ==
  /\ chats[k].step = "ensure" /\ Fitting(k)
  /\ chats' = [chats EXCEPT ![k] = [@ EXCEPT !.entry = registry,
       !.step = IF entries[registry].status = "running" THEN "gather" ELSE "start"]]
  /\ UNCHANGED <<mcpConf, registry, entries, made, sessions, dialled, savers, moves>>

EnsureNew(k) ==
  /\ chats[k].step = "ensure" /\ ~Fitting(k) /\ made < MaxEntries
  /\ made' = made + 1 /\ registry' = made + 1
  /\ entries' = [e \in McpEntries |->
       IF e = made + 1 THEN NewEntry(chats[k].conf)
       ELSE IF e = registry THEN [entries[e] EXCEPT !.ending = "due"] ELSE entries[e]]
  /\ chats' = [chats EXCEPT ![k] = [@ EXCEPT !.step = "start", !.entry = made + 1]]
  /\ UNCHANGED <<mcpConf, sessions, dialled, savers, moves>>

(* start: startMu, then the handshake on the process it launches, if the    *)
(* command can be launched: connect forgets the command before it.          *)
Start(k) ==
  LET e == chats[k].entry IN
  /\ chats[k].step = "start" /\ ~entries[e].locked
  /\ \/ /\ entries[e].status = "running"
        /\ ChatStep(k, "gather") /\ UNCHANGED <<entries, sessions, dialled>>
     \/ /\ entries[e].status # "running"
        /\ entries' = [entries EXCEPT ![e] = [@ EXCEPT !.status = "error", !.cmd = 0]]
        /\ ChatStep(k, "gather") /\ UNCHANGED <<sessions, dialled>>
     \/ /\ entries[e].status # "running" /\ dialled < MaxSessions
        /\ dialled' = dialled + 1
        /\ sessions' = [sessions EXCEPT ![dialled + 1] = [entry |-> e, state |-> "open", watched |-> FALSE]]
        /\ entries' = [entries EXCEPT ![e] = [@ EXCEPT !.locked = TRUE, !.cmd = dialled + 1]]
        /\ chats' = [chats EXCEPT ![k] = [@ EXCEPT !.step = "dial", !.sess = dialled + 1]]
  /\ UNCHANGED <<mcpConf, registry, made, savers, moves>>

(* The handshake and the list of tools succeed, or the process is killed.   *)
Dialed(k) ==
  LET e == chats[k].entry
      s == chats[k].sess
  IN
  /\ chats[k].step = "dial"
  /\ \/ /\ entries' = [entries EXCEPT ![e] = [@ EXCEPT !.locked = FALSE, !.sess = s, !.status = "running"]]
        /\ sessions' = [sessions EXCEPT ![s].watched = TRUE]
     \/ /\ entries' = [entries EXCEPT ![e] = [@ EXCEPT !.locked = FALSE, !.status = "error"]]
        /\ sessions' = [sessions EXCEPT ![s].state = "closed"]
  /\ ChatStep(k, "gather")
  /\ UNCHANGED <<mcpConf, registry, made, dialled, savers, moves>>

(* The tools of whatever entry runs by now; without any the chat does       *)
(* nothing more that matters here.                                          *)
Gather(k) ==
  /\ chats[k].step = "gather"
  /\ ChatStep(k, IF registry # 0 /\ entries[registry].status = "running" THEN "talk" ELSE "idle")
  /\ UNCHANGED <<mcpConf, registry, entries, made, sessions, dialled, savers, moves>>

EndChat(k) ==
  /\ chats[k].step = "talk"
  /\ ChatStep(k, "idle")
  /\ UNCHANGED <<mcpConf, registry, entries, made, sessions, dialled, savers, moves>>

-----------------------------------------------------------------------------
(* CallTool: the entry is looked up again for each call                     *)
BeginCall(k) ==
  /\ chats[k].step = "talk" /\ registry # 0 /\ Move
  /\ entries[registry].status = "running" /\ entries[registry].sess # 0
  /\ chats' = [chats EXCEPT ![k] = [@ EXCEPT !.step = "call", !.entry = registry, !.sess = entries[registry].sess]]
  /\ UNCHANGED <<mcpConf, registry, entries, made, sessions, dialled, savers>>

CallAnswered(k) ==
  /\ chats[k].step = "call" /\ sessions[chats[k].sess].state = "open"
  /\ ChatStep(k, "talk")
  /\ UNCHANGED <<mcpConf, registry, entries, made, sessions, dialled, savers, moves>>

(* Mutant: the session is not compared with the one that is gone.           *)
LostAny(e, s) == [entries EXCEPT ![e] = [@ EXCEPT !.sess = 0, !.status = "error"]]

(* markDead and watch, when the session is still the current one            *)
Lost(e, s) ==
  IF entries[e].sess = s THEN [entries EXCEPT ![e] = [@ EXCEPT !.sess = 0, !.status = "error"]] ELSE entries

(* The session is gone, the call took too long, or the user stopped the     *)
(* chat: all are errors of the call, the last one ends the chat as well.    *)
CallFails(k) ==
  /\ chats[k].step = "call"
  /\ entries' = Lost(chats[k].entry, chats[k].sess)
  /\ \E step \in {"talk", "idle"} : ChatStep(k, step)
  /\ UNCHANGED <<mcpConf, registry, made, sessions, dialled, savers, moves>>

-----------------------------------------------------------------------------
(* The process exits, or the connection breaks, ...                         *)
Die(s) ==
  /\ sessions[s].state = "open"
  /\ sessions' = [sessions EXCEPT ![s].state = "dead"]
  /\ UNCHANGED <<mcpConf, registry, entries, made, dialled, chats, savers, moves>>

(* ... and watch finds out.                                                 *)
WatchEnds(s) ==
  /\ sessions[s].watched /\ sessions[s].state # "open"
  /\ sessions' = [sessions EXCEPT ![s].watched = FALSE]
  /\ entries' = Lost(sessions[s].entry, s)
  /\ UNCHANGED <<mcpConf, registry, made, dialled, chats, savers, moves>>

(* shutdown: startMu, and the fields are reset ...                          *)
ShutDown(e) ==
  /\ entries[e].ending = "due" /\ ~entries[e].locked
  /\ entries' = [entries EXCEPT ![e] = [@ EXCEPT !.locked = TRUE, !.ending = "closing", !.sess = 0,
                                                !.last = entries[e].sess, !.status = "stopped"]]
  /\ UNCHANGED <<mcpConf, registry, made, sessions, dialled, chats, savers, moves>>

(* ... then Close, and killGroup on the process launched last               *)
Close(e) ==
  /\ entries[e].ending = "closing"
  /\ sessions' = [s \in Sessions |->
       IF s \in {entries[e].last, entries[e].cmd} THEN [sessions[s] EXCEPT !.state = "closed"] ELSE sessions[s]]
  /\ entries' = [entries EXCEPT ![e] = [@ EXCEPT !.locked = FALSE, !.ending = "over"]]
  /\ UNCHANGED <<mcpConf, registry, made, dialled, chats, savers, moves>>

-----------------------------------------------------------------------------
McpNext ==
  \/ \E h \in Savers : ReconcileMcp(h) \/ \E c \in McpConfs \cup {Off} : SaveMcp(h, c)
  \/ \E k \in Chats :
       \/ BeginChat(k) \/ EnsureKnown(k) \/ EnsureNew(k) \/ Start(k) \/ Dialed(k) \/ Gather(k)
       \/ BeginCall(k) \/ CallAnswered(k) \/ CallFails(k) \/ EndChat(k)
  \/ \E s \in Sessions : Die(s) \/ WatchEnds(s)
  \/ \E e \in McpEntries : ShutDown(e) \/ Close(e)

McpSpec == McpInit /\ [][McpNext]_mcpVars

-----------------------------------------------------------------------------
(* manager.go watch and markDead: a session that works is given up only by   *)
(* the shutdown of its entry or by a call on that very session; the end of   *)
(* an earlier session of the entry, noticed late, never costs the new one.   *)
LiveSessionKept ==
  [][\A e \in McpEntries : LET s == entries[e].sess IN
       s # 0 /\ sessions[s].state = "open" /\ entries'[e].sess # s =>
         \/ entries'[e].ending = "closing"
         \/ \E k \in Chats : chats[k].step = "call" /\ chats[k].sess = s /\ chats'[k].step # "call"]_mcpVars

(* manager.go killGroup: no process is left an orphan.  Some shutdown to     *)
(* come, or under way, would close or kill each process that runs.           *)
Reached(s) ==
  LET e == sessions[s].entry IN
  /\ s \in {entries[e].sess, entries[e].cmd, entries[e].last}
  /\ registry = e \/ entries[e].ending \in {"due", "closing"}

NoOrphans == \A s \in Sessions : sessions[s].state = "open" => Reached(s)
=============================================================================
