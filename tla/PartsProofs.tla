----------------------------- MODULE PartsProofs -----------------------------
(***************************************************************************)
(* Proofs about the two managers behind the settings pages: TelegramBot,   *)
(* for any number of saves at once and any number of instances, and        *)
(* McpManager, for any number of chats, saves, entries and sessions.  Then *)
(* the pages and the managers together, as MCParts composes them.          *)
(***************************************************************************)
EXTENDS MCParts, TorrentProofs

(* TelegramBot                                                              *)

(* Whatever still works is the instance whose handles the manager holds,    *)
(* that instance has the configuration last aligned, and the badge says     *)
(* "running" for none but it.                                               *)
OnlyCurrent == \A n \in 1..MaxRuns : Working(n) => n = current

Unborn == \A n \in 1..MaxRuns : n > begun => instances[n].phase = "unborn"

AsAligned == current # 0 => instances[current].cfg = botHash

BadgeBacked == botStatus = "running" => current # 0 /\ instances[current].phase = "polling"

BotInv == BotTypeOK /\ OnlyCurrent /\ Unborn /\ AsAligned /\ BadgeBacked

(* Nothing has been started yet.                                            *)
LEMMA InitBot == BotInit => BotInv
  BY BotAssumption
     DEF BotInit, BotInv, BotTypeOK, OnlyCurrent, Unborn, AsAligned, BadgeBacked, Working, PutterSteps, Phases, Fingerprints

(* The goroutines of the endpoint keep the invariant: a new instance is     *)
(* born only after the one before is over.                                  *)
LEMMA PutterStep ==
  ASSUME BotInv, NEW p \in Putters,
         (\E c \in Fingerprints : PutTelegram(p, c)) \/ Look(p) \/ StopOld(p) \/ StartNew(p)
  PROVE  BotInv'
<1> USE DEF BotInv
<1>1. /\ BotTypeOK /\ MaxRuns \in Nat /\ begun \in 0..MaxRuns /\ current \in 0..begun
      /\ putter[p] \in [step : PutterSteps, cfg : Fingerprints \cup {NoHash}]
  BY BotAssumption DEF BotTypeOK
<1>2. CASE \E c \in Fingerprints : PutTelegram(p, c)
  BY <1>1, <1>2 DEF PutTelegram, BotTypeOK, OnlyCurrent, Unborn, AsAligned, BadgeBacked, Working, PutterSteps
<1>3. CASE Look(p)
  BY <1>1, <1>3 DEF Look, GoTo, BotTypeOK, OnlyCurrent, Unborn, AsAligned, BadgeBacked, Working, PutterSteps
<1>4. CASE StopOld(p)
  <2>1. /\ \A n \in 1..MaxRuns : /\ instances'[n].phase = instances[n].phase
                                 /\ instances'[n].cfg = instances[n].cfg
                                 /\ instances'[n] \in [cfg : BotConfigs \cup {NoHash}, cancelled : BOOLEAN, phase : Phases]
        /\ instances' \in [1..MaxRuns -> [cfg : BotConfigs \cup {NoHash}, cancelled : BOOLEAN, phase : Phases]]
    <3>1. CASE UNCHANGED instances
      BY <1>1, <3>1 DEF BotTypeOK
    <3>2. CASE instances' = [n \in 1..MaxRuns |->
                 IF n = current THEN [instances[n] EXCEPT !.cancelled = TRUE] ELSE instances[n]]
      <4>1. \A n \in 1..MaxRuns :
              instances[n] \in [cfg : BotConfigs \cup {NoHash}, cancelled : BOOLEAN, phase : Phases]
        BY <1>1 DEF BotTypeOK
      <4>2. \A n \in 1..MaxRuns :
              /\ [instances[n] EXCEPT !.cancelled = TRUE].phase = instances[n].phase
              /\ [instances[n] EXCEPT !.cancelled = TRUE].cfg = instances[n].cfg
              /\ [instances[n] EXCEPT !.cancelled = TRUE]
                   \in [cfg : BotConfigs \cup {NoHash}, cancelled : BOOLEAN, phase : Phases]
        BY <4>1
      <4>3. \A n \in 1..MaxRuns :
              instances'[n] = [instances[n] EXCEPT !.cancelled = TRUE] \/ instances'[n] = instances[n]
        BY <3>2
      <4>4. QED
        BY <3>2, <4>1, <4>2, <4>3
    <3>3. QED
      BY <1>4, <3>1, <3>2 DEF StopOld
  <2>2. putter' \in [Putters -> [step : PutterSteps, cfg : Fingerprints \cup {NoHash}]]
    BY <1>1, <1>4 DEF StopOld, GoTo, BotTypeOK, PutterSteps
  <2>3. UNCHANGED <<saved, botHash, botStatus, current, begun, saves>>
    BY <1>4 DEF StopOld
  <2>4. QED
    BY <1>1, <2>1, <2>2, <2>3 DEF BotTypeOK, OnlyCurrent, Unborn, AsAligned, BadgeBacked, Working
<1>5. CASE StartNew(p)
  <2> DEFINE c == putter[p].cfg
  <2>1. /\ Over(current) /\ botHash' = c /\ UNCHANGED <<saved, saves>>
        /\ putter' = [putter EXCEPT ![p].step = "idle"] /\ putter[p].step = "wait"
    BY <1>5 DEF StartNew, GoTo
  <2>2. \A n \in 1..MaxRuns : ~Working(n)
    BY <1>1, <2>1 DEF Over, OnlyCurrent, Working
  <2>3. botStatus # "running"
    BY <1>1, <2>1 DEF Over, BadgeBacked
  <2>4. putter' \in [Putters -> [step : PutterSteps, cfg : Fingerprints \cup {NoHash}]]
    BY <1>1, <2>1 DEF BotTypeOK, PutterSteps
  <2>5. CASE c = Disabled
    BY <1>1, <1>5, <2>1, <2>2, <2>4, <2>5, BotAssumption
       DEF StartNew, BotTypeOK, OnlyCurrent, Unborn, AsAligned, BadgeBacked, Working, Fingerprints
  <2>6. CASE c # Disabled
    <3>1. /\ begun + 1 \in 1..MaxRuns /\ begun' = begun + 1 /\ current' = begun + 1
          /\ instances' = [instances EXCEPT ![begun + 1] = [cfg |-> c, cancelled |-> FALSE, phase |-> "new"]]
          /\ botStatus' = botStatus
      BY <1>1, <1>5, <2>6 DEF StartNew
    <3>2. c \in BotConfigs \cup {NoHash}
      BY <1>1, <2>6 DEF Fingerprints
    <3>3. /\ instances'[begun + 1] = [cfg |-> c, cancelled |-> FALSE, phase |-> "new"]
          /\ \A n \in 1..MaxRuns : n # begun + 1 => instances'[n] = instances[n]
      BY <1>1, <3>1 DEF BotTypeOK
    <3>4. BotTypeOK'
      BY <1>1, <2>1, <2>4, <3>1, <3>2 DEF BotTypeOK, Phases, Fingerprints
    <3>5. OnlyCurrent' /\ Unborn'
      BY <1>1, <2>2, <3>1, <3>3 DEF OnlyCurrent, Unborn, Working
    <3>6. AsAligned' /\ BadgeBacked'
      BY <1>1, <2>1, <2>3, <3>1, <3>3 DEF AsAligned, BadgeBacked
    <3>7. QED
      BY <3>4, <3>5, <3>6
  <2>7. QED
    BY <2>5, <2>6
<1>6. QED
  BY <1>2, <1>3, <1>4, <1>5

(* So does each step of an instance: it is the current one while it works.  *)
LEMMA InstanceStep ==
  ASSUME BotInv, NEW n \in 1..MaxRuns, Build(n) \/ GetMe(n) \/ Announce(n) \/ Leave(n)
  PROVE  BotInv'
<1> USE DEF BotInv
<1>1. /\ BotTypeOK /\ MaxRuns \in Nat
      /\ instances[n] \in [cfg : BotConfigs \cup {NoHash}, cancelled : BOOLEAN, phase : Phases]
  BY BotAssumption DEF BotTypeOK
<1>2. /\ Working(n)
      /\ UNCHANGED <<saved, putter, botHash, current, begun, saves>>
  BY DEF Build, GetMe, Announce, Leave, Working
<1>3. PICK p \in Phases : Enter(n, p)
  BY DEF Build, GetMe, Announce, Leave, Phases
<1>4. /\ n = current /\ n # 0 /\ n \in 1..begun
  BY <1>1, <1>2 DEF OnlyCurrent, BotTypeOK
<1>5. /\ instances'[n] = [instances[n] EXCEPT !.phase = p]
      /\ \A m \in 1..MaxRuns : m # n => instances'[m] = instances[m]
      /\ instances' \in [1..MaxRuns -> [cfg : BotConfigs \cup {NoHash}, cancelled : BOOLEAN, phase : Phases]]
  BY <1>1, <1>3 DEF Enter, BotTypeOK
<1>6. botStatus' \in {"running", "stopped", "error"}
  BY <1>1 DEF Build, GetMe, Announce, Leave, BotTypeOK
<1>7. BotTypeOK' /\ OnlyCurrent' /\ Unborn' /\ AsAligned'
  BY <1>1, <1>2, <1>4, <1>5, <1>6 DEF BotTypeOK, OnlyCurrent, Unborn, AsAligned, Working
<1>8. BadgeBacked'
  <2>1. CASE Announce(n)
    <3>1. instances' = [instances EXCEPT ![n].phase = "polling"]
      BY <2>1 DEF Announce, Enter
    <3>2. instances'[n].phase = "polling"
      BY <1>1, <3>1 DEF BotTypeOK
    <3>3. QED
      BY <1>2, <1>4, <3>2 DEF BadgeBacked
  <2>2. CASE Build(n) \/ GetMe(n) \/ Leave(n)
    <3>1. botStatus' # "running"
      BY <1>4, <2>2 DEF Build, GetMe, Leave, BadgeBacked
    <3>2. QED
      BY <3>1 DEF BadgeBacked
  <2>3. QED
    BY <2>1, <2>2
<1>9. QED
  BY <1>7, <1>8

(* Two instances never run at once, and the badge never lies (manager.go    *)
(* Reconcile, run), however the saves interleave.                           *)
THEOREM NeverTwoPollers == BotSpec => []OnePoller
<1>1. BotInv /\ [BotNext]_botVars => BotInv'
  <2>1. CASE UNCHANGED botVars
    BY <2>1 DEF botVars, BotInv, BotTypeOK, OnlyCurrent, Unborn, AsAligned, BadgeBacked, Working
  <2>2. QED
    BY <2>1, PutterStep, InstanceStep DEF BotNext
<1>2. BotInv => OnePoller
  BY DEF BotInv, OnlyCurrent, AsAligned, BadgeBacked, OnePoller
<1>3. QED
  BY InitBot, <1>1, <1>2, PTL DEF BotSpec

-----------------------------------------------------------------------------
(* McpManager                                                               *)

EntryType == [conf : McpConfs \cup {Off}, status : {"stopped", "running", "error"},
              sess : 0..MaxSessions, cmd : 0..MaxSessions, locked : BOOLEAN,
              ending : {"no", "due", "closing", "over"}, last : 0..MaxSessions]

ChatType == [step : {"idle", "ensure", "start", "dial", "gather", "talk", "call"},
             conf : McpConfs \cup {Off}, entry : 0..MaxEntries, sess : 0..MaxSessions]

SessionType == [entry : 0..MaxEntries, state : {"unborn", "open", "dead", "closed"}, watched : BOOLEAN]

McpTypeOK ==
  /\ mcpConf \in McpConfs \cup {Off}
  /\ made \in 0..MaxEntries /\ registry \in 0..made
  /\ entries \in [McpEntries -> EntryType]
  /\ dialled \in 0..MaxSessions
  /\ chats \in [Chats -> ChatType]
  /\ savers \in [Savers -> [step : {"idle", "reconcile"}, conf : McpConfs \cup {Off}]]
  /\ sessions \in [Sessions -> SessionType]

(* Only a running entry has a session, and none before it was made.         *)
Backed == \A e \in McpEntries : entries[e].sess # 0 => entries[e].status = "running" /\ e <= made

(* Whoever starts an entry has its lock to itself until the handshake ends, *)
(* and finds no session there.                                              *)
Starting ==
  /\ \A k \in Chats : chats[k].step \in {"start", "dial"} => chats[k].entry \in 1..made
  /\ \A k \in Chats : chats[k].step = "dial" =>
       entries[chats[k].entry].locked /\ entries[chats[k].entry].sess = 0
  /\ \A k, l \in Chats :
       chats[k].step = "dial" /\ chats[l].step = "dial" /\ chats[k].entry = chats[l].entry => k = l

(* So has a shutdown.                                                       *)
Stopping ==
  \A e \in McpEntries : entries[e].ending = "closing" =>
    /\ entries[e].locked
    /\ \A k \in Chats : chats[k].step = "dial" => chats[k].entry # e

McpInv == McpTypeOK /\ Backed /\ Starting /\ Stopping

(* Nothing has been started yet.                                            *)
LEMMA InitMcp == McpInit => McpInv
  BY McpAssumption
     DEF McpInit, McpInv, McpTypeOK, Backed, Starting, Stopping, NewEntry, QuietChat, EntryType, ChatType, SessionType,
         McpEntries, Sessions

(* What a step may do to the session of an entry (the property, of one step) *)
KeepsLive ==
  \A e \in McpEntries : LET s == entries[e].sess IN
    s # 0 /\ sessions[s].state = "open" /\ entries'[e].sess # s =>
      \/ entries'[e].ending = "closing"
      \/ \E k \in Chats : chats[k].step = "call" /\ chats[k].sess = s /\ chats'[k].step # "call"

(* A step that leaves the entries alone and lets no chat begin to start one. *)
LEMMA EntriesRest ==
  ASSUME McpInv, McpTypeOK', UNCHANGED <<entries, made>>,
         \A k \in Chats : chats'[k].step \in {"start", "dial"} =>
           chats'[k].step = chats[k].step /\ chats'[k].entry = chats[k].entry
  PROVE  McpInv' /\ KeepsLive
<1>1. Backed' /\ Stopping'
  BY DEF McpInv, McpTypeOK, Backed, Stopping
<1>2. Starting'
  BY DEF McpInv, McpTypeOK, Starting
<1>3. KeepsLive
  BY DEF KeepsLive
<1>4. QED
  BY <1>1, <1>2, <1>3 DEF McpInv

(* Saves, and the registry's entry given up.                                *)
LEMMA SaverStep ==
  ASSUME McpInv, NEW h \in Savers, ReconcileMcp(h) \/ \E c \in McpConfs \cup {Off} : SaveMcp(h, c)
  PROVE  McpInv' /\ KeepsLive
<1> USE DEF McpInv
<1>1. CASE \E c \in McpConfs \cup {Off} : SaveMcp(h, c)
  <2>1. McpTypeOK'
    BY <1>1 DEF SaveMcp, McpTypeOK
  <2>2. QED
    BY <1>1, <2>1, EntriesRest DEF SaveMcp
<1>2. CASE ReconcileMcp(h)
  <2>1. /\ registry \in 0..made /\ made \in 0..MaxEntries /\ MaxEntries \in Nat
        /\ savers[h] \in [step : {"idle", "reconcile"}, conf : McpConfs \cup {Off}]
    BY McpAssumption DEF McpTypeOK
  <2>2. CASE UNCHANGED <<registry, entries>>
    <3>1. McpTypeOK'
      BY <1>2, <2>2 DEF ReconcileMcp, McpTypeOK
    <3>2. QED
      BY <1>2, <2>2, <3>1, EntriesRest DEF ReconcileMcp
  <2>3. CASE registry # 0 /\ registry' = 0 /\ entries' = [entries EXCEPT ![registry].ending = "due"]
    <3>1. /\ entries[registry] \in EntryType
          /\ \A e \in McpEntries : /\ entries'[e].sess = entries[e].sess
                                   /\ entries'[e].status = entries[e].status
                                   /\ entries'[e].locked = entries[e].locked
                                   /\ entries'[e].ending \in {entries[e].ending, "due"}
          /\ entries' \in [McpEntries -> EntryType]
      <4> DEFINE r == [entries[registry] EXCEPT !.ending = "due"]
      <4>1. registry \in McpEntries /\ entries[registry] \in EntryType
        BY <2>1, <2>3 DEF McpTypeOK, McpEntries
      <4>2. /\ r \in EntryType /\ r.sess = entries[registry].sess /\ r.status = entries[registry].status
            /\ r.locked = entries[registry].locked /\ r.ending = "due"
        BY <4>1 DEF EntryType
      <4>3. \A e \in McpEntries : entries'[e] = IF e = registry THEN r ELSE entries[e]
        BY <2>3 DEF McpTypeOK
      <4>4. \A e \in McpEntries : entries[e] \in EntryType
        BY DEF McpTypeOK
      <4> HIDE DEF r
      <4>5. \A e \in McpEntries : entries'[e] \in EntryType
        BY <4>2, <4>3, <4>4
      <4>6. entries' \in [McpEntries -> EntryType]
        BY <2>3, <4>5 DEF McpTypeOK
      <4>7. QED
        BY <4>1, <4>2, <4>3, <4>6
    <3>2. McpTypeOK'
      BY <1>2, <2>1, <2>3, <3>1 DEF ReconcileMcp, McpTypeOK
    <3>3. Backed' /\ Starting' /\ Stopping'
      <4>1. UNCHANGED <<made, chats>>
        BY <1>2 DEF ReconcileMcp
      <4>2. Backed'
        BY <3>1, <4>1 DEF Backed
      <4>3. \A k \in Chats : chats[k].step = "dial" => chats[k].entry \in McpEntries
        BY <2>1 DEF Starting, McpEntries
      <4>4. Starting'
        BY <3>1, <4>1, <4>3 DEF Starting
      <4>5. Stopping'
        BY <3>1, <4>1 DEF Stopping
      <4>6. QED
        BY <4>2, <4>4, <4>5
    <3>4. KeepsLive
      BY <3>1 DEF KeepsLive
    <3>5. QED
      BY <3>2, <3>3, <3>4
  <2>4. QED
    BY <1>2, <2>2, <2>3 DEF ReconcileMcp
<1>3. QED
  BY <1>1, <1>2

(* The steps of a chat that only change the chat.                           *)
LEMMA TalkStep ==
  ASSUME McpInv, NEW k \in Chats, BeginChat(k) \/ Gather(k) \/ EndChat(k) \/ BeginCall(k) \/ CallAnswered(k)
  PROVE  McpInv' /\ KeepsLive
<1>1. /\ UNCHANGED <<mcpConf, registry, entries, made, sessions, dialled, savers>>
      /\ \A l \in Chats : l # k => chats'[l] = chats[l]
      /\ chats'[k].step \in {"ensure", "talk", "idle", "call"}
      /\ chats' \in [Chats -> ChatType]
  <2>1. /\ McpTypeOK /\ MaxEntries \in Nat /\ MaxSessions \in Nat /\ Off \notin McpConfs
        /\ chats[k] \in ChatType
    BY McpAssumption DEF McpInv, McpTypeOK
  <2>2. CASE BeginChat(k)
    <3> DEFINE r == [QuietChat EXCEPT !.step = "ensure", !.conf = mcpConf]
    <3>1. r \in ChatType /\ r.step = "ensure"
      <4>1. QuietChat \in ChatType /\ mcpConf \in McpConfs \cup {Off}
        BY <2>1 DEF QuietChat, McpTypeOK, ChatType
      <4>2. QED
        BY <4>1 DEF ChatType
    <3>2. chats' = [chats EXCEPT ![k] = r]
      BY <2>2 DEF BeginChat
    <3> HIDE DEF r
    <3>3. QED
      BY <2>1, <2>2, <3>1, <3>2 DEF BeginChat, McpTypeOK
  <2>3. CASE Gather(k)
    BY <2>1, <2>3 DEF Gather, ChatStep, McpTypeOK, ChatType
  <2>4. CASE EndChat(k)
    BY <2>1, <2>4 DEF EndChat, ChatStep, McpTypeOK, ChatType
  <2>5. CASE BeginCall(k)
    <3>1. registry \in McpEntries /\ registry \in 0..MaxEntries /\ entries[registry] \in EntryType
      BY <2>1, <2>5 DEF BeginCall, McpTypeOK, McpEntries
    <3>2. entries[registry].sess \in 0..MaxSessions
      BY <3>1 DEF EntryType
    <3>3. QED
      BY <2>1, <2>5, <3>1, <3>2 DEF BeginCall, McpTypeOK, ChatType
  <2>6. CASE CallAnswered(k)
    BY <2>1, <2>6 DEF CallAnswered, ChatStep, McpTypeOK, ChatType
  <2>7. QED
    BY <2>2, <2>3, <2>4, <2>5, <2>6
<1>2. McpTypeOK'
  BY <1>1 DEF McpInv, McpTypeOK
<1>3. QED
  BY <1>1, <1>2, EntriesRest

(* EnsureStarted: the chat is to start the entry it found or made.          *)
LEMMA EnsureStep ==
  ASSUME McpInv, NEW k \in Chats, EnsureKnown(k) \/ EnsureNew(k)
  PROVE  McpInv' /\ KeepsLive
<1> USE DEF McpInv
<1>1. /\ McpTypeOK /\ MaxEntries \in Nat /\ made \in 0..MaxEntries /\ registry \in 0..made
      /\ chats[k] \in ChatType /\ chats[k].conf \in McpConfs \cup {Off}
  BY McpAssumption DEF McpTypeOK, ChatType
<1>2. CASE EnsureKnown(k)
  <2>1. /\ registry \in 1..made
        /\ \A l \in Chats : l # k => chats'[l] = chats[l]
        /\ chats'[k].step \in {"gather", "start"} /\ chats'[k].entry = registry
        /\ chats' \in [Chats -> ChatType]
    <3> DEFINE r == [chats[k] EXCEPT !.entry = registry,
                       !.step = IF entries[registry].status = "running" THEN "gather" ELSE "start"]
    <3>1. registry \in 1..made /\ registry \in 0..MaxEntries
      BY <1>1, <1>2 DEF EnsureKnown, Fitting
    <3>2. r \in ChatType /\ r.step \in {"gather", "start"} /\ r.entry = registry
      BY <1>1, <3>1 DEF ChatType
    <3>3. chats' = [chats EXCEPT ![k] = r]
      BY <1>2 DEF EnsureKnown
    <3> HIDE DEF r
    <3>4. QED
      BY <1>1, <3>1, <3>2, <3>3 DEF McpTypeOK
  <2>2. UNCHANGED <<mcpConf, registry, entries, made, sessions, dialled, savers, moves>>
    BY <1>2 DEF EnsureKnown
  <2>3. McpTypeOK'
    BY <2>1, <2>2 DEF McpTypeOK
  <2>4. Backed' /\ Starting' /\ Stopping' /\ KeepsLive
    BY <2>1, <2>2 DEF McpTypeOK, Backed, Starting, Stopping, KeepsLive
  <2>5. QED
    BY <2>3, <2>4
<1>3. CASE EnsureNew(k)
  <2>1. /\ made' = made + 1 /\ registry' = made + 1 /\ made + 1 \in McpEntries
        /\ UNCHANGED <<mcpConf, sessions, dialled, savers>>
    BY <1>1, <1>3 DEF EnsureNew, McpEntries
  <2>2. /\ \A l \in Chats : l # k => chats'[l] = chats[l]
        /\ chats'[k].step = "start" /\ chats'[k].entry = made + 1
        /\ chats' \in [Chats -> ChatType]
    <3> DEFINE r == [chats[k] EXCEPT !.step = "start", !.entry = made + 1]
    <3>1. r \in ChatType /\ r.step = "start" /\ r.entry = made + 1
      <4>1. made + 1 \in 0..MaxEntries
        BY <1>1, <2>1 DEF McpEntries
      <4>2. QED
        BY <1>1, <4>1 DEF ChatType
    <3>2. chats' = [chats EXCEPT ![k] = r]
      BY <1>3 DEF EnsureNew
    <3> HIDE DEF r
    <3>3. QED
      BY <1>1, <3>1, <3>2 DEF McpTypeOK
  <2>3. /\ entries'[made + 1] = NewEntry(chats[k].conf)
        /\ \A e \in McpEntries : e # made + 1 =>
             /\ entries'[e].sess = entries[e].sess
             /\ entries'[e].status = entries[e].status
             /\ entries'[e].locked = entries[e].locked
             /\ entries'[e].ending \in {entries[e].ending, "due"}
             /\ entries'[e] \in EntryType
    <3>1. \A e \in McpEntries :
            entries'[e] = IF e = made + 1 THEN NewEntry(chats[k].conf)
                          ELSE IF e = registry THEN [entries[e] EXCEPT !.ending = "due"] ELSE entries[e]
      BY <1>3 DEF EnsureNew
    <3>2. \A e \in McpEntries : LET r == [entries[e] EXCEPT !.ending = "due"] IN
            /\ entries[e] \in EntryType /\ r \in EntryType /\ r.sess = entries[e].sess
            /\ r.status = entries[e].status /\ r.locked = entries[e].locked /\ r.ending = "due"
      BY <1>1 DEF McpTypeOK, EntryType
    <3>3. QED
      BY <2>1, <3>1, <3>2
  <2>4. /\ NewEntry(chats[k].conf) \in EntryType
        /\ NewEntry(chats[k].conf).sess = 0 /\ NewEntry(chats[k].conf).ending = "no"
    BY <1>1, McpAssumption DEF NewEntry, EntryType
  <2>5. entries' \in [McpEntries -> EntryType]
    BY <1>3, <2>3, <2>4 DEF EnsureNew
  <2>6. McpTypeOK'
    BY <1>1, <2>1, <2>2, <2>5 DEF McpTypeOK, McpEntries
  <2>7. entries[made + 1].sess = 0
    BY <1>1, <2>1 DEF Backed
  <2>8. Backed'
    BY <1>1, <2>1, <2>3, <2>4 DEF Backed, McpEntries
  <2>9. Starting'
    <3>1. \A l \in Chats : chats'[l].step = "dial" =>
            l # k /\ chats'[l] = chats[l] /\ chats[l].entry \in 1..made /\ chats[l].entry # made + 1
      BY <1>1, <2>2 DEF Starting
    <3>2. \A l \in Chats : chats'[l].step \in {"start", "dial"} => chats'[l].entry \in 1..made'
      BY <1>1, <2>1, <2>2 DEF Starting
    <3>3. QED
      BY <1>1, <2>1, <2>3, <3>1, <3>2 DEF Starting, McpEntries
  <2>10. Stopping'
    BY <1>1, <2>2, <2>3, <2>4 DEF Stopping, McpEntries
  <2>11. KeepsLive
    BY <2>3, <2>7 DEF KeepsLive
  <2>12. QED
    BY <2>6, <2>8, <2>9, <2>10, <2>11
<1>4. QED
  BY <1>2, <1>3

(* The lock of the entry, the handshake, and the session stored at its end. *)
LEMMA StartStep ==
  ASSUME McpInv, NEW k \in Chats, Start(k) \/ Dialed(k)
  PROVE  McpInv' /\ KeepsLive
<1> USE DEF McpInv
<1> DEFINE e == chats[k].entry
<1>1. /\ McpTypeOK /\ MaxEntries \in Nat /\ MaxSessions \in Nat /\ made \in 0..MaxEntries
      /\ dialled \in 0..MaxSessions /\ chats[k] \in ChatType
      /\ \A f \in McpEntries : entries[f] \in EntryType
  BY McpAssumption DEF McpTypeOK
<1>2. /\ e \in 1..made /\ e \in McpEntries
      /\ UNCHANGED <<mcpConf, registry, made, savers>>
  BY <1>1 DEF Start, Dialed, Starting, McpEntries
<1>3. entries[e] \in EntryType /\ entries[e].ending \in {"no", "due", "closing", "over"}
  BY <1>1, <1>2 DEF EntryType
<1>4. ASSUME ChatStep(k, "gather")
      PROVE  /\ chats' \in [Chats -> ChatType] /\ chats'[k].step = "gather"
             /\ \A l \in Chats : l # k => chats'[l] = chats[l]
  <2> DEFINE r == [chats[k] EXCEPT !.step = "gather"]
  <2>1. r \in ChatType /\ r.step = "gather" /\ chats' = [chats EXCEPT ![k] = r]
    BY <1>1, <1>4 DEF ChatStep, ChatType
  <2> HIDE DEF r
  <2>2. QED
    BY <1>1, <2>1 DEF McpTypeOK
<1>5. CASE Start(k)
  <2>1. chats[k].step = "start" /\ entries[e].locked = FALSE /\ entries[e].ending # "closing"
    BY <1>2, <1>3, <1>5 DEF Start, Stopping, EntryType
  <2>2. CASE ChatStep(k, "gather") /\ UNCHANGED <<entries, sessions, dialled>>
    <3>1. McpTypeOK'
      BY <1>1, <1>2, <1>4, <2>2 DEF McpTypeOK
    <3>2. QED
      BY <1>2, <1>4, <2>2, <3>1, EntriesRest
  <2>3. CASE /\ entries[e].status # "running"
             /\ entries' = [entries EXCEPT ![e] = [@ EXCEPT !.status = "error", !.cmd = 0]]
             /\ ChatStep(k, "gather") /\ UNCHANGED <<sessions, dialled>>
    <3> DEFINE r == [entries[e] EXCEPT !.status = "error", !.cmd = 0]
    <3>1. /\ r \in EntryType /\ r.sess = entries[e].sess /\ r.locked = entries[e].locked
          /\ r.ending = entries[e].ending
      <4>1. 0 \in 0..MaxSessions
        BY <1>1
      <4>2. QED
        BY <1>3, <4>1 DEF EntryType
    <3>2. entries' = [entries EXCEPT ![e] = r]
      BY <2>3
    <3> HIDE DEF r, e
    <3>3. entries' \in [McpEntries -> EntryType] /\ entries'[e] = r
          /\ \A f \in McpEntries : f # e => entries'[f] = entries[f]
      BY <1>1, <1>2, <3>1, <3>2 DEF McpTypeOK
    <3>4. McpTypeOK'
      BY <1>1, <1>2, <1>4, <2>3, <3>3 DEF McpTypeOK
    <3>5. entries[e].sess = 0
      BY <1>2, <2>3 DEF Backed
    <3>6. Backed'
      BY <1>2, <3>1, <3>3, <3>5 DEF Backed
    <3>7. \A l \in Chats : chats[l].step = "dial" => chats[l].entry \in McpEntries
      BY <1>1 DEF Starting, McpEntries
    <3>8. Starting'
      BY <1>2, <1>4, <2>3, <3>1, <3>3, <3>7 DEF Starting
    <3>9. Stopping'
      BY <1>4, <2>3, <3>1, <3>3 DEF Stopping
    <3>10. KeepsLive
      BY <3>1, <3>3 DEF KeepsLive
    <3>11. QED
      BY <3>4, <3>6, <3>8, <3>9, <3>10
  <2>4. CASE /\ entries[e].status # "running" /\ dialled < MaxSessions
             /\ dialled' = dialled + 1
             /\ sessions' = [sessions EXCEPT ![dialled + 1] = [entry |-> e, state |-> "open", watched |-> FALSE]]
             /\ entries' = [entries EXCEPT ![e] = [@ EXCEPT !.locked = TRUE, !.cmd = dialled + 1]]
             /\ chats' = [chats EXCEPT ![k] = [@ EXCEPT !.step = "dial", !.sess = dialled + 1]]
    <3> DEFINE r == [entries[e] EXCEPT !.locked = TRUE, !.cmd = dialled + 1]
               c == [chats[k] EXCEPT !.step = "dial", !.sess = dialled + 1]
    <3>1. dialled + 1 \in 0..MaxSessions /\ e \in 0..MaxEntries
      BY <1>1, <1>2, <2>4
    <3>2. /\ r \in EntryType /\ r.sess = entries[e].sess /\ r.locked = TRUE
          /\ r.ending = entries[e].ending /\ r.status = entries[e].status
      BY <1>1, <1>3, <3>1 DEF EntryType
    <3>3. c \in ChatType /\ c.step = "dial" /\ c.entry = e
      BY <1>1, <3>1 DEF ChatType
    <3>4. entries' = [entries EXCEPT ![e] = r] /\ chats' = [chats EXCEPT ![k] = c]
      BY <2>4
    <3> HIDE DEF r, c, e
    <3>5. entries' \in [McpEntries -> EntryType] /\ entries'[e] = r
          /\ \A f \in McpEntries : f # e => entries'[f] = entries[f]
      BY <1>1, <1>2, <3>2, <3>4 DEF McpTypeOK
    <3>6. chats' \in [Chats -> ChatType] /\ chats'[k] = c
          /\ \A l \in Chats : l # k => chats'[l] = chats[l]
      BY <1>1, <3>3, <3>4 DEF McpTypeOK
    <3>7. sessions' \in [Sessions -> SessionType]
      BY <1>1, <2>4, <3>1 DEF McpTypeOK, SessionType
    <3>8. McpTypeOK'
      BY <1>1, <1>2, <2>4, <3>1, <3>5, <3>6, <3>7 DEF McpTypeOK
    <3>9. entries[e].sess = 0
      BY <1>2, <2>4 DEF Backed
    <3>10. Backed'
      BY <1>2, <3>2, <3>5, <3>9 DEF Backed
    <3>11. \A l \in Chats : chats[l].step = "dial" => chats[l].entry \in McpEntries /\ chats[l].entry # e
      BY <1>1, <2>1 DEF Starting, McpEntries, e
    <3>12. Starting'
      BY <1>2, <3>2, <3>3, <3>5, <3>6, <3>9, <3>11 DEF Starting
    <3>13. Stopping'
      BY <2>1, <3>2, <3>3, <3>5, <3>6 DEF Stopping, e
    <3>14. KeepsLive
      BY <3>2, <3>5 DEF KeepsLive
    <3>15. QED
      BY <3>8, <3>10, <3>12, <3>13, <3>14
  <2>5. QED
    BY <1>5, <2>2, <2>3, <2>4 DEF Start
<1>6. CASE Dialed(k)
  <2> DEFINE s == chats[k].sess
  <2>1. /\ chats[k].step = "dial" /\ ChatStep(k, "gather") /\ UNCHANGED dialled
        /\ entries[e].sess = 0 /\ entries[e].ending # "closing" /\ s \in 0..MaxSessions
    BY <1>1, <1>2, <1>6 DEF Dialed, Starting, Stopping, ChatType
  <2>2. PICK r \in EntryType :
          /\ entries' = [entries EXCEPT ![e] = r]
          /\ r.sess # 0 => r.status = "running"
          /\ r.ending = entries[e].ending
    <3>1. CASE entries' = [entries EXCEPT ![e] = [@ EXCEPT !.locked = FALSE, !.sess = s, !.status = "running"]]
      <4>1. LET r == [entries[e] EXCEPT !.locked = FALSE, !.sess = s, !.status = "running"] IN
              r \in EntryType /\ r.status = "running" /\ r.ending = entries[e].ending
        BY <1>3, <2>1 DEF EntryType
      <4>2. QED
        BY <3>1, <4>1
    <3>2. CASE entries' = [entries EXCEPT ![e] = [@ EXCEPT !.locked = FALSE, !.status = "error"]]
      <4>1. LET r == [entries[e] EXCEPT !.locked = FALSE, !.status = "error"] IN
              r \in EntryType /\ r.sess = entries[e].sess /\ r.ending = entries[e].ending
        BY <1>3 DEF EntryType
      <4>2. QED
        BY <2>1, <3>2, <4>1
    <3>3. QED
      BY <1>6, <3>1, <3>2 DEF Dialed
  <2>3. sessions' \in [Sessions -> SessionType]
    <3>1. sessions' = [sessions EXCEPT ![s].watched = TRUE] \/ sessions' = [sessions EXCEPT ![s].state = "closed"]
      BY <1>6 DEF Dialed
    <3>2. \A x \in Sessions : sessions[x] \in SessionType
      BY <1>1 DEF McpTypeOK
    <3>3. \A x \in Sessions : /\ [sessions[x] EXCEPT !.watched = TRUE] \in SessionType
                             /\ [sessions[x] EXCEPT !.state = "closed"] \in SessionType
      BY <3>2 DEF SessionType
    <3> HIDE DEF s
    <3>4. sessions \in [Sessions -> SessionType]
      BY <1>1 DEF McpTypeOK
    <3>5. CASE sessions' = [sessions EXCEPT ![s].watched = TRUE]
      <4>1. \A x \in Sessions : sessions'[x] \in {sessions[x], [sessions[x] EXCEPT !.watched = TRUE]}
        BY <3>4, <3>5
      <4>2. \A x \in Sessions : sessions'[x] \in SessionType
        BY <3>2, <3>3, <4>1
      <4>3. QED
        BY <3>4, <3>5, <4>2
    <3>6. CASE sessions' = [sessions EXCEPT ![s].state = "closed"]
      <4>1. \A x \in Sessions : sessions'[x] \in {sessions[x], [sessions[x] EXCEPT !.state = "closed"]}
        BY <3>4, <3>6
      <4>2. \A x \in Sessions : sessions'[x] \in SessionType
        BY <3>2, <3>3, <4>1
      <4>3. QED
        BY <3>4, <3>6, <4>2
    <3>7. QED
      BY <3>1, <3>5, <3>6
  <2> HIDE DEF e, s
  <2>4. entries' \in [McpEntries -> EntryType] /\ entries'[e] = r
        /\ \A f \in McpEntries : f # e => entries'[f] = entries[f]
    BY <1>1, <1>2, <2>2 DEF McpTypeOK
  <2>5. McpTypeOK'
    BY <1>1, <1>2, <1>4, <2>1, <2>3, <2>4 DEF McpTypeOK
  <2>6. Backed'
    <3>1. e <= made
      BY <1>1, <1>2
    <3>2. QED
      BY <1>2, <2>2, <2>4, <3>1 DEF Backed
  <2>7. \A l \in Chats : l # k /\ chats[l].step = "dial" => chats[l].entry \in McpEntries /\ chats[l].entry # e
    BY <1>1, <2>1 DEF Starting, McpEntries, e
  <2>8. Starting'
    BY <1>2, <1>4, <2>1, <2>4, <2>7 DEF Starting
  <2>9. Stopping'
    BY <1>4, <2>1, <2>2, <2>4 DEF Stopping
  <2>10. KeepsLive
    BY <2>1, <2>4 DEF KeepsLive
  <2>11. QED
    BY <2>5, <2>6, <2>8, <2>9, <2>10
<1>7. QED
  BY <1>5, <1>6

(* A call that fails, and the end of a session that its watcher notices:    *)
(* the entry forgets that session and no other.                             *)
LEMMA LossStep ==
  ASSUME McpInv, (\E k \in Chats : CallFails(k)) \/ (\E s \in Sessions : WatchEnds(s) \/ Die(s))
  PROVE  McpInv' /\ KeepsLive
<1> USE DEF McpInv
<1>1. /\ McpTypeOK
      /\ \A e \in McpEntries : entries[e] \in EntryType
      /\ \A s \in Sessions : sessions[s] \in SessionType
  BY DEF McpTypeOK
<1>2. ASSUME NEW f, NEW s, entries' = Lost(f, s)
      PROVE  /\ entries' \in [McpEntries -> EntryType]
             /\ \A e \in McpEntries :
                  /\ entries'[e].locked = entries[e].locked /\ entries'[e].ending = entries[e].ending
                  /\ \/ entries'[e] = entries[e]
                     \/ e = f /\ entries[e].sess = s /\ entries'[e].sess = 0
  <2>1. CASE entries' = entries
    BY <1>1, <2>1 DEF McpTypeOK
  <2>2. CASE /\ entries[f].sess = s
             /\ entries' = [entries EXCEPT ![f] = [@ EXCEPT !.sess = 0, !.status = "error"]]
    <3> DEFINE gone(e) == [entries[e] EXCEPT !.sess = 0, !.status = "error"]
    <3>1. \A e \in McpEntries : /\ gone(e) \in EntryType /\ gone(e).sess = 0
                               /\ gone(e).locked = entries[e].locked /\ gone(e).ending = entries[e].ending
      <4>1. 0 \in 0..MaxSessions
        BY McpAssumption
      <4>2. QED
        BY <1>1, <4>1 DEF EntryType
    <3>2. entries' = [entries EXCEPT ![f] = gone(f)]
      BY <2>2
    <3>3. \A e \in McpEntries : entries'[e] = IF e = f THEN gone(e) ELSE entries[e]
      BY <1>1, <3>2 DEF McpTypeOK
    <3> HIDE DEF gone
    <3>4. \A e \in McpEntries : entries'[e] \in EntryType
      BY <1>1, <3>1, <3>3
    <3>5. entries' \in [McpEntries -> EntryType]
      BY <1>1, <3>2, <3>4 DEF McpTypeOK
    <3>6. \A e \in McpEntries : entries'[e] = entries[e] \/ (e = f /\ entries'[e] = gone(e))
      BY <3>3
    <3>7. QED
      BY <2>2, <3>1, <3>5, <3>6
  <2>3. QED
    BY <1>2, <2>1, <2>2 DEF Lost
<1>3. ASSUME NEW f, NEW s, entries' = Lost(f, s), UNCHANGED made, McpTypeOK',
             \A k \in Chats : chats'[k].step \in {"start", "dial"} => chats'[k] = chats[k]
      PROVE  Backed' /\ Starting' /\ Stopping'
  <2>1. Backed'
    BY <1>2, <1>3 DEF Backed
  <2>2. \A k \in Chats : chats[k].step = "dial" => chats[k].entry \in McpEntries
    BY <1>1, McpAssumption DEF McpTypeOK, Starting, McpEntries
  <2>3. Starting'
    BY <1>2, <1>3, <2>2 DEF Starting
  <2>4. Stopping'
    BY <1>2, <1>3 DEF Stopping
  <2>5. QED
    BY <2>1, <2>3, <2>4
<1>4. ASSUME NEW k \in Chats, CallFails(k) PROVE McpInv' /\ KeepsLive
  <2>1. PICK step \in {"talk", "idle"} : ChatStep(k, step)
    BY <1>4 DEF CallFails
  <2>2. /\ chats[k].step = "call" /\ entries' = Lost(chats[k].entry, chats[k].sess)
        /\ UNCHANGED <<mcpConf, registry, made, sessions, dialled, savers>>
    BY <1>4 DEF CallFails
  <2>3. /\ chats' \in [Chats -> ChatType] /\ chats'[k].step # "call" /\ chats'[k].step \notin {"start", "dial"}
        /\ \A l \in Chats : l # k => chats'[l] = chats[l]
    <3> DEFINE r == [chats[k] EXCEPT !.step = step]
    <3>1. r \in ChatType /\ r.step = step /\ chats' = [chats EXCEPT ![k] = r]
      BY <1>1, <2>1 DEF ChatStep, McpTypeOK, ChatType
    <3> HIDE DEF r
    <3>2. QED
      BY <1>1, <3>1 DEF McpTypeOK
  <2>4. McpTypeOK'
    BY <1>1, <1>2, <2>2, <2>3 DEF McpTypeOK
  <2>5. Backed' /\ Starting' /\ Stopping'
    BY <1>3, <2>2, <2>3, <2>4
  <2>6. KeepsLive
    BY <1>2, <2>2, <2>3 DEF KeepsLive
  <2>7. QED
    BY <2>4, <2>5, <2>6
<1>5. ASSUME NEW s \in Sessions, WatchEnds(s) PROVE McpInv' /\ KeepsLive
  <2>1. /\ sessions[s].state # "open" /\ entries' = Lost(sessions[s].entry, s)
        /\ UNCHANGED <<mcpConf, registry, made, dialled, chats, savers>>
        /\ sessions' = [sessions EXCEPT ![s].watched = FALSE]
    BY <1>5 DEF WatchEnds
  <2>2. sessions' \in [Sessions -> SessionType]
    BY <1>1, <2>1 DEF McpTypeOK, SessionType
  <2>3. McpTypeOK'
    BY <1>1, <1>2, <2>1, <2>2 DEF McpTypeOK
  <2>4. Backed' /\ Starting' /\ Stopping'
    BY <1>3, <2>1, <2>3
  <2>5. KeepsLive
    BY <1>2, <2>1 DEF KeepsLive
  <2>6. QED
    BY <2>3, <2>4, <2>5
<1>6. ASSUME NEW s \in Sessions, Die(s) PROVE McpInv' /\ KeepsLive
  <2>1. sessions' \in [Sessions -> SessionType]
    BY <1>1, <1>6 DEF Die, McpTypeOK, SessionType
  <2>2. McpTypeOK'
    BY <1>1, <1>6, <2>1 DEF Die, McpTypeOK
  <2>3. QED
    BY <1>6, <2>2, EntriesRest DEF Die
<1>7. QED
  BY <1>4, <1>5, <1>6

(* The shutdown of an entry, with the lock of its own.                      *)
LEMMA ShutStep ==
  ASSUME McpInv, NEW e \in McpEntries, ShutDown(e) \/ Close(e)
  PROVE  McpInv' /\ KeepsLive
<1> USE DEF McpInv
<1>1. /\ McpTypeOK /\ entries[e] \in EntryType /\ 0 \in 0..MaxSessions
      /\ \A s \in Sessions : sessions[s] \in SessionType
  BY McpAssumption DEF McpTypeOK
<1>2. UNCHANGED <<mcpConf, registry, made, dialled, chats, savers>>
  BY DEF ShutDown, Close
<1>3. PICK r \in EntryType :
        /\ entries' = [entries EXCEPT ![e] = r]
        /\ r.sess \in {0, entries[e].sess}
        /\ r.sess # 0 => r.status = entries[e].status
        /\ r.sess # entries[e].sess => r.ending = "closing"
        /\ r.ending = "closing" => r.locked /\ entries[e].locked = FALSE
  <2>1. CASE ShutDown(e)
    <3>1. LET r == [entries[e] EXCEPT !.locked = TRUE, !.ending = "closing", !.sess = 0,
                                      !.last = entries[e].sess, !.status = "stopped"] IN
            /\ r \in EntryType /\ r.sess = 0 /\ r.ending = "closing" /\ r.locked = TRUE
            /\ entries' = [entries EXCEPT ![e] = r] /\ entries[e].locked = FALSE
      BY <1>1, <2>1 DEF ShutDown, EntryType
    <3>2. QED
      BY <3>1
  <2>2. CASE Close(e)
    <3>1. LET r == [entries[e] EXCEPT !.locked = FALSE, !.ending = "over"] IN
            /\ r \in EntryType /\ r.sess = entries[e].sess /\ r.status = entries[e].status
            /\ r.ending = "over" /\ entries' = [entries EXCEPT ![e] = r]
      BY <1>1, <2>2 DEF Close, EntryType
    <3>2. QED
      BY <3>1
  <2>3. QED
    BY <2>1, <2>2
<1>4. entries' \in [McpEntries -> EntryType] /\ entries'[e] = r
      /\ \A f \in McpEntries : f # e => entries'[f] = entries[f]
  BY <1>1, <1>3 DEF McpTypeOK
<1>5. sessions' \in [Sessions -> SessionType]
  <2>1. CASE ShutDown(e)
    BY <1>1, <2>1 DEF ShutDown, McpTypeOK
  <2>2. CASE Close(e)
    <3>1. \A s \in Sessions : [sessions[s] EXCEPT !.state = "closed"] \in SessionType
      BY <1>1 DEF SessionType
    <3>2. QED
      BY <1>1, <2>2, <3>1 DEF Close
  <2>3. QED
    BY <2>1, <2>2
<1>6. McpTypeOK'
  BY <1>1, <1>2, <1>4, <1>5 DEF McpTypeOK
<1>7. Backed'
  <2>1. ASSUME NEW f \in McpEntries, entries'[f].sess # 0 PROVE entries'[f].status = "running" /\ f <= made
    <3>1. CASE f = e
      <4>1. r.sess = entries[e].sess /\ r.sess # 0 /\ r.status = entries[e].status
        BY <1>3, <1>4, <2>1, <3>1
      <4>2. QED
        BY <1>4, <3>1, <4>1 DEF Backed
    <3>2. CASE f # e
      BY <1>4, <2>1, <3>2 DEF Backed
    <3>3. QED
      BY <3>1, <3>2
  <2>2. QED
    BY <1>2, <2>1 DEF Backed
<1>8. \A k \in Chats : chats[k].step = "dial" =>
        chats[k].entry \in McpEntries /\ (chats[k].entry = e => entries[e].ending # "closing" /\ entries[e].locked)
  BY <1>1, McpAssumption DEF McpTypeOK, Starting, Stopping, McpEntries
<1>9. \A k \in Chats : chats[k].step = "dial" => chats[k].entry # e
  BY <1>1, <1>8 DEF ShutDown, Close, EntryType
<1>10. Starting'
  BY <1>2, <1>4, <1>8, <1>9 DEF Starting
<1>11. Stopping'
  BY <1>2, <1>3, <1>4, <1>9 DEF Stopping
<1>12. KeepsLive
  BY <1>3, <1>4 DEF KeepsLive
<1>13. QED
  BY <1>6, <1>7, <1>10, <1>11, <1>12

LEMMA McpStep == McpInv /\ [McpNext]_mcpVars => McpInv' /\ (KeepsLive \/ UNCHANGED mcpVars)
<1>1. CASE UNCHANGED mcpVars
  BY <1>1 DEF mcpVars, McpInv, McpTypeOK, Backed, Starting, Stopping
<1>2. CASE McpInv /\ McpNext
  BY <1>2, SaverStep, TalkStep, EnsureStep, StartStep, LossStep, ShutStep DEF McpNext
<1>3. QED
  BY <1>1, <1>2

(* manager.go watch and markDead, start, shutdown: however saves, chats,    *)
(* deaths of processes and their discovery interleave, an entry gives up a  *)
(* session that works only for its own shutdown or a failed call on it.     *)
THEOREM NoLiveSessionLost == McpSpec => LiveSessionKept
<1>1. McpInv /\ McpInv' /\ [McpNext]_mcpVars =>
        [\A e \in McpEntries : LET s == entries[e].sess IN
           s # 0 /\ sessions[s].state = "open" /\ entries'[e].sess # s =>
             \/ entries'[e].ending = "closing"
             \/ \E k \in Chats : chats[k].step = "call" /\ chats[k].sess = s /\ chats'[k].step # "call"]_mcpVars
  BY McpStep DEF KeepsLive
<1>2. McpInv /\ [McpNext]_mcpVars => McpInv'
  BY McpStep
<1>3. QED
  BY InitMcp, <1>1, <1>2, PTL DEF McpSpec, LiveSessionKept

-----------------------------------------------------------------------------
(* The requests of a page                                                   *)

(* What the handlers of a page ask the backend for.                         *)
PageOps ==
  [dir      |-> {"info", "root", "children", "candidates"},
   chat     |-> {"status"},
   torrents |-> {"taxonomy", "batch", "delete", "menu"},
   dialogs  |-> {"options", "add", "detail", "trackers", "reload"},
   feeds    |-> FeedOps \cup {"timer"},
   rules    |-> RuleOps,
   settings |-> {"load", "save"},
   ai       |-> {"aiConfig", "saveAi"}]

(* Nothing else is in flight.                                               *)
Only(ops) == \A r \in reqs : IsRequest(r) /\ r.op \in ops

(* The ways a handler changes the requests in flight.                       *)
LEMMA OwnSteps ==
  ASSUME NEW ops, Only(ops)
  PROVE  /\ UNCHANGED reqs => Only(ops)'
         /\ \A op \in ops : \A arg : Asked(op, arg) => Only(ops)'
         /\ \A r : Ended(r) => Only(ops)'
         /\ \A r \in reqs : \A op \in ops : \A arg : Then(r, op, arg) => Only(ops)'
         /\ \A r \in reqs : \A v : Handled(r, v) => Only(ops)'
<1>1. ASSUME UNCHANGED reqs PROVE Only(ops)'
  BY <1>1 DEF Only
<1>2. ASSUME NEW op \in ops, NEW arg, Asked(op, arg) PROVE Only(ops)'
  BY <1>2, RequestMade DEF Only, Asked
<1>3. ASSUME NEW r, Ended(r) PROVE Only(ops)'
  BY <1>3 DEF Only, Ended
<1>4. ASSUME NEW r \in reqs, NEW op \in ops, NEW arg, Then(r, op, arg) PROVE Only(ops)'
  BY <1>4, RequestMade DEF Only, Then
<1>5. ASSUME NEW r \in reqs, NEW v, Handled(r, v) PROVE Only(ops)'
  <2>1. IsRequest(r) /\ r.op \in ops
    BY DEF Only
  <2>2. IsRequest([r EXCEPT !.got = {v}]) /\ [r EXCEPT !.got = {v}].op \in ops
    BY <2>1, Answered
  <2>3. QED
    BY <1>5, <2>2 DEF Only, Handled
<1>6. QED
  BY <1>1, <1>2, <1>3, <1>4, <1>5

(* Or it changes them by hand: some go or are cancelled, and one comes.     *)
LEMMA OwnMade ==
  ASSUME NEW ops, Only(ops), NEW others,
         \A q \in others : q \in reqs \/ \E o : q \in Cancelled(o)
  PROVE  /\ reqs' = others => Only(ops)'
         /\ \A n : \A op \in ops : \A arg : reqs' = others \cup {Request(n, op, arg)} => Only(ops)'
<1>1. \A q \in others : IsRequest(q) /\ q.op \in ops
  <2>1. ASSUME NEW q \in others, q \in reqs PROVE IsRequest(q) /\ q.op \in ops
    BY <2>1 DEF Only
  <2>2. ASSUME NEW q \in others, NEW o, q \in Cancelled(o) PROVE IsRequest(q) /\ q.op \in ops
    <3>1. AreRequests /\ IsRequest(q)
      BY <2>2, CancelledKeeps DEF Only, AreRequests
    <3>2. PICK r \in reqs : q = IF r.op = o THEN [r EXCEPT !.cancelled = TRUE] ELSE r
      BY <2>2 DEF Cancelled
    <3>3. IsRequest(r) /\ r.op \in ops
      BY DEF Only
    <3>4. q.op = r.op
      BY <3>2, <3>3 DEF IsRequest
    <3>5. QED
      BY <3>1, <3>3, <3>4
  <2>3. QED
    BY <2>1, <2>2
<1>2. \A n : \A op \in ops : \A arg : IsRequest(Request(n, op, arg)) /\ Request(n, op, arg).op = op
  BY RequestMade
<1>3. QED
  BY <1>1, <1>2 DEF Only

(* The forms the pages use for it.                                          *)
LEMMA OwnByHand ==
  ASSUME NEW ops, Only(ops)
  PROVE  /\ \A n : \A op \in ops : \A arg : reqs' = reqs \cup {Request(n, op, arg)} => Only(ops)'
         /\ \A r : \A n : \A op \in ops : \A arg : reqs' = (reqs \ {r}) \cup {Request(n, op, arg)} => Only(ops)'
         /\ \A o : reqs' = Cancelled(o) => Only(ops)'
         /\ \A o : \A r : reqs' = Cancelled(o) \ {r} => Only(ops)'
<1>1. ASSUME NEW n, NEW op \in ops, NEW arg, reqs' = reqs \cup {Request(n, op, arg)} PROVE Only(ops)'
  BY <1>1, OwnMade
<1>2. ASSUME NEW r, NEW n, NEW op \in ops, NEW arg, reqs' = (reqs \ {r}) \cup {Request(n, op, arg)} PROVE Only(ops)'
  <2>1. \A q \in reqs \ {r} : q \in reqs \/ \E o : q \in Cancelled(o)
    OBVIOUS
  <2>2. QED
    BY <1>2, <2>1, OwnMade
<1>3. ASSUME NEW o, reqs' = Cancelled(o) PROVE Only(ops)'
  <2>1. \A q \in Cancelled(o) : q \in reqs \/ \E p : q \in Cancelled(p)
    OBVIOUS
  <2>2. QED
    BY <1>3, <2>1, OwnMade
<1>4. ASSUME NEW o, NEW r, reqs' = Cancelled(o) \ {r} PROVE Only(ops)'
  <2>1. \A q \in Cancelled(o) \ {r} : q \in reqs \/ \E p : q \in Cancelled(p)
    OBVIOUS
  <2>2. QED
    BY <1>4, <2>1, OwnMade
<1>5. QED
  BY <1>1, <1>2, <1>3, <1>4

(* The handlers and the answers of each page keep to its own operations.    *)
LEMMA DirOwn ==
  ASSUME Only(PageOps.dir), [DirNext]_<<clicks, reqs, dirVars>>
  PROVE  Only(PageOps.dir)'
<1> DEFINE ops == PageOps.dir
<1>1. ops = {"info", "root", "children", "candidates"}
  BY DEF PageOps
<1> HIDE DEF ops
<1>2. CASE UNCHANGED <<clicks, reqs, dirVars>>
  BY <1>2, OwnSteps DEF ops
<1>3. CASE OpenPicker \/ CancelPicker \/ Relocate \/ HandleOk
  BY <1>1, <1>3, OwnSteps DEF OpenPicker, CancelPicker, Relocate, LoadRoot, HandleOk, ops
<1>4. CASE \/ \E v \in SomePath : TypePath(v)
           \/ \E p \in tree : SelectNode(p) \/ ExpandNode(p)
  BY <1>1, <1>4, OwnSteps DEF TypePath, SelectNode, ExpandNode, ops
<1>5. CASE DirAnswer
  BY <1>1, <1>5, OwnSteps DEF DirAnswer, Waiting, InfoDone, InfoOk, InfoFail, RootDone, RootOk, RootFail,
                              ChildrenDone, CandidatesDone, ops
<1>6. QED
  BY <1>2, <1>3, <1>4, <1>5 DEF DirNext, ops

LEMMA ChatOwn ==
  ASSUME Only(PageOps.chat), [ChatNext]_<<clicks, reqs, chatVars>>
  PROVE  Only(PageOps.chat)'
<1> DEFINE ops == PageOps.chat
<1>1. ops = {"status"}
  BY DEF PageOps
<1> HIDE DEF ops
<1>2. CASE UNCHANGED <<clicks, reqs, chatVars>>
  BY <1>2, OwnSteps DEF ops
<1>3. CASE RefreshStatus \/ Send \/ Abort \/ Clear \/ \E r \in Waiting("status") : StatusDone(r)
  BY <1>1, <1>3, OwnSteps DEF RefreshStatus, Send, Abort, Clear, StatusDone, ops
<1>4. CASE Speak \/ Read \/ SendDone
  BY <1>1, <1>4, OwnSteps DEF Speak, Read, SendDone, ops
<1>5. QED
  BY <1>2, <1>3, <1>4 DEF ChatNext, ops

LEMMA TorOwn ==
  ASSUME Only(PageOps.torrents), [TorNext]_<<clicks, reqs, torVars>>
  PROVE  Only(PageOps.torrents)'
<1> DEFINE ops == PageOps.torrents
<1>1. ops = {"taxonomy", "batch", "delete", "menu"}
  BY DEF PageOps
<1> HIDE DEF ops
<1>2. CASE UNCHANGED <<clicks, reqs, torVars>>
  BY <1>2, OwnSteps DEF ops
<1>3. CASE \E s \in Tabs : SwitchTab(s)
  <2>1. AreRequests /\ Cancelled("taxonomy") \subseteq Cancelled("taxonomy")
    BY DEF ops, Only, AreRequests
  <2>2. TaxonomyOnly
    BY <1>3, <2>1, AskedTaxonomy DEF SwitchTab
  <2>3. QED
    BY <1>1, <2>2 DEF TaxonomyOnly, Only, ops
<1>4. CASE \E r \in Waiting("menu"), ok \in BOOLEAN : MenuDone(r, ok)
  <2>1. PICK r \in Waiting("menu"), ok \in BOOLEAN : MenuDone(r, ok)
    BY <1>4
  <2>2. CASE Ended(r)
    BY <2>2, OwnSteps DEF ops
  <2>3. CASE AskTaxonomy(Cancelled("taxonomy") \ {r}, r.n, active)
    <3>1. AreRequests /\ Cancelled("taxonomy") \ {r} \subseteq Cancelled("taxonomy")
      BY DEF ops, Only, AreRequests
    <3>2. TaxonomyOnly
      BY <2>3, <3>1, AskedTaxonomy
    <3>3. QED
      BY <1>1, <3>2 DEF TaxonomyOnly, Only, ops
  <2>4. QED
    BY <2>1, <2>2, <2>3 DEF MenuDone
<1>5. CASE \/ \E h \in DOMAIN rows : ClickRow(h) \/ RightClick(h)
           \/ \E op \in Batch : PageBatch(op) \/ MenuBatch(op)
           \/ \E op \in Items : MenuItem(op) \/ OpenModal(op)
  BY <1>1, <1>5, OwnSteps DEF ClickRow, RightClick, PageBatch, MenuBatch, HandleBatch, MenuItem, OpenModal, ops
<1>6. CASE SetFilter \/ CloseMenu \/ PageDelete \/ MenuDelete \/ Tick \/ ConfirmOk \/ CancelConfirm
           \/ CloseModal \/ SubmitModal \/ Polled
  BY <1>1, <1>6, OwnSteps DEF SetFilter, CloseMenu, PageDelete, MenuDelete, Tick, ConfirmOk, CancelConfirm,
                              CloseModal,
         SubmitModal, Polled, ops
<1>7. CASE \/ \E q \in Waiting("taxonomy") : TaxonomyDone(q)
           \/ \E q \in Waiting("batch") : BatchDone(q)
           \/ \E q \in Waiting("delete") : DeleteDone(q)
  BY <1>1, <1>7, OwnSteps DEF TaxonomyDone, BatchDone, DeleteDone, ops
<1>8. QED
  BY <1>2, <1>3, <1>4, <1>5, <1>6, <1>7 DEF TorNext, TorAnswer, ops

LEMMA DlgOwn ==
  ASSUME Only(PageOps.dialogs), [DlgNext]_<<clicks, reqs, dlgVars>>
  PROVE  Only(PageOps.dialogs)'
<1> DEFINE ops == PageOps.dialogs
<1>1. ops = {"options", "add", "detail", "trackers", "reload"}
  BY DEF PageOps
<1> HIDE DEF ops
<1>2. CASE UNCHANGED <<clicks, reqs, dlgVars>>
  BY <1>2, OwnSteps DEF ops
<1>3. CASE OpenAdd \/ CancelAdd \/ CloseDrawer \/ \E h \in Details : ViewDetail(h)
  BY <1>1, <1>3, OwnSteps, OwnByHand DEF OpenAdd, CancelAdd, CloseDrawer, ViewDetail, ops
<1>4. CASE \/ FillIn \/ SubmitAdd \/ SelectTrackers \/ CloseBox \/ SubmitTrackers
           \/ \E s \in Tabs : DlgTab(s)
           \/ \E box \in {"add", "edit", "remove"} : OpenBox(box)
  BY <1>1, <1>4, OwnSteps DEF FillIn, SubmitAdd, SelectTrackers, CloseBox, SubmitTrackers, OpenBox, DlgTab, ops
<1>5. CASE DlgAnswer
  BY <1>1, <1>5, OwnSteps, OwnByHand DEF DlgAnswer, OptionsDone, AddDone, DetailDone, TrackersDone, ReloadDone,
                                         Waiting, ops
<1>6. QED
  BY <1>2, <1>3, <1>4, <1>5 DEF DlgNext, ops

LEMMA FeedOwn ==
  ASSUME Only(PageOps.feeds), [FeedNext]_<<clicks, reqs, feedVars>>
  PROVE  Only(PageOps.feeds)'
<1> DEFINE ops == PageOps.feeds
<1>1. ops = {"feeds", "addItem", "move", "removeItem", "markAsRead", "refresh", "timer"}
  BY DEF PageOps, FeedOps
<1> HIDE DEF ops
<1>2. CASE UNCHANGED <<clicks, reqs, feedVars>>
  BY <1>2, OwnSteps DEF ops
<1>3. CASE Visit
  BY <1>1, <1>3, OwnSteps, OwnByHand DEF Visit, ops
<1>4. CASE \/ \E s \in Feeders : FeedTab(s)
           \/ ReloadFeeds \/ CancelWindow
           \/ \E p \in {{}} \cup {{n.path} : n \in feeds} : SelectPath(p)
           \/ \E p \in ParentKeys(feeds) : ToggleFolder(p)
           \/ \E k \in {"feed", "folder", "rename", "remove"} : OpenWindow(k)
  BY <1>1, <1>4, OwnSteps DEF FeedTab, ReloadFeeds, CancelWindow, SelectPath, ToggleFolder, OpenWindow, ops
<1>5. CASE \/ \E w \in window, name \in FeedNames :
                SubmitRename(w, name) \/ \E dir \in {w.path} \cup FolderOptions(feeds) : SubmitNode(w, dir, name)
           \/ \E w \in window : ConfirmRemove(w)
           \/ \E op \in {"refresh", "markAsRead"} : SelectedOp(op)
  BY <1>1, <1>5, OwnSteps DEF SubmitRename, SubmitNode, ConfirmRemove, SelectedOp, Runs, ops
<1>6. CASE FeedAnswer
  BY <1>1, <1>6, OwnSteps DEF FeedAnswer, FeedServer, FeedsDone, RunDone, RefreshDone, TimerFires, Ready, Waiting, ops
<1>7. QED
  BY <1>2, <1>3, <1>4, <1>5, <1>6 DEF FeedNext, ops

LEMMA RuleOwn ==
  ASSUME Only(PageOps.rules), [RuleNext]_<<clicks, reqs, ruleVars>>
  PROVE  Only(PageOps.rules)'
<1> DEFINE ops == PageOps.rules
<1>1. ops = {"rules", "setRule", "renameRule", "removeRule"}
  BY DEF PageOps, RuleOps
<1> HIDE DEF ops
<1>2. CASE UNCHANGED <<clicks, reqs, ruleVars>>
  BY <1>2, OwnSteps DEF ops
<1>3. CASE \/ OpenRules \/ CloseRules \/ Confirmed \/ CreateRule
           \/ \E s \in RuleServers : RuleTab(s)
  BY <1>1, <1>3, OwnSteps, OwnByHand DEF OpenRules, CloseRules, Confirmed, CreateRule, RuleTab, AsksRules, ops
<1>4. CASE \/ \E r \in list : SelectRule(r) \/ DeleteRule(r)
           \/ \E name \in RuleNames : Edit(name)
           \/ \E r \in rule : HandleSave(r)
  BY <1>1, <1>4, OwnSteps DEF SelectRule, DeleteRule, Edit, HandleSave, ops
<1>5. CASE \/ \E q \in reqs : RuleServer(q)
           \/ \E q \in Ready("rules") : \E a \in q.got : RulesDone(q, a.ok, a.list)
  BY <1>1, <1>5, OwnSteps DEF RuleServer, RulesDone, Ready, Waiting, ops
<1>6. CASE \/ \E q \in Ready("renameRule") : \E a \in q.got : RenameDone(q, a.ok)
           \/ \E q \in Ready("setRule") : \E a \in q.got : SetDone(q, a.ok)
           \/ \E q \in Ready("removeRule") : \E a \in q.got : RemoveDone(q, a.ok)
  <2>1. PICK q \in reqs : \/ Ended(q)
                          \/ \E x : Then(q, "setRule", x)
                          \/ \E n, arg : reqs' = (reqs \ {q}) \cup {Request(n, "rules", arg)}
    BY <1>6 DEF RenameDone, SetDone, RemoveDone, AsksRules, Ready, Waiting, Ended
  <2>2. QED
    BY <1>1, <2>1, OwnSteps, OwnByHand DEF ops
<1>7. QED
  BY <1>2, <1>3, <1>4, <1>5, <1>6 DEF RuleNext, RuleAnswer, ops

LEMMA FormOwn ==
  ASSUME Only(PageOps.settings), [FormNext]_<<clicks, reqs, formVars>>
  PROVE  Only(PageOps.settings)'
<1> DEFINE ops == PageOps.settings
<1>1. ops = {"load", "save"}
  BY DEF PageOps
<1> HIDE DEF ops
<1>2. CASE UNCHANGED <<clicks, reqs, formVars>>
  BY <1>2, OwnSteps DEF ops
<1>3. CASE Retry \/ SwitchLanguage \/ \E m \in Machines : Mount(m)
  BY <1>1, <1>3, OwnSteps DEF Retry, SwitchLanguage, Mount, Load, ops
<1>4. CASE \E t \in SettingTabs :
             HandleReset(t) \/ HandleSaveTab(t) \/ \E v \in Inputs : EditField(t, v)
  BY <1>1, <1>4, OwnSteps DEF HandleReset, HandleSaveTab, EditField, ops
<1>5. CASE FormAnswer
  BY <1>1, <1>5, OwnSteps DEF FormAnswer, Machine, LoadDone, SaveDone, Open, Ready, Waiting, ops
<1>6. QED
  BY <1>2, <1>3, <1>4, <1>5 DEF FormNext, ops

LEMMA AiOwn ==
  ASSUME Only(PageOps.ai), [AiNext]_<<clicks, reqs, aiVars>>
  PROVE  Only(PageOps.ai)'
<1> DEFINE ops == PageOps.ai
<1>1. ops = {"aiConfig", "saveAi"}
  BY DEF PageOps
<1> HIDE DEF ops
<1>2. CASE UNCHANGED <<clicks, reqs, aiVars>>
  BY <1>2, OwnSteps DEF ops
<1>3. CASE \/ LoadAi \/ AddText \/ SaveAi
           \/ \E i \in DOMAIN texts : DeleteText(i) \/ \E b \in Typed(texts[i]) : SetText(i, b)
  BY <1>1, <1>3, OwnSteps DEF LoadAi, AddText, SaveAi, DeleteText, SetText, ops
<1>4. CASE AiAnswer
  BY <1>1, <1>4, OwnSteps DEF AiAnswer, UpdateAiConfig, GetAiConfig, LoadAiDone, SaveAiDone, Open, Ready, Waiting, ops
<1>5. QED
  BY <1>2, <1>3, <1>4 DEF AiNext, ops

-----------------------------------------------------------------------------
(* The parts together                                                       *)

(* A step is one of the part looked at ...                                  *)
Acts ==
  /\ focus = "dir" => [DirNext]_<<clicks, reqs, dirVars>>
  /\ focus = "chat" => [ChatNext]_<<clicks, reqs, chatVars>>
  /\ focus = "torrents" => [TorNext]_<<clicks, reqs, torVars>>
  /\ focus = "dialogs" => [DlgNext]_<<clicks, reqs, dlgVars>>
  /\ focus = "rows" => [RowNext]_rowVars
  /\ focus = "columns" => [ColNext]_colVars
  /\ focus = "feeds" => [FeedNext]_<<clicks, reqs, feedVars>>
  /\ focus = "rules" => [RuleNext]_<<clicks, reqs, ruleVars>>
  /\ focus = "settings" => [FormNext]_<<clicks, reqs, formVars>>
  /\ focus = "ai" => [AiNext]_<<clicks, reqs, aiVars>>
  /\ focus = "bot" => [BotNext]_botVars
  /\ focus = "mcp" => [McpNext]_mcpVars

(* ... and changes nothing of another.                                      *)
Rest ==
  /\ focus # "dir" => UNCHANGED dirVars
  /\ focus # "chat" => UNCHANGED chatVars
  /\ focus # "torrents" => UNCHANGED torVars
  /\ focus # "dialogs" => UNCHANGED dlgVars
  /\ focus # "rows" => UNCHANGED rowVars
  /\ focus # "columns" => UNCHANGED colVars
  /\ focus # "feeds" => UNCHANGED feedVars
  /\ focus # "rules" => UNCHANGED ruleVars
  /\ focus # "settings" => UNCHANGED formVars
  /\ focus # "ai" => UNCHANGED aiVars
  /\ focus # "bot" => UNCHANGED botVars
  /\ focus # "mcp" => UNCHANGED mcpVars

LEMMA OneMoves == [Next]_vars => focus' = focus /\ Acts /\ Rest
<1> USE DEF PagesNext, PagesRest, BackendRests, TorrentsRest, SettingsRest, RssRests, OthersRest, DirRests, ChatRests,
        ListRests, DlgRests, RowRests, ColRests, FeedRests, RuleRests, FormRests, AiRests, BotRests, McpRests
<1>1. [Next]_vars => focus' = focus /\ Acts
  BY DEF Next, vars, Acts
<1>2. [Next]_vars => Rest
  BY DEF Next, vars, Rest
<1>3. QED
  BY <1>1, <1>2

(* A behaviour of all parts is one of the part looked at, and any other     *)
(* rests in its initial state.                                              *)
LEMMA DirRuns == Spec => DirSpec \/ ([](DirInit /\ focus # "dir") /\ [][FALSE]_dirVars)
<1>1. Init => PageInit /\ DirInit
  BY DEF Init
<1>2. UNCHANGED dirVars /\ DirInit => DirInit'
  BY DEF dirVars, DirInit
<1>3. focus = "dir" /\ [Next]_vars => (focus = "dir")' /\ [DirNext]_<<clicks, reqs, dirVars>>
  BY OneMoves DEF Acts
<1>4. focus # "dir" /\ [Next]_vars => (focus # "dir")' /\ UNCHANGED dirVars
  BY OneMoves DEF Rest
<1>5. focus # "dir" <=> ~(focus = "dir")
  OBVIOUS
<1>6. QED
  BY <1>1, <1>2, <1>3, <1>4, <1>5, PTL DEF Spec, DirSpec

LEMMA ChatRuns == Spec => ChatSpec \/ ([](ChatInit /\ focus # "chat") /\ [][FALSE]_chatVars)
<1>1. Init => PageInit /\ ChatInit
  BY DEF Init
<1>2. UNCHANGED chatVars /\ ChatInit => ChatInit'
  BY DEF chatVars, ChatInit
<1>3. focus = "chat" /\ [Next]_vars => (focus = "chat")' /\ [ChatNext]_<<clicks, reqs, chatVars>>
  BY OneMoves DEF Acts
<1>4. focus # "chat" /\ [Next]_vars => (focus # "chat")' /\ UNCHANGED chatVars
  BY OneMoves DEF Rest
<1>5. focus # "chat" <=> ~(focus = "chat")
  OBVIOUS
<1>6. QED
  BY <1>1, <1>2, <1>3, <1>4, <1>5, PTL DEF Spec, ChatSpec

LEMMA TorRuns == Spec => TorSpec \/ ([](TorInit /\ focus # "torrents") /\ [][FALSE]_torVars)
<1>1. Init => PageInit /\ TorInit
  BY DEF Init
<1>2. UNCHANGED torVars /\ TorInit => TorInit'
  BY DEF torVars, TorInit
<1>3. focus = "torrents" /\ [Next]_vars => (focus = "torrents")' /\ [TorNext]_<<clicks, reqs, torVars>>
  BY OneMoves DEF Acts
<1>4. focus # "torrents" /\ [Next]_vars => (focus # "torrents")' /\ UNCHANGED torVars
  BY OneMoves DEF Rest
<1>5. focus # "torrents" <=> ~(focus = "torrents")
  OBVIOUS
<1>6. QED
  BY <1>1, <1>2, <1>3, <1>4, <1>5, PTL DEF Spec, TorSpec

LEMMA DlgRuns == Spec => DlgSpec \/ ([](DlgInit /\ focus # "dialogs") /\ [][FALSE]_dlgVars)
<1>1. Init => PageInit /\ DlgInit
  BY DEF Init
<1>2. UNCHANGED dlgVars /\ DlgInit => DlgInit'
  BY DEF dlgVars, DlgInit
<1>3. focus = "dialogs" /\ [Next]_vars => (focus = "dialogs")' /\ [DlgNext]_<<clicks, reqs, dlgVars>>
  BY OneMoves DEF Acts
<1>4. focus # "dialogs" /\ [Next]_vars => (focus # "dialogs")' /\ UNCHANGED dlgVars
  BY OneMoves DEF Rest
<1>5. focus # "dialogs" <=> ~(focus = "dialogs")
  OBVIOUS
<1>6. QED
  BY <1>1, <1>2, <1>3, <1>4, <1>5, PTL DEF Spec, DlgSpec

LEMMA RowRuns == Spec => RowSpec \/ ([](RowInit /\ focus # "rows") /\ [][FALSE]_rowVars)
<1>1. Init => RowInit
  BY DEF Init
<1>2. UNCHANGED rowVars /\ RowInit => RowInit'
  BY DEF rowVars, RowInit
<1>3. focus = "rows" /\ [Next]_vars => (focus = "rows")' /\ [RowNext]_rowVars
  BY OneMoves DEF Acts
<1>4. focus # "rows" /\ [Next]_vars => (focus # "rows")' /\ UNCHANGED rowVars
  BY OneMoves DEF Rest
<1>5. focus # "rows" <=> ~(focus = "rows")
  OBVIOUS
<1>6. QED
  BY <1>1, <1>2, <1>3, <1>4, <1>5, PTL DEF Spec, RowSpec

LEMMA ColRuns == Spec => ColSpec \/ ([](ColInit /\ focus # "columns") /\ [][FALSE]_colVars)
<1>1. Init => ColInit
  BY DEF Init
<1>2. UNCHANGED colVars /\ ColInit => ColInit'
  BY DEF colVars, ColInit
<1>3. focus = "columns" /\ [Next]_vars => (focus = "columns")' /\ [ColNext]_colVars
  BY OneMoves DEF Acts
<1>4. focus # "columns" /\ [Next]_vars => (focus # "columns")' /\ UNCHANGED colVars
  BY OneMoves DEF Rest
<1>5. focus # "columns" <=> ~(focus = "columns")
  OBVIOUS
<1>6. QED
  BY <1>1, <1>2, <1>3, <1>4, <1>5, PTL DEF Spec, ColSpec

LEMMA FeedRuns == Spec => FeedSpec \/ ([](FeedInit /\ focus # "feeds") /\ [][FALSE]_feedVars)
<1>1. Init => PageInit /\ FeedInit
  BY DEF Init
<1>2. UNCHANGED feedVars /\ FeedInit => FeedInit'
  BY DEF feedVars, FeedInit
<1>3. focus = "feeds" /\ [Next]_vars => (focus = "feeds")' /\ [FeedNext]_<<clicks, reqs, feedVars>>
  BY OneMoves DEF Acts
<1>4. focus # "feeds" /\ [Next]_vars => (focus # "feeds")' /\ UNCHANGED feedVars
  BY OneMoves DEF Rest
<1>5. focus # "feeds" <=> ~(focus = "feeds")
  OBVIOUS
<1>6. QED
  BY <1>1, <1>2, <1>3, <1>4, <1>5, PTL DEF Spec, FeedSpec

LEMMA RuleRuns == Spec => RuleSpec \/ ([](RuleInit /\ focus # "rules") /\ [][FALSE]_ruleVars)
<1>1. Init => PageInit /\ RuleInit
  BY DEF Init
<1>2. UNCHANGED ruleVars /\ RuleInit => RuleInit'
  BY DEF ruleVars, RuleInit
<1>3. focus = "rules" /\ [Next]_vars => (focus = "rules")' /\ [RuleNext]_<<clicks, reqs, ruleVars>>
  BY OneMoves DEF Acts
<1>4. focus # "rules" /\ [Next]_vars => (focus # "rules")' /\ UNCHANGED ruleVars
  BY OneMoves DEF Rest
<1>5. focus # "rules" <=> ~(focus = "rules")
  OBVIOUS
<1>6. QED
  BY <1>1, <1>2, <1>3, <1>4, <1>5, PTL DEF Spec, RuleSpec

LEMMA FormRuns == Spec => FormSpec \/ ([](FormInit /\ focus # "settings") /\ [][FALSE]_formVars)
<1>1. Init => PageInit /\ FormInit
  BY DEF Init
<1>2. UNCHANGED formVars /\ FormInit => FormInit'
  BY DEF formVars, FormInit
<1>3. focus = "settings" /\ [Next]_vars => (focus = "settings")' /\ [FormNext]_<<clicks, reqs, formVars>>
  BY OneMoves DEF Acts
<1>4. focus # "settings" /\ [Next]_vars => (focus # "settings")' /\ UNCHANGED formVars
  BY OneMoves DEF Rest
<1>5. focus # "settings" <=> ~(focus = "settings")
  OBVIOUS
<1>6. QED
  BY <1>1, <1>2, <1>3, <1>4, <1>5, PTL DEF Spec, FormSpec

LEMMA AiRuns == Spec => AiSpec \/ ([](AiInit /\ focus # "ai") /\ [][FALSE]_aiVars)
<1>1. Init => PageInit /\ AiInit
  BY DEF Init
<1>2. UNCHANGED aiVars /\ AiInit => AiInit'
  BY DEF aiVars, AiInit
<1>3. focus = "ai" /\ [Next]_vars => (focus = "ai")' /\ [AiNext]_<<clicks, reqs, aiVars>>
  BY OneMoves DEF Acts
<1>4. focus # "ai" /\ [Next]_vars => (focus # "ai")' /\ UNCHANGED aiVars
  BY OneMoves DEF Rest
<1>5. focus # "ai" <=> ~(focus = "ai")
  OBVIOUS
<1>6. QED
  BY <1>1, <1>2, <1>3, <1>4, <1>5, PTL DEF Spec, AiSpec

LEMMA BotRuns == Spec => BotSpec \/ ([](BotInit /\ focus # "bot") /\ [][FALSE]_botVars)
<1>1. Init => BotInit
  BY DEF Init
<1>2. UNCHANGED botVars /\ BotInit => BotInit'
  BY DEF botVars, BotInit
<1>3. focus = "bot" /\ [Next]_vars => (focus = "bot")' /\ [BotNext]_botVars
  BY OneMoves DEF Acts
<1>4. focus # "bot" /\ [Next]_vars => (focus # "bot")' /\ UNCHANGED botVars
  BY OneMoves DEF Rest
<1>5. focus # "bot" <=> ~(focus = "bot")
  OBVIOUS
<1>6. QED
  BY <1>1, <1>2, <1>3, <1>4, <1>5, PTL DEF Spec, BotSpec

LEMMA McpRuns == Spec => McpSpec \/ ([](McpInit /\ focus # "mcp") /\ [][FALSE]_mcpVars)
<1>1. Init => McpInit
  BY DEF Init
<1>2. UNCHANGED mcpVars /\ McpInit => McpInit'
  BY DEF mcpVars, McpInit
<1>3. focus = "mcp" /\ [Next]_vars => (focus = "mcp")' /\ [McpNext]_mcpVars
  BY OneMoves DEF Acts
<1>4. focus # "mcp" /\ [Next]_vars => (focus # "mcp")' /\ UNCHANGED mcpVars
  BY OneMoves DEF Rest
<1>5. focus # "mcp" <=> ~(focus = "mcp")
  OBVIOUS
<1>6. QED
  BY <1>1, <1>2, <1>3, <1>4, <1>5, PTL DEF Spec, McpSpec

(* In flight is only what the page looked at asks for: the handlers of the  *)
(* pages, which share the requests of one tab, never take an answer to      *)
(* another's.                                                               *)
PagesApart == IF focus \in DOMAIN PageOps THEN Only(PageOps[focus]) ELSE reqs = {}

LEMMA NoRequests ==
  ASSUME focus \notin DOMAIN PageOps, [Next]_vars
  PROVE  UNCHANGED reqs
<1>1. focus \notin {"dir", "chat", "torrents", "dialogs", "feeds", "rules", "settings", "ai"}
  BY DEF PageOps
<1>2. QED
  BY <1>1 DEF Next, PagesNext, PagesRest, vars

LEMMA ApartStep == PagesApart /\ [Next]_vars => PagesApart'
<1> SUFFICES ASSUME PagesApart, [Next]_vars PROVE PagesApart'
  OBVIOUS
<1>1. focus' = focus /\ PageOps' = PageOps
  BY OneMoves DEF PageOps, FeedOps, RuleOps
<1>2. CASE focus \notin DOMAIN PageOps
  BY <1>1, <1>2, NoRequests DEF PagesApart
<1>3. CASE focus = "dir"
  BY <1>1, <1>3, OneMoves, DirOwn DEF Acts, PagesApart, PageOps
<1>4. CASE focus = "chat"
  BY <1>1, <1>4, OneMoves, ChatOwn DEF Acts, PagesApart, PageOps
<1>5. CASE focus = "torrents"
  BY <1>1, <1>5, OneMoves, TorOwn DEF Acts, PagesApart, PageOps
<1>6. CASE focus = "dialogs"
  BY <1>1, <1>6, OneMoves, DlgOwn DEF Acts, PagesApart, PageOps
<1>7. CASE focus = "feeds"
  BY <1>1, <1>7, OneMoves, FeedOwn DEF Acts, PagesApart, PageOps
<1>8. CASE focus = "rules"
  BY <1>1, <1>8, OneMoves, RuleOwn DEF Acts, PagesApart, PageOps
<1>9. CASE focus = "settings"
  BY <1>1, <1>9, OneMoves, FormOwn DEF Acts, PagesApart, PageOps
<1>10. CASE focus = "ai"
  BY <1>1, <1>10, OneMoves, AiOwn DEF Acts, PagesApart, PageOps
<1>11. QED
  BY <1>2, <1>3, <1>4, <1>5, <1>6, <1>7, <1>8, <1>9, <1>10 DEF PageOps

LEMMA OfOnePage == Spec => []PagesApart
<1>1. Init => PagesApart
  BY DEF Init, PageInit, PagesApart, Only
<1>2. QED
  BY <1>1, ApartStep, PTL DEF Spec

(* What shares no requests behaves as on its own whatever is looked at.     *)
LEMMA AloneAlways == Spec => RowSpec /\ ColSpec /\ BotSpec /\ McpSpec
<1>1. [FALSE]_rowVars => [RowNext]_rowVars
  OBVIOUS
<1>2. [FALSE]_colVars => [ColNext]_colVars
  OBVIOUS
<1>3. [FALSE]_botVars => [BotNext]_botVars
  OBVIOUS
<1>4. [FALSE]_mcpVars => [McpNext]_mcpVars
  OBVIOUS
<1>5. QED
  BY <1>1, <1>2, <1>3, <1>4, RowRuns, ColRuns, BotRuns, McpRuns, PTL DEF RowSpec, ColSpec, BotSpec, McpSpec

(* A page that is not looked at has asked for nothing.                      *)
LEMMA NothingAsked ==
  PagesApart => /\ focus # "torrents" => OnlyPicked /\ FilesOnlyIfTicked
                /\ focus # "rules" => Open("setRule") = {}
<1> SUFFICES ASSUME PagesApart
             PROVE  /\ focus # "torrents" => OnlyPicked /\ FilesOnlyIfTicked
                    /\ focus # "rules" => Open("setRule") = {}
  OBVIOUS
<1>1. ASSUME focus # "torrents", NEW r \in reqs PROVE r.op \notin {"batch", "delete", "menu"}
  BY <1>1 DEF PagesApart, PageOps, Only, FeedOps, RuleOps
<1>2. ASSUME focus # "rules", NEW r \in reqs PROVE r.op # "setRule"
  BY <1>2 DEF PagesApart, PageOps, Only, FeedOps
<1>3. QED
  BY <1>1, <1>2 DEF OnlyPicked, FilesOnlyIfTicked, Operations, Waiting, Open

(* The parts composed as MCParts composes them, for any values of their     *)
(* constants: whichever part is looked at, the invariants of all of them     *)
(* hold, those that speak of the requests in flight too.                     *)
THEOREM PartsStaySafe ==
  Spec => [](/\ SpinnerBacked /\ FramesWhole /\ OnlyPicked /\ FilesOnlyIfTicked /\ DetailOfDrawer
             /\ OneLifecycle /\ ColumnsSound /\ RenameHitsChosen /\ TrUnsavedKept /\ NothingInvented
             /\ OnePoller)
<1>1. /\ DirInit => SpinnerBacked
      /\ ChatInit => FramesWhole
      /\ DlgInit => DetailOfDrawer
      /\ FeedInit => RenameHitsChosen
      /\ FormInit => TrUnsavedKept
  BY DEF DirInit, SpinnerBacked, ChatInit, FramesWhole, DlgInit, DetailOfDrawer, FeedInit, RenameHitsChosen,
         FormInit, TrUnsavedKept
<1>2. FormInit => NothingInvented
  BY Filled DEF FormInit, NothingInvented, Defaults
<1>3. Spec => []SpinnerBacked
  BY <1>1, DirRuns, SpinnersEnd, PTL
<1>4. Spec => []FramesWhole
  BY <1>1, ChatRuns, FramesStayWhole, PTL
<1>5. Spec => []OnlyPicked /\ []FilesOnlyIfTicked
  BY NothingAsked, TorRuns, PickedOnly, FilesOfThisDialog, OfOnePage, PTL
<1>6. Spec => []DetailOfDrawer
  BY <1>1, DlgRuns, DrawerShowsItsOwn, PTL
<1>7. Spec => []RenameHitsChosen
  BY <1>1, FeedRuns, RenameIsSafe, PTL
<1>8. Spec => []TrUnsavedKept /\ []NothingInvented
  BY <1>1, <1>2, FormRuns, UnsavedIsKept, NoDefaultSaved, PTL
<1>9. Spec => []OneLifecycle /\ []ColumnsSound /\ []OnePoller
  BY AloneAlways, OneLifecycleAlways, ColumnsStaySound, NeverTwoPollers, PTL
<1>10. QED
  BY <1>3, <1>4, <1>5, <1>6, <1>7, <1>8, <1>9, PTL

(* The same of the action properties: whichever part is looked at, no step   *)
(* gives up a session that works, loses a secret that was left alone, or     *)
(* reports as saved what the rule does not obey.                            *)
THEOREM PartsStepSafely == Spec => SaveLands /\ SecretsKept /\ LiveSessionKept
<1>1. Spec => LiveSessionKept
  BY AloneAlways, NoLiveSessionLost, PTL
<1>2. Spec => SecretsKept
  <2>1. [FALSE]_aiVars =>
          [\A r \in Open("saveAi") :
             stored' # stored => \A s \in stored : s.name \in r.arg.untouched => s \in stored']_<<clicks, reqs, aiVars>>
    BY DEF aiVars
  <2>2. QED
    BY <2>1, AiRuns, SecretsSurvive, PTL DEF SecretsKept
<1>3. Spec => SaveLands
  <2>1. PagesApart /\ focus # "rules" =>
          [\A r \in Open("setRule") :
             (\E q \in Waiting("setRule")' : q.n = r.n /\ \E a \in q.got : a.ok)
               => rules'[r.arg.server][r.arg.name] = r.arg.rule.val]_<<clicks, reqs, ruleVars>>
    BY NothingAsked
  <2>2. QED
    BY <2>1, RuleRuns, SavesLand, OfOnePage, PTL DEF SaveLands
<1>4. QED
  BY <1>1, <1>2, <1>3
=============================================================================
