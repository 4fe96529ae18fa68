----------------------------- MODULE AiSettings -----------------------------
(***************************************************************************)
(* The settings of the assistant: the form (pages/settings-app/AiTab.tsx),  *)
(* the editor with a JSON text for each MCP server (McpSection.tsx) and the  *)
(* handler that stores them (backend/internal/api/ai.go).  Secrets do not    *)
(* leave the backend: the page holds a sentinel in their place, and the      *)
(* handler puts them back by the id of the server.  A text is abstracted to  *)
(* the name and the secret in it and to whether it is valid JSON.           *)
(***************************************************************************)
EXTENDS Page, SequencesExt

CONSTANTS
  McpNames,  \* names of MCP servers (a bound)
  MaxBlocks, \* texts in the editor (a bound)
  McpAtFirst \* the servers stored: [id, name, secret]

Sentinel  == "__SAVED__"
NewSecret == "new"
NoId      == ""
FreshIds  == {"mcp-1", "mcp-2", "mcp-3", "mcp-4"}  \* what nextMcpID makes of the clock (a bound)

ASSUME AiAssumption ==
  /\ MaxBlocks \in Nat /\ "" \notin McpNames /\ IsFiniteSet(McpAtFirst)
  /\ \A s, t \in McpAtFirst :
       /\ s = [id |-> s.id, name |-> s.name, secret |-> s.secret]
       /\ s.id \notin FreshIds \cup {NoId} /\ s.name \in McpNames /\ s.secret # Sentinel
       /\ (s.id = t.id \/ s.name = t.name) => s = t

VARIABLES
  stored,     \* remote: the servers of settings.json
  mcpServers, \* draft.mcpServers: [id, name, secret]
  texts,      \* the editor: a sequence of [name, secret, valid], no name: an empty text
  mcpInvalid,
  aiLoading,
  aiLoaded,   \* history: the configuration was read
  aiSaving,
  untouched,  \* history: the servers read last whose texts the user left alone, by name
  origin      \* history: for each text the stored name it began with, at most one

aiVars == <<stored, mcpServers, texts, mcpInvalid, aiLoading, aiLoaded, aiSaving, untouched, origin>>

AiInit ==
  /\ stored = McpAtFirst
  /\ mcpServers = {} /\ texts = <<>> /\ mcpInvalid = FALSE
  /\ aiLoading = FALSE /\ aiLoaded = FALSE /\ aiSaving = FALSE
  /\ untouched = {} /\ origin = <<>>

McpServer(id, name, secret) == [id |-> id, name |-> name, secret |-> secret]
Block(name, secret, valid)  == [name |-> name, secret |-> secret, valid |-> valid]

EmptyText == Block("", "", TRUE)

(* sanitizeMcpServer *)
Masked(secret) == IF secret = "" THEN "" ELSE Sentinel

View(servers) == {[s EXCEPT !.secret = Masked(@)] : s \in servers}

(* serverToBlockJson, for the servers in some order *)
ToTexts(servers) == SetToSeq({Block(s.name, s.secret, TRUE) : s \in servers})

-----------------------------------------------------------------------------
(* The editor.                                                              *)

IdByName(name) == {s.id : s \in {q \in mcpServers : q.id # NoId /\ q.name = name}}

(* Mutant: an entry loses its id whenever the texts are read.               *)
ParseAnew(b) == McpServer(NoId, b.name, b.secret)

ParseSingleServer(b) ==
  McpServer(IF IdByName(b.name) = {} THEN NoId ELSE CHOOSE id \in IdByName(b.name) : TRUE, b.name, b.secret)

Entries(next)   == {i \in DOMAIN next : next[i].name # ""}
Duplicate(next) == \E i, j \in Entries(next) : i # j /\ next[i].valid /\ next[j].valid /\ next[i].name = next[j].name

(* report: texts that are valid together become the draft *)
Report(next) ==
  IF Duplicate(next) \/ \E i \in DOMAIN next : ~next[i].valid
  THEN mcpInvalid' = TRUE /\ UNCHANGED mcpServers
  ELSE /\ mcpInvalid' = FALSE
       /\ mcpServers' = {ParseSingleServer(next[i]) : i \in Entries(next)}

Shown == aiLoaded \/ (clicks > 0 /\ ~aiLoading)

SetText(i, b) ==
  /\ Shown /\ Press /\ i \in DOMAIN texts /\ b # texts[i]
  /\ texts' = [texts EXCEPT ![i] = b]
  /\ Report(texts')
  /\ untouched' = untouched \ (IF b.name # texts[i].name \/ b.secret # texts[i].secret THEN origin[i] ELSE {})
  /\ UNCHANGED <<reqs, stored, aiLoading, aiLoaded, aiSaving, origin>>

AddText ==
  /\ Shown /\ Press /\ Len(texts) < MaxBlocks
  /\ texts' = Append(texts, EmptyText) /\ origin' = Append(origin, {})
  /\ Report(texts')
  /\ UNCHANGED <<reqs, stored, aiLoading, aiLoaded, aiSaving, untouched>>

DeleteText(i) ==
  /\ Shown /\ Press /\ i \in DOMAIN texts
  /\ texts' = RemoveAt(texts, i) /\ origin' = RemoveAt(origin, i)
  /\ Report(texts')
  /\ untouched' = untouched \ origin[i]
  /\ UNCHANGED <<reqs, stored, aiLoading, aiLoaded, aiSaving>>

(* what a user types: another name, another secret, JSON that is broken or whole *)
Typed(b) ==
  {[b EXCEPT !.name = n, !.secret = IF b.name = "" THEN NewSecret ELSE @] : n \in McpNames}
    \cup (IF b.name = "" THEN {} ELSE {[b EXCEPT !.secret = NewSecret], [b EXCEPT !.valid = ~@]})

-----------------------------------------------------------------------------
(* The form.                                                                *)

(* the texts are taken from the servers anew, when the editor is mounted *)
Remount(servers) ==
  /\ mcpServers' = servers
  /\ texts' = ToTexts(servers)
  /\ origin' = [i \in DOMAIN texts' |-> {texts'[i].name}]
  /\ untouched' = {s.name : s \in servers}

LoadAi ==
  /\ clicks = 0 /\ Press
  /\ aiLoading' = TRUE
  /\ Asked("aiConfig", NoArg)
  /\ UNCHANGED <<stored, mcpServers, texts, mcpInvalid, aiLoaded, aiSaving, untouched, origin>>

(* without an answer the form is offered as it began *)
LoadAiDone(r, ok, servers) ==
  /\ IF ok THEN Remount(servers) ELSE UNCHANGED <<mcpServers, texts, untouched, origin>>
  /\ aiLoading' = FALSE /\ aiLoaded' = ok
  /\ Ended(r)
  /\ UNCHANGED <<stored, mcpInvalid, aiSaving>>

SaveAi ==
  /\ Shown /\ ~aiSaving /\ ~mcpInvalid /\ Press
  /\ aiSaving' = TRUE
  /\ Asked("saveAi", [servers |-> mcpServers, untouched |-> untouched])
  /\ UNCHANGED <<stored, mcpServers, texts, mcpInvalid, aiLoading, aiLoaded, untouched, origin>>

(* the answer's servers replace what was edited meanwhile; mcpInvalid stays  *)
SaveAiDone(r, ok, servers) ==
  /\ IF ok THEN Remount(servers) ELSE UNCHANGED <<mcpServers, texts, untouched, origin>>
  /\ aiSaving' = FALSE
  /\ Ended(r)
  /\ UNCHANGED <<stored, mcpInvalid, aiLoading, aiLoaded>>

-----------------------------------------------------------------------------
(* The handlers.                                                            *)

OldSecret(id) == {s.secret : s \in {q \in stored : q.id = id}}

(* restoreMcpSentinels: a sentinel nothing is stored for is dropped *)
Restored(s) ==
  [s EXCEPT !.secret = IF @ # Sentinel THEN @
                       ELSE IF OldSecret(s.id) = {} THEN "" ELSE CHOOSE v \in OldSecret(s.id) : TRUE]

(* updateAiConfig gives an id to each that has none.  nextMcpID takes it from *)
(* the clock: which one it is is of no matter, and that it meets one given    *)
(* before (1 in 10^6) is left out.                                           *)
Numberings(servers) ==
  Injection({s \in servers : s.id = NoId}, FreshIds \ {s.id : s \in servers \cup stored})

WithIds(servers) ==
  LET number == CHOOSE f \in Numberings(servers) : TRUE
  IN {IF s.id = NoId THEN [s EXCEPT !.id = number[s]] ELSE s : s \in servers}

Merged(servers) == {Restored(s) : s \in WithIds(servers)}

(* the section in memory is replaced also where writing the file fails *)
UpdateAiConfig(r) ==
  /\ r \in Open("saveAi")
  /\ \/ /\ Numberings(r.arg.servers) # {}  \* the bound
        /\ stored' = Merged(r.arg.servers)
        /\ \E ok \in BOOLEAN : Handled(r, [ok |-> ok, servers |-> View(stored')])
     \/ Handled(r, [ok |-> FALSE, servers |-> {}]) /\ UNCHANGED stored
  /\ UNCHANGED <<clicks, mcpServers, texts, mcpInvalid, aiLoading, aiLoaded, aiSaving, untouched, origin>>

GetAiConfig(r) ==
  /\ r \in Open("aiConfig")
  /\ \E ok \in BOOLEAN : Handled(r, [ok |-> ok, servers |-> View(stored)])
  /\ UNCHANGED <<clicks, aiVars>>

AiAnswer ==
  \/ \E r \in Open("saveAi") : UpdateAiConfig(r)
  \/ \E r \in Open("aiConfig") : GetAiConfig(r)
  \/ /\ UNCHANGED clicks
     /\ \/ \E r \in Ready("aiConfig") : \E a \in r.got : LoadAiDone(r, a.ok, a.servers)
        \/ \E r \in Ready("saveAi") : \E a \in r.got : SaveAiDone(r, a.ok, a.servers)

AiNext ==
  \/ LoadAi \/ AddText \/ SaveAi
  \/ \E i \in DOMAIN texts : DeleteText(i) \/ \E b \in Typed(texts[i]) : SetText(i, b)
  \/ AiAnswer

AiSpec == PageInit /\ AiInit /\ [][AiNext]_<<clicks, reqs, aiVars>>

-----------------------------------------------------------------------------
(* A save leaves the servers whose texts were not changed as they are, with  *)
(* their secrets, whatever else was renamed, added, deleted or broken in     *)
(* between (McpSection.tsx:184-233 and ai.go:134-175).  A form whose load     *)
(* failed holds no text (AiTab.tsx:72): saving it deletes every server.      *)
SecretsKept ==
  [][\A r \in Open("saveAi") :
       stored' # stored => \A s \in stored : s.name \in r.arg.untouched => s \in stored']_<<clicks, reqs, aiVars>>
=============================================================================
