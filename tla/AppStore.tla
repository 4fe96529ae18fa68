------------------------------- MODULE AppStore -------------------------------
(***************************************************************************)
(* The list of servers and the current server in the browser               *)
(* (frontend/src/stores/appStore.ts).  The configurations themselves are   *)
(* left out: what is modelled is which servers the list holds.             *)
(***************************************************************************)
EXTENDS ApiClient

VARIABLES
  servers,  \* appStore.servers: the ids
  loading,  \* appStore.serversLoading
  active,   \* appStore.activeServerId: at most one id
  stored    \* the backend's list

storeVars == <<servers, loading, active, stored>>

StoreInit ==
  /\ servers = {} /\ loading = FALSE
  /\ stored \in SUBSET Ids
  /\ active \in {{}} \cup {{s} : s \in stored}

None == {}

(* loadServers: none or a vanished one selected, take the first of the list *)
Calibrated(list) ==
  IF active # None /\ active \subseteq list THEN active' = active
  ELSE IF list = {} THEN active' = None
  ELSE \E s \in list : active' = {s}

-----------------------------------------------------------------------------
(* The calls go out.                                                        *)

LoadCall == NewCall("list", None, None)

(* the retry button of the list, or the poll of a page that just opened     *)
Reload ==
  /\ Start({LoadCall}) /\ Take("click")
  /\ loading' = TRUE
  /\ UNCHANGED <<muted, cookie, sessions, servers, active, stored>>

AddServer ==
  /\ Start({NewCall("create", None, None)}) /\ Take("edit")
  /\ UNCHANGED <<muted, cookie, sessions, storeVars>>

UpdateServer(s) ==
  /\ s \in servers
  /\ Start({NewCall("update", {s}, None)}) /\ Take("edit")
  /\ UNCHANGED <<muted, cookie, sessions, storeVars>>

(* optimistic: the list it was taken from is kept for the revert *)
RemoveServer(s) ==
  /\ s \in servers
  /\ Start({NewCall("delete", {s}, servers)}) /\ Take("edit")
  /\ servers' = servers \ {s}
  /\ IF active # {s} THEN active' = active
     ELSE IF servers = {s} THEN active' = None
     ELSE \E t \in servers \ {s} : active' = {t}
  /\ UNCHANGED <<muted, cookie, sessions, loading, stored>>

SelectServer(s) ==
  /\ s \in servers /\ active # {s} /\ Take("click")
  /\ active' = {s}
  /\ UNCHANGED <<calls, muted, cookie, sessions, servers, loading, stored>>

-----------------------------------------------------------------------------
(* The backend handles them.                                                *)

Pending(c, op) == calls[c].op = op /\ calls[c].verdict = "sent" /\ Admitted(c)

HandleServers(c) ==
  /\ \/ /\ Pending(c, "list")
        /\ calls' = [calls EXCEPT ![c].verdict = "ok", ![c].list = stored]
        /\ UNCHANGED stored
     \/ /\ Pending(c, "create")
        /\ \E s \in Ids \ stored :
             /\ stored' = stored \cup {s}
             /\ calls' = [calls EXCEPT ![c].verdict = "ok", ![c].srv = {s}]
     \/ /\ Pending(c, "update")
        /\ Settle(c, IF calls[c].srv \subseteq stored THEN "ok" ELSE "fail")
        /\ UNCHANGED stored
     \/ /\ Pending(c, "delete")
        /\ Settle(c, IF calls[c].srv \subseteq stored THEN "ok" ELSE "fail")
        /\ stored' = stored \ calls[c].srv
  /\ UNCHANGED <<muted, cookie, sessions, budget, servers, loading, active>>

-----------------------------------------------------------------------------
(* The continuations.                                                       *)

Done(c, op, verdict) == calls[c].op = op /\ calls[c].verdict = verdict

LoadServersDone(c) ==
  /\ \/ /\ Done(c, "list", "ok")
        /\ servers' = calls[c].list
        /\ Calibrated(calls[c].list)
     \/ /\ Done(c, "list", "fail")
        /\ servers' = {} /\ active' = active
  /\ loading' = FALSE
  /\ Send({c}, {})
  /\ UNCHANGED <<muted, cookie, sessions, budget, stored>>

(* the settings page selects what it added *)
AddServerDone(c) ==
  /\ \/ Done(c, "create", "ok") /\ servers' = servers \cup calls[c].srv /\ active' = calls[c].srv
     \/ Done(c, "create", "fail") /\ UNCHANGED <<servers, active>>
  /\ Send({c}, {})
  /\ UNCHANGED <<muted, cookie, sessions, budget, loading, stored>>

(* the revert of an update is a reload *)
UpdateServerDone(c) ==
  /\ \/ Done(c, "update", "ok") /\ Send({c}, {}) /\ UNCHANGED loading
     \/ Done(c, "update", "fail") /\ Send({c}, {LoadCall}) /\ loading' = TRUE
  /\ UNCHANGED <<muted, cookie, sessions, budget, servers, active, stored>>

(* the revert of a removal is the list as it was before it *)
RemoveServerDone(c) ==
  /\ \/ Done(c, "delete", "ok") /\ UNCHANGED servers
     \/ Done(c, "delete", "fail") /\ servers' = calls[c].list
  /\ Send({c}, {})
  /\ UNCHANGED <<muted, cookie, sessions, budget, loading, active, stored>>

StoreClick == Reload \/ AddServer \/ (\E s \in servers : UpdateServer(s) \/ RemoveServer(s) \/ SelectServer(s))

StoreDone(c) == LoadServersDone(c) \/ AddServerDone(c) \/ UpdateServerDone(c) \/ RemoveServerDone(c)
=============================================================================
