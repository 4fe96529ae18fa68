-------------------------------- MODULE WebApp --------------------------------
(***************************************************************************)
(* The frontend as a whole: the poll of all servers (frontend/src/hooks/   *)
(* useTorrentPolling.ts, useInterval.ts) that fills the store of snapshots *)
(* (stores/torrentStore.ts), mounted by App.tsx around login and the pages.*)
(***************************************************************************)
EXTENDS WebAuth

VARIABLES
  running,  \* pollAllServers.running
  shards,   \* torrentStore.serverData: which servers have one, and its state
  seen      \* what the effect of useTorrentPolling last ran with

webVars == <<clientVars, storeVars, authVars, running, shards, seen>>

WebInit ==
  /\ ClientInit /\ StoreInit /\ AuthInit
  /\ running = FALSE
  /\ shards = [s \in Ids |-> "none"]
  /\ seen = [ids |-> {}, loading |-> FALSE]

Deps     == [ids |-> servers, loading |-> loading]
Rendered == seen = Deps

-----------------------------------------------------------------------------

PollCalls(S) == {NewCall("poll", {s}, None) : s \in S}

(* Mutant: a round starts although one is running.                          *)
PollAllAgain == running' = TRUE /\ Send({}, PollCalls(servers))

PollAll ==
  IF running THEN UNCHANGED <<running, calls>>
  ELSE running' = TRUE /\ Send({}, PollCalls(servers))

Kept(S) == shards' = [s \in Ids |-> IF s \in S THEN shards[s] ELSE "none"]

(* useEffect on the servers' ids and serversLoading: React runs it before   *)
(* the next event.                                                          *)
Effect ==
  /\ ~Rendered /\ seen' = Deps
  /\ IF loading \/ servers = {} THEN UNCHANGED <<calls, running, shards>>
     ELSE PollAll /\ Kept(servers)
  /\ UNCHANGED <<muted, cookie, sessions, budget, storeVars, authVars>>

(* Mutant: the list is polled only when it changes. *)
TickNever == FALSE /\ UNCHANGED webVars

(* useInterval: every two seconds while the page is visible *)
Tick ==
  /\ ~loading /\ servers # {}
  /\ PollAll
  /\ UNCHANGED <<muted, cookie, sessions, budget, storeVars, authVars, shards, seen>>

(* the retry button, a torrent operation's feedback *)
RefreshServer(s) ==
  /\ status = "authenticated" /\ s \in servers /\ Take("click")
  /\ Start({NewCall("refresh", {s}, None)})
  /\ UNCHANGED <<muted, cookie, sessions, storeVars, authVars, running, shards, seen>>

(* The backend answers with a snapshot, or an error of the downloader.      *)
HandleSnapshot(c) ==
  /\ Pending(c, "poll") \/ Pending(c, "refresh")
  /\ Settle(c, IF calls[c].srv \subseteq stored THEN "ok" ELSE "fail")
  /\ UNCHANGED <<muted, cookie, sessions, budget, storeVars, authVars, running, shards, seen>>

(* Mutant: a round that ends with an error never ends. *)
LastOfRoundOk(c) == InFlight({"poll"}) = {c} /\ calls[c].verdict = "ok"

(* the finally after Promise.allSettled *)
LastOfRound(c) == InFlight({"poll"}) = {c}

(* pollServer: applyServerSnapshot or markServerError *)
SnapshotDone(c) ==
  /\ calls[c].op \in SnapshotOps
  /\ \E s \in calls[c].srv :
       \/ calls[c].verdict = "ok"   /\ shards' = [shards EXCEPT ![s] = "data"]
       \/ calls[c].verdict = "fail" /\ shards' = [shards EXCEPT ![s] = "error"]
  /\ running' = (running /\ ~LastOfRound(c))
  /\ Send({c}, {})
  /\ UNCHANGED <<muted, cookie, sessions, budget, storeVars, authVars, seen>>

-----------------------------------------------------------------------------

PollVars == <<running, shards, seen>>

Click ==
  \/ status = "authenticated" /\ StoreClick /\ UNCHANGED <<authVars, PollVars>>
  \/ AuthClick /\ UNCHANGED PollVars
  \/ \E s \in Ids : RefreshServer(s)

Serve(c) ==
  \/ Refuse(c) /\ UNCHANGED <<storeVars, authVars, PollVars>>
  \/ HandleServers(c) /\ UNCHANGED <<authVars, PollVars>>
  \/ Handle(c) /\ UNCHANGED PollVars
  \/ HandleSnapshot(c)

Continue(c) ==
  \/ Unauthorized(c) /\ UNCHANGED PollVars
  \/ StoreDone(c) /\ UNCHANGED <<authVars, PollVars>>
  \/ AuthDone(c) /\ UNCHANGED PollVars
  \/ SnapshotDone(c)

Outside ==
  \/ Expire /\ UNCHANGED <<storeVars, authVars, PollVars>>
  \/ SetUpElsewhere /\ UNCHANGED PollVars
  \/ \E c \in Slots : (Lose(c) \/ Renew(c)) /\ UNCHANGED <<storeVars, authVars, PollVars>>

WebNext ==
  \/ Effect
  \/ /\ Rendered
     /\ \/ Click \/ Tick \/ Outside
        \/ Unmute /\ UNCHANGED <<storeVars, authVars, PollVars>>
        \/ \E c \in Slots : Serve(c) \/ Continue(c)

(* Some call in flight is answered (fetch settles), timers fire, the page   *)
(* stays visible.  Which call is answered is left open: a round of the poll *)
(* waits for all of its own.                                                *)
WebFairness ==
  /\ WF_webVars(Effect)
  /\ WF_webVars(Rendered /\ Tick)
  /\ WF_webVars(Rendered /\ Unmute /\ UNCHANGED <<storeVars, authVars, PollVars>>)
  /\ WF_webVars(Rendered /\ \E c \in Slots : Serve(c) \/ Continue(c))

WebSpec == WebInit /\ [][WebNext]_webVars /\ WebFairness

-----------------------------------------------------------------------------

(* The rounds of the poll do not overlap: the flag is up exactly while      *)
(* calls of a round are in flight, and each server is asked once.           *)
OneRound ==
  /\ running <=> InFlight({"poll"}) # {}
  /\ \A c, d \in InFlight({"poll"}) : calls[c].srv = calls[d].srv => c = d

(* Only the user or the backend ends a login: a 401 returns to the login    *)
(* page only if the backend no longer knows the session the call carried.   *)
KickedOutForCause ==
  [][ status = "authenticated" /\ status' = "anonymous" =>
        \/ InFlight({"logout"}) # {}
        \/ \E c \in InFlight(ProtectedOps) : calls[c].verdict = "unauth" /\ ~Admitted(c) ]_webVars

(* A session that ended is noticed while servers are polled, although only  *)
(* one 401 a second is reported.                                            *)
SessionLossNoticed ==
  (status = "authenticated" /\ servers # {} /\ ~LiveSession)
    ~> (status # "authenticated" \/ LiveSession \/ servers = {})

(* Without a valid cookie the poll stops by itself: a list that arrives     *)
(* after the logout (a late answer, the revert of a removal) goes again.    *)
PollingStops ==
  (status = "anonymous" /\ servers # {} /\ ~LiveSession)
    ~> (servers = {} \/ status = "authenticated" \/ LiveSession)

(* A server that joins the list gets a snapshot or an error shown.          *)
NewServerPolled ==
  \A s \in Ids : (s \in servers /\ shards[s] = "none") ~> (s \notin servers \/ shards[s] # "none")
=============================================================================
