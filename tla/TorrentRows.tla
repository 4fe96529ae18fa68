----------------------------- MODULE TorrentRows -----------------------------
(***************************************************************************)
(* The rows of the table of torrents: the state a downloader reports,      *)
(* brought to qBittorrent's names (services/api/client.ts, transmission.ts), *)
(* and the filters over them (services/status.ts, useTorrentFilters.ts).   *)
(***************************************************************************)
EXTENDS Naturals, FiniteSets

VARIABLES
  kind,  \* of the server shown: "qbt", "tr"
  raw    \* one of its rows, as it was reported

rowVars == <<kind, raw>>

-----------------------------------------------------------------------------
(* States.                                                                  *)

DownloadingStates == {"downloading", "metaDL", "forcedDL", "stalledDL", "queuedDL", "checkingDL",
                      "allocating", "moving"}
SeedingStates     == {"uploading", "forcedUP", "stalledUP", "queuedUP", "checkingUP"}
StoppedStates     == {"pausedUP", "pausedDL"}
ErroredStates     == {"error", "missingFiles", "unknown"}

States == DownloadingStates \cup SeedingStates \cup StoppedStates \cup ErroredStates
            \cup {"checkingResumeData"}

(* qBittorrent 5 says stopped for paused; a name not known is unknown       *)
Aliases == [stoppedUP |-> "pausedUP", stoppedDL |-> "pausedDL"]

NormalizeState(s) ==
  IF s \in DOMAIN Aliases THEN Aliases[s] ELSE IF s \in States THEN s ELSE "unknown"

QbtRows == [state : States \cup DOMAIN Aliases \cup {"other"}]

(* Transmission: error and status are its numbers, done, named, moving and  *)
(* stalled what is asked of percent_done, metadata_percent_complete, the    *)
(* rate and is_stalled.                                                     *)
TrRows == [error : 0..3, status : 0..7, done : BOOLEAN, named : BOOLEAN, moving : BOOLEAN, stalled : BOOLEAN]

(* Mutant: what a torrent is checked for does not depend on its progress.   *)
MapTrStatusChecking(r) ==
  IF r.status \in {1, 2} THEN "checkingResumeData" ELSE "unknown"

MapTrStatus(r) ==
  IF r.error = 3 THEN "error" ELSE
  CASE r.status = 0        -> IF r.done THEN "pausedUP" ELSE "pausedDL"
    [] r.status \in {1, 2} -> IF r.done THEN "checkingUP" ELSE "checkingDL"
    [] r.status = 3        -> "queuedDL"
    [] r.status = 4        -> IF ~r.named THEN "metaDL"
                              ELSE IF r.moving \/ ~r.stalled THEN "downloading" ELSE "stalledDL"
    [] r.status = 5        -> "queuedUP"
    [] r.status = 6        -> IF r.moving \/ ~r.stalled THEN "uploading" ELSE "stalledUP"
    [] OTHER               -> "unknown"

State == IF kind = "tr" THEN MapTrStatus(raw) ELSE NormalizeState(raw.state)

-----------------------------------------------------------------------------
(* Filters.  A torrent is [state, complete, active, category, tags], its    *)
(* category at most one; a filter that has nothing chosen lets all pass.    *)

Uncategorized == "__uncategorized__"
Untagged      == "__untagged__"

StatusMatch(key, t) ==
  CASE key = "all"         -> TRUE
    [] key = "downloading" -> t.state \in DownloadingStates
    [] key = "seeding"     -> t.state \in SeedingStates
    [] key = "completed"   -> t.complete
    [] key = "stopped"     -> t.state \in StoppedStates
    [] key = "active"      -> t.active
    [] key = "inactive"    -> ~t.active
    [] key = "running"     -> t.state \notin StoppedStates \cup ErroredStates
    [] key = "stalled"     -> t.state \in {"stalledUP", "stalledDL"}
    [] key = "stalled_uploading"   -> t.state = "stalledUP"
    [] key = "stalled_downloading" -> t.state = "stalledDL"
    [] key = "errored"     -> t.state \in ErroredStates

StatusPasses(chosen, t) == chosen = {} \/ \E key \in chosen : StatusMatch(key, t)

CategoryPasses(chosen, t) ==
  \/ chosen = {}
  \/ Uncategorized \in chosen /\ t.category = {}
  \/ t.category \cap (chosen \ {Uncategorized}) # {}

TagsPass(chosen, t) ==
  \/ chosen = {}
  \/ IF t.tags = {} THEN Untagged \in chosen ELSE t.tags \cap (chosen \ {Untagged}) # {}

Filtered(torrents, f) ==
  {t \in torrents : StatusPasses(f.statuses, t) /\ CategoryPasses(f.categories, t) /\ TagsPass(f.tags, t)}

-----------------------------------------------------------------------------

Reports(k) == IF k = "tr" THEN TrRows ELSE QbtRows

RowInit == kind = "qbt" /\ raw = [state |-> "unknown"]

(* the next snapshot, with whatever the downloader says, or another tab     *)
RowNext == kind' \in {"qbt", "tr"} /\ raw' \in Reports(kind')

RowSpec == RowInit /\ [][RowNext]_rowVars

-----------------------------------------------------------------------------

(* Whatever a downloader reports, the row is in exactly one of the four     *)
(* lifecycle filters, and under "running" iff it downloads or seeds; only   *)
(* while qBittorrent checks its resume data it is in none of the four.      *)
OneLifecycle ==
  LET t   == [state |-> State]
      In(key) == StatusMatch(key, t)
      four == {key \in {"downloading", "seeding", "stopped", "errored"} : In(key)}
  IN  IF State = "checkingResumeData" THEN kind = "qbt" /\ four = {}
      ELSE Cardinality(four) = 1 /\ (In("running") <=> In("downloading") \/ In("seeding"))
=============================================================================
