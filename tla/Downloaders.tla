---------------------------- MODULE Downloaders ----------------------------
(***************************************************************************)
(* What a downloader can do (frontend/src/services/downloaders.ts), as far *)
(* as it decides what a page asks of the backend.                          *)
(***************************************************************************)
CONSTANTS Tabs, TrTabs  \* the servers, and those that are a Transmission

ASSUME TabsAssumption == TrTabs \subseteq Tabs

QbtFeatures == {"tagRegistry", "detail", "trackersEdit", "categories", "shareLimits",
                "location", "filePriority", "autoTMM", "rss"}
TrFeatures  == {"detail"}

Supports(s, feature) == feature \in (IF s \in TrTabs THEN TrFeatures ELSE QbtFeatures)
=============================================================================
