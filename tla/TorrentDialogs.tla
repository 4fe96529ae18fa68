--------------------------- MODULE TorrentDialogs ---------------------------
(***************************************************************************)
(* The two windows over the page of torrents: the dialog that adds torrents *)
(* (AddTorrentModal.tsx) and the drawer with a torrent's details and its   *)
(* trackers (TorrentDetailDrawer.tsx, TrackersTab.tsx).  Both have a mask. *)
(* What was typed is told apart by the opening it was typed in, a list of  *)
(* trackers by the torrent it was read of.                                 *)
(***************************************************************************)
EXTENDS Page, Downloaders

VARIABLES
  tab,      \* the server of the tab under the windows
  opening,  \* the click that opened the dialog for adding, at most one
  entered,  \* its form: the openings something of it was entered in
  adding,   \* loading
  options,  \* the server whose categories and tags the dialog offers
  drawer,   \* the torrent of the drawer, at most one: [n, hash], n its opening
  detail,   \* what the drawer shows, at most one: [of, trackers, stray], stray a
            \* history: its trackers are what a drawer closed before asked for
  loading,  \* of the drawer
  table     \* the TrackersTab: [sel, box, busy]

dlgVars == <<tab, opening, entered, adding, options, drawer, detail, loading, table>>

Details == {"A", "B"}  \* torrents the drawer may be opened for (a bound)

NewTable == [sel |-> {}, box |-> "", busy |-> FALSE]

DlgInit ==
  /\ tab \in Tabs
  /\ opening = {} /\ entered = {} /\ adding = FALSE /\ options = {}
  /\ drawer = {} /\ detail = {} /\ loading = FALSE /\ table = NewTable

DlgTab(s) ==
  /\ opening = {} /\ drawer = {} /\ s # tab /\ Press
  /\ tab' = s
  /\ UNCHANGED <<reqs, opening, entered, adding, options, drawer, detail, loading, table>>

-----------------------------------------------------------------------------
(* Adding torrents.                                                         *)

(* nothing is looked up for a Transmission: the options of before stay *)
OpenAdd ==
  /\ opening = {} /\ drawer = {} /\ Press
  /\ opening' = {clicks'}
  /\ reqs' = IF Supports(tab, "categories") \/ Supports(tab, "tagRegistry")
             THEN reqs \cup {Request(clicks', "options", [server |-> tab])} ELSE reqs
  /\ UNCHANGED <<tab, entered, adding, options, drawer, detail, loading, table>>

OptionsDone(r, ok) ==
  /\ options' = (IF ~Uncancelled(r) THEN options ELSE IF ok THEN {r.arg.server} ELSE {})
  /\ Ended(r)
  /\ UNCHANGED <<tab, opening, entered, adding, drawer, detail, loading, table>>

FillIn ==
  /\ opening # {}
  /\ entered' = entered \cup opening
  /\ UNCHANGED <<clicks, reqs, tab, opening, adding, options, drawer, detail, loading, table>>

HandleClose == opening' = {} /\ entered' = {}

CancelAdd ==
  /\ opening # {}
  /\ HandleClose /\ reqs' = Cancelled("options")
  /\ UNCHANGED <<clicks, tab, adding, options, drawer, detail, loading, table>>

(* handleSubmit; without a source it only warns *)
SubmitAdd ==
  /\ opening # {} /\ entered # {} /\ ~adding /\ Press
  /\ adding' = TRUE
  /\ Asked("add", [server |-> tab, holds |-> entered, dialog |-> opening])
  /\ UNCHANGED <<tab, opening, entered, options, drawer, detail, loading, table>>

(* success closes whatever opening the dialog is in by now *)
AddDone(r, ok) ==
  /\ IF ok THEN HandleClose /\ reqs' = Cancelled("options") \ {r}
           ELSE Ended(r) /\ UNCHANGED <<opening, entered>>
  /\ adding' = FALSE
  /\ UNCHANGED <<tab, options, drawer, detail, loading, table>>

-----------------------------------------------------------------------------
(* The drawer.                                                              *)

ViewDetail(h) ==
  /\ opening = {} /\ drawer = {} /\ Supports(tab, "detail") /\ Press
  /\ drawer' = {[n |-> clicks', hash |-> h]} /\ loading' = TRUE /\ table' = NewTable
  /\ reqs' = reqs \cup {Request(clicks', "detail", [hash |-> h])}
  /\ UNCHANGED <<tab, opening, entered, adding, options, detail>>

CloseDrawer ==
  /\ drawer # {}
  /\ drawer' = {} /\ detail' = {} /\ reqs' = Cancelled("detail")
  /\ UNCHANGED <<clicks, tab, opening, entered, adding, options, loading, table>>

(* qBittorrent's four requests are caught one by one, Transmission's fails *)
DetailDone(r, ok) ==
  /\ Ended(r)
  /\ IF Uncancelled(r)
     THEN /\ loading' = FALSE
          /\ detail' = IF ok THEN {[of |-> r.arg.hash, trackers |-> r.arg.hash, stray |-> FALSE]} ELSE detail
     ELSE UNCHANGED <<detail, loading>>
  /\ UNCHANGED <<tab, opening, entered, adding, options, drawer, table>>

(* The trackers of a detail may be changed if the server can.               *)
TableShown == drawer # {} /\ detail # {} /\ Supports(tab, "trackersEdit")

SelectTrackers ==
  /\ TableShown /\ table.box = ""
  /\ \E d \in detail : table' = [table EXCEPT !.sel = IF @ = {} THEN {d.trackers} ELSE {}]
  /\ UNCHANGED <<clicks, reqs, tab, opening, entered, adding, options, drawer, detail, loading>>

(* editTarget, and what confirmRemove keeps: selected and in the list now *)
Chosen == {d \in detail : d.trackers \in table.sel}

OpenBox(box) ==
  /\ TableShown /\ table.box = "" /\ (box # "add" => Chosen # {})
  /\ table' = [table EXCEPT !.box = box]
  /\ UNCHANGED <<clicks, reqs, tab, opening, entered, adding, options, drawer, detail, loading>>

CloseBox ==
  /\ TableShown /\ table.box # ""
  /\ table' = [table EXCEPT !.box = ""]
  /\ UNCHANGED <<clicks, reqs, tab, opening, entered, adding, options, drawer, detail, loading>>

(* run: the change, then the list again, then the box closes *)
SubmitTrackers ==
  /\ TableShown /\ table.box # "" /\ ~table.busy /\ Press
  /\ table.box = "edit" => Chosen # {}
  /\ table' = [table EXCEPT !.busy = TRUE]
  /\ \E d \in drawer :
       Asked("trackers", [do |-> table.box, drawer |-> d, urls |-> IF table.box = "add" THEN {} ELSE Chosen])
  /\ UNCHANGED <<tab, opening, entered, adding, options, drawer, detail, loading>>

(* the state of a table that is gone is not set any more *)
InTable(r, new) == table' = IF r.arg.drawer \in drawer THEN new ELSE table

TrackersDone(r, ok) ==
  /\ IF ok
     THEN Then(r, "reload", r.arg) /\ InTable(r, [table EXCEPT !.sel = {}])
     ELSE Ended(r) /\ InTable(r, [table EXCEPT !.busy = FALSE])
  /\ UNCHANGED <<tab, opening, entered, adding, options, drawer, detail, loading>>

(* reloadTrackers sets the trackers of whatever detail is shown by now *)
ReloadDone(r, ok) ==
  /\ Ended(r)
  /\ InTable(r, [table EXCEPT !.busy = FALSE, !.box = ""])
  /\ LET stray == r.arg.drawer \notin drawer
     IN  detail' = IF ok THEN {[d EXCEPT !.trackers = r.arg.drawer.hash, !.stray = stray] : d \in detail} ELSE detail
  /\ UNCHANGED <<tab, opening, entered, adding, options, drawer, loading>>

-----------------------------------------------------------------------------

DlgAnswer ==
  \E ok \in BOOLEAN :
    \/ \E r \in Waiting("options")  : OptionsDone(r, ok)
    \/ \E r \in Waiting("add")      : AddDone(r, ok)
    \/ \E r \in Waiting("detail")   : DetailDone(r, ok)
    \/ \E r \in Waiting("trackers") : TrackersDone(r, ok)
    \/ \E r \in Waiting("reload")   : ReloadDone(r, ok)

DlgNext ==
  \/ \E s \in Tabs : DlgTab(s)
  \/ OpenAdd \/ FillIn \/ CancelAdd \/ SubmitAdd
  \/ \E h \in Details : ViewDetail(h)
  \/ CloseDrawer \/ SelectTrackers \/ CloseBox \/ SubmitTrackers
  \/ \E box \in {"add", "edit", "remove"} : OpenBox(box)
  \/ DlgAnswer /\ UNCHANGED clicks

DlgSpec == PageInit /\ DlgInit /\ [][DlgNext]_<<clicks, reqs, dlgVars>>

-----------------------------------------------------------------------------

(* The details shown are those of the drawer's torrent, and its trackers,    *)
(* too, unless the last list was asked for by a drawer closed since:         *)
(* reloadTrackers (TorrentDetailDrawer.tsx:65) is not given up with its      *)
(* drawer, and what it brings is shown for another torrent.  And as long as  *)
(* the drawer says it is loading, an answer that will be taken is on its way. *)
DetailOfDrawer ==
  \A d \in drawer :
    /\ \A shown \in detail : shown.of = d.hash /\ (shown.trackers = d.hash \/ shown.stray)
    /\ loading => \E r \in Waiting("detail") : Uncancelled(r) /\ r.arg.hash = d.hash
=============================================================================
