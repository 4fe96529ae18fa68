----------------------------- MODULE TorrentList -----------------------------
(***************************************************************************)
(* The page of a server's torrents (frontend/src/pages/torrents): its tabs, *)
(* selection, batch buttons and context menu, and the requests they make   *)
(* (services/api/torrentOps.ts, torrentsApi, trApi).  What a downloader    *)
(* does with a request is seen at the next poll, which may bring anything. *)
(***************************************************************************)
EXTENDS Page, Downloaders

CONSTANT Hashes

VARIABLES
  active,    \* activeServerId
  rows,      \* the torrents shown: hash -> stopped (or failed), running
  selected,  \* selectedRowKeys
  scoped,    \* a category, tag or tracker filter is set: for that server
  menuOpen,  \* ctx
  frozen,    \* the targets of the last right click, as they were
  modal,     \* modalKind, at most one
  confirm,   \* the dialog before a deletion, at most one: [n, from, hashes, meant, box]
  ticked,    \* deleteFilesRef of the page and of the menu
  tax,       \* the server whose categories and tags are held, at most one
  picked,    \* history: the <<tab, torrent>> the user means, those ticked on the
             \* page now, and those the menu was opened for last
  submitting \* the menu's: a run() has begun since the last one ended

torVars == <<active, rows, selected, scoped, menuOpen, frozen, modal, confirm, ticked, tax, picked, submitting>>

Shards == UNION {[H -> {"stopped", "running"}] : H \in SUBSET Hashes}

TorInit ==
  /\ active \in Tabs
  /\ rows = [h \in Hashes |-> "running"] /\ frozen = [h \in {} |-> "running"]
  /\ selected = {} /\ scoped = {} /\ menuOpen = FALSE /\ modal = {} /\ confirm = {}
  /\ ticked = [page |-> FALSE, menu |-> FALSE]
  /\ tax = {active} \ TrTabs /\ picked = [page |-> {}, menu |-> {}] /\ submitting = FALSE

-----------------------------------------------------------------------------
(* What the menu offers, and which of the backend's endpoints an operation  *)
(* goes to.                                                                 *)

Batch == {"stop", "start", "recheck"}

(* operations by their feature, asked of qBittorrent's API whatever the     *)
(* server is; a new tag is one of them but is offered everywhere            *)
Gated == [category |-> "categories", newCategory |-> "categories", share |-> "shareLimits",
          location |-> "location", priority |-> "filePriority", tmm |-> "autoTMM"]

Modals == {"limit", "share", "location", "newCategory", "newTag"}
Items  == {"forceStart", "tag", "clearTags"} \cup DOMAIN Gated \cup Modals

Offered(op) == op \in DOMAIN Gated => Supports(active, Gated[op])

QbtOnly(op) == op \in DOMAIN Gated \cup {"newTag"}

Endpoint(op) == IF active \in TrTabs /\ ~QbtOnly(op) THEN "tr" ELSE "qbt"

Operation(op, from, hashes) ==
  [do |-> op, server |-> active, api |-> Endpoint(op), from |-> from, hashes |-> hashes,
   meant |-> picked[from]]

-----------------------------------------------------------------------------

(* Dialogs have a mask: the page below takes no clicks.                     *)
PageFree == confirm = {} /\ modal = {}

(* useServerTaxonomy *)
AskTaxonomy(others, n, s) ==
  IF Supports(s, "tagRegistry")
  THEN reqs' = others \cup {Request(n, "taxonomy", [server |-> s])}
  ELSE reqs' = others

(* What was ticked counts no more.                                          *)
NoneTicked == picked' = [picked EXCEPT !.page = {}]

(* Mutant: the rows of the tab left stay selected.                          *)
AfterSwitchAll == selected

AfterSwitch == {}

SwitchTab(s) ==
  /\ PageFree /\ s # active /\ Press
  /\ active' = s /\ rows' \in {[h \in Hashes |-> "running"], [h \in Hashes |-> "stopped"]}
  /\ selected' = AfterSwitch /\ menuOpen' = FALSE /\ scoped' = {}
  /\ tax' = (IF Supports(s, "tagRegistry") THEN tax ELSE {})
  /\ AskTaxonomy(Cancelled("taxonomy"), clicks', s)
  /\ NoneTicked
  /\ UNCHANGED <<frozen, modal, confirm, ticked, submitting>>

TaxonomyDone(r) ==
  /\ tax' = (IF Uncancelled(r) THEN {r.arg.server} ELSE tax)
  /\ Ended(r)
  /\ UNCHANGED <<active, rows, selected, scoped, menuOpen, frozen, modal, confirm, ticked, picked, submitting>>

(* the next snapshot of the active server *)
Polled ==
  /\ rows' \in Shards
  /\ UNCHANGED <<clicks, reqs, active, selected, scoped, menuOpen, frozen, modal, confirm, ticked, tax, picked, submitting>>

SetFilter ==
  /\ PageFree /\ scoped = {}
  /\ scoped' = {active}
  /\ UNCHANGED <<clicks, reqs, active, rows, selected, menuOpen, frozen, modal, confirm, ticked, tax, picked, submitting>>

ClickRow(h) ==
  /\ PageFree /\ Press
  /\ selected' = (IF h \in selected THEN selected \ {h} ELSE selected \cup {h})
  /\ menuOpen' = FALSE
  /\ picked' = [picked EXCEPT !.page = IF h \in selected THEN @ \ {<<active, h>>} ELSE @ \cup {<<active, h>>}]
  /\ UNCHANGED <<reqs, active, rows, scoped, frozen, modal, confirm, ticked, tax, submitting>>

(* the whole selection if the row is in it, else the row alone *)
RightClick(h) ==
  /\ PageFree /\ Press
  /\ LET targets == IF h \in selected THEN selected \cap DOMAIN rows ELSE {h}
     IN  frozen' = [t \in targets |-> rows[t]]
  /\ menuOpen' = TRUE
  /\ picked' = [picked EXCEPT !.menu = IF <<active, h>> \in picked.page
                                       THEN {p \in picked.page : p[2] \in DOMAIN rows} ELSE {<<active, h>>}]
  /\ UNCHANGED <<reqs, active, rows, selected, scoped, modal, confirm, ticked, tax, submitting>>

CloseMenu ==
  /\ menuOpen /\ modal = {}
  /\ menuOpen' = FALSE
  /\ UNCHANGED <<clicks, reqs, active, rows, selected, scoped, frozen, modal, confirm, ticked, tax, picked, submitting>>

-----------------------------------------------------------------------------

(* handleBatchAction: on the selection; it is cleared whatever came of it *)
HandleBatch(op, from) ==
  IF selected = {} THEN UNCHANGED reqs ELSE Asked("batch", Operation(op, from, selected))

PageBatch(op) ==
  /\ PageFree /\ Press /\ HandleBatch(op, "page")
  /\ menuOpen' = FALSE
  /\ UNCHANGED <<active, rows, selected, scoped, frozen, modal, confirm, ticked, tax, picked, submitting>>

BatchDone(r) ==
  /\ selected' = {} /\ NoneTicked /\ Ended(r)
  /\ UNCHANGED <<active, rows, scoped, menuOpen, frozen, modal, confirm, ticked, tax, submitting>>

(* Mutant: the box of the dialog before still counts.                       *)
TickKept(from) == ticked

TickReset(from) == [ticked EXCEPT ![from] = FALSE]

Ask(from, hashes) ==
  /\ ticked' = TickReset(from)
  /\ confirm' = {[n |-> clicks', from |-> from, hashes |-> hashes, meant |-> picked[from], box |-> FALSE]}

PageDelete ==
  /\ PageFree /\ selected # {} /\ Press
  /\ Ask("page", selected) /\ menuOpen' = FALSE
  /\ UNCHANGED <<reqs, active, rows, selected, scoped, frozen, modal, tax, picked, submitting>>

Tick ==
  /\ \E c \in confirm :
       /\ confirm' = {[c EXCEPT !.box = ~@]}
       /\ ticked' = [ticked EXCEPT ![c.from] = ~c.box]
  /\ UNCHANGED <<clicks, reqs, active, rows, selected, scoped, menuOpen, frozen, modal, tax, picked, submitting>>

Deletion(c) ==
  [do |-> "delete", server |-> active, api |-> Endpoint("delete"), from |-> c.from, hashes |-> c.hashes,
   meant |-> c.meant, dialog |-> c, files |-> ticked[c.from]]

(* onOk; the dialog waits for the answer, but may be cancelled meanwhile *)
ConfirmOk ==
  /\ Press
  /\ \E c \in confirm :
       /\ \A r \in Waiting("delete") : r.arg.dialog.n # c.n
       /\ Asked("delete", Deletion(c))
       /\ submitting' = (submitting \/ c.from = "menu")
  /\ UNCHANGED <<active, rows, selected, scoped, menuOpen, frozen, modal, confirm, ticked, tax, picked>>

CancelConfirm ==
  /\ confirm # {}
  /\ confirm' = {}
  /\ UNCHANGED <<clicks, reqs, active, rows, selected, scoped, menuOpen, frozen, modal, ticked, tax, picked, submitting>>

(* run() never throws: the selection is cleared after an error, too *)
DeleteDone(r) ==
  /\ selected' = {} /\ NoneTicked /\ Ended(r)
  /\ confirm' = {c \in confirm : c.n # r.arg.dialog.n}
  /\ submitting' = (submitting /\ r.arg.from # "menu")
  /\ UNCHANGED <<active, rows, scoped, menuOpen, frozen, modal, ticked, tax>>

-----------------------------------------------------------------------------
(* The context menu.                                                        *)

CanResume == \E t \in DOMAIN frozen : frozen[t] = "stopped"
CanPause  == \E t \in DOMAIN frozen : frozen[t] = "running"

(* pause and resume are the page's: what they touch is its selection        *)
MenuBatch(op) ==
  /\ menuOpen /\ Press
  /\ \/ op = "start" /\ CanResume
     \/ op = "stop" /\ CanPause
  /\ HandleBatch(op, "menu") /\ menuOpen' = FALSE
  /\ UNCHANGED <<active, rows, selected, scoped, frozen, modal, confirm, ticked, tax, picked, submitting>>

Targets == DOMAIN frozen

(* an item that acts at once; the menu closes before its click arrives *)
MenuItem(op) ==
  /\ menuOpen /\ Offered(op) /\ op \notin Modals /\ Press
  /\ menuOpen' = FALSE /\ submitting' = TRUE
  /\ Asked("menu", Operation(op, "menu", Targets))
  /\ UNCHANGED <<active, rows, selected, scoped, frozen, modal, confirm, ticked, tax, picked>>

MenuDelete ==
  /\ menuOpen /\ Press
  /\ menuOpen' = FALSE /\ Ask("menu", Targets)
  /\ UNCHANGED <<reqs, active, rows, selected, scoped, frozen, modal, tax, picked, submitting>>

OpenModal(kind) ==
  /\ menuOpen /\ Offered(kind) /\ kind \in Modals /\ Press
  /\ menuOpen' = FALSE /\ modal' = {kind}
  /\ UNCHANGED <<reqs, active, rows, selected, scoped, frozen, confirm, ticked, tax, picked, submitting>>

CloseModal ==
  /\ modal # {}
  /\ modal' = {} /\ menuOpen' = FALSE
  /\ UNCHANGED <<clicks, reqs, active, rows, selected, scoped, frozen, confirm, ticked, tax, picked, submitting>>

(* submitModal with its fields filled in; the button waits for what runs,   *)
(* Enter in the field of a name does not                                    *)
SubmitModal ==
  /\ Press /\ submitting' = TRUE
  /\ \E kind \in modal :
       /\ submitting => kind \in {"newCategory", "newTag"}
       /\ Asked("menu", Operation(kind, "menu", Targets))
  /\ UNCHANGED <<active, rows, selected, scoped, menuOpen, frozen, modal, confirm, ticked, tax, picked>>

(* success closes whatever dialog is open; a new name is looked up again *)
MenuDone(r, ok) ==
  /\ IF ok /\ r.arg.do \in Modals
     THEN /\ modal' = {} /\ menuOpen' = FALSE
          /\ IF r.arg.do \in {"newTag", "newCategory"}
             THEN AskTaxonomy(Cancelled("taxonomy") \ {r}, r.n, active)
             ELSE Ended(r)
     ELSE Ended(r) /\ UNCHANGED <<modal, menuOpen>>
  /\ submitting' = FALSE
  /\ UNCHANGED <<active, rows, selected, scoped, frozen, confirm, ticked, tax, picked>>

-----------------------------------------------------------------------------

TorAnswer ==
  \/ \E r \in Waiting("taxonomy") : TaxonomyDone(r)
  \/ \E r \in Waiting("batch")    : BatchDone(r)
  \/ \E r \in Waiting("delete")   : DeleteDone(r)
  \/ \E r \in Waiting("menu"), ok \in BOOLEAN : MenuDone(r, ok)

TorNext ==
  \/ \E s \in Tabs : SwitchTab(s)
  \/ \E h \in DOMAIN rows : ClickRow(h) \/ RightClick(h)
  \/ \E op \in Batch : PageBatch(op) \/ MenuBatch(op)
  \/ \E op \in Items : MenuItem(op) \/ OpenModal(op)
  \/ SetFilter \/ CloseMenu \/ PageDelete \/ MenuDelete \/ Tick \/ ConfirmOk \/ CancelConfirm
  \/ CloseModal \/ SubmitModal \/ Polled
  \/ TorAnswer /\ UNCHANGED clicks

TorSpec == PageInit /\ TorInit /\ [][TorNext]_<<clicks, reqs, torVars>>

-----------------------------------------------------------------------------

Operations == {r \in reqs : r.op \in {"batch", "delete", "menu"}}

Meant(r) == \A h \in r.arg.hashes : <<r.arg.server, h>> \in r.arg.meant

MenuBatches == {r \in Waiting("batch") : r.arg.from = "menu"}

(* Whatever tab is shown by then and whatever has been ticked, dropped and   *)
(* opened meanwhile, an operation goes to at least one torrent, and only to  *)
(* what the user meant, on the server it was meant on: for the page's        *)
(* buttons what was ticked there when they were pressed, for the menu what   *)
(* it was opened for, for a deletion what its dialog was opened for.  Only   *)
(* the menu's pause and resume are left out: see MenuHitsTargets.           *)
OnlyPicked ==
  \A r \in Operations : r.arg.hashes # {} /\ (r \in MenuBatches \/ Meant(r))

(* "The targets of the menu: if the row clicked is in the selection all of   *)
(* it, else only that row", says TorrentsPage.tsx:291-292, and :322-324      *)
(* again.  It fails for pause and resume, which act on the ticked rows.     *)
MenuHitsTargets == \A r \in MenuBatches : Meant(r)

(* Files are deleted only when the box of that very dialog is ticked.       *)
FilesOnlyIfTicked == \A r \in Waiting("delete") : r.arg.files = r.arg.dialog.box
=============================================================================
