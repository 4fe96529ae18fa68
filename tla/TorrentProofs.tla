---------------------------- MODULE TorrentProofs ----------------------------
(***************************************************************************)
(* Proofs about the page of a server's torrents: its list, the windows over *)
(* it and its rows, for any number of servers, torrents, clicks and polls.  *)
(***************************************************************************)
EXTENDS PageProofs, TorrentList, TorrentDialogs, TorrentRows, TorrentColumns

AreRequests == \A r \in reqs : IsRequest(r)

(* An effect that is cancelled leaves the requests for anything else alone. *)
LEMMA CancelledKeeps ==
  ASSUME AreRequests, NEW op, NEW q \in Cancelled(op)
  PROVE  /\ IsRequest(q)
         /\ q.op # op => q \in reqs
         /\ q.op = op => q.cancelled
<1>1. PICK r \in reqs : q = IF r.op = op THEN [r EXCEPT !.cancelled = TRUE] ELSE r
  BY DEF Cancelled
<1>2. IsRequest(r)
  BY DEF AreRequests
<1>3. CASE r.op = op
  <2> DEFINE c == [n |-> r.n, op |-> r.op, arg |-> r.arg, got |-> r.got, cancelled |-> TRUE]
  <2>1. q = c
    BY <1>1, <1>2, <1>3 DEF IsRequest
  <2>2. QED
    BY <1>3, <2>1 DEF IsRequest
<1>4. CASE r.op # op
  BY <1>1, <1>2, <1>4
<1>5. QED
  BY <1>3, <1>4

(* The catalogue of a tab is asked for beside what else is under way.       *)
TaxonomyOnly == \A q \in reqs' : IsRequest(q) /\ (q.op # "taxonomy" => q \in reqs)

LEMMA AskedTaxonomy ==
  ASSUME AreRequests, NEW others, others \subseteq Cancelled("taxonomy"),
         NEW n, NEW s, AskTaxonomy(others, n, s)
  PROVE  TaxonomyOnly
<1> DEFINE new == Request(n, "taxonomy", [server |-> s])
<1>1. reqs' \subseteq others \cup {new} /\ IsRequest(new) /\ new.op = "taxonomy"
  BY RequestMade DEF AskTaxonomy
<1>2. \A q \in others : IsRequest(q) /\ (q.op # "taxonomy" => q \in reqs)
  BY CancelledKeeps
<1>3. QED
  BY <1>1, <1>2 DEF TaxonomyOnly

-----------------------------------------------------------------------------
(* TorrentList: what was picked                                             *)

PickedHere(H, meant) == \A h \in H : <<active, h>> \in meant

(* The selection is ticked on the tab that is shown; the targets of the menu *)
(* and of its dialogs are those it was opened for there, as long as one of   *)
(* them is open, and so are those of the dialog before a deletion: no tab    *)
(* can be chosen below it.                                                  *)
AllPickedHere ==
  /\ picked = [page |-> picked["page"], menu |-> picked["menu"]]
  /\ PickedHere(selected, picked["page"])
  /\ menuOpen \/ modal # {} => Targets # {} /\ PickedHere(Targets, picked["menu"])
  /\ \A c \in confirm : c.hashes # {} /\ PickedHere(c.hashes, c.meant)

(* The dialog before a deletion is a record, and its box shows what the ref  *)
(* of the component that opened it holds.                                   *)
IsDialog(c) ==
  /\ c = [n |-> c.n, from |-> c.from, hashes |-> c.hashes, meant |-> c.meant, box |-> c.box]
  /\ c.from \in {"page", "menu"}

BoxIsTicked ==
  /\ ticked = [page |-> ticked["page"], menu |-> ticked["menu"]]
  /\ \A c \in confirm : IsDialog(c) /\ c.box = ticked[c.from]

DialogsInv == BoxIsTicked /\ FilesOnlyIfTicked

PickedInv == AreRequests /\ AllPickedHere /\ OnlyPicked

(* A request the page makes for what is meant then is one for good.         *)
LEMMA AskedPicked ==
  ASSUME PickedInv, NEW op, NEW arg, Asked(op, arg),
         op \in {"batch", "delete", "menu"} =>
           /\ arg.hashes # {}
           /\ (op = "batch" /\ arg.from = "menu") \/ \A h \in arg.hashes : <<arg.server, h>> \in arg.meant
  PROVE  AreRequests' /\ OnlyPicked'
<1> DEFINE new == Request(clicks', op, arg)
<1>1. reqs' = reqs \cup {new} /\ IsRequest(new) /\ new.op = op /\ new.arg = arg
  BY RequestMade DEF Asked
<1>2. AreRequests'
  BY <1>1 DEF PickedInv, AreRequests
<1>3. OnlyPicked'
  BY <1>1 DEF PickedInv, OnlyPicked, Operations, MenuBatches, Meant, Waiting
<1>4. QED
  BY <1>2, <1>3

LEMMA FewerPicked ==
  ASSUME PickedInv, reqs' \subseteq reqs
  PROVE  AreRequests' /\ OnlyPicked'
  BY DEF PickedInv, AreRequests, OnlyPicked, Operations, MenuBatches, Meant, Waiting

LEMMA TaxonomyPicked ==
  ASSUME PickedInv, TaxonomyOnly
  PROVE  AreRequests' /\ OnlyPicked'
  BY DEF TaxonomyOnly, PickedInv, AreRequests, OnlyPicked, Operations, MenuBatches, Meant, Waiting

(* The user on the page itself.                                             *)
LEMMA PagePicked ==
  ASSUME PickedInv, BoxIsTicked,
         \/ \E s \in Tabs : SwitchTab(s)
         \/ \E h \in DOMAIN rows : ClickRow(h) \/ RightClick(h)
         \/ \E op \in Batch : PageBatch(op)
         \/ SetFilter \/ CloseMenu \/ PageDelete \/ Tick \/ ConfirmOk \/ CancelConfirm \/ Polled
  PROVE  PickedInv'
<1>1. ASSUME NEW s \in Tabs, SwitchTab(s)
      PROVE  PickedInv'
  <2>1. /\ selected' = {} /\ ~menuOpen' /\ modal' = {} /\ confirm' = {}
        /\ NoneTicked /\ AskTaxonomy(Cancelled("taxonomy"), clicks', s)
    BY <1>1 DEF SwitchTab, PageFree, AfterSwitch
  <2>2. AllPickedHere'
    BY <2>1 DEF AllPickedHere, PickedHere, NoneTicked, PickedInv
  <2>3. TaxonomyOnly
    BY <2>1, AskedTaxonomy DEF PickedInv
  <2>4. QED
    BY <2>1, <2>2, <2>3, TaxonomyPicked DEF PickedInv
<1>2. ASSUME NEW h \in DOMAIN rows, ClickRow(h)
      PROVE  PickedInv'
  <2>1. AllPickedHere'
    BY <1>2 DEF ClickRow, PageFree, PickedInv, AllPickedHere, PickedHere, Targets
  <2>2. QED
    BY <1>2, <2>1, FewerPicked DEF ClickRow, PickedInv
<1>3. ASSUME NEW h \in DOMAIN rows, RightClick(h)
      PROVE  PickedInv'
  <2> DEFINE targets == IF h \in selected THEN selected \cap DOMAIN rows ELSE {h}
         meant == IF <<active, h>> \in picked.page
                  THEN {p \in picked.page : p[2] \in DOMAIN rows} ELSE {<<active, h>>}
  <2>1. /\ frozen' = [t \in targets |-> rows[t]] /\ picked' = [picked EXCEPT !.menu = meant]
        /\ UNCHANGED <<active, selected, modal, confirm>> /\ confirm = {} /\ modal = {}
    BY <1>3 DEF RightClick, PageFree
  <2>2. DOMAIN frozen' = targets /\ h \in targets
    BY <2>1
  <2>a. \A t \in targets : <<active, t>> \in meant
    BY DEF PickedInv, AllPickedHere, PickedHere
  <2>3. AllPickedHere'
    BY <2>1, <2>2, <2>a DEF PickedInv, AllPickedHere, PickedHere, Targets
  <2>4. QED
    BY <1>3, <2>1, <2>3, FewerPicked DEF RightClick, PickedInv
<1>4. ASSUME NEW op \in Batch, PageBatch(op)
      PROVE  PickedInv'
  <2>1. AllPickedHere'
    BY <1>4 DEF PageBatch, PageFree, PickedInv, AllPickedHere, PickedHere, Targets
  <2>2. CASE selected = {}
    BY <1>4, <2>1, <2>2, FewerPicked DEF PageBatch, HandleBatch, PickedInv
  <2>3. CASE selected # {}
    <3> DEFINE arg == Operation(op, "page", selected)
    <3>1. arg.hashes = selected /\ arg.server = active
      BY DEF Operation
    <3>a. arg.meant = picked["page"]
      BY DEF Operation
    <3>2. Asked("batch", arg)
      BY <1>4, <2>3 DEF PageBatch, HandleBatch
    <3>3. QED
      BY <2>1, <2>3, <3>1, <3>a, <3>2, AskedPicked DEF PickedInv, AllPickedHere, PickedHere
  <2>4. QED
    BY <2>2, <2>3
<1>5. CASE PageDelete
  <2>1. /\ confirm' = {[n |-> clicks', from |-> "page", hashes |-> selected,
                      meant |-> picked["page"], box |-> FALSE]}
        /\ selected # {} /\ UNCHANGED <<active, selected, frozen, modal, picked, reqs>> /\ ~menuOpen' /\ modal = {}
    BY <1>5 DEF PageDelete, Ask, PageFree
  <2>2. AllPickedHere'
    BY <2>1 DEF PickedInv, AllPickedHere, PickedHere
  <2>3. QED
    BY <2>1, <2>2, FewerPicked DEF PickedInv
<1>6. CASE Tick
  <2>1. PICK c \in confirm : confirm' = {[c EXCEPT !.box = ~@]}
    BY <1>6 DEF Tick
  <2>2. [c EXCEPT !.box = ~@].hashes = c.hashes /\ [c EXCEPT !.box = ~@].meant = c.meant
    BY DEF BoxIsTicked, IsDialog
  <2>3. AllPickedHere'
    BY <1>6, <2>1, <2>2 DEF Tick, PickedInv, AllPickedHere, PickedHere, Targets
  <2>4. QED
    BY <1>6, <2>3, FewerPicked DEF Tick, PickedInv
<1>7. CASE ConfirmOk
  <2>1. PICK c \in confirm : Asked("delete", Deletion(c))
    BY <1>7 DEF ConfirmOk
  <2>2. Deletion(c).hashes = c.hashes /\ Deletion(c).server = active /\ Deletion(c).meant = c.meant
    BY DEF Deletion
  <2>3. AllPickedHere'
    BY <1>7 DEF ConfirmOk, PickedInv, AllPickedHere, PickedHere, Targets
  <2>4. QED
    BY <2>1, <2>2, <2>3, AskedPicked DEF PickedInv, AllPickedHere, PickedHere
<1>8. CASE SetFilter \/ CloseMenu \/ CancelConfirm \/ Polled
  <2>1. AllPickedHere'
    BY <1>8 DEF SetFilter, CloseMenu, CancelConfirm, Polled, PickedInv, AllPickedHere, PickedHere, Targets
  <2>2. QED
    BY <1>8, <2>1, FewerPicked DEF SetFilter, CloseMenu, CancelConfirm, Polled, PickedInv
<1>9. QED
  BY <1>1, <1>2, <1>3, <1>4, <1>5, <1>6, <1>7, <1>8

(* The user in the context menu and its dialogs.                            *)
LEMMA MenuPicked ==
  ASSUME PickedInv,
         \/ \E op \in Batch : MenuBatch(op)
         \/ \E op \in Items : MenuItem(op) \/ OpenModal(op)
         \/ MenuDelete \/ CloseModal \/ SubmitModal
  PROVE  PickedInv'
<1>1. ASSUME NEW op \in Batch, MenuBatch(op)
      PROVE  PickedInv'
  <2>1. AllPickedHere'
    BY <1>1 DEF MenuBatch, PickedInv, AllPickedHere, PickedHere, Targets
  <2>2. CASE selected = {}
    BY <1>1, <2>1, <2>2, FewerPicked DEF MenuBatch, HandleBatch, PickedInv
  <2>3. CASE selected # {}
    <3> DEFINE arg == Operation(op, "menu", selected)
    <3>1. arg.hashes = selected /\ arg.from = "menu"
      BY DEF Operation
    <3>2. Asked("batch", arg)
      BY <1>1, <2>3 DEF MenuBatch, HandleBatch
    <3>3. QED
      BY <2>1, <2>3, <3>1, <3>2, AskedPicked DEF PickedInv, AllPickedHere, PickedHere
  <2>4. QED
    BY <2>2, <2>3
<1>2. ASSUME NEW op, Asked("menu", Operation(op, "menu", Targets)), menuOpen \/ modal # {},
             AllPickedHere'
      PROVE  PickedInv'
  <2> DEFINE arg == Operation(op, "menu", Targets)
  <2>1. arg.hashes = Targets /\ arg.server = active /\ arg.meant = picked["menu"]
    BY DEF Operation
  <2>2. QED
    BY <1>2, <2>1, AskedPicked DEF PickedInv, AllPickedHere, PickedHere
<1>3. ASSUME NEW op \in Items, MenuItem(op)
      PROVE  PickedInv'
  <2>1. AllPickedHere'
    BY <1>3 DEF MenuItem, PickedInv, AllPickedHere, PickedHere, Targets
  <2>2. QED
    BY <1>2, <1>3, <2>1 DEF MenuItem
<1>4. CASE SubmitModal
  <2>1. AllPickedHere'
    BY <1>4 DEF SubmitModal, PickedInv, AllPickedHere, PickedHere, Targets
  <2>2. PICK m \in modal : Asked("menu", Operation(m, "menu", Targets))
    BY <1>4 DEF SubmitModal
  <2>3. QED
    BY <1>2, <2>1, <2>2
<1>5. ASSUME NEW op \in Items, OpenModal(op)
      PROVE  PickedInv'
  <2>1. AllPickedHere'
    BY <1>5 DEF OpenModal, PickedInv, AllPickedHere, PickedHere, Targets
  <2>2. QED
    BY <1>5, <2>1, FewerPicked DEF OpenModal, PickedInv
<1>6. CASE MenuDelete
  <2>1. AllPickedHere'
    BY <1>6 DEF MenuDelete, Ask, PickedInv, AllPickedHere, PickedHere, Targets
  <2>2. QED
    BY <1>6, <2>1, FewerPicked DEF MenuDelete, PickedInv
<1>7. CASE CloseModal
  <2>1. AllPickedHere'
    BY <1>7 DEF CloseModal, PickedInv, AllPickedHere, PickedHere, Targets
  <2>2. QED
    BY <1>7, <2>1, FewerPicked DEF CloseModal, PickedInv
<1>8. QED
  BY <1>1, <1>3, <1>4, <1>5, <1>6, <1>7

(* The answers, on whatever tab they find the page.                         *)
LEMMA AnswerPicked ==
  ASSUME PickedInv, TorAnswer
  PROVE  PickedInv'
<1>1. ASSUME NEW r \in Waiting("menu"), NEW ok \in BOOLEAN, MenuDone(r, ok)
      PROVE  PickedInv'
  <2>1. AllPickedHere'
    BY <1>1 DEF MenuDone, PickedInv, AllPickedHere, PickedHere, Targets
  <2>2. CASE Ended(r)
    BY <2>1, <2>2, FewerPicked DEF Ended, PickedInv
  <2>3. CASE AskTaxonomy(Cancelled("taxonomy") \ {r}, r.n, active)
    <3>1. TaxonomyOnly
      BY <2>3, AskedTaxonomy DEF PickedInv
    <3>2. QED
      BY <2>1, <3>1, TaxonomyPicked DEF PickedInv
  <2>4. QED
    BY <1>1, <2>2, <2>3 DEF MenuDone
<1>2. ASSUME NEW r, TaxonomyDone(r) \/ BatchDone(r) \/ DeleteDone(r)
      PROVE  PickedInv'
  <2>1. AllPickedHere' /\ Ended(r)
    BY <1>2 DEF TaxonomyDone, BatchDone, DeleteDone, NoneTicked, PickedInv, AllPickedHere, PickedHere, Targets
  <2>2. QED
    BY <2>1, FewerPicked DEF Ended, PickedInv
<1>3. QED
  BY <1>1, <1>2 DEF TorAnswer

-----------------------------------------------------------------------------
(* TorrentList: the box of the dialog before a deletion                     *)

LEMMA NoNewDeletion ==
  ASSUME FilesOnlyIfTicked, \A q \in reqs' : q.op = "delete" => q \in reqs
  PROVE  FilesOnlyIfTicked'
  BY DEF FilesOnlyIfTicked, Waiting

(* A request for anything but a deletion.                                   *)
LEMMA AskedOther ==
  ASSUME FilesOnlyIfTicked, NEW op, NEW arg, Asked(op, arg), op # "delete"
  PROVE  FilesOnlyIfTicked'
<1>1. \A q \in reqs' : q \in reqs \/ q.op = op
  BY RequestMade DEF Asked
<1>2. QED
  BY <1>1, NoNewDeletion

(* The steps that open, tick, confirm or close the dialog.                  *)
LEMMA DialogSteps ==
  ASSUME DialogsInv, PageDelete \/ MenuDelete \/ Tick \/ ConfirmOk \/ CancelConfirm
  PROVE  DialogsInv'
<1>1. ASSUME NEW from \in {"page", "menu"}, NEW hashes, Ask(from, hashes), UNCHANGED reqs
      PROVE  DialogsInv'
  <2> DEFINE c == [n |-> clicks', from |-> from, hashes |-> hashes, meant |-> picked[from], box |-> FALSE]
  <2>1. confirm' = {c} /\ IsDialog(c) /\ c.box = FALSE /\ c.from = from /\ ticked' = [ticked EXCEPT ![from] = FALSE]
    BY <1>1 DEF Ask, TickReset, IsDialog
  <2>2. ticked'[from] = FALSE /\ ticked' = [page |-> ticked'["page"], menu |-> ticked'["menu"]]
    BY <2>1 DEF DialogsInv, BoxIsTicked
  <2>3. BoxIsTicked'
    BY <2>1, <2>2 DEF BoxIsTicked
  <2>4. QED
    BY <1>1, <2>3, NoNewDeletion DEF DialogsInv
<1>2. CASE PageDelete \/ MenuDelete
  BY <1>1, <1>2 DEF PageDelete, MenuDelete
<1>3. CASE Tick
  <2>1. PICK c \in confirm : /\ confirm' = {[c EXCEPT !.box = ~@]}
                             /\ ticked' = [ticked EXCEPT ![c.from] = ~c.box]
    BY <1>3 DEF Tick
  <2> DEFINE d == [c EXCEPT !.box = ~@]
  <2>2. IsDialog(c) /\ c.from \in {"page", "menu"}
    BY DEF DialogsInv, BoxIsTicked, IsDialog
  <2>3. IsDialog(d) /\ d.from = c.from /\ d.box = ~c.box
    BY <2>2 DEF IsDialog
  <2>4. ticked'[c.from] = ~c.box /\ ticked' = [page |-> ticked'["page"], menu |-> ticked'["menu"]]
    BY <2>1, <2>2 DEF DialogsInv, BoxIsTicked
  <2>5. BoxIsTicked'
    BY <2>1, <2>3, <2>4 DEF BoxIsTicked
  <2>6. QED
    BY <1>3, <2>5, NoNewDeletion DEF Tick, DialogsInv
<1>4. CASE ConfirmOk
  <2>1. PICK c \in confirm : Asked("delete", Deletion(c))
    BY <1>4 DEF ConfirmOk
  <2> DEFINE new == Request(clicks', "delete", Deletion(c))
  <2>2. new.arg = Deletion(c) /\ Deletion(c).files = ticked[c.from] /\ Deletion(c).dialog = c
    BY RequestMade DEF Deletion
  <2>3. c.box = ticked[c.from]
    BY DEF DialogsInv, BoxIsTicked
  <2>4. reqs' = reqs \cup {new}
    BY <2>1 DEF Asked
  <2>5. FilesOnlyIfTicked'
    BY <2>2, <2>3, <2>4 DEF DialogsInv, FilesOnlyIfTicked, Waiting
  <2>6. QED
    BY <1>4, <2>5 DEF ConfirmOk, DialogsInv, BoxIsTicked
<1>5. CASE CancelConfirm
  BY <1>5, NoNewDeletion DEF CancelConfirm, DialogsInv, BoxIsTicked
<1>6. QED
  BY <1>2, <1>3, <1>4, <1>5

(* All the others leave it alone, or close it.                              *)
LEMMA DialogRests ==
  ASSUME AreRequests, DialogsInv, TorNext, ~(PageDelete \/ MenuDelete \/ Tick \/ ConfirmOk \/ CancelConfirm)
  PROVE  DialogsInv'
<1>1. UNCHANGED ticked /\ confirm' \subseteq confirm
  BY DEF TorNext, TorAnswer, SwitchTab, ClickRow, RightClick, PageBatch, MenuBatch, MenuItem, OpenModal,
         SetFilter, CloseMenu, CloseModal, SubmitModal, Polled, TaxonomyDone, BatchDone, DeleteDone, MenuDone
<1>2. BoxIsTicked'
  BY <1>1 DEF DialogsInv, BoxIsTicked
<1>3. ASSUME FilesOnlyIfTicked' PROVE DialogsInv'
  BY <1>2, <1>3 DEF DialogsInv
<1>4. CASE TorAnswer
  <2>1. ASSUME NEW r \in Waiting("menu"), NEW ok \in BOOLEAN, MenuDone(r, ok)
        PROVE  FilesOnlyIfTicked'
    <3>1. CASE Ended(r)
      BY <3>1, NoNewDeletion DEF Ended, DialogsInv
    <3>2. CASE AskTaxonomy(Cancelled("taxonomy") \ {r}, r.n, active)
      <4>1. TaxonomyOnly
        BY <3>2, AskedTaxonomy
      <4>2. QED
        BY <4>1, NoNewDeletion DEF TaxonomyOnly, DialogsInv
    <3>3. QED
      BY <2>1, <3>1, <3>2 DEF MenuDone
  <2>2. ASSUME NEW r, TaxonomyDone(r) \/ BatchDone(r) \/ DeleteDone(r)
        PROVE  FilesOnlyIfTicked'
    BY <2>2, NoNewDeletion DEF TaxonomyDone, BatchDone, DeleteDone, Ended, DialogsInv
  <2>3. QED
    BY <1>3, <1>4, <2>1, <2>2 DEF TorAnswer
<1>5. CASE \E s \in Tabs : SwitchTab(s)
  <2>1. TaxonomyOnly
    BY <1>5, AskedTaxonomy DEF SwitchTab
  <2>2. QED
    BY <1>3, <2>1, NoNewDeletion DEF TaxonomyOnly, DialogsInv
<1>6. CASE \/ \E op \in Batch : PageBatch(op) \/ MenuBatch(op)
           \/ \E op \in Items : MenuItem(op)
           \/ SubmitModal
  <2>1. UNCHANGED reqs \/ \E op \in {"batch", "menu"} : \E arg : Asked(op, arg)
    BY <1>6 DEF PageBatch, MenuBatch, HandleBatch, MenuItem, SubmitModal
  <2>2. QED
    BY <1>3, <2>1, AskedOther, NoNewDeletion DEF DialogsInv
<1>7. CASE \/ \E h \in DOMAIN rows : ClickRow(h) \/ RightClick(h)
           \/ \E op \in Items : OpenModal(op)
           \/ SetFilter \/ CloseMenu \/ CloseModal \/ Polled
  BY <1>3, <1>7, NoNewDeletion
     DEF ClickRow, RightClick, OpenModal, SetFilter, CloseMenu, CloseModal, Polled, DialogsInv
<1>8. QED
  BY <1>4, <1>5, <1>6, <1>7 DEF TorNext

-----------------------------------------------------------------------------

ListInv == PickedInv /\ DialogsInv

LEMMA ListInvariant == TorSpec => []ListInv
<1>1. PageInit /\ TorInit => ListInv
  BY DEF PageInit, TorInit, ListInv, PickedInv, AreRequests, AllPickedHere, PickedHere, OnlyPicked, Operations,
         MenuBatches, Meant, DialogsInv, BoxIsTicked, FilesOnlyIfTicked, Waiting
<1>2. ListInv /\ [TorNext]_<<clicks, reqs, torVars>> => ListInv'
  <2>1. CASE UNCHANGED <<clicks, reqs, torVars>>
    BY <2>1 DEF torVars, ListInv, PickedInv, AreRequests, AllPickedHere, PickedHere, Targets, OnlyPicked,
                Operations, MenuBatches, Meant, DialogsInv, BoxIsTicked, FilesOnlyIfTicked, Waiting
  <2>2. ASSUME ListInv, TorNext PROVE PickedInv'
    BY <2>2, PagePicked, MenuPicked, AnswerPicked DEF TorNext, ListInv, DialogsInv
  <2>3. ASSUME ListInv, TorNext PROVE DialogsInv'
    BY <2>3, DialogSteps, DialogRests DEF ListInv, PickedInv
  <2>4. QED
    BY <2>1, <2>2, <2>3 DEF ListInv
<1>3. QED
  BY <1>1, <1>2, PTL DEF TorSpec

(* Whatever tab is shown and whatever is ticked by then, an operation is for *)
(* what was meant by it, on the server it was meant on, but for the menu's   *)
(* pause and resume (TorrentsPage.tsx, TorrentContextMenu.tsx).             *)
THEOREM PickedOnly == TorSpec => []OnlyPicked
<1>1. ListInv => OnlyPicked
  BY DEF ListInv, PickedInv
<1>2. QED
  BY <1>1, ListInvariant, PTL

(* Files go with a torrent only if the box of that dialog is ticked, however *)
(* many dialogs were opened and cancelled before (deleteFilesRef).          *)
THEOREM FilesOfThisDialog == TorSpec => []FilesOnlyIfTicked
<1>1. ListInv => FilesOnlyIfTicked
  BY DEF ListInv, DialogsInv
<1>2. QED
  BY <1>1, ListInvariant, PTL

-----------------------------------------------------------------------------
(* TorrentDialogs: the drawer                                               *)

(* One drawer at most is open; a request whose answer will be taken was made *)
(* for its torrent, so none is left from a drawer that was closed; and what  *)
(* is shown goes with the drawer.                                           *)
OneDrawer == \A d, e \in drawer : d = e

AskedForIt ==
  \A r \in Waiting("detail") : Uncancelled(r) => \E d \in drawer : d.hash = r.arg.hash

ShownInIt ==
  /\ drawer = {} => detail = {}
  /\ \A shown \in detail : shown = [of |-> shown.of, trackers |-> shown.trackers, stray |-> shown.stray]

DrawerInv == AreRequests /\ OneDrawer /\ AskedForIt /\ ShownInIt /\ DetailOfDrawer

(* The requests for anything but details.                                   *)
DetailsRest == AreRequests' /\ Waiting("detail")' = Waiting("detail")

LEMMA AddedOther ==
  ASSUME AreRequests, NEW n, NEW op, NEW arg, op # "detail",
         reqs' = reqs \cup {Request(n, op, arg)}
  PROVE  DetailsRest
  BY RequestMade DEF DetailsRest, AreRequests, Waiting

LEMMA EndedOther ==
  ASSUME AreRequests, NEW r, r.op # "detail",
         \/ Ended(r)
         \/ \E op, arg : op # "detail" /\ Then(r, op, arg)
  PROVE  DetailsRest
<1>1. CASE Ended(r)
  BY <1>1 DEF Ended, DetailsRest, AreRequests, Waiting
<1>2. ASSUME NEW op, NEW arg, op # "detail", Then(r, op, arg)
      PROVE  DetailsRest
  BY <1>2, RequestMade DEF Then, DetailsRest, AreRequests, Waiting
<1>3. QED
  BY <1>1, <1>2

LEMMA CancelledOther ==
  ASSUME AreRequests, NEW op, op # "detail", NEW r, r.op # "detail",
         reqs' = Cancelled(op) \/ reqs' = Cancelled(op) \ {r}
  PROVE  DetailsRest
<1>1. \A q \in Cancelled(op) : IsRequest(q) /\ (q.op # op => q \in reqs)
  BY CancelledKeeps
<1>2. \A q \in reqs : q.op # op => q \in Cancelled(op)
  BY DEF Cancelled
<1>3. AreRequests'
  BY <1>1 DEF AreRequests
<1>4. \A q \in reqs : q.op = "detail" => q \in reqs'
  BY <1>2
<1>5. \A q \in reqs' : q.op = "detail" => q \in reqs
  BY <1>1
<1>6. QED
  BY <1>3, <1>4, <1>5 DEF DetailsRest, Waiting

(* What leaves the drawer and the requests for it alone.                    *)
LEMMA DrawerRests ==
  ASSUME DrawerInv, DetailsRest, UNCHANGED <<drawer, loading>>,
         \/ UNCHANGED detail
         \/ \E hash, stray :
              /\ detail' = {[d EXCEPT !.trackers = hash, !.stray = stray] : d \in detail}
              /\ stray \/ \A d \in drawer : d.hash = hash
  PROVE  DrawerInv'
<1>1. OneDrawer' /\ AreRequests' /\ AskedForIt'
  BY DEF DrawerInv, DetailsRest, OneDrawer, AskedForIt
<1>2. \A shown \in detail' :
        /\ shown = [of |-> shown.of, trackers |-> shown.trackers, stray |-> shown.stray]
        /\ \E d \in detail : shown.of = d.of
        /\ \A e \in drawer : shown.trackers = e.hash \/ shown.stray
  <2>1. CASE UNCHANGED detail
    BY <2>1 DEF DrawerInv, ShownInIt, DetailOfDrawer
  <2>2. ASSUME NEW hash, NEW stray, detail' = {[d EXCEPT !.trackers = hash, !.stray = stray] : d \in detail},
               stray \/ \A d \in drawer : d.hash = hash,
               NEW shown \in detail'
        PROVE  /\ shown = [of |-> shown.of, trackers |-> shown.trackers, stray |-> shown.stray]
               /\ \E d \in detail : shown.of = d.of
               /\ \A e \in drawer : shown.trackers = e.hash \/ shown.stray
    <3>1. PICK d \in detail : shown = [d EXCEPT !.trackers = hash, !.stray = stray]
      BY <2>2
    <3>2. d = [of |-> d.of, trackers |-> d.trackers, stray |-> d.stray]
      BY DEF DrawerInv, ShownInIt
    <3>3. shown = [of |-> d.of, trackers |-> hash, stray |-> stray]
      BY <3>1, <3>2
    <3>4. QED
      BY <2>2, <3>3
  <2>3. QED
    BY <2>1, <2>2
<1>3. drawer' = {} => detail' = {}
  BY DEF DrawerInv, ShownInIt
<1>4. DetailOfDrawer'
  BY <1>2 DEF DrawerInv, DetailsRest, DetailOfDrawer
<1>5. QED
  BY <1>1, <1>2, <1>3, <1>4 DEF DrawerInv, ShownInIt

(* The dialog for adding torrents, and the tab below both windows.          *)
LEMMA AddingKeepsDrawer ==
  ASSUME DrawerInv,
         \/ \E s \in Tabs : DlgTab(s)
         \/ OpenAdd \/ FillIn \/ CancelAdd \/ SubmitAdd
         \/ \E r \in Waiting("options"), ok \in BOOLEAN : OptionsDone(r, ok)
         \/ \E r \in Waiting("add"), ok \in BOOLEAN : AddDone(r, ok)
  PROVE  DrawerInv'
<1>1. UNCHANGED <<drawer, loading, detail>>
  BY DEF DlgTab, OpenAdd, FillIn, CancelAdd, SubmitAdd, OptionsDone, AddDone
<1>2. AreRequests
  BY DEF DrawerInv
<1>3. CASE UNCHANGED reqs
  BY <1>1, <1>2, <1>3, DrawerRests DEF DetailsRest, AreRequests, Waiting
<1>4. CASE (\E s \in Tabs : DlgTab(s)) \/ FillIn
  BY <1>3, <1>4 DEF DlgTab, FillIn
<1>5. CASE OpenAdd
  BY <1>1, <1>2, <1>3, <1>5, AddedOther, DrawerRests DEF OpenAdd
<1>6. CASE SubmitAdd
  BY <1>1, <1>2, <1>6, AddedOther, DrawerRests DEF SubmitAdd, Asked
<1>7. CASE CancelAdd
  <2>1. reqs' = Cancelled("options")
    BY <1>7 DEF CancelAdd
  <2>2. DetailsRest
    <3>1. Request(0, "options", NoArg).op # "detail"
      BY RequestMade
    <3>2. QED
      BY <1>2, <2>1, <3>1, CancelledOther
  <2>3. QED
    BY <1>1, <2>2, DrawerRests
<1>8. ASSUME NEW r \in Waiting("options"), NEW ok \in BOOLEAN, OptionsDone(r, ok)
      PROVE  DrawerInv'
  BY <1>1, <1>2, <1>8, EndedOther, DrawerRests DEF OptionsDone, Waiting
<1>9. ASSUME NEW r \in Waiting("add"), NEW ok \in BOOLEAN, AddDone(r, ok)
      PROVE  DrawerInv'
  <2>1. r.op # "detail" /\ (Ended(r) \/ reqs' = Cancelled("options") \ {r})
    BY <1>9 DEF AddDone, Waiting
  <2>2. DetailsRest
    BY <1>2, <2>1, EndedOther, CancelledOther
  <2>3. QED
    BY <1>1, <2>2, DrawerRests
<1>10. QED
  BY <1>4, <1>5, <1>6, <1>7, <1>8, <1>9

(* The table of trackers changes the list shown, never whose details it is. *)
LEMMA TrackersKeepDrawer ==
  ASSUME DrawerInv,
         \/ SelectTrackers \/ CloseBox \/ SubmitTrackers
         \/ \E box \in {"add", "edit", "remove"} : OpenBox(box)
         \/ \E r \in Waiting("trackers"), ok \in BOOLEAN : TrackersDone(r, ok)
         \/ \E r \in Waiting("reload"), ok \in BOOLEAN : ReloadDone(r, ok)
  PROVE  DrawerInv'
<1>1. AreRequests
  BY DEF DrawerInv
<1>2. CASE SelectTrackers \/ CloseBox \/ \E box \in {"add", "edit", "remove"} : OpenBox(box)
  BY <1>1, <1>2, DrawerRests DEF SelectTrackers, CloseBox, OpenBox, DetailsRest, AreRequests, Waiting
<1>3. CASE SubmitTrackers
  <2>1. \E arg : Asked("trackers", arg)
    BY <1>3 DEF SubmitTrackers
  <2>2. DetailsRest
    BY <1>1, <2>1, AddedOther DEF Asked
  <2>3. QED
    BY <1>3, <2>2, DrawerRests DEF SubmitTrackers
<1>4. ASSUME NEW r \in Waiting("trackers"), NEW ok \in BOOLEAN, TrackersDone(r, ok)
      PROVE  DrawerInv'
  <2>1. r.op # "detail" /\ (Ended(r) \/ Then(r, "reload", r.arg))
    BY <1>4 DEF TrackersDone, Waiting
  <2>2. DetailsRest
    BY <1>1, <2>1, EndedOther
  <2>3. QED
    BY <1>4, <2>2, DrawerRests DEF TrackersDone
<1>5. ASSUME NEW r \in Waiting("reload"), NEW ok \in BOOLEAN, ReloadDone(r, ok)
      PROVE  DrawerInv'
  <2>1. DetailsRest
    BY <1>1, <1>5, EndedOther DEF ReloadDone, Waiting
  <2> DEFINE hash  == r.arg.drawer.hash
             stray == r.arg.drawer \notin drawer
  <2>2. \/ UNCHANGED detail
        \/ detail' = {[d EXCEPT !.trackers = hash, !.stray = stray] : d \in detail}
    BY <1>5 DEF ReloadDone
  <2>3. stray \/ \A d \in drawer : d.hash = hash
    BY DEF DrawerInv, OneDrawer
  <2>4. UNCHANGED <<drawer, loading>>
    BY <1>5 DEF ReloadDone
  <2> HIDE DEF hash, stray
  <2>5. QED
    BY <2>1, <2>2, <2>3, <2>4, DrawerRests
<1>6. QED
  BY <1>2, <1>3, <1>4, <1>5

(* The drawer itself.                                                       *)
LEMMA DrawerStep ==
  ASSUME DrawerInv,
         \/ \E h \in Details : ViewDetail(h)
         \/ CloseDrawer
         \/ \E r \in Waiting("detail"), ok \in BOOLEAN : DetailDone(r, ok)
  PROVE  DrawerInv'
<1>1. ASSUME NEW h \in Details, ViewDetail(h)
      PROVE  DrawerInv'
  <2> DEFINE d   == [n |-> clicks', hash |-> h]
             new == Request(clicks', "detail", [hash |-> h])
  <2>1. /\ drawer = {} /\ drawer' = {d} /\ d.hash = h /\ UNCHANGED detail
        /\ reqs' = reqs \cup {new}
    BY <1>1 DEF ViewDetail
  <2>2. IsRequest(new) /\ new.op = "detail" /\ new.arg.hash = h /\ Uncancelled(new)
    BY RequestMade DEF Uncancelled
  <2>3. detail = {} /\ \A r \in Waiting("detail") : ~Uncancelled(r)
    BY <2>1 DEF DrawerInv, ShownInIt, AskedForIt
  <2>4. new \in Waiting("detail")' /\ \A r \in Waiting("detail")' : r = new \/ r \in Waiting("detail")
    BY <2>1, <2>2 DEF Waiting
  <2>5. AreRequests'
    BY <2>1, <2>2 DEF DrawerInv, AreRequests
  <2>6. OneDrawer' /\ ShownInIt'
    BY <2>1, <2>3 DEF OneDrawer, ShownInIt
  <2>7. AskedForIt'
    BY <2>1, <2>2, <2>3, <2>4 DEF AskedForIt, Uncancelled
  <2>8. DetailOfDrawer'
    BY <2>1, <2>2, <2>3, <2>4 DEF DetailOfDrawer, Uncancelled
  <2>9. QED
    BY <2>5, <2>6, <2>7, <2>8 DEF DrawerInv
<1>2. CASE CloseDrawer
  <2>1. drawer' = {} /\ detail' = {} /\ reqs' = Cancelled("detail")
    BY <1>2 DEF CloseDrawer
  <2>2. \A q \in reqs' : IsRequest(q) /\ (q.op = "detail" => ~Uncancelled(q))
    BY <2>1, CancelledKeeps DEF DrawerInv, Uncancelled
  <2>3. QED
    BY <2>1, <2>2 DEF DrawerInv, AreRequests, OneDrawer, AskedForIt, ShownInIt, DetailOfDrawer, Waiting, Uncancelled
<1>3. ASSUME NEW r \in Waiting("detail"), NEW ok \in BOOLEAN, DetailDone(r, ok)
      PROVE  DrawerInv'
  <2>1. UNCHANGED drawer /\ Waiting("detail")' = Waiting("detail") \ {r}
    BY <1>3 DEF DetailDone, Ended, Waiting
  <2>2. AreRequests' /\ OneDrawer' /\ AskedForIt'
    BY <1>3, <2>1 DEF DetailDone, Ended, DrawerInv, AreRequests, OneDrawer, AskedForIt, Uncancelled
  <2>3. CASE Uncancelled(r)
    <3> DEFINE shown == [of |-> r.arg.hash, trackers |-> r.arg.hash, stray |-> FALSE]
    <3>1. ~loading' /\ (detail' = detail \/ detail' = {shown})
      BY <1>3, <2>3 DEF DetailDone
    <3>2. PICK d \in drawer : d.hash = r.arg.hash
      BY <2>3 DEF DrawerInv, AskedForIt
    <3>3. drawer = {d} /\ shown.of = d.hash /\ shown.trackers = d.hash /\ shown = [of |-> shown.of, trackers |-> shown.trackers, stray |-> shown.stray]
      BY <3>2 DEF DrawerInv, OneDrawer
    <3>4. ShownInIt' /\ DetailOfDrawer'
      BY <2>1, <3>1, <3>3 DEF DrawerInv, ShownInIt, DetailOfDrawer
    <3>5. QED
      BY <2>2, <3>4 DEF DrawerInv
  <2>4. CASE ~Uncancelled(r)
    <3>1. UNCHANGED <<detail, loading>>
      BY <1>3, <2>4 DEF DetailDone
    <3>2. \A q \in Waiting("detail") : Uncancelled(q) => q \in Waiting("detail")'
      BY <2>1, <2>4
    <3>3. ShownInIt' /\ DetailOfDrawer'
      BY <2>1, <3>1, <3>2 DEF DrawerInv, ShownInIt, DetailOfDrawer, Uncancelled
    <3>4. QED
      BY <2>2, <3>3 DEF DrawerInv
  <2>5. QED
    BY <2>3, <2>4
<1>4. QED
  BY <1>1, <1>2, <1>3

(* The drawer shows the details of its own torrent, whatever was asked for   *)
(* the drawers before it, and is not left loading; the list of trackers is   *)
(* its torrent's, too, unless a reload that a drawer closed since had asked  *)
(* for brought it (TorrentDetailDrawer.tsx, TrackersTab.tsx).               *)
THEOREM DrawerShowsItsOwn == DlgSpec => []DetailOfDrawer
<1>1. PageInit /\ DlgInit => DrawerInv
  BY DEF PageInit, DlgInit, DrawerInv, AreRequests, OneDrawer, AskedForIt, ShownInIt, DetailOfDrawer, Waiting
<1>2. DrawerInv /\ [DlgNext]_<<clicks, reqs, dlgVars>> => DrawerInv'
  <2>1. CASE UNCHANGED <<clicks, reqs, dlgVars>>
    BY <2>1, DrawerRests DEF dlgVars, DetailsRest, DrawerInv, AreRequests, Waiting
  <2>2. QED
    BY <2>1, AddingKeepsDrawer, TrackersKeepDrawer, DrawerStep DEF DlgNext, DlgAnswer
<1>3. DrawerInv => DetailOfDrawer
  BY DEF DrawerInv
<1>4. QED
  BY <1>1, <1>2, <1>3, PTL DEF DlgSpec

-----------------------------------------------------------------------------
(* TorrentRows: the states of all reports                                   *)

(* Whatever is reported gets one of the names the filters know.             *)
LEMMA ReportedState ==
  ASSUME NEW k \in {"qbt", "tr"}, kind = k, raw \in Reports(k)
  PROVE  State \in States /\ (State = "checkingResumeData" => kind = "qbt")
<1>1. CASE k = "qbt"
  BY <1>1 DEF Reports, QbtRows, State, NormalizeState, Aliases, States, DownloadingStates, SeedingStates,
              StoppedStates, ErroredStates
<1>2. CASE k = "tr"
  <2>1. State = MapTrStatus(raw) /\ raw \in TrRows
    BY <1>2 DEF Reports, State
  <2>2. raw.status \in 0..7
    BY <2>1 DEF TrRows
  <2>3. QED
    BY <1>2, <2>1, <2>2 DEF MapTrStatus, States, DownloadingStates, SeedingStates, StoppedStates, ErroredStates
<1>3. QED
  BY <1>1, <1>2

Lifecycle(t) == {key \in {"downloading", "seeding", "stopped", "errored"} : StatusMatch(key, t)}

(* The five groups of states are disjoint, and each but the last is the      *)
(* group of one filter.                                                     *)
LEMMA OneFilter ==
  ASSUME NEW s \in States, NEW t, t = [state |-> s]
  PROVE  IF s = "checkingResumeData" THEN Lifecycle(t) = {}
         ELSE /\ Cardinality(Lifecycle(t)) = 1
              /\ StatusMatch("running", t) <=> StatusMatch("downloading", t) \/ StatusMatch("seeding", t)
<1>1. /\ StatusMatch("downloading", t) <=> s \in DownloadingStates
      /\ StatusMatch("seeding", t) <=> s \in SeedingStates
      /\ StatusMatch("stopped", t) <=> s \in StoppedStates
      /\ StatusMatch("errored", t) <=> s \in ErroredStates
      /\ StatusMatch("running", t) <=> s \notin StoppedStates \cup ErroredStates
  BY DEF StatusMatch
<1>2. CASE s = "checkingResumeData"
  BY <1>1, <1>2 DEF Lifecycle, DownloadingStates, SeedingStates, StoppedStates, ErroredStates
<1>3. CASE s \in DownloadingStates
  <2>1. Lifecycle(t) = {"downloading"}
    BY <1>1, <1>3 DEF Lifecycle, DownloadingStates, SeedingStates, StoppedStates, ErroredStates
  <2>2. QED
    BY <1>1, <1>3, <2>1, FS_Singleton DEF DownloadingStates, StoppedStates, ErroredStates
<1>4. CASE s \in SeedingStates
  <2>1. Lifecycle(t) = {"seeding"}
    BY <1>1, <1>4 DEF Lifecycle, DownloadingStates, SeedingStates, StoppedStates, ErroredStates
  <2>2. QED
    BY <1>1, <1>4, <2>1, FS_Singleton DEF SeedingStates, StoppedStates, ErroredStates
<1>5. CASE s \in StoppedStates
  <2>1. Lifecycle(t) = {"stopped"}
    BY <1>1, <1>5 DEF Lifecycle, DownloadingStates, SeedingStates, StoppedStates, ErroredStates
  <2>2. QED
    BY <1>1, <1>5, <2>1, FS_Singleton DEF DownloadingStates, SeedingStates, StoppedStates
<1>6. CASE s \in ErroredStates
  <2>1. Lifecycle(t) = {"errored"}
    BY <1>1, <1>6 DEF Lifecycle, DownloadingStates, SeedingStates, StoppedStates, ErroredStates
  <2>2. QED
    BY <1>1, <1>6, <2>1, FS_Singleton DEF DownloadingStates, SeedingStates, ErroredStates
<1>7. QED
  BY <1>2, <1>3, <1>4, <1>5, <1>6 DEF States

Reported == kind \in {"qbt", "tr"} /\ raw \in Reports(kind)

(* Every report of either downloader, of any combination of its fields, is   *)
(* in one lifecycle filter (client.ts, transmission.ts, status.ts).         *)
THEOREM OneLifecycleAlways == RowSpec => []OneLifecycle
<1>1. RowInit => Reported
  BY DEF RowInit, Reported, Reports, QbtRows, States, ErroredStates
<1>2. Reported /\ [RowNext]_rowVars => Reported'
  BY DEF Reported, RowNext, rowVars
<1>3. Reported => OneLifecycle
  <2> SUFFICES ASSUME Reported PROVE OneLifecycle
    OBVIOUS
  <2>1. State \in States /\ (State = "checkingResumeData" => kind = "qbt")
    BY ReportedState DEF Reported
  <2>2. QED
    BY <2>1, OneFilter DEF OneLifecycle, Lifecycle
<1>4. QED
  BY <1>1, <1>2, <1>3, PTL DEF RowSpec

-----------------------------------------------------------------------------
(* TorrentColumns                                                           *)

(* Taking a column out at i and putting it back at j: the place that each   *)
(* place of the new list had in the old one.                                *)
Before(i, j, p) ==
  IF p = j THEN i
  ELSE LET q == IF p < j THEN p ELSE p - 1
       IN  IF q < i THEN q ELSE q + 1

LEMMA BeforeShuffles ==
  ASSUME NEW n \in Nat, NEW i \in 1 .. n, NEW j \in 1 .. n
  PROVE  Shuffles([p \in 1 .. n |-> Before(i, j, p)], n)
<1>1. \A p \in 1 .. n : Before(i, j, p) \in 1 .. n
  BY DEF Before
<1>2. \A p, q \in 1 .. n : Before(i, j, p) = Before(i, j, q) => p = q
  BY DEF Before
<1>3. ASSUME NEW q \in 1 .. n PROVE \E p \in 1 .. n : Before(i, j, p) = q
  <2>1. CASE q = i
    BY <2>1 DEF Before
  <2>2. CASE q # i
    <3> DEFINE r == IF q < i THEN q ELSE q - 1
               p == IF r < j THEN r ELSE r + 1
    <3>1. p \in 1 .. n /\ p # j /\ (IF p < j THEN p ELSE p - 1) = r
      BY <2>2
    <3>2. (IF r < i THEN r ELSE r + 1) = q
      BY <2>2
    <3>3. QED
      BY <3>1, <3>2 DEF Before
  <2>3. QED
    BY <2>1, <2>2
<1>4. QED
  BY <1>1, <1>2, <1>3 DEF Shuffles

(* A drag moves a column: none is lost and none doubled.                    *)
LEMMA MovedKeeps ==
  ASSUME NEW S, NEW s \in Seq(S), IsInjective(s), NEW k \in ToSet(s), NEW over \in ToSet(s)
  PROVE  LET u == Moved(k, over, s)
         IN  u \in Seq(S) /\ IsInjective(u) /\ ToSet(u) = ToSet(s)
<1> DEFINE n == Len(s)
           i == IndexIn(k, s)
           j == IndexIn(over, s)
           t == RemoveAt(s, i)
           u == InsertAt(t, j, k)
<1>1. DOMAIN s = 1 .. n /\ n \in Nat /\ s \in [1 .. n -> S]
  BY LenProperties
<1>2. i \in 1 .. n /\ s[i] = k /\ j \in 1 .. n
  BY <1>1 DEF ToSet, IndexIn
<1>3. k \in S
  BY <1>1, <1>2
<1> HIDE DEF i, j
<1>a. IsWithout(t, S, s, i)
  BY <1>2, WithoutOf
<1> HIDE DEF t
<1>4. /\ t \in Seq(S) /\ Len(t) = n - 1
      /\ \A p \in 1 .. n - 1 : t[p] = IF p < i THEN s[p] ELSE s[p + 1]
  BY <1>a DEF IsWithout
<1> HIDE DEF n
<1>5. j \in 1 .. Len(t) + 1 /\ n - 1 + 1 = n
  BY <1>1, <1>2, <1>4
<1>b. IsWith(u, S, t, j, k)
  BY <1>3, <1>4, <1>5, WithOf
<1> HIDE DEF u
<1>6. /\ u \in Seq(S) /\ Len(u) = n
      /\ \A p \in 1 .. n : u[p] = IF p = j THEN k ELSE IF p < j THEN t[p] ELSE t[p - 1]
  BY <1>4, <1>5, <1>b DEF IsWith
<1> DEFINE f == [p \in 1 .. n |-> Before(i, j, p)]
<1>7. Shuffles(f, n)
  BY <1>1, <1>2, BeforeShuffles
<1>8. ASSUME NEW p \in 1 .. n PROVE u[p] = s[Before(i, j, p)]
  <2>1. CASE p = j
    BY <1>2, <1>6, <2>1 DEF Before
  <2>2. CASE p # j
    <3> DEFINE q == IF p < j THEN p ELSE p - 1
    <3>1. u[p] = t[q]
      BY <1>6, <2>2
    <3>2. q \in 1 .. n - 1
      BY <1>1, <1>2, <2>2
    <3>3. Before(i, j, p) = IF q < i THEN q ELSE q + 1
      BY <2>2 DEF Before
    <3> HIDE DEF q
    <3>4. QED
      BY <1>4, <3>1, <3>2, <3>3
  <2>3. QED
    BY <2>1, <2>2
<1>9. \A p \in 1 .. n : u[p] = s[f[p]]
  BY <1>8
<1> HIDE DEF f
<1>10. IsInjective(u) /\ ToSet(u) = ToSet(s)
  BY <1>6, <1>7, <1>9, Rearranged DEF n
<1>11. QED
  BY <1>6, <1>10 DEF u, t, i, j, Moved

(* What buildColumns makes of an order that holds both locked columns once. *)
LEMMA DisplayedSound ==
  ASSUME order \in Seq(Columns), IsInjective(order), Locked \subseteq ToSet(order)
  PROVE  /\ IsInjective(Displayed) /\ Displayed[1] = "name" /\ Displayed[Len(Displayed)] = "actions"
         /\ ToSet(Displayed) = ToSet(order) \cap Ticked
<1> DEFINE sorted == Sifted(order, Ticked)
           left   == Sifted(sorted, {"name"})
           middle == Sifted(sorted, Columns \ Locked)
           right  == Sifted(sorted, {"actions"})
<1>1. sorted \in Seq(Columns) /\ IsInjective(sorted) /\ ToSet(sorted) = ToSet(order) \cap Ticked
  BY SiftedDiffer
<1>2. Locked \subseteq Ticked
  BY DEF Locked, Ticked, Shows
<1> HIDE DEF sorted
<1>3. left \in Seq(Columns) /\ IsInjective(left) /\ ToSet(left) = ToSet(sorted) \cap {"name"}
  BY <1>1, SiftedDiffer
<1>4. middle \in Seq(Columns) /\ IsInjective(middle) /\ ToSet(middle) = ToSet(sorted) \cap (Columns \ Locked)
  BY <1>1, SiftedDiffer
<1>5. right \in Seq(Columns) /\ IsInjective(right) /\ ToSet(right) = ToSet(sorted) \cap {"actions"}
  BY <1>1, SiftedDiffer
<1> HIDE DEF left, middle, right
<1>6. "name" \in ToSet(sorted) /\ "actions" \in ToSet(sorted)
  BY <1>1, <1>2 DEF Locked
<1>7. ToSet(left) = {"name"} /\ ToSet(right) = {"actions"}
  BY <1>3, <1>5, <1>6
<1>8. Len(left) = 1 /\ left[1] = "name" /\ Len(right) = 1 /\ right[1] = "actions"
  BY <1>3, <1>5, <1>7, OnlyOne
<1>9. ToSet(sorted) \subseteq Columns
  BY <1>1, LenProperties DEF ToSet
<1> DEFINE front == left \o middle
           all   == front \o right
<1>10. ToSet(left) \cap ToSet(middle) = {}
  BY <1>4, <1>7 DEF Locked
<1>11. IsConcat(front, Columns, left, middle)
  BY <1>3, <1>4, ConcatOf
<1>12. /\ front \in Seq(Columns) /\ IsInjective(front)
       /\ ToSet(front) = ToSet(left) \cup ToSet(middle)
  BY <1>3, <1>4, <1>10, Joined
<1> HIDE DEF front
<1>13. ToSet(front) \cap ToSet(right) = {}
  BY <1>4, <1>7, <1>12 DEF Locked
<1>14. IsConcat(all, Columns, front, right)
  BY <1>5, <1>12, ConcatOf
<1>15. IsInjective(all) /\ ToSet(all) = ToSet(front) \cup ToSet(right)
  BY <1>5, <1>12, <1>13, Joined
<1> HIDE DEF all
<1>16. all[1] = "name"
  <2>1. Len(middle) \in Nat
    BY <1>4, LenProperties
  <2>2. 1 \in 1 .. Len(left) /\ 1 \in 1 .. Len(front)
    BY <1>8, <1>11, <2>1 DEF IsConcat
  <2>3. QED
    BY <1>8, <1>11, <1>14, <2>2 DEF IsConcat
<1>17. all[Len(all)] = "actions"
  <2>1. Len(all) = Len(front) + 1 /\ 1 \in 1 .. Len(right)
    BY <1>8, <1>14 DEF IsConcat
  <2>2. all[Len(front) + 1] = right[1]
    BY <1>14, <2>1 DEF IsConcat
  <2>3. QED
    BY <1>8, <2>1, <2>2
<1>18. ToSet(all) = ToSet(sorted)
  BY <1>4, <1>6, <1>7, <1>9, <1>12, <1>15 DEF Locked
<1>19. all = Displayed
  BY DEF all, front, left, middle, right, sorted, Displayed
<1>20. QED
  BY <1>1, <1>15, <1>16, <1>17, <1>18, <1>19

(* The columns' inductive invariant: every column stands once, but for one  *)
(* that an older order may lack, and what is dragged is in the order.       *)
ColInv ==
  /\ order \in Seq(Columns) /\ IsInjective(order) /\ Columns \ {"seq_dl"} \subseteq ToSet(order)
  /\ drag = [item |-> drag.item, over |-> drag.over]
  /\ \A k \in drag.item : drag.item = {k} /\ k \in ToSet(order)
  /\ \A k \in drag.over : drag.over = {k} /\ k \in ToSet(order)

LEMMA DefaultOrders ==
  ASSUME NEW s \in {DefaultOrder, <<"name", "size", "category", "actions">>}
  PROVE  /\ s \in Seq(Columns) /\ IsInjective(s) /\ Columns \ {"seq_dl"} \subseteq ToSet(s)
         /\ ToSet(s) \subseteq ToSet(DefaultOrder)
<1>1. ToSet(DefaultOrder) = {"name", "size", "category", "actions", "seq_dl"}
  <2>1. DOMAIN DefaultOrder = 1 .. 5
    BY DEF DefaultOrder
  <2>2. 1 .. 5 = {1, 2, 3, 4, 5}
    OBVIOUS
  <2>3. ToSet(DefaultOrder) = {DefaultOrder[i] : i \in {1, 2, 3, 4, 5}}
    BY <2>1, <2>2 DEF ToSet
  <2>4. QED
    BY <2>3 DEF DefaultOrder
<1>2. Columns = {"name", "size", "category", "actions", "seq_dl"}
  BY <1>1 DEF Columns
<1>3. CASE s = DefaultOrder
  <2>1. s \in Seq(Columns)
    BY <1>2, <1>3 DEF DefaultOrder
  <2>2. IsInjective(s)
    BY <1>3 DEF IsInjective, DefaultOrder
  <2>3. QED
    BY <1>3, <2>1, <2>2 DEF Columns
<1>4. CASE s = <<"name", "size", "category", "actions">>
  <2>1. s \in Seq(Columns)
    BY <1>2, <1>4
  <2>2. IsInjective(s)
    BY <1>4 DEF IsInjective
  <2>3. DOMAIN s = 1 .. 4 /\ 1 .. 4 = {1, 2, 3, 4}
    BY <1>4
  <2>4. ToSet(s) = {s[i] : i \in {1, 2, 3, 4}}
    BY <2>3 DEF ToSet
  <2>5. ToSet(s) = {"name", "size", "category", "actions"}
    BY <1>4, <2>4
  <2>6. QED
    BY <1>1, <1>2, <2>1, <2>2, <2>5
<1>5. QED
  BY <1>3, <1>4

LEMMA ColInvKept == ColInv /\ [ColNext]_colVars => ColInv'
<1> SUFFICES ASSUME ColInv, [ColNext]_colVars PROVE ColInv'
  OBVIOUS
<1>1. CASE OtherTab \/ SelectAll \/ DeselectAll \/ (\E k \in Columns : Toggle(k)) \/ UNCHANGED colVars
  <2>1. UNCHANGED <<order, drag>>
    BY <1>1 DEF OtherTab, SelectAll, DeselectAll, Toggle, colVars
  <2>2. QED
    BY <2>1 DEF ColInv
<1>2. CASE ResetColumns
  <2>1. order' = DefaultOrder /\ drag' = drag
    BY <1>2 DEF ResetColumns
  <2>2. ToSet(order) \subseteq ToSet(DefaultOrder)
    BY LenProperties DEF ColInv, Columns, ToSet
  <2>3. /\ order' \in Seq(Columns) /\ IsInjective(order') /\ Columns \ {"seq_dl"} \subseteq ToSet(order')
    BY <2>1, DefaultOrders
  <2>4. QED
    BY <2>1, <2>2, <2>3 DEF ColInv
<1>3. ASSUME NEW k \in Columns, DragStart(k) PROVE ColInv'
  <2>1. order' = order /\ k \in ToSet(order) /\ drag' = [item |-> {k}, over |-> drag.over]
    BY <1>3 DEF DragStart, ColInv
  <2>2. QED
    BY <2>1 DEF ColInv
<1>4. ASSUME NEW k \in Columns, DragEnter(k) PROVE ColInv'
  <2>1. order' = order /\ k \in ToSet(order) /\ drag' = [item |-> drag.item, over |-> {k}]
    BY <1>4 DEF DragEnter, ColInv
  <2>2. QED
    BY <2>1 DEF ColInv
<1>5. CASE DragEnd
  <2>1. drag' = [item |-> {}, over |-> {}]
    BY <1>5 DEF DragEnd
  <2>2. CASE order' = order
    BY <2>1, <2>2 DEF ColInv
  <2>3. CASE order' # order
    <3> DEFINE k == CHOOSE x \in drag.item : TRUE
               o == CHOOSE x \in drag.over : TRUE
    <3>1. k \in drag.item /\ o \in drag.over /\ order' = Moved(k, o, order)
      BY <1>5, <2>3 DEF DragEnd
    <3> HIDE DEF k, o
    <3>2. k \in ToSet(order) /\ o \in ToSet(order) /\ order \in Seq(Columns) /\ IsInjective(order)
      BY <3>1 DEF ColInv
    <3>3. order' \in Seq(Columns) /\ IsInjective(order') /\ ToSet(order') = ToSet(order)
      BY <3>1, <3>2, MovedKeeps
    <3>4. QED
      BY <2>1, <3>3 DEF ColInv
  <2>4. QED
    BY <2>2, <2>3
<1>6. QED
  BY <1>1, <1>2, <1>3, <1>4, <1>5 DEF ColNext

(* However columns are dragged, ticked and reset, on either kind of server: *)
(* none is lost or doubled and the locked ones keep their edges             *)
(* (columns.tsx: buildColumns; ColumnSettings.tsx: handleDragEnd).          *)
THEOREM ColumnsStaySound == ColSpec => []ColumnsSound
<1>1. ColInit => ColInv
  <2> SUFFICES ASSUME ColInit PROVE ColInv
    OBVIOUS
  <2>1. drag = [item |-> {}, over |-> {}]
    BY DEF ColInit
  <2>2. order \in Seq(Columns) /\ IsInjective(order) /\ Columns \ {"seq_dl"} \subseteq ToSet(order)
    BY DefaultOrders DEF ColInit
  <2>3. QED
    BY <2>1, <2>2 DEF ColInv
<1>2. ColInv => ColumnsSound
  <2> SUFFICES ASSUME ColInv PROVE ColumnsSound
    OBVIOUS
  <2>1. Locked \subseteq Columns \ {"seq_dl"}
    <3>1. DefaultOrder[1] = "name" /\ DefaultOrder[4] = "actions" /\ {1, 4} \subseteq DOMAIN DefaultOrder
      BY DEF DefaultOrder
    <3>2. QED
      BY <3>1 DEF Columns, ToSet, Locked
  <2>2. Locked \subseteq ToSet(order)
    BY <2>1 DEF ColInv
  <2>3. QED
    BY <2>2, DisplayedSound DEF ColInv, ColumnsSound, Columns
<1>3. QED
  BY <1>1, <1>2, ColInvKept, PTL DEF ColSpec
=============================================================================
