---------------------------- MODULE SettingsForms ----------------------------
(***************************************************************************)
(* The two pages that edit the settings of a downloader: that of a          *)
(* qBittorrent (pages/settings-qbt/QbtSettingsPage.tsx with                 *)
(* hooks/usePreferencesForm.ts) and that of a Transmission                  *)
(* (pages/settings-tr/SessionSettingsTab.tsx, TransmissionSettingsPage.tsx). *)
(* Both split one form into tabs, each saved for itself; a tab is one field  *)
(* here.  The panel is mounted anew for every server that is chosen.         *)
(***************************************************************************)
EXTENDS Page

CONSTANTS
  Kinds,     \* the pages looked at: "qbt", "tr"
  Machines,  \* the servers of a page
  SettingTabs, \* the tabs with a form
  Unreported, \* per server, the tabs it does not report in the form pickDraft knows
  Inputs     \* values the user may enter (a bound)

Defaults == "default"  \* DEFAULT_PREFERENCES and EMPTY_DRAFT

ASSUME SettingsAssumption ==
  /\ Kinds \subseteq {"qbt", "tr"} /\ Defaults \notin Inputs
  /\ Unreported \in [Machines -> SUBSET SettingTabs]

VARIABLES
  page,      \* which of the two
  conf,      \* remote: machine -> tab -> value
  machine,   \* the server whose panel is mounted
  mount,     \* the click that mounted it
  base,      \* preferences, baseline: what a reset goes back to
  draft,     \* the form
  unsaved,   \* history: what was entered since the tab was saved or reset:
             \* <<tab, value, whether a save of that tab was under way>>
  switched,  \* history: the language was switched since the panel was mounted
  busyLoad,  \* loading
  loaded,    \* of a Transmission's panel ...
  failed,    \* ... and its loadError
  savingTab  \* the tabs whose save is under way

formVars == <<page, conf, machine, mount, base, draft, unsaved, switched, busyLoad, loaded, failed, savingTab>>

Fill(value) == [t \in SettingTabs |-> value]

FormInit ==
  /\ page \in Kinds
  /\ conf = [m \in Machines |-> Fill("theirs")]
  /\ machine \in Machines /\ mount = 0
  /\ base = Fill(Defaults) /\ draft = Fill(Defaults) /\ unsaved = {}
  /\ switched = FALSE /\ busyLoad = FALSE /\ loaded = FALSE /\ failed = FALSE /\ savingTab = {}

-----------------------------------------------------------------------------
(* Mounting and loading.                                                    *)

(* load: no answer to an earlier one is given up for it                     *)
Load(m, n) ==
  /\ busyLoad' = TRUE /\ failed' = FALSE
  /\ Asked("load", [server |-> m, mount |-> n])

(* key={active.id}: the states begin anew, answers for the former panel are lost *)
Mount(m) ==
  /\ Press
  /\ machine' = m /\ mount' = clicks'
  /\ base' = Fill(Defaults) /\ draft' = Fill(Defaults) /\ unsaved' = {} /\ switched' = FALSE
  /\ loaded' = FALSE /\ savingTab' = {}
  /\ Load(m, clicks')
  /\ UNCHANGED <<page, conf>>

Mounted == mount > 0

(* t changes with the language, load with t, and the effect runs again *)
SwitchLanguage ==
  /\ Mounted /\ Press
  /\ Load(machine, mount) /\ switched' = TRUE
  /\ UNCHANGED <<page, conf, machine, mount, base, draft, unsaved, loaded, savingTab>>

(* a Transmission's panel offers to load again in place of the form *)
Retry ==
  /\ page = "tr" /\ ~busyLoad /\ failed /\ Press
  /\ Load(machine, mount)
  /\ UNCHANGED <<page, conf, machine, mount, base, draft, unsaved, switched, loaded, savingTab>>

OfThisPanel(r) == r.arg.mount = mount

(* pickDraft, of a Transmission: a default for what is missing, of another  *)
(* type or not one of the known ways of encryption.                         *)
PickDraft(got, m) ==
  [t \in SettingTabs |-> IF page = "tr" /\ t \in Unreported[m] THEN Defaults ELSE got[t]]

(* all tabs are overwritten; for a qBittorrent by the effect that writes    *)
(* preferences to the form                                                  *)
LoadDone(r, ok, got) ==
  /\ IF OfThisPanel(r)
     THEN /\ IF ok
             THEN /\ base' = PickDraft(got, machine) /\ draft' = base'
                  /\ unsaved' = (IF switched THEN {} ELSE unsaved)
             ELSE UNCHANGED <<base, draft, unsaved>>
          /\ loaded' = ok /\ failed' = (failed \/ ~ok) /\ busyLoad' = FALSE
     ELSE UNCHANGED <<base, draft, unsaved, loaded, failed, busyLoad>>
  /\ Ended(r)
  /\ UNCHANGED <<page, conf, machine, mount, switched, savingTab>>

-----------------------------------------------------------------------------
Others(t) == {u \in unsaved : u[1] # t}

(* The form.  That of a qBittorrent is offered also after its load failed;  *)
(* that of a Transmission shows without a loadError, its buttons once loaded. *)

(* Mutant: a Transmission's, too.                                           *)
OfferedAlways == Mounted /\ ~busyLoad

FormOffered == Mounted /\ ~busyLoad /\ (page = "tr" => loaded /\ ~failed)

EditField(t, v) ==
  /\ FormOffered
  /\ draft[t] # v
  /\ draft' = [draft EXCEPT ![t] = v]
  /\ unsaved' = Others(t) \cup {<<t, v, t \in savingTab>>}
  /\ UNCHANGED <<clicks, reqs, page, conf, machine, mount, base, switched, busyLoad, loaded, failed, savingTab>>

HandleReset(t) ==
  /\ FormOffered /\ draft[t] # base[t]
  /\ draft' = [draft EXCEPT ![t] = base[t]]
  /\ unsaved' = Others(t)
  /\ UNCHANGED <<clicks, reqs, page, conf, machine, mount, base, switched, busyLoad, loaded, failed, savingTab>>

(* one save at a time: the buttons of the other tabs wait, too *)
HandleSaveTab(t) ==
  /\ FormOffered /\ savingTab = {} /\ Press
  /\ savingTab' = {t}
  /\ unsaved' = Others(t)
  /\ Asked("save", [server |-> machine, mount |-> mount, tab |-> t, value |-> draft[t]])
  /\ UNCHANGED <<page, conf, machine, mount, base, draft, switched, busyLoad, loaded, failed>>

(* a server takes the settings or refuses, or its answer is lost *)
Machine(r) ==
  /\ \/ /\ r.op = "load"
        /\ Handled(r, [ok |-> TRUE, got |-> conf[r.arg.server]])
        /\ UNCHANGED conf
     \/ /\ r.op = "save"
        /\ conf' = [conf EXCEPT ![r.arg.server][r.arg.tab] = r.arg.value]
        /\ \E ok \in BOOLEAN : Handled(r, [ok |-> ok, got |-> Fill(Defaults)])
     \/ Handled(r, [ok |-> FALSE, got |-> Fill(Defaults)]) /\ UNCHANGED conf
  /\ UNCHANGED <<clicks, page, machine, mount, base, draft, unsaved, switched, busyLoad, loaded, failed, savingTab>>

(* Mutant: the form of a Transmission follows the baseline.                 *)
DraftSynced(kept) == draft' = kept

(* QbtSettingsPage's effect runs for every change of preferences *)
DraftAfterSave(kept) == draft' = IF page = "qbt" THEN kept ELSE draft

SaveDone(r, ok) ==
  /\ IF OfThisPanel(r)
     THEN /\ IF ok
             THEN LET kept == [base EXCEPT ![r.arg.tab] = r.arg.value]
                  IN base' = kept /\ DraftAfterSave(kept)
             ELSE UNCHANGED <<base, draft>>
          /\ savingTab' = {}
     ELSE UNCHANGED <<base, draft, savingTab>>
  /\ Ended(r)
  /\ UNCHANGED <<page, conf, machine, mount, unsaved, switched, busyLoad, loaded, failed>>

FormAnswer ==
  \/ \E r \in Open("load") \cup Open("save") : Machine(r)
  \/ /\ UNCHANGED clicks
     /\ \/ \E r \in Ready("load") : \E a \in r.got : LoadDone(r, a.ok, a.got)
        \/ \E r \in Ready("save") : \E a \in r.got : SaveDone(r, a.ok)

FormNext ==
  \/ \E m \in Machines : (m # machine \/ ~Mounted) /\ Mount(m)
  \/ SwitchLanguage \/ Retry
  \/ \E t \in SettingTabs :
       HandleReset(t) \/ HandleSaveTab(t) \/ \E v \in Inputs : EditField(t, v)
  \/ FormAnswer

FormSpec == PageInit /\ FormInit /\ [][FormNext]_<<clicks, reqs, formVars>>

-----------------------------------------------------------------------------
(* "Save and reset touch only the fields of the tab" says                   *)
(* SessionSettingsTab.tsx:59: what was entered in a tab and neither saved    *)
(* nor reset is still in the form, whatever saves of other tabs, reloads     *)
(* after a failure and answers for the panel before come in meanwhile.       *)
(* Only the reload that a switch of the language starts may overwrite it:    *)
(* then nothing counts as unsaved any more.                                  *)
TrUnsavedKept == page = "tr" => \A u \in unsaved : draft[u[1]] = u[2]

(* The same of a qBittorrent's panel: "does not touch what is unsaved in      *)
(* other tabs" says QbtSettingsPage.tsx:88.  It fails: preferences changes   *)
(* with every save, and the effect then writes all of them to the form.      *)
QbtUnsavedKept == page = "qbt" => \A u \in unsaved : u[3] \/ draft[u[1]] = u[2]

(* A form that could not be loaded offers nothing to save                   *)
(* (SessionSettingsTab.tsx:241): a Transmission is set to a default the      *)
(* form began with only where it reported nothing pickDraft could take, and  *)
(* the form showed the default in its place.                                *)
NothingInvented ==
  page = "tr" => \A m \in Machines, t \in SettingTabs : conf[m][t] = Defaults => t \in Unreported[m]
=============================================================================
