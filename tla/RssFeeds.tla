------------------------------ MODULE RssFeeds ------------------------------
(***************************************************************************)
(* The page of RSS subscriptions (frontend/src/pages/rss/RssPage.tsx): the  *)
(* tree of one server's feeds and folders, what is selected and expanded in *)
(* it, and the dialogs that change it.  A path is the sequence of its       *)
(* names, the articles of a feed are whether one of them is unread.         *)
(***************************************************************************)
EXTENDS Page, SequencesExt

CONSTANTS
  Feeders,   \* the qBittorrent servers, the tabs of this page
  Guests,    \* the Transmission servers, one of which the store may hold as the active one
  FeedNames, \* names of feeds and folders (a bound)
  Library    \* Feeders -> the nodes a server has at first

Node(path, folder, unread) == [path |-> path, folder |-> folder, unread |-> unread]

ASSUME LibraryAssumption ==
  /\ Guests \cap Feeders = {}
  /\ \A s \in Feeders : \A n \in Library[s] :
       Len(n.path) \in 1..2 /\ n.folder \in BOOLEAN /\ n.unread \in BOOLEAN

VARIABLES
  library,   \* remote: what each server has
  feedTab,   \* activeServerId
  feeds,     \* tree
  opened,    \* the page is mounted
  selectedPath, \* at most one
  expanded,  \* expandedKeys
  seen,      \* seenFoldersRef
  fetching,  \* loading
  window     \* the dialog that is open, at most one: [kind, path, busy], busy the
             \* click that confirmed it

feedVars == <<library, feedTab, feeds, opened, selectedPath, expanded, seen, fetching, window>>

FeedInit ==
  /\ library = Library
  /\ feedTab \in Feeders \cup Guests
  /\ feeds = {} /\ opened = FALSE
  /\ selectedPath = {} /\ expanded = {} /\ seen = {}
  /\ fetching = FALSE /\ window = {}

-----------------------------------------------------------------------------
(* Operators on a tree.                                                     *)

FindNode(nodes, path)  == {n \in nodes : n.path = path}
At(nodes, path)        == {n \in nodes : IsPrefix(path, n.path)}
CollectFeeds(nodes, path) == {n \in At(nodes, path) : ~n.folder}
FolderOptions(nodes)   == {<<>>} \cup {n.path : n \in {m \in nodes : m.folder}}
ParentPath(path)       == SubSeq(path, 1, Len(path) - 1)
ParentKeys(nodes)      == {n.path : n \in {m \in nodes : m.folder /\ At(nodes, m.path) # {m}}}

Selected == UNION {FindNode(feeds, p) : p \in selectedPath}

DefaultParent ==
  IF Selected = {} THEN <<>>
  ELSE LET n == CHOOSE m \in Selected : TRUE
       IN IF n.folder THEN n.path ELSE ParentPath(n.path)

-----------------------------------------------------------------------------
(* The tree is read.                                                        *)

(* the page opens: the effects of its mount *)
Visit ==
  /\ ~opened /\ opened' = TRUE
  /\ fetching' = TRUE
  /\ reqs' = reqs \cup {Request(0, "feeds", [server |-> feedTab, then |-> "nothing", path |-> <<>>])}
  /\ UNCHANGED <<clicks, library, feedTab, feeds, selectedPath, expanded, seen, window>>

(* setActiveServerId and the effect it runs; the tree stays until another comes *)
FeedTab(s) ==
  /\ window = {} /\ s # feedTab /\ Press
  /\ feedTab' = s
  /\ selectedPath' = {} /\ expanded' = {} /\ seen' = {}
  /\ fetching' = TRUE
  /\ Asked("feeds", [server |-> s, then |-> "nothing", path |-> <<>>])
  /\ UNCHANGED <<library, feeds, opened, window>>

ReloadFeeds ==
  /\ window = {} /\ Press
  /\ fetching' = TRUE
  /\ Asked("feeds", [server |-> feedTab, then |-> "nothing", path |-> <<>>])
  /\ UNCHANGED <<library, feedTab, feeds, opened, selectedPath, expanded, seen, window>>

(* Mutant: the handler leaves the dialogs as they are.                      *)
ClosesNothing(r, kind) == UNCHANGED window

(* a confirmation closes itself, another dialog whatever opening it is in    *)
Closes(r, kind) == window' = {w \in window : w.kind # kind \/ (kind = "remove" /\ w.busy # {r.n})}

(* reload's answer, and what run and the handler that called it do then:    *)
(* reload keeps its error to itself                                         *)
FeedsDone(r, ok, nodes) ==
  /\ IF ok
     THEN LET fresh == ParentKeys(nodes) \ seen
          IN /\ feeds' = nodes
             /\ seen' = seen \cup fresh /\ expanded' = expanded \cup fresh
     ELSE UNCHANGED <<feeds, seen, expanded>>
  /\ selectedPath' = CASE r.arg.then = "rename" -> {r.arg.path}
                  [] r.arg.then = "remove" -> {}
                  [] OTHER -> {p \in selectedPath : ok => FindNode(nodes, p) # {}}
  /\ Closes(r, r.arg.then)
  /\ fetching' = FALSE
  /\ Ended(r)
  /\ UNCHANGED <<library, feedTab, opened>>

-----------------------------------------------------------------------------
(* The user in the tree.                                                    *)

SelectPath(p) ==
  /\ window = {} /\ feeds # {}
  /\ p = {} \/ \E n \in feeds : p = {n.path}
  /\ p # selectedPath
  /\ selectedPath' = p
  /\ UNCHANGED <<clicks, reqs, library, feedTab, feeds, opened, expanded, seen, fetching, window>>

(* onExpand *)
ToggleFolder(p) ==
  /\ window = {} /\ p \in ParentKeys(feeds) /\ Press
  /\ expanded' = IF p \in expanded THEN expanded \ {p} ELSE expanded \cup {p}
  /\ UNCHANGED <<reqs, library, feedTab, feeds, opened, selectedPath, seen, fetching, window>>

(* openAddFeed, openAddFolder, openRename, confirmRemove *)
OpenWindow(kind) ==
  /\ window = {} /\ Press
  /\ kind \in {"rename", "remove"} => Selected # {}
  /\ window' = {[kind |-> kind, busy |-> {},
                 path |-> IF kind \in {"rename", "remove"} THEN CHOOSE p \in selectedPath : TRUE
                          ELSE DefaultParent]}
  /\ UNCHANGED <<reqs, library, feedTab, feeds, opened, selectedPath, expanded, seen, fetching>>

CancelWindow ==
  /\ window # {} /\ window' = {}
  /\ UNCHANGED <<clicks, reqs, library, feedTab, feeds, opened, selectedPath, expanded, seen, fetching>>

(* the handlers go on after the dialog was cancelled *)
Runs(op, path, dest, then) ==
  Asked(op, [server |-> feedTab, path |-> path, dest |-> dest, then |-> then])

(* submitAddFeed and submitAddFolder *)
SubmitNode(w, dir, name) ==
  /\ w \in window /\ w.kind \in {"feed", "folder"} /\ Press
  /\ dir \in {w.path} \cup FolderOptions(feeds) /\ Len(dir) < 2
  /\ Runs("addItem", Append(dir, name), <<>>, w.kind)
  /\ UNCHANGED feedVars

(* submitRename *)
SubmitRename(w, name) ==
  /\ w \in window /\ w.kind = "rename"
  /\ \E n \in Selected :
       IF name = Last(n.path)
       THEN /\ window' = {}
            /\ UNCHANGED <<clicks, reqs>>
       ELSE /\ Press
            /\ Runs("move", n.path, Append(ParentPath(n.path), name), "rename")
            /\ UNCHANGED window
  /\ UNCHANGED <<library, feedTab, feeds, opened, selectedPath, expanded, seen, fetching>>

(* onOk: the node of the moment the dialog opened *)
ConfirmRemove(w) ==
  /\ w \in window /\ w.kind = "remove" /\ w.busy = {} /\ Press
  /\ window' = {[w EXCEPT !.busy = {clicks'}]}
  /\ Runs("removeItem", w.path, <<>>, "remove")
  /\ UNCHANGED <<library, feedTab, feeds, opened, selectedPath, expanded, seen, fetching>>

(* refreshSelected and markRead *)
SelectedOp(op) ==
  /\ window = {} /\ Press
  /\ \E n \in Selected :
       /\ op = "markAsRead" => CollectFeeds(feeds, n.path) # {}
       /\ Asked(op, [server |-> feedTab, path |-> n.path, dest |-> <<>>, then |-> "nothing",
                     of |-> {m.path : m \in CollectFeeds(feeds, n.path)}])
  /\ UNCHANGED feedVars

-----------------------------------------------------------------------------
(* A server answers (what qBittorrent does with the paths it is given).     *)

AddNode(nodes, path, folder) ==
  IF FindNode(nodes, path) = {} /\ (Len(path) = 1 \/ Node(ParentPath(path), TRUE, FALSE) \in nodes)
  THEN {nodes \cup {Node(path, folder, FALSE)}} ELSE {}

MoveNode(nodes, path, dest) ==
  IF FindNode(nodes, path) # {} /\ FindNode(nodes, dest) = {}
  THEN {(nodes \ At(nodes, path)) \cup
        {[n EXCEPT !.path = dest \o SubSeq(n.path, Len(path) + 1, Len(n.path))] : n \in At(nodes, path)}}
  ELSE {}

(* what the nodes become: nothing where it refuses *)
Outcomes(r, nodes) ==
  CASE r.op = "addItem"        -> AddNode(nodes, r.arg.path, r.arg.then = "folder")
    [] r.op = "move"       -> MoveNode(nodes, r.arg.path, r.arg.dest)
    [] r.op = "removeItem" -> IF FindNode(nodes, r.arg.path) = {} THEN {} ELSE {nodes \ At(nodes, r.arg.path)}
    [] r.op = "markAsRead" -> {{IF n.path \in r.arg.of THEN [n EXCEPT !.unread = FALSE] ELSE n : n \in nodes}}
    [] r.op = "refresh"    -> {nodes, {IF IsPrefix(r.arg.path, n.path) /\ ~n.folder
                                       THEN [n EXCEPT !.unread = TRUE] ELSE n : n \in nodes}}
    [] OTHER -> {nodes}

FeedOps == {"feeds", "addItem", "move", "removeItem", "markAsRead", "refresh"}

(* it handles a request, refuses it or is not reached: a Transmission has no feeds *)
FeedServer(r) ==
  /\ r.op \in FeedOps /\ r \in Open(r.op)
  /\ \/ /\ r.arg.server \in Feeders
        /\ \E nodes \in Outcomes(r, library[r.arg.server]) :
             /\ library' = [library EXCEPT ![r.arg.server] = nodes]
             /\ Handled(r, [ok |-> TRUE, nodes |-> nodes])
     \/ Handled(r, [ok |-> FALSE, nodes |-> {}]) /\ UNCHANGED library
  /\ UNCHANGED <<clicks, feedTab, feeds, opened, selectedPath, expanded, seen, fetching, window>>

(* run: with success the tree is read again, then the handler goes on       *)
RunDone(r, ok) ==
  /\ IF ok
     THEN /\ Then(r, "feeds", [server |-> r.arg.server, then |-> r.arg.then,
                               path |-> IF r.op = "move" THEN r.arg.dest ELSE r.arg.path])
          /\ fetching' = TRUE /\ UNCHANGED window
     ELSE /\ Ended(r) /\ UNCHANGED fetching
          /\ IF r.op = "removeItem" THEN Closes(r, "remove") ELSE UNCHANGED window
  /\ UNCHANGED <<library, feedTab, feeds, opened, selectedPath, expanded, seen>>

(* refreshItem has returned: the tree is read again 2.5 s later, with the    *)
(* reload of the server it was                                              *)
RefreshDone(r, ok) ==
  /\ IF ok THEN Then(r, "timer", [server |-> r.arg.server]) ELSE Ended(r)
  /\ UNCHANGED feedVars

TimerFires(r) ==
  /\ Then(r, "feeds", [server |-> r.arg.server, then |-> "nothing", path |-> <<>>])
  /\ fetching' = TRUE
  /\ UNCHANGED <<library, feedTab, feeds, opened, selectedPath, expanded, seen, window>>

FeedAnswer ==
  \/ \E r \in reqs : r.op \in FeedOps /\ FeedServer(r)
  \/ /\ UNCHANGED clicks
     /\ \/ \E r \in Ready("feeds") : \E a \in r.got : FeedsDone(r, a.ok, a.nodes)
        \/ \E op \in {"addItem", "move", "removeItem", "markAsRead"} : \E r \in Ready(op) :
             \E a \in r.got : RunDone(r, a.ok)
        \/ \E r \in Ready("refresh") : \E a \in r.got : RefreshDone(r, a.ok)
        \/ \E r \in Waiting("timer") : TimerFires(r)

FeedNext ==
  \/ Visit
  \/ /\ opened
     /\ \/ \E s \in Feeders : FeedTab(s)
        \/ ReloadFeeds
        \/ \E p \in {{}} \cup {{n.path} : n \in feeds} : SelectPath(p)
        \/ \E p \in ParentKeys(feeds) : ToggleFolder(p)
        \/ \E kind \in {"feed", "folder", "rename", "remove"} : OpenWindow(kind)
        \/ CancelWindow
        \/ \E w \in window, name \in FeedNames :
             SubmitRename(w, name) \/ \E dir \in {w.path} \cup FolderOptions(feeds) : SubmitNode(w, dir, name)
        \/ \E w \in window : ConfirmRemove(w)
        \/ \E op \in {"refresh", "markAsRead"} : SelectedOp(op)
  \/ FeedAnswer

FeedSpec == PageInit /\ FeedInit /\ [][FeedNext]_<<clicks, reqs, feedVars>>

-----------------------------------------------------------------------------
(* While the dialog for renaming is open, submitting it renames the item it  *)
(* was opened for, or nothing: an earlier handler that selects something     *)
(* else on its way closes it (submitRename, RssPage.tsx:328-348).            *)
RenameHitsChosen ==
  \A w \in window : w.kind = "rename" => \A n \in Selected : n.path = w.path
=============================================================================
