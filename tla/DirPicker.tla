------------------------------ MODULE DirPicker ------------------------------
(***************************************************************************)
(* The input for a directory of the server's machine and its dialog        *)
(* (frontend/src/components/DirPathInput.tsx).  A path is a root (POSIX,   *)
(* a Windows drive, a UNC share) and the names below it.                   *)
(***************************************************************************)
EXTENDS Page, SequencesExt

CONSTANTS
  Names,       \* names of directories
  Whitelist    \* the directories the agent allows

Roots  == {"/", "C:", "unc"}
Paths  == [root : {"/"}, segs : UNION {[1 .. n -> Names] : n \in 0 .. 2}]
None   == {}

VARIABLES
  dlgOpen, phase,  \* the dialog; info, browse, remote or infoError
  mode,            \* info.mode once known (at most one)
  tree,            \* the paths of the tree's nodes
  rootPath, selPath, rootLoading, rootError,
  candidates,      \* remote: the known directories, once collected (at most one set)
  field            \* the value of the form's field (at most one path)

dirVars == <<dlgOpen, phase, mode, tree, rootPath, selPath, rootLoading, rootError, candidates, field>>

-----------------------------------------------------------------------------
(* Paths.                                                                   *)

(* the parent directory; a root, and the share of a UNC path, have none *)
ParentOf(p) ==
  IF Len(p.segs) <= (IF p.root = "unc" THEN 2 ELSE 0) THEN None
  ELSE {[p EXCEPT !.segs = Front(@)]}

Within(p, dirs) == \E d \in dirs : d.root = p.root /\ IsPrefix(d.segs, p.segs)

(* the links of the breadcrumb: a UNC path starts with its host *)
Crumbs(p) ==
  {[p EXCEPT !.segs = SubSeq(@, 1, n)] : n \in (IF p.root = "unc" THEN 1 ELSE 0) .. Len(p.segs)}

ShownCrumbs ==
  UNION {{c \in Crumbs(p) : mode = {"agent"} => Within(c, Whitelist)} : p \in rootPath}

CanGoUp == \E p \in rootPath : \E u \in ParentOf(p) : mode = {"agent"} => Within(u, Whitelist)

-----------------------------------------------------------------------------

DirInit ==
  /\ dlgOpen = FALSE /\ phase = "info" /\ mode = None
  /\ tree = {} /\ rootPath = None /\ selPath = None /\ rootLoading = FALSE /\ rootError = FALSE
  /\ candidates = None
  /\ field \in {None} \cup {{p} : p \in Paths}

(* loadRoot up to its request; silent: the first jump may fall back *)
LoadRoot(path, silent) ==
  /\ Press
  /\ Asked("root", [path |-> path, silent |-> silent, again |-> FALSE])
  /\ rootLoading' = TRUE /\ rootError' = FALSE

OpenPicker ==
  /\ ~dlgOpen \/ phase = "infoError"
  /\ Press /\ Asked("info", NoArg)
  /\ dlgOpen' = TRUE /\ phase' = "info" /\ mode' = None
  /\ tree' = {} /\ rootPath' = None /\ selPath' = None /\ rootError' = FALSE
  /\ candidates' = None
  /\ UNCHANGED <<rootLoading, field>>

(* the field itself, and the button that closes the dialog *)
TypePath(v) ==
  /\ ~dlgOpen /\ Press /\ field' = v
  /\ UNCHANGED <<reqs, dlgOpen, phase, mode, tree, rootPath, selPath, rootLoading, rootError, candidates>>

CancelPicker ==
  /\ dlgOpen /\ Press /\ dlgOpen' = FALSE
  /\ UNCHANGED <<reqs, phase, mode, tree, rootPath, selPath, rootLoading, rootError, candidates, field>>

(* up, the breadcrumb, and the retry button *)
Relocate ==
  /\ dlgOpen /\ phase = "browse"
  /\ \/ CanGoUp /\ \E p \in rootPath : LoadRoot(ParentOf(p), FALSE)
     \/ \E c \in ShownCrumbs : LoadRoot({c}, FALSE)
     \/ rootError /\ ~rootLoading /\ LoadRoot(rootPath, FALSE)
  /\ UNCHANGED <<dlgOpen, phase, mode, tree, rootPath, selPath, candidates, field>>

TreeShown == dlgOpen /\ phase = "browse" /\ ~rootLoading /\ ~rootError

SelectNode(p) ==
  /\ TreeShown /\ p \in tree /\ Press
  /\ selPath' = {p}
  /\ UNCHANGED <<reqs, dlgOpen, phase, mode, tree, rootPath, rootLoading, rootError, candidates, field>>

ExpandNode(p) ==
  /\ TreeShown /\ p \in tree /\ Press
  /\ Asked("children", p)
  /\ UNCHANGED dirVars

(* handleOk, behind the button's disabled; remote: one of the candidates *)
HandleOk ==
  /\ dlgOpen /\ Press
  /\ \/ phase = "browse" /\ ~rootLoading /\ selPath # None /\ field' = selPath
     \/ phase = "remote" /\ \E cs \in candidates : \E c \in cs : field' = {c}
  /\ dlgOpen' = FALSE
  /\ UNCHANGED <<reqs, phase, mode, tree, rootPath, selPath, rootLoading, rootError, candidates>>

-----------------------------------------------------------------------------
(* The answers.                                                             *)

(* A path, or none.                                                         *)
SomePath == {None} \cup {{p} : p \in Paths}

(* An agent that is connected, a qBittorrent on the backend's machine, or   *)
(* neither; where to start, if qBittorrent says.                            *)
InfoOk(r, m, suggested) ==
  /\ mode' = {m}
  /\ IF m = "remote"
     THEN /\ phase' = "remote" /\ Then(r, "candidates", NoArg)
          /\ UNCHANGED <<rootLoading, rootError>>
     ELSE LET start   == IF field # None THEN field ELSE suggested
              outside == m = "agent" /\ \E p \in start : ~Within(p, Whitelist)
          IN  /\ phase' = "browse"
              /\ Then(r, "root", [path |-> IF outside THEN None ELSE start, silent |-> TRUE, again |-> FALSE])
              /\ rootLoading' = TRUE /\ rootError' = FALSE

InfoFail(r) ==
  /\ phase' = "infoError" /\ rootError' = TRUE /\ Ended(r)
  /\ UNCHANGED <<mode, rootLoading>>

InfoDone(r) ==
  /\ \/ \E m \in {"agent", "local", "remote"}, s \in SomePath : InfoOk(r, m, s)
     \/ InfoFail(r)
  /\ UNCHANGED <<dlgOpen, tree, rootPath, selPath, candidates, field>>

RootOk(r, p) ==
  /\ rootPath' = {p} /\ selPath' = {p}
  /\ tree' = {p} \cup {c \in Paths : {p} = ParentOf(c)}
  /\ rootLoading' = FALSE /\ Ended(r) /\ UNCHANGED rootError

(* Mutant: the error of the second try is not shown.                        *)
RootFailSpinning(r) ==
  /\ Ended(r)
  /\ UNCHANGED <<rootPath, selPath, tree, rootLoading, rootError>>

(* the first jump falls back to where the backend starts, once *)
RootFail(r) ==
  IF r.arg.silent /\ r.arg.path # None /\ ~r.arg.again
  THEN /\ Then(r, "root", [path |-> None, silent |-> TRUE, again |-> TRUE])
       /\ UNCHANGED <<rootPath, selPath, tree, rootLoading, rootError>>
  ELSE /\ tree' = {} /\ rootError' = TRUE /\ rootLoading' = FALSE /\ Ended(r)
       /\ UNCHANGED <<rootPath, selPath>>

(* the backend answers with the directory itself, or with where it starts *)
RootDone(r) ==
  /\ \/ \E p \in Paths : (r.arg.path # None => r.arg.path = {p}) /\ RootOk(r, p)
     \/ RootFail(r)
  /\ UNCHANGED <<dlgOpen, phase, mode, candidates, field>>

(* attachChildren finds the node in the tree there is now, and replaces all *)
(* below it; an error leaves it empty.                                      *)
ChildrenDone(r) ==
  LET above == {c \in tree : c = r.arg \/ ~IsPrefix(r.arg.segs, c.segs)}
  IN  /\ \E entries \in {{}, {c \in Paths : {r.arg} = ParentOf(c)}} :
           tree' = IF r.arg \in tree THEN above \cup entries ELSE tree
      /\ Ended(r)
      /\ UNCHANGED <<dlgOpen, phase, mode, rootPath, selPath, rootLoading, rootError, candidates, field>>

(* loadCandidates: whatever of the three requests succeeded *)
CandidatesDone(r) ==
  /\ \E cs \in {{}} \cup {{p} : p \in Paths} : candidates' = {cs}
  /\ Ended(r)
  /\ UNCHANGED <<dlgOpen, phase, mode, tree, rootPath, selPath, rootLoading, rootError, field>>

DirAnswer ==
  \/ \E r \in Waiting("info")       : InfoDone(r)
  \/ \E r \in Waiting("root")       : RootDone(r)
  \/ \E r \in Waiting("children")   : ChildrenDone(r)
  \/ \E r \in Waiting("candidates") : CandidatesDone(r)

DirNext ==
  \/ OpenPicker \/ CancelPicker \/ Relocate \/ HandleOk
  \/ \E v \in SomePath : TypePath(v)
  \/ \E p \in tree : SelectNode(p) \/ ExpandNode(p)
  \/ DirAnswer /\ UNCHANGED clicks

DirSpec == PageInit /\ DirInit /\ [][DirNext]_<<clicks, reqs, dirVars>>

-----------------------------------------------------------------------------

(* No spinner is left alone: what shows one waits for a request that will   *)
(* end it, whatever answers of an earlier opening arrive.                   *)
SpinnerBacked ==
  /\ rootLoading => Waiting("root") # {}
  /\ phase = "info" /\ dlgOpen => Waiting("info") # {}
  /\ phase = "remote" /\ candidates = None => Waiting("candidates") # {}
=============================================================================
