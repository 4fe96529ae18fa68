--------------------------- MODULE TorrentColumns ---------------------------
(***************************************************************************)
(* The columns of the table of torrents (columns.tsx) and the popover that *)
(* arranges them (ColumnSettings.tsx).                                     *)
(***************************************************************************)
EXTENDS Filter, SequencesExt

VARIABLES
  offered,  \* the server shown has categories
  order,    \* orderKeys, as persisted
  visible,  \* visibleKeys
  drag      \* dragItem and dragOver: [item, over], each at most one

colVars == <<offered, order, visible, drag>>

-----------------------------------------------------------------------------
(* Columns: the two that are locked and fixed to an edge, and one of each   *)
(* other kind.                                                              *)

DefaultOrder   == <<"name", "size", "category", "actions", "seq_dl">>
DefaultVisible == {"name", "size", "category", "actions"}

Columns == ToSet(DefaultOrder)
Locked  == {"name", "actions"}

Shows(k) == k = "category" => offered

(* the locked ones are always shown *)
Ticked == {k \in visible \cup Locked : Shows(k)}

(* Mutant: the columns stand as the user dragged them.                      *)
DisplayedAsDragged == Sifted(order, Ticked)

(* buildColumns: name first and actions last, whatever was dragged          *)
Displayed ==
  LET sorted == Sifted(order, Ticked)
  IN  Sifted(sorted, {"name"}) \o Sifted(sorted, Columns \ Locked) \o Sifted(sorted, {"actions"})

(* An order kept since before a column was added does not have that column. *)
ColInit ==
  /\ offered \in BOOLEAN
  /\ order \in {DefaultOrder, <<"name", "size", "category", "actions">>}
  /\ visible = DefaultVisible /\ drag = [item |-> {}, over |-> {}]

OtherTab == offered' = ~offered /\ UNCHANGED <<order, visible, drag>>

Toggle(k) ==
  /\ k \in ToSet(order) \ Locked
  /\ visible' = (IF k \in visible THEN visible \ {k} ELSE visible \cup {k})
  /\ UNCHANGED <<offered, order, drag>>

SelectAll   == visible' = Columns /\ UNCHANGED <<offered, order, drag>>
DeselectAll == visible' = {} /\ UNCHANGED <<offered, order, drag>>
ResetColumns == order' = DefaultOrder /\ visible' = DefaultVisible /\ UNCHANGED <<offered, drag>>

(* only an unlocked column can be dragged, but over any; what is dragged    *)
(* over a column need not be one                                            *)
DragStart(k) ==
  /\ k \in ToSet(order) \ Locked
  /\ drag' = [drag EXCEPT !.item = {k}]
  /\ UNCHANGED <<offered, order, visible>>

DragEnter(k) ==
  /\ k \in ToSet(order)
  /\ drag' = [drag EXCEPT !.over = {k}]
  /\ UNCHANGED <<offered, order, visible>>

IndexIn(k, s) == CHOOSE i \in DOMAIN s : s[i] = k

(* the place is looked up before the column is taken out *)
Moved(k, over, s) == InsertAt(RemoveAt(s, IndexIn(k, s)), IndexIn(over, s), k)

DragEnd ==
  /\ drag.item # {}
  /\ order' = IF drag.over \in {{}, drag.item} THEN order
              ELSE Moved(CHOOSE k \in drag.item : TRUE, CHOOSE k \in drag.over : TRUE, order)
  /\ drag' = [item |-> {}, over |-> {}]
  /\ UNCHANGED <<offered, visible>>

ColNext ==
  \/ OtherTab \/ SelectAll \/ DeselectAll \/ ResetColumns \/ DragEnd
  \/ \E k \in Columns : Toggle(k) \/ DragStart(k) \/ DragEnter(k)

ColSpec == ColInit /\ [][ColNext]_colVars

-----------------------------------------------------------------------------

(* However columns are dragged and ticked, on either kind of server: none   *)
(* is lost or doubled, name stays at the left edge and actions at the right, *)
(* and what is ticked is shown unless the server or the order lacks it.     *)
ColumnsSound ==
  LET shown == Displayed
  IN  /\ IsInjective(order) /\ ToSet(DefaultOrder) \ {"seq_dl"} \subseteq ToSet(order)
      /\ IsInjective(shown) /\ shown[1] = "name" /\ shown[Len(shown)] = "actions"
      /\ ToSet(shown) = ToSet(order) \cap Ticked
=============================================================================
