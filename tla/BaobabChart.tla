---------------------------- MODULE BaobabChart ----------------------------
(***************************************************************************)
(* The disk usage analyser: the rings chart and the treemap beside the     *)
(* tree.                                                                   *)
(*                                                                         *)
(* A chart keeps a list of items, one for each row of the tree model that  *)
(* it shows, with the iter of the row in it.  The list is made again only  *)
(* when the chart is drawn, and only when model_changed says so; between   *)
(* two drawings rows come and go, the pointer moves over old items, and a  *)
(* frozen chart does not even hear of the rows.  One chart is in the       *)
(* window; the other is frozen when it is taken out of it, but the end of  *)
(* a scan thaws both.                                                      *)
(***************************************************************************)
EXTENDS Integers, FiniteSets, FiniteSetsExt

CONSTANTS
  Folders,   (* the folders that can have a row                            *)
  First,     (* the one whose row is the first of the tree                 *)
  Above,     (* of each folder: itself and the folders it is in            *)
  Narrow,    (* too small to be seen in a small window                     *)
  NoRow,
  MaxDepth,  (* BAOBAB_CHART_MAX_DEPTH                                     *)
  MaxScans, MaxActs  (* bounds: scans, and what the user does between them *)

ASSUME FoldersAssumption ==
  /\ First \in Folders /\ NoRow \notin Folders /\ Narrow \subseteq Folders
  /\ \A x \in Folders : Above[x] \subseteq Folders /\ {x, First} \subseteq Above[x]
  /\ IsFiniteSet(Folders) /\ MaxDepth \in Nat \ {0} /\ MaxScans \in Nat /\ MaxActs \in Nat

VARIABLES
  chart,     (* the two charts                                             *)
  shown,     (* baobab.current_chart                                       *)
  live,      (* the folders with a row                                     *)
  counted,   (* those whose number of elements is known                    *)
  pc,        (* where the scan is                                          *)
  room,      (* whether the window is large                                *)
  subtips,   (* whether the rings chart shows the names of subfolders      *)
  undefined, (* history: the iter of a removed row has been used           *)
  scans, acts

vars == <<chart, shown, live, counted, pc, room, subtips, undefined, scans, acts>>

Charts == {"rings", "treemap"}
Other(c) == CHOOSE d \in Charts : d # c
Depth(x) == Cardinality(Above[x])
Parent(x) ==
  IF x = First THEN NoRow
  ELSE CHOOSE y \in Above[x] : Depth(y) = Depth(x) - 1
Below(x) == {y \in Folders : x \in Above[y]}

-----------------------------------------------------------------------------
(* What is drawn of a tree.                                                *)

(* calculate_item_geometry: too small an item is not visible, and the      *)
(* rings chart has no room beyond its last ring.                           *)
Visible(c, top, depth, r, x) ==
  /\ x \in Narrow => r = 1
  /\ c = "rings" => Depth(x) - Depth(top) <= depth

(* get_items: the children of visible items, one level more than is drawn. *)
Items(c, top, depth, r, rows) ==
  {x \in Below(top) \cap rows :
     /\ Depth(x) - Depth(top) <= depth + 1
     /\ \A y \in (Above[x] \cap Below(top)) \ {x} : Visible(c, top, depth, r, y)}

(* Of the items, those drawn and those the pointer can find.               *)
Seen(c, top, depth, r, items) == {x \in items : Visible(c, top, depth, r, x)}
Drawn(k) == {x \in k.seen : Depth(x) - Depth(k.top) <= k.max_depth}

(* The places of all items are computed, from the first one on.  On the way *)
(* the treemap notes how deep it goes (max_visible_depth) and whether there *)
(* is more (more_visible_childs).                                          *)
Placed(c, k, r) ==
  LET seen == Seen(c, k.top, k.max_depth, r, k.items)
      drawn == {x \in seen : Depth(x) - Depth(k.top) <= k.max_depth}
  IN  IF c = "rings" THEN [k EXCEPT !.seen = seen]
      ELSE [k EXCEPT !.seen = seen,
                     !.far = Max({0} \cup {Depth(x) - Depth(k.top) : x \in drawn}),
                     !.more = IF seen = drawn THEN 0 ELSE 1]

(* The subtree that is drawn: a reference to a removed row counts for none. *)
Root(k) == IF k.root = NoRow \/ k.gone = 1 THEN First ELSE k.root

-----------------------------------------------------------------------------
(* One chart.  Each operator gives the chart after a call.                 *)

NewChart ==
  [frozen |-> 1, wired |-> 0, model_changed |-> 0, max_depth |-> 1,
   root |-> NoRow, gone |-> 0, top |-> NoRow, items |-> {}, seen |-> {},
   freed |-> {}, builtIn |-> 0, far |-> 0, more |-> 0, highlighted |-> NoRow, queued |-> 1,
   tipsOf |-> NoRow, tips |-> {}, old |-> 0, timer |-> 0, drawing |-> 0]

QueueDraw(k) == [k EXCEPT !.queued = 1]

(* update_draw: draw again if the row is in what the chart shows.          *)
UpdateDraw(k, x, realized) ==
  IF ~realized THEN k
  ELSE LET a == IF k.gone = 1 THEN [k EXCEPT !.root = NoRow, !.gone = 0] ELSE k
       IN  IF /\ Root(a) \in Above[x]
              /\ Depth(x) - Depth(Root(a)) <= a.max_depth
           THEN QueueDraw(a) ELSE a

(* The handlers of the model's signals and the chart's own mouse handlers.  *)
Connect(k) == [k EXCEPT !.wired = @ + 1]
Disconnect(k) == [k EXCEPT !.wired = 0]

(* The handlers of the model's signals, if they are connected.             *)
RowChanged(k, x, realized) ==
  IF k.wired = 0 THEN k
  ELSE UpdateDraw([k EXCEPT !.model_changed = 1], x, realized)

(* What the removal of rows does to what points at them.                   *)
Lose(k, rows) ==
  [k EXCEPT !.freed = @ \cup (k.items \cap rows),
            !.gone = IF k.root \in rows THEN 1 ELSE @]

FreeItems(k) ==
  [k EXCEPT !.items = {}, !.seen = {}, !.freed = {}, !.top = NoRow,
            !.highlighted = NoRow,
            !.old = IF k.tips # {} THEN 1 ELSE @]

GetItems(c, k, rows, r) ==
  LET top == Root(k)
      its == Items(c, top, k.max_depth, r, rows)
  IN  IF top \notin rows THEN [FreeItems(k) EXCEPT !.model_changed = 0]
      ELSE Placed(c, [FreeItems(k) EXCEPT !.items = its, !.top = top,
                                          !.builtIn = r, !.model_changed = 0], r)

(* The names of the subfolders of the item under the pointer.              *)
CleanTips(k) ==
  IF k.tipsOf = NoRow THEN [k EXCEPT !.drawing = 0]
  ELSE [k EXCEPT !.drawing = 0, !.timer = 0, !.tipsOf = NoRow,
                 !.tips = {}, !.old = 0,
                 !.queued = IF k.drawing = 1 THEN 1 ELSE @]

Children(k, x) == {y \in k.seen : x \in Above[y] /\ Depth(y) = Depth(x) + 1}

PreDraw(k) ==
  IF k.highlighted = NoRow \/ Children(k, k.highlighted) = {} THEN CleanTips(k)
  ELSE IF k.highlighted = k.tipsOf THEN k
  ELSE [CleanTips(k) EXCEPT !.tipsOf = k.highlighted, !.timer = 1]

(* draw_item collects them while they are to be drawn.                     *)
CollectTips(k) ==
  IF k.drawing = 0 \/ k.tipsOf = NoRow THEN k
  ELSE [k EXCEPT !.tips = @ \cup (Children(k, k.tipsOf) \cap Drawn(k))]

Draw(c, k) == IF c = "rings" THEN CollectTips(PreDraw(k)) ELSE k

(* Mutant: the items are made again only for another root. *)
ExposeChartOnRootOnly(c, k, rows, r) ==
  LET q == [k EXCEPT !.queued = 0]
      a == IF k.gone = 1 THEN [q EXCEPT !.root = NoRow, !.gone = 0] ELSE q
  IN  IF k.frozen = 1 THEN q
      ELSE IF a.items = {} \/ a.top # Root(a)
      THEN Draw(c, GetItems(c, a, rows, r))
      ELSE Draw(c, a)

(* expose.  A frozen chart paints its memento.                             *)
ExposeChart(c, k, rows, r) ==
  LET q == [k EXCEPT !.queued = 0]
      a == IF k.gone = 1 THEN [q EXCEPT !.root = NoRow, !.gone = 0] ELSE q
  IN  IF k.frozen = 1 THEN q
      ELSE IF a.model_changed = 1 \/ a.items = {} \/ a.top # Root(a)
      THEN Draw(c, GetItems(c, a, rows, r))
      ELSE Draw(c, a)

Freeze(c, k) ==
  IF k.frozen = 1 THEN k
  ELSE QueueDraw(Disconnect([Draw(c, k) EXCEPT !.frozen = 1]))

(* Mutant: a thawed chart trusts the items it had. *)
ThawTrusting(k) ==
  IF k.frozen = 0 THEN k
  ELSE QueueDraw([Connect(k) EXCEPT !.frozen = 0])

Thaw(k) ==
  IF k.frozen = 0 THEN k
  ELSE QueueDraw([Connect(k) EXCEPT !.frozen = 0, !.model_changed = 1])

SetMaxDepth(k, n) ==
  LET d == Max({1, Min({n, MaxDepth})})
  IN  IF d = k.max_depth THEN k
      ELSE QueueDraw([k EXCEPT !.max_depth = d, !.model_changed = 1])

SetRoot(k, x) ==
  IF k.root = x /\ k.gone = 0 THEN k
  ELSE QueueDraw([k EXCEPT !.root = x, !.gone = 0])

(* size_allocate: the items there are get new places.                      *)
Allocate(c, k, r) ==
  IF k.items = {} THEN QueueDraw(k)
  ELSE QueueDraw(Placed(c, k, r))

ZoomedIn(c, k) == IF c = "treemap" THEN k.far - 1 ELSE k.max_depth - 1
CanZoomOut(c, k) == IF c = "treemap" THEN k.more = 1 ELSE k.max_depth < MaxDepth

-----------------------------------------------------------------------------
(* The scan.                                                               *)

Init ==
  /\ shown \in Charts
  /\ chart = [c \in Charts |-> IF c = shown THEN Thaw(NewChart) ELSE NewChart]
  /\ live = Below(First) \cap {x \in Folders : Depth(x) = 1} /\ counted = {}
  /\ pc = "idle" /\ room \in 0..1 /\ subtips \in 0..1
  /\ undefined = 0 /\ scans = 0 /\ acts = 0

Busy(charts) == [c \in Charts |-> Freeze(c, charts[c])]
Ready(charts) == [c \in Charts |-> Thaw(charts[c])]

(* baobab_set_busy (TRUE). *)
StartScan ==
  /\ pc = "idle" /\ scans < MaxScans
  /\ pc' = "starting" /\ scans' = scans + 1
  /\ chart' = Busy(chart)
  /\ UNCHANGED <<shown, live, counted, room, subtips, undefined, acts>>

(* ctk_tree_store_clear; the tree view's cursor is on the last row to go.  *)
ClearTree ==
  /\ pc = "starting"
  /\ pc' = "walking" /\ live' = {} /\ counted' = {}
  /\ chart' = [c \in Charts |-> Lose(chart[c], Folders)]
  /\ UNCHANGED <<shown, room, subtips, undefined, scans, acts>>

Realized(c) == c = shown

InsertRow(x) ==
  /\ pc = "walking" /\ x \notin live
  /\ Parent(x) \in live \cup {NoRow}
  /\ live' = live \cup {x}
  /\ chart' = [c \in Charts |-> RowChanged(chart[c], x, Realized(c))]
  /\ UNCHANGED <<shown, counted, pc, room, subtips, undefined, scans, acts>>

CountRow(x) ==
  /\ pc = "walking" /\ x \in live \ counted
  /\ counted' = counted \cup {x}
  /\ chart' = [c \in Charts |-> RowChanged(chart[c], x, Realized(c))]
  /\ UNCHANGED <<shown, live, pc, room, subtips, undefined, scans, acts>>

(* The percentages of all rows change, then the depth of the charts.       *)
EndScan ==
  /\ pc = "walking"
  /\ pc' = "idle"
  /\ LET deepest == Max({1} \cup {Depth(x) - 1 : x \in live})
         told(c) == IF chart[c].wired = 0 \/ live = {} THEN chart[c]
                    ELSE QueueDraw(RowChanged(chart[c], First, Realized(c)))
     IN  chart' = Ready([c \in Charts |-> SetMaxDepth(told(c), deepest)])
  /\ UNCHANGED <<shown, live, counted, room, subtips, undefined, scans, acts>>

-----------------------------------------------------------------------------
(* The user and the window.                                                *)

Quiet == UNCHANGED <<live, counted, pc, undefined, scans>>
Acts  == acts < MaxActs /\ acts' = acts + 1
Dispatching == pc \in {"idle", "walking"}

(* on_tv_selection_changed. *)
Selected(charts, x) == [c \in Charts |-> SetRoot(charts[c], x)]
SelectRow(x) ==
  /\ Dispatching /\ Acts /\ x \in live
  /\ chart' = Selected(chart, x)
  /\ UNCHANGED <<shown, room, subtips>> /\ Quiet

(* trash_dir_cb: the row of the selected folder goes, and the tree view    *)
(* moves its cursor, and the selection, to another one.                    *)
TrashRow(x) ==
  /\ pc = "idle" /\ Acts /\ x \in live \ {First}
  /\ \A c \in Charts : chart[c].root = x \/ chart[c].root = NoRow
  /\ live' = live \ Below(x) /\ counted' = counted \ Below(x)
  /\ \E next \in live \ Below(x) :
       LET lost == Selected([c \in Charts |-> Lose(chart[c], Below(x))], next)
       IN  chart' = [c \in Charts |-> RowChanged(lost[c], x, Realized(c))]
  /\ UNCHANGED <<shown, pc, room, subtips, undefined, scans>>

(* on_ck_allocated_activate: busy and ready again, also during a scan.     *)
ToggleAllocated ==
  /\ Dispatching /\ Acts
  /\ LET frozen == Busy(chart)
         told(c) == IF live = {} THEN frozen[c] ELSE RowChanged(frozen[c], First, Realized(c))
     IN  chart' = Ready([c \in Charts |-> told(c)])
  /\ UNCHANGED <<shown, room, subtips>> /\ Quiet

SetActiveChart ==
  /\ pc = "idle" /\ Acts
  /\ shown' = Other(shown)
  /\ chart' = [c \in Charts |->
                 IF c = shown THEN Freeze(c, chart[c])
                 ELSE QueueDraw(Allocate(c, Thaw(chart[c]), room))]
  /\ UNCHANGED <<room, subtips>> /\ Quiet

Resize ==
  /\ Dispatching /\ Acts
  /\ room' = 1 - room
  /\ chart' = [chart EXCEPT ![shown] = Allocate(shown, @, 1 - room)]
  /\ UNCHANGED <<shown, subtips>> /\ Quiet

(* The wheel works on a frozen chart as well, the menu only on a live one. *)
ZoomIn ==
  /\ Dispatching /\ Acts
  /\ ZoomedIn(shown, chart[shown]) > 0
  /\ chart' = [chart EXCEPT ![shown] = SetMaxDepth(@, ZoomedIn(shown, @))]
  /\ UNCHANGED <<shown, room, subtips>> /\ Quiet

ZoomOut ==
  /\ Dispatching /\ Acts
  /\ CanZoomOut(shown, chart[shown])
  /\ chart' = [chart EXCEPT ![shown] = SetMaxDepth(@, @.max_depth + 1)]
  /\ UNCHANGED <<shown, room, subtips>> /\ Quiet

SetItemHighlight(k, x) == [QueueDraw(k) EXCEPT !.highlighted = x]

(* motion_notify and leave_notify.                                         *)
Hover(x) ==
  /\ Dispatching /\ chart[shown].wired = 1
  /\ x \in chart[shown].seen \cup {NoRow} /\ x # chart[shown].highlighted
  /\ acts < MaxActs /\ acts' = IF x = NoRow THEN acts ELSE acts + 1
  /\ chart' = [chart EXCEPT ![shown] = SetItemHighlight(@, x)]
  /\ UNCHANGED <<shown, room, subtips>> /\ Quiet

(* button_release: the row of the item becomes the root of both charts.    *)
Click ==
  /\ Dispatching /\ Acts /\ chart[shown].wired = 1
  /\ LET x == chart[shown].highlighted
     IN  /\ x # NoRow
         /\ undefined' = IF x \in chart[shown].freed THEN 1 ELSE undefined
         /\ chart' = IF x \in chart[shown].freed THEN chart ELSE Selected(chart, x)
  /\ UNCHANGED <<shown, room, subtips, live, counted, pc, scans>>

(* baobab_chart_move_up_root.                                              *)
MoveUp ==
  /\ Dispatching /\ Acts /\ chart[shown].wired = 1
  /\ LET k == chart[shown] IN
       /\ k.root # NoRow /\ k.gone = 0
       /\ Parent(k.root) \in counted
       /\ chart' = Selected([chart EXCEPT ![shown] = SetRoot(k, Parent(k.root))],
                            Parent(k.root))
  /\ UNCHANGED <<shown, room, subtips>> /\ Quiet

(* Only a chart in the window is drawn, when nothing else is to be done.   *)
Expose ==
  /\ Dispatching /\ chart[shown].queued = 1
  /\ chart' = [chart EXCEPT ![shown] = ExposeChart(shown, @, live, room)]
  /\ UNCHANGED <<shown, room, subtips, acts>> /\ Quiet

SubfolderTipsTimeout ==
  /\ Dispatching /\ chart["rings"].timer = 1
  /\ chart' = [chart EXCEPT !["rings"] =
                 [QueueDraw(@) EXCEPT !.timer = 2, !.drawing = 1]]
  /\ UNCHANGED <<shown, room, subtips, acts>> /\ Quiet

SetSubtipsEnabled ==
  /\ Dispatching /\ Acts /\ subtips' = 1 - subtips
  /\ chart' = [chart EXCEPT !["rings"] =
                 IF subtips = 1 /\ @.drawing = 1 THEN CleanTips(@) ELSE @]
  /\ UNCHANGED <<shown, room>> /\ Quiet

Scan == StartScan \/ ClearTree \/ EndScan \/ \E x \in Folders : InsertRow(x) \/ CountRow(x)
User ==
  \/ \E x \in Folders : SelectRow(x) \/ TrashRow(x)
  \/ \E x \in Folders \cup {NoRow} : Hover(x)
  \/ ToggleAllocated \/ SetActiveChart \/ Resize
  \/ ZoomIn \/ ZoomOut \/ Click \/ MoveUp \/ SetSubtipsEnabled
Next ==
  undefined = 0 /\ (Scan \/ User \/ Expose \/ SubfolderTipsTimeout)

Spec == Init /\ [][Next]_vars

-----------------------------------------------------------------------------
(* What must not go wrong.                                                 *)

(* An item whose row has been removed is never drawn, compared or kept by  *)
(* a chart that has not noticed: a live chart was told by the model's      *)
(* signals, a frozen one (which is not connected to them) is told when it  *)
(* is thawed.  expose takes the path of the first item's row on the        *)
(* strength of this (baobab-chart.c:830).  And the names drawn beside the  *)
(* rings are those of items there are: the list of them is emptied by the  *)
(* first drawing after the items were freed, because freeing them takes    *)
(* the highlight away too (baobab-chart.c:493).                            *)
StaleItemsAreMarked ==
  /\ \A c \in Charts :
       chart[c].freed # {} => chart[c].frozen = 1 \/ chart[c].model_changed = 1
  /\ chart["rings"].old = 0

(* When nothing is left to be drawn, the chart in the window shows the     *)
(* tree as it is, from the selected folder as far down as it goes, unless  *)
(* it was made for a window of another size: size_allocate moves the items *)
(* there are and makes none.                                               *)
ShowsTheTree ==
  LET k == chart[shown]
      now == Items(shown, Root(k), k.max_depth, room, live)
      fresh == [k EXCEPT !.top = Root(k), !.items = now,
                         !.seen = Seen(shown, Root(k), k.max_depth, room, now)]
  IN  /\ k.queued = 0 /\ k.frozen = 0 /\ Dispatching
      /\ Root(k) \in live /\ k.builtIn = room
      => Drawn(k) = Drawn(fresh)

=============================================================================
