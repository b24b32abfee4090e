---------------------------- MODULE BaobabProofs ----------------------------
(***************************************************************************)
(* The charts, and the tree they show.                                     *)
(*                                                                         *)
(* No chart ever draws, compares or keeps an item whose row is gone, and   *)
(* the chart in the window ends up showing the tree.  The argument is      *)
(* about one chart and one call at a time: each operator of BaobabChart    *)
(* takes a sound chart to a sound one.  Two do not by themselves: the      *)
(* removal of rows, which needs a chart that is frozen or is told of it at *)
(* once, and the freeing of items in the middle of a drawing, which needs  *)
(* the drawing to go on.  Then comes what the items of a chart are worth.  *)
(*                                                                         *)
(* The second half is about BaobabScan: a scan that nobody interferes with *)
(* shows the whole tree.  Each open folder stands between the entries that *)
(* have been dealt with and those that have not.  What has been counted in *)
(* it is a sum over the first, what is to come lies in the others, and the *)
(* two do not meet because the folders are a tree.                         *)
(***************************************************************************)
EXTENDS BaobabScan, BaobabChart, Functions, FiniteSetTheorems, SequenceTheorems,
        WellFoundedInduction, TLAPS

Fields == DOMAIN NewChart

(* A chart is a record and hears of rows exactly while it is thawed; ...    *)
IsChart(k) ==
  /\ k = [f \in Fields |-> k[f]]
  /\ k.frozen \in {0, 1}
  /\ k.wired = 1 - k.frozen

(* ... what it has of removed rows it makes again before it looks; ...      *)
Marked(k) == k.freed # {} => k.frozen = 1 \/ k.model_changed = 1

(* ... it has names of subfolders only beside the item they are of, ...     *)
TipsStand(k) == k.tipsOf = NoRow => k.tips = {}

(* ... and what it was to draw them from is there.                          *)
Sound(c, k) ==
  /\ IsChart(k) /\ Marked(k)
  /\ c = "rings" => TipsStand(k) /\ k.old = 0

(* Between the freeing of the items and the end of the drawing the names    *)
(* may be old, but then nothing is highlighted and they are still the names *)
(* of some item.                                                            *)
HalfDrawn(k) ==
  /\ IsChart(k) /\ Marked(k) /\ TipsStand(k)
  /\ k.old = 1 => k.highlighted = NoRow /\ k.tipsOf # NoRow
  /\ k.old \in {0, 1}

-----------------------------------------------------------------------------
(* The calls, one by one.                                                  *)

LEMMA QueueSound ==
  ASSUME NEW c, NEW k, Sound(c, k)
  PROVE  Sound(c, QueueDraw(k)) /\ QueueDraw(k).frozen = k.frozen
BY DEF Sound, IsChart, Marked, TipsStand, QueueDraw, Fields, NewChart

LEMMA UpdateSound ==
  ASSUME NEW c, NEW k, Sound(c, k), NEW x, NEW b
  PROVE  /\ Sound(c, UpdateDraw(k, x, b))
         /\ UpdateDraw(k, x, b).frozen = k.frozen
<1> DEFINE a == IF k.gone = 1 THEN [k EXCEPT !.root = NoRow, !.gone = 0] ELSE k
<1>1. Sound(c, a) /\ a.frozen = k.frozen
  BY DEF Sound, IsChart, Marked, TipsStand, Fields, NewChart
<1> HIDE DEF a
<1>2. Sound(c, QueueDraw(a)) /\ QueueDraw(a).frozen = k.frozen
  BY <1>1, QueueSound
<1>3. UpdateDraw(k, x, b) \in {k, a, QueueDraw(a)}
  BY DEF UpdateDraw, a
<1> QED BY <1>1, <1>2, <1>3

LEMMA ChangedSound ==
  ASSUME NEW c, NEW k, Sound(c, k), NEW x, NEW b
  PROVE  /\ Sound(c, RowChanged(k, x, b))
         /\ RowChanged(k, x, b).frozen = k.frozen
<1> DEFINE m == [k EXCEPT !.model_changed = 1]
<1>1. Sound(c, m) /\ m.frozen = k.frozen
  BY DEF Sound, IsChart, Marked, TipsStand, Fields, NewChart
<1>2. RowChanged(k, x, b) \in {k, UpdateDraw(m, x, b)}
  BY DEF RowChanged
<1> HIDE DEF m
<1> QED BY <1>1, <1>2, UpdateSound

(* A frozen chart may lose rows, and a chart that is told may too: the      *)
(* handler of the signal marks it whatever else it does.                    *)
LEMMA LoseFrozen ==
  ASSUME NEW c, NEW k, Sound(c, k), k.frozen = 1, NEW listed
  PROVE  Sound(c, Lose(k, listed)) /\ Lose(k, listed).frozen = 1
BY DEF Sound, IsChart, Marked, TipsStand, Lose, Fields, NewChart

LEMMA SetRootKeeps ==
  ASSUME NEW c, NEW k, Sound(c, k), NEW x
  PROVE  Sound(c, SetRoot(k, x)) /\ SetRoot(k, x).frozen = k.frozen
<1> DEFINE s == [k EXCEPT !.root = x, !.gone = 0]
<1>1. Sound(c, s) /\ s.frozen = k.frozen
  BY DEF Sound, IsChart, Marked, TipsStand, Fields, NewChart
<1> HIDE DEF s
<1>2. Sound(c, QueueDraw(s)) /\ QueueDraw(s).frozen = k.frozen
  BY <1>1, QueueSound
<1>3. SetRoot(k, x) \in {k, QueueDraw(s)}
  BY DEF SetRoot, s
<1> QED BY <1>1, <1>2, <1>3

LEMMA LoseTold ==
  ASSUME NEW c, NEW k, Sound(c, k), NEW listed, NEW next, NEW x, NEW b
  PROVE  LET told == RowChanged(SetRoot(Lose(k, listed), next), x, b)
         IN  Sound(c, told) /\ told.frozen = k.frozen
<1> DEFINE l == Lose(k, listed)
           s == SetRoot(l, next)
           m == [s EXCEPT !.model_changed = 1]
<1>1. IsChart(l) /\ (c = "rings" => TipsStand(l) /\ l.old = 0) /\ l.frozen = k.frozen
  BY DEF Sound, IsChart, Marked, TipsStand, Lose, Fields, NewChart
<1>2. IsChart(s) /\ (c = "rings" => TipsStand(s) /\ s.old = 0) /\ s.frozen = k.frozen
  <2> HIDE DEF l
  <2> QED BY <1>1 DEF IsChart, TipsStand, SetRoot, QueueDraw, Fields, NewChart
<1>3. Sound(c, m) /\ m.frozen = k.frozen
  <2> HIDE DEF s
  <2> QED BY <1>2 DEF Sound, IsChart, Marked, TipsStand, Fields, NewChart
<1>4. CASE k.frozen = 1
  <2>1. Sound(c, s)
    BY <1>2, <1>4 DEF Sound, Marked
  <2> HIDE DEF s
  <2> QED BY <2>1, <1>2, ChangedSound DEF s
<1>5. CASE k.frozen = 0
  <2>1. RowChanged(s, x, b) = UpdateDraw(m, x, b)
    <3> HIDE DEF s
    <3> QED BY <1>2, <1>5 DEF RowChanged, IsChart
  <2> HIDE DEF s, m
  <2> QED BY <2>1, <1>3, UpdateSound DEF s
<1> QED BY <1>4, <1>5 DEF Sound, IsChart

-----------------------------------------------------------------------------
(* Drawing.                                                                *)

(* The items are freed with what they were highlighted for.                 *)
LEMMA FreeHalf ==
  ASSUME NEW k, Sound("rings", k)
  PROVE  HalfDrawn(FreeItems(k)) /\ FreeItems(k).freed = {}
<1> DEFINE f   == FreeItems(k)
           was == IF k.tips # {} THEN 1 ELSE k.old
<1>1. f = [k EXCEPT !.items = {}, !.seen = {}, !.freed = {}, !.top = NoRow,
                    !.highlighted = NoRow, !.old = was]
  BY DEF FreeItems
<1>2. was = 1 => k.tips # {}
  BY DEF Sound
<1>3. was \in {0, 1}
  BY DEF Sound
<1> HIDE DEF f, was
<1>4. IsChart(f) /\ f.freed = {} /\ f.tips = k.tips /\ f.tipsOf = k.tipsOf
      /\ f.highlighted = NoRow /\ f.old = was
  BY <1>1 DEF Sound, IsChart, Fields, NewChart
<1>5. HalfDrawn(f)
  BY <1>2, <1>3, <1>4 DEF Sound, HalfDrawn, Marked, TipsStand
<1> QED BY <1>4, <1>5 DEF f

LEMMA FreeSound ==
  ASSUME NEW c, NEW k, Sound(c, k)
  PROVE  LET f == FreeItems(k)
         IN  IsChart(f) /\ f.freed = {} /\ f.frozen = k.frozen
BY DEF Sound, IsChart, Marked, FreeItems, Fields, NewChart

(* New places change no more than what can be seen.                         *)
LEMMA PlacedKeeps ==
  ASSUME NEW c, NEW k, IsChart(k), NEW r
  PROVE  LET p == Placed(c, k, r)
         IN  /\ IsChart(p)
             /\ p.frozen = k.frozen /\ p.freed = k.freed
             /\ p.model_changed = k.model_changed /\ p.tipsOf = k.tipsOf
             /\ p.tips = k.tips /\ p.old = k.old /\ p.highlighted = k.highlighted
<1> DEFINE seen  == Seen(c, k.top, k.max_depth, r, k.items)
           drawn == {x \in seen : Depth(x) - Depth(k.top) <= k.max_depth}
           far   == Max({0} \cup {Depth(x) - Depth(k.top) : x \in drawn})
           more  == IF seen = drawn THEN 0 ELSE 1
<1>1. Placed(c, k, r) = IF c = "rings" THEN [k EXCEPT !.seen = seen]
                        ELSE [k EXCEPT !.seen = seen, !.far = far, !.more = more]
  BY DEF Placed
<1> HIDE DEF seen, drawn, far, more
<1>2. CASE c = "rings"
  <2>1. Placed(c, k, r) = [k EXCEPT !.seen = seen]
    BY <1>1, <1>2
  <2> QED BY <2>1 DEF IsChart, Fields, NewChart
<1>3. CASE c # "rings"
  <2>1. Placed(c, k, r) = [k EXCEPT !.seen = seen, !.far = far, !.more = more]
    BY <1>1, <1>3
  <2> QED BY <2>1 DEF IsChart, Fields, NewChart
<1> QED BY <1>2, <1>3

(* The first thing a drawing does is to drop names of another item.         *)
LEMMA DrawSound ==
  ASSUME NEW c, NEW k, c = "rings" => HalfDrawn(k), IsChart(k), Marked(k)
  PROVE  Sound(c, Draw(c, k)) /\ Draw(c, k).frozen = k.frozen
<1>1. CASE c # "rings"
  BY <1>1 DEF Draw, Sound
<1>2. CASE c = "rings"
  <2> DEFINE p == PreDraw(k)
             t == CleanTips(k)
  <2>1. Sound(c, t) /\ t.frozen = k.frozen /\ t.tips = {}
    BY <1>2 DEF CleanTips, Sound, HalfDrawn, IsChart, Marked, TipsStand, Fields, NewChart
  <2>2. Sound(c, p) /\ p.frozen = k.frozen
    <3> DEFINE h == [t EXCEPT !.tipsOf = k.highlighted, !.timer = 1]
    <3>1. Sound(c, h) /\ h.frozen = k.frozen
      <4> HIDE DEF t
      <4> QED BY <2>1 DEF Sound, IsChart, Marked, TipsStand, Fields, NewChart
    <3>2. p = IF k.highlighted = NoRow \/ Children(k, k.highlighted) = {} THEN t
              ELSE IF k.highlighted = k.tipsOf THEN k ELSE h
      BY DEF PreDraw
    <3>3. k.highlighted # NoRow => Sound(c, k)
      BY <1>2 DEF Sound, HalfDrawn
    <3> HIDE DEF t, h, p
    <3> QED BY <2>1, <3>1, <3>2, <3>3
  <2>3. Sound(c, CollectTips(p)) /\ CollectTips(p).frozen = k.frozen
    <3> DEFINE more == p.tips \cup (Children(p, p.tipsOf) \cap Drawn(p))
    <3>1. CollectTips(p) = IF p.drawing = 0 \/ p.tipsOf = NoRow THEN p
                           ELSE [p EXCEPT !.tips = more]
      BY DEF CollectTips
    <3> HIDE DEF p, more
    <3> QED BY <1>2, <2>2, <3>1 DEF Sound, IsChart, Marked, TipsStand, Fields, NewChart
  <2> QED BY <1>2, <2>3 DEF Draw
<1> QED BY <1>1, <1>2

LEMMA PlacedSound ==
  ASSUME NEW c, NEW k, Sound(c, k), NEW r
  PROVE  Sound(c, Placed(c, k, r)) /\ Placed(c, k, r).frozen = k.frozen
<1> DEFINE p == Placed(c, k, r)
<1>1. /\ IsChart(p)
      /\ p.frozen = k.frozen /\ p.freed = k.freed
      /\ p.model_changed = k.model_changed /\ p.tipsOf = k.tipsOf
      /\ p.tips = k.tips /\ p.old = k.old /\ p.highlighted = k.highlighted
  BY PlacedKeeps DEF Sound
<1> HIDE DEF p
<1>2. Sound(c, p) /\ p.frozen = k.frozen
  BY <1>1 DEF Sound, Marked, TipsStand
<1> QED BY <1>2 DEF p

(* The list that is made again holds no removed row, and the drawing goes   *)
(* on from there.                                                           *)
LEMMA GetItemsDrawn ==
  ASSUME NEW c, NEW k, Sound(c, k), NEW listed, NEW r
  PROVE  LET g == GetItems(c, k, listed, r)
         IN  /\ c = "rings" => HalfDrawn(g)
             /\ IsChart(g) /\ Marked(g) /\ g.frozen = k.frozen
<1> DEFINE f   == FreeItems(k)
           top == Root(k)
           its == Items(c, top, k.max_depth, r, listed)
           e   == [f EXCEPT !.model_changed = 0]
           n   == [f EXCEPT !.items = its, !.top = top, !.builtIn = r, !.model_changed = 0]
           p   == Placed(c, n, r)
<1>1. /\ IsChart(f) /\ f.freed = {} /\ f.frozen = k.frozen
      /\ c = "rings" => HalfDrawn(f)
  BY FreeSound, FreeHalf
<1>2. GetItems(c, k, listed, r) = IF top \notin listed THEN e ELSE p
  BY DEF GetItems
<1> HIDE DEF f, top, its
<1>3. /\ IsChart(e) /\ Marked(e) /\ e.frozen = k.frozen
      /\ c = "rings" => HalfDrawn(e)
  BY <1>1 DEF HalfDrawn, IsChart, Marked, TipsStand, Fields, NewChart
<1>4. /\ IsChart(n) /\ n.freed = {} /\ n.frozen = k.frozen
      /\ c = "rings" => HalfDrawn(n)
  BY <1>1 DEF HalfDrawn, IsChart, Marked, TipsStand, Fields, NewChart
<1> HIDE DEF e, n
<1>5. /\ IsChart(p)
      /\ p.frozen = n.frozen /\ p.freed = n.freed
      /\ p.model_changed = n.model_changed /\ p.tipsOf = n.tipsOf
      /\ p.tips = n.tips /\ p.old = n.old /\ p.highlighted = n.highlighted
  BY <1>4, PlacedKeeps
<1> HIDE DEF p
<1>6. /\ Marked(p) /\ p.frozen = k.frozen
      /\ c = "rings" => HalfDrawn(p)
  BY <1>4, <1>5 DEF Marked, HalfDrawn, TipsStand
<1> QED BY <1>2, <1>3, <1>5, <1>6

LEMMA SoundIsHalf ==
  ASSUME NEW c, NEW k, Sound(c, k)
  PROVE  /\ c = "rings" => HalfDrawn(k)
         /\ IsChart(k) /\ Marked(k)
BY DEF Sound, HalfDrawn

(* expose: a chart that is drawn has no removed rows left in it, because it *)
(* was marked, or had none.                                                 *)
LEMMA ExposeSound ==
  ASSUME NEW c, NEW k, Sound(c, k), NEW listed, NEW r
  PROVE  LET e == ExposeChart(c, k, listed, r)
         IN  Sound(c, e) /\ e.frozen = k.frozen
<1> DEFINE q == [k EXCEPT !.queued = 0]
           a == IF k.gone = 1 THEN [q EXCEPT !.root = NoRow, !.gone = 0] ELSE q
           g == GetItems(c, a, listed, r)
           remake == a.model_changed = 1 \/ a.items = {} \/ a.top # Root(a)
<1>1. Sound(c, q) /\ q.frozen = k.frozen
  BY DEF Sound, IsChart, Marked, TipsStand, Fields, NewChart
<1>2. ExposeChart(c, k, listed, r) = IF k.frozen = 1 THEN q
                                   ELSE IF remake THEN Draw(c, g) ELSE Draw(c, a)
  BY DEF ExposeChart
<1> HIDE DEF q, remake
<1>3. Sound(c, a) /\ a.frozen = k.frozen
  BY <1>1 DEF Sound, IsChart, Marked, TipsStand, Fields, NewChart
<1> HIDE DEF a
<1>4. Sound(c, Draw(c, a)) /\ Draw(c, a).frozen = k.frozen
  BY <1>3, SoundIsHalf, DrawSound
<1>5. (c = "rings" => HalfDrawn(g)) /\ IsChart(g) /\ Marked(g) /\ g.frozen = k.frozen
  BY <1>3, GetItemsDrawn
<1> HIDE DEF g
<1>6. Sound(c, Draw(c, g)) /\ Draw(c, g).frozen = k.frozen
  BY <1>5, DrawSound
<1> QED BY <1>1, <1>2, <1>4, <1>6

-----------------------------------------------------------------------------
(* Freezing, thawing and the rest.                                         *)

LEMMA FreezeSound ==
  ASSUME NEW c, NEW k, Sound(c, k)
  PROVE  Sound(c, Freeze(c, k)) /\ Freeze(c, k).frozen = 1
<1> DEFINE d == Draw(c, k)
           z == Disconnect([d EXCEPT !.frozen = 1])
<1>1. Sound(c, d)
  BY SoundIsHalf, DrawSound
<1>2. Freeze(c, k) = IF k.frozen = 1 THEN k ELSE QueueDraw(z)
  BY DEF Freeze
<1> HIDE DEF d
<1>3. Sound(c, z) /\ z.frozen = 1
  <2> DEFINE y == [d EXCEPT !.frozen = 1]
  <2>1. /\ y = [f \in Fields |-> y[f]] /\ y.frozen = 1
        /\ c = "rings" => TipsStand(y) /\ y.old = 0
    BY <1>1 DEF Sound, IsChart, TipsStand, Fields, NewChart
  <2> HIDE DEF y
  <2>2. Disconnect(y) = [y EXCEPT !.wired = 0]
    BY DEF Disconnect
  <2>3. Sound(c, Disconnect(y)) /\ Disconnect(y).frozen = 1
    BY <2>1, <2>2 DEF Sound, IsChart, Marked, TipsStand, Fields, NewChart
  <2> QED BY <2>3 DEF y
<1> HIDE DEF z
<1> QED BY <1>2, <1>3, QueueSound

(* What came and went while a chart was frozen it did not hear of: thawing  *)
(* marks it.                                                                *)
LEMMA ThawSound ==
  ASSUME NEW c, NEW k, Sound(c, k)
  PROVE  Sound(c, Thaw(k)) /\ Thaw(k).frozen = 0
<1> DEFINE z == [Connect(k) EXCEPT !.frozen = 0, !.model_changed = 1]
<1>1. Thaw(k) = IF k.frozen = 0 THEN k ELSE QueueDraw(z)
  BY DEF Thaw
<1>2. CASE k.frozen = 1
  <2>1. Sound(c, z) /\ z.frozen = 0
    <3> DEFINE y == Connect(k)
    <3>1. /\ y = [f \in Fields |-> y[f]] /\ y.wired = 1
          /\ c = "rings" => TipsStand(y) /\ y.old = 0
      BY <1>2 DEF Connect, Sound, IsChart, TipsStand, Fields, NewChart
    <3> HIDE DEF y
    <3>2. z = [y EXCEPT !.frozen = 0, !.model_changed = 1]
      BY DEF y
    <3> HIDE DEF z
    <3>3. z = [f \in Fields |-> z[f]]
      BY <3>1, <3>2 DEF Fields, NewChart
    <3>4. /\ z.frozen = 0 /\ z.wired = 1 /\ z.model_changed = 1
          /\ z.old = y.old /\ z.tips = y.tips /\ z.tipsOf = y.tipsOf
      BY <3>1, <3>2 DEF Fields, NewChart
    <3> QED BY <3>1, <3>3, <3>4 DEF Sound, IsChart, Marked, TipsStand
  <2> HIDE DEF z
  <2> QED BY <1>1, <1>2, <2>1, QueueSound
<1>3. CASE k.frozen = 0
  BY <1>1, <1>3
<1> QED BY <1>2, <1>3 DEF Sound, IsChart

LEMMA SetMaxDepthSound ==
  ASSUME NEW c, NEW k, Sound(c, k), NEW n
  PROVE  Sound(c, SetMaxDepth(k, n)) /\ SetMaxDepth(k, n).frozen = k.frozen
<1> DEFINE d == Max({1, Min({n, MaxDepth})})
           m == [k EXCEPT !.max_depth = d, !.model_changed = 1]
<1>1. SetMaxDepth(k, n) = IF d = k.max_depth THEN k ELSE QueueDraw(m)
  BY DEF SetMaxDepth
<1> HIDE DEF d
<1>2. Sound(c, m) /\ m.frozen = k.frozen
  BY DEF Sound, IsChart, Marked, TipsStand, Fields, NewChart
<1> HIDE DEF m
<1> QED BY <1>1, <1>2, QueueSound

LEMMA AllocateSound ==
  ASSUME NEW c, NEW k, Sound(c, k), NEW r
  PROVE  Sound(c, Allocate(c, k, r)) /\ Allocate(c, k, r).frozen = k.frozen
BY PlacedSound, QueueSound DEF Allocate

LEMMA HighlightSound ==
  ASSUME NEW c, NEW k, Sound(c, k), NEW x
  PROVE  LET h == SetItemHighlight(k, x) IN Sound(c, h) /\ h.frozen = k.frozen
BY DEF SetItemHighlight, QueueDraw, Sound, IsChart, Marked, TipsStand, Fields, NewChart

LEMMA CleanSound ==
  ASSUME NEW c, NEW k, Sound(c, k)
  PROVE  Sound(c, CleanTips(k)) /\ CleanTips(k).frozen = k.frozen
BY DEF CleanTips, Sound, IsChart, Marked, TipsStand, Fields, NewChart

-----------------------------------------------------------------------------
(* The invariant: both charts are sound, and both are frozen while a scan   *)
(* is about to clear the tree.                                              *)
Inv ==
  /\ chart = [c \in Charts |-> chart[c]]
  /\ shown \in Charts
  /\ \A c \in Charts : Sound(c, chart[c])
  /\ pc = "starting" => \A c \in Charts : chart[c].frozen = 1

LEMMA InitInv == Init => Inv
<1> SUFFICES ASSUME Init PROVE Inv
  OBVIOUS
<1>1. \A c : Sound(c, NewChart) /\ NewChart.frozen = 1
  BY DEF Sound, IsChart, Marked, TipsStand, Fields, NewChart
<1>2. \A c \in Charts : Sound(c, chart[c])
  BY <1>1, ThawSound DEF Init
<1> QED BY <1>2 DEF Init, Inv

(* Every action but the first two of a scan gives each chart by one of the  *)
(* calls above.                                                             *)
LEMMA SoundCharts ==
  ASSUME Inv, shown' \in Charts, pc' # "starting",
         chart' = [c \in Charts |-> chart'[c]],
         \A c \in Charts : Sound(c, chart'[c])
  PROVE  Inv'
BY DEF Inv

LEMMA ScanInv == Inv /\ Scan => Inv'
<1> SUFFICES ASSUME Inv, Scan PROVE Inv'
  OBVIOUS
<1>1. CASE StartScan
  <2>1. \A c \in Charts : Sound(c, Freeze(c, chart[c])) /\ Freeze(c, chart[c]).frozen = 1
    BY FreezeSound DEF Inv
  <2> QED BY <1>1, <2>1 DEF StartScan, Busy, Inv
<1>2. CASE ClearTree
  <2>1. \A c \in Charts : Sound(c, Lose(chart[c], Folders))
    BY <1>2, LoseFrozen DEF Inv, ClearTree
  <2> QED BY <1>2, <2>1, SoundCharts DEF ClearTree, Inv
<1>3. ASSUME NEW x \in Folders, InsertRow(x) \/ CountRow(x) PROVE Inv'
  <2>1. \A c \in Charts : Sound(c, RowChanged(chart[c], x, Realized(c)))
    BY ChangedSound DEF Inv
  <2> QED BY <1>3, <2>1, SoundCharts DEF InsertRow, CountRow, Inv
<1>4. CASE EndScan
  <2> DEFINE deepest == Max({1} \cup {Depth(x) - 1 : x \in live})
             told(c) == IF chart[c].wired = 0 \/ live = {} THEN chart[c]
                        ELSE QueueDraw(RowChanged(chart[c], First, Realized(c)))
  <2>1. chart' = [c \in Charts |-> Thaw(SetMaxDepth(told(c), deepest))]
    BY <1>4 DEF EndScan, Ready
  <2>2. \A c \in Charts : Sound(c, told(c))
    BY ChangedSound, QueueSound DEF Inv
  <2> HIDE DEF deepest, told
  <2>3. \A c \in Charts : Sound(c, Thaw(SetMaxDepth(told(c), deepest)))
    BY <2>2, SetMaxDepthSound, ThawSound
  <2> QED BY <1>4, <2>1, <2>3, SoundCharts DEF EndScan, Inv
<1> QED BY <1>1, <1>2, <1>3, <1>4 DEF Scan

(* What the user does to one chart, or to both in turn.                     *)
LEMMA UserInv == Inv /\ User => Inv'
<1> SUFFICES ASSUME Inv, User PROVE Inv'
  OBVIOUS
<1>a. \A c \in Charts : Sound(c, chart[c])
  BY DEF Inv
<1>b. /\ chart = [c \in Charts |-> chart[c]] /\ shown \in Charts
      /\ Sound(shown, chart[shown])
  BY DEF Inv
<1>c. shown' \in Charts /\ pc' # "starting"
  <2>1. Other(shown) \in Charts
    BY <1>b DEF Other, Charts
  <2> QED BY <1>b, <2>1 DEF User, SelectRow, TrashRow, Hover, ToggleAllocated, SetActiveChart,
             Resize, ZoomIn, ZoomOut, Click, MoveUp, SetSubtipsEnabled, Quiet, Dispatching
<1>1. ASSUME NEW x \in Folders, SelectRow(x) PROVE Inv'
  <2>1. \A c \in Charts : Sound(c, SetRoot(chart[c], x))
    BY <1>a, SetRootKeeps
  <2> QED BY <1>1, <1>c, <2>1, SoundCharts DEF SelectRow, Selected
<1>2. ASSUME NEW x \in Folders, TrashRow(x) PROVE Inv'
  <2>1. PICK next \in live \ Below(x) :
           LET lost == Selected([c \in Charts |-> Lose(chart[c], Below(x))], next)
           IN  chart' = [c \in Charts |-> RowChanged(lost[c], x, Realized(c))]
    BY <1>2 DEF TrashRow
  <2>2. chart' = [c \in Charts |->
                    RowChanged(SetRoot(Lose(chart[c], Below(x)), next), x, Realized(c))]
    BY <2>1 DEF Selected
  <2>3. \A c \in Charts :
           Sound(c, RowChanged(SetRoot(Lose(chart[c], Below(x)), next), x, Realized(c)))
    BY <1>a, LoseTold
  <2> QED BY <1>c, <2>2, <2>3, SoundCharts
<1>3. CASE ToggleAllocated
  <2> DEFINE stopped == Busy(chart)
             told(c) == IF live = {} THEN stopped[c]
                        ELSE RowChanged(stopped[c], First, Realized(c))
  <2>1. chart' = [c \in Charts |-> Thaw(told(c))]
    BY <1>3 DEF ToggleAllocated, Ready
  <2>2. \A c \in Charts : Sound(c, stopped[c])
    BY <1>a, FreezeSound DEF Busy
  <2> HIDE DEF stopped
  <2>3. \A c \in Charts : Sound(c, told(c))
    BY <2>2, ChangedSound
  <2> HIDE DEF told
  <2>4. \A c \in Charts : Sound(c, Thaw(told(c)))
    BY <2>3, ThawSound
  <2> QED BY <1>c, <2>1, <2>4, SoundCharts
<1>4. CASE SetActiveChart
  <2> DEFINE made(c) == IF c = shown THEN Freeze(c, chart[c])
                        ELSE QueueDraw(Allocate(c, Thaw(chart[c]), room))
  <2>1. chart' = [c \in Charts |-> made(c)]
    BY <1>4 DEF SetActiveChart
  <2>2. \A c \in Charts : Sound(c, Freeze(c, chart[c]))
    BY <1>a, FreezeSound
  <2>3. \A c \in Charts : Sound(c, QueueDraw(Allocate(c, Thaw(chart[c]), room)))
    BY <1>a, ThawSound, AllocateSound, QueueSound
  <2>4. \A c \in Charts : Sound(c, made(c))
    BY <2>2, <2>3
  <2> HIDE DEF made
  <2> QED BY <1>c, <2>1, <2>4, SoundCharts
<1>5. ASSUME NEW k, Sound(shown, k), chart' = [chart EXCEPT ![shown] = k] PROVE Inv'
  BY <1>a, <1>b, <1>c, <1>5, SoundCharts
<1>6. CASE Resize
  BY <1>b, <1>5, <1>6, AllocateSound DEF Resize
<1>7. CASE ZoomIn
  BY <1>b, <1>5, <1>7, SetMaxDepthSound DEF ZoomIn
<1>8. CASE ZoomOut
  BY <1>b, <1>5, <1>8, SetMaxDepthSound DEF ZoomOut
<1>9. ASSUME NEW x, Hover(x) PROVE Inv'
  BY <1>b, <1>5, <1>9, HighlightSound DEF Hover
<1>10. CASE Click
  <2> DEFINE x == chart[shown].highlighted
  <2>1. chart' = chart \/ chart' = Selected(chart, x)
    BY <1>10 DEF Click
  <2>2. \A c \in Charts : Sound(c, SetRoot(chart[c], x))
    BY <1>a, SetRootKeeps
  <2> HIDE DEF x
  <2> QED BY <1>a, <1>b, <1>c, <2>1, <2>2, SoundCharts DEF Selected
<1>11. CASE MoveUp
  <2> DEFINE k == chart[shown]
             p == Parent(k.root)
             up == [chart EXCEPT ![shown] = SetRoot(k, p)]
  <2>1. chart' = [c \in Charts |-> SetRoot(up[c], p)]
    BY <1>11 DEF MoveUp, Selected
  <2>2. Sound(shown, SetRoot(k, p))
    BY <1>b, SetRootKeeps
  <2>3. \A c \in Charts : Sound(c, up[c])
    <3> HIDE DEF k, p
    <3> QED BY <1>a, <1>b, <2>2
  <2> HIDE DEF up, p
  <2>4. \A c \in Charts : Sound(c, SetRoot(up[c], p))
    BY <2>3, SetRootKeeps
  <2> QED BY <1>c, <2>1, <2>4, SoundCharts
<1>12. CASE SetSubtipsEnabled
  <2> DEFINE k == chart["rings"]
  <2>1. chart' = chart \/ chart' = [chart EXCEPT !["rings"] = CleanTips(k)]
    BY <1>b, <1>12 DEF SetSubtipsEnabled, Charts
  <2>2. Sound("rings", CleanTips(k))
    BY <1>a, CleanSound DEF Charts
  <2> QED BY <1>a, <1>b, <1>c, <2>1, <2>2, SoundCharts DEF Charts
<1> QED BY <1>1, <1>2, <1>3, <1>4, <1>6, <1>7, <1>8, <1>9, <1>10, <1>11, <1>12 DEF User

LEMMA ExposeInv == Inv /\ Expose => Inv'
<1> SUFFICES ASSUME Inv, Expose PROVE Inv'
  OBVIOUS
<1> DEFINE k == ExposeChart(shown, chart[shown], live, room)
<1>1. shown' \in Charts /\ pc' # "starting" /\ chart' = [chart EXCEPT ![shown] = k]
  BY DEF Expose, Inv, Quiet, Dispatching
<1>2. Sound(shown, k)
  BY ExposeSound DEF Inv
<1> HIDE DEF k
<1>3. \A c \in Charts : Sound(c, chart'[c])
  BY <1>1, <1>2 DEF Inv
<1> QED BY <1>1, <1>3, SoundCharts DEF Inv

LEMMA TimeoutInv == Inv /\ SubfolderTipsTimeout => Inv'
<1> SUFFICES ASSUME Inv, SubfolderTipsTimeout PROVE Inv'
  OBVIOUS
<1> DEFINE k == [QueueDraw(chart["rings"]) EXCEPT !.timer = 2, !.drawing = 1]
<1>1. shown' \in Charts /\ pc' # "starting" /\ chart' = [chart EXCEPT !["rings"] = k]
  BY DEF SubfolderTipsTimeout, Inv, Quiet, Dispatching
<1>2. Sound("rings", k)
  <2>1. Sound("rings", QueueDraw(chart["rings"]))
    BY QueueSound DEF Inv, Charts
  <2> QED BY <2>1 DEF Sound, IsChart, Marked, TipsStand, Fields, NewChart
<1> HIDE DEF k
<1>3. \A c \in Charts : Sound(c, chart'[c])
  BY <1>1, <1>2 DEF Inv, Charts
<1> QED BY <1>1, <1>3, SoundCharts DEF Inv

(* A chart that may be drawn has no item whose row is gone, and the names   *)
(* beside the rings are those of the item they are drawn for                *)
(* (baobab_chart_expose, baobab_chart_free_items,                           *)
(* baobab_ringschart_pre_draw), whatever the tree, the size of the window   *)
(* and the order in which scans, removals, thawing and drawing follow.      *)
THEOREM NoStaleItemIsDrawn == Spec => []StaleItemsAreMarked
<1>1. Inv /\ [Next]_vars => Inv'
  <2>1. Inv /\ UNCHANGED vars => Inv'
    BY DEF Inv, vars
  <2> QED BY <2>1, ScanInv, UserInv, ExposeInv, TimeoutInv DEF Next
<1>2. Inv => StaleItemsAreMarked
  BY DEF Inv, StaleItemsAreMarked, Sound, Marked, Charts
<1> QED BY <1>1, <1>2, InitInv, PTL DEF Spec
-----------------------------------------------------------------------------
(***************************************************************************)
(* The chart in the window shows the tree.  Its items are made again when  *)
(* it is drawn, so two things have to be said of it: what an unmarked list *)
(* of items is worth, and what a chart that waits for no drawing shows.    *)
(* The other chart, when it is not frozen, is marked and waits: the scan   *)
(* thawed it outside the window, or it was never in it.                    *)
(***************************************************************************)

(* The numbers a chart computes with are numbers.                          *)
Sized(k) ==
  /\ k.max_depth \in Nat /\ k.far \in Int
  /\ k.items \subseteq Folders
  /\ k.items # {} => k.top \in Folders

(* The items that are deep enough to be drawn, and those there should be.  *)
Deep(x, top, depth) == Depth(x) - Depth(top) <= depth
Shallow(k) == {x \in k.items : Deep(x, k.top, k.max_depth)}
Due(c, top, depth, r, listed) ==
  {x \in Items(c, top, depth, r, listed) : Deep(x, top, depth)}

(* The items are those of the rows, with places for a window of size r.    *)
UpToDate(c, k, listed, r) ==
  /\ Shallow(k) = Due(c, k.top, k.max_depth, k.builtIn, listed)
  /\ k.seen = Seen(c, k.top, k.max_depth, r, k.items)

Kept(c, k, listed, r) ==
  k.frozen = 0 =>
    /\ k.model_changed # 1 /\ k.items # {} => UpToDate(c, k, listed, r)
    /\ k.queued # 1 /\ Root(k) \in listed => k.top = Root(k) /\ UpToDate(c, k, listed, r)

Waits(k) == k.frozen = 0 => k.queued = 1 /\ k.model_changed = 1

TreeInv ==
  /\ live \subseteq Folders /\ \A c \in Charts : Sized(chart[c])
  /\ Kept(shown, chart[shown], live, room)
  /\ \A c \in Charts \ {shown} : Waits(chart[c])

(* The depths are numbers, and so is what is made of them.                 *)
LEMMA DepthIsNumber ==
  ASSUME NEW x \in Folders
  PROVE  Depth(x) \in Nat /\ Depth(x) <= Cardinality(Folders) /\ Cardinality(Folders) \in Nat
<1>1. Above[x] \in SUBSET Folders /\ IsFiniteSet(Folders)
  BY FoldersAssumption
<1> QED BY <1>1, FS_Subset, FS_CardinalityType DEF Depth

LEMMA LeastOf ==
  ASSUME NEW S \in SUBSET Nat, S # {}
  PROVE  \E c \in S : \A d \in S : c <= d
<1>1. PICK c \in S : \A d \in S : <<d, c>> \notin OpToRel(<, Nat)
  BY NatLessThanWellFounded, WFMin
<1>2. \A d \in S : ~(d < c)
  BY <1>1 DEF OpToRel
<1>3. \A d \in S : c <= d
  BY <1>2
<1> QED BY <1>3

LEMMA MaxIn ==
  ASSUME NEW S \in SUBSET Int, S # {}, NEW n \in Int, \A y \in S : y <= n
  PROVE  Max(S) \in S
<1> DEFINE T == {n - y : y \in S}
<1>1. T \in SUBSET Nat /\ T # {}
  <2>1. \A y \in S : n - y \in Nat
    OBVIOUS
  <2>2. \E y : y \in S
    OBVIOUS
  <2> QED BY <2>1, <2>2
<1>2. PICK t \in T : \A u \in T : t <= u
  BY <1>1, LeastOf
<1>3. PICK x \in S : t = n - x
  BY <1>2
<1>4. \A y \in S : x >= y
  <2> TAKE y \in S
  <2>1. n - y \in T
    OBVIOUS
  <2> QED BY <1>2, <1>3, <2>1
<1> QED BY <1>4 DEF Max

LEMMA ClampIsNumber ==
  ASSUME NEW n \in Int
  PROVE  Max({1, Min({n, MaxDepth})}) \in Nat
<1>1. MaxDepth \in Nat
  BY FoldersAssumption
<1> DEFINE m == Min({n, MaxDepth})
<1>2. m \in {n, MaxDepth}
  <2>1. \E x \in {n, MaxDepth} : \A y \in {n, MaxDepth} : x <= y
    <3>1. CASE n <= MaxDepth
      BY <1>1, <3>1
    <3>2. CASE ~(n <= MaxDepth)
      BY <1>1, <3>2
    <3> QED BY <3>1, <3>2
  <2> QED BY <2>1 DEF Min
<1>3. m \in Int
  BY <1>1, <1>2
<1> HIDE DEF m
<1> DEFINE d == Max({1, m})
<1>4. d \in {1, m} /\ \A y \in {1, m} : d >= y
  <2>1. \E x \in {1, m} : \A y \in {1, m} : x >= y
    <3>1. CASE m <= 1
      BY <1>3, <3>1
    <3>2. CASE ~(m <= 1)
      BY <1>3, <3>2
    <3> QED BY <3>1, <3>2
  <2> QED BY <2>1 DEF Max
<1>5. d \in Nat
  <2> HIDE DEF d
  <2> QED BY <1>3, <1>4
<1> QED BY <1>5 DEF m

-----------------------------------------------------------------------------
(* What a call may do without harm: it leaves alone what is drawn, or asks  *)
(* for a drawing.                                                           *)
Follows(k, m) ==
  /\ m.frozen = k.frozen /\ m.model_changed = k.model_changed
  /\ m.max_depth = k.max_depth /\ m.far = k.far /\ m.builtIn = k.builtIn
  /\ m.top = k.top /\ m.items = k.items /\ m.seen = k.seen
  /\ m.queued # 1 => k.queued # 1 /\ Root(m) = Root(k)

LEMMA FollowsKeeps ==
  ASSUME NEW k, NEW m, Follows(k, m), NEW c, NEW listed, NEW r
  PROVE  /\ Sized(k) => Sized(m)
         /\ Kept(c, k, listed, r) => Kept(c, m, listed, r)
         /\ Waits(k) => Waits(m)
BY DEF Follows, Sized, Kept, UpToDate, Shallow, Waits

LEMMA FollowsOn ==
  ASSUME NEW k, NEW m, NEW n, Follows(k, m), Follows(m, n)
  PROVE  Follows(k, n)
BY DEF Follows

LEMMA QueueFollows ==
  ASSUME NEW k, IsChart(k)
  PROVE  /\ Follows(k, QueueDraw(k)) /\ IsChart(QueueDraw(k)) /\ QueueDraw(k).queued = 1
         /\ QueueDraw(k).root = k.root /\ QueueDraw(k).gone = k.gone
         /\ QueueDraw(k).model_changed = k.model_changed /\ QueueDraw(k).frozen = k.frozen
BY DEF QueueDraw, IsChart, Follows, Root, Fields, NewChart

LEMMA SetRootFollows ==
  ASSUME NEW k, IsChart(k), NEW x
  PROVE  /\ Follows(k, SetRoot(k, x)) /\ IsChart(SetRoot(k, x))
         /\ k.root # x \/ k.gone # 0 => SetRoot(k, x).queued = 1
<1> DEFINE s == [k EXCEPT !.root = x, !.gone = 0]
<1>1. IsChart(s)
  BY DEF IsChart, Fields, NewChart
<1>2. Follows(k, QueueDraw(s)) /\ IsChart(QueueDraw(s)) /\ QueueDraw(s).queued = 1
  BY DEF QueueDraw, IsChart, Follows, Fields, NewChart
<1>3. SetRoot(k, x) = IF k.root = x /\ k.gone = 0 THEN k ELSE QueueDraw(s)
  BY DEF SetRoot
<1>4. Follows(k, k)
  BY DEF Follows
<1> HIDE DEF s
<1> QED BY <1>2, <1>3, <1>4

LEMMA HighlightFollows ==
  ASSUME NEW k, IsChart(k), NEW x
  PROVE  Follows(k, SetItemHighlight(k, x))
BY DEF SetItemHighlight, QueueDraw, IsChart, Follows, Fields, NewChart

LEMMA CleanFollows ==
  ASSUME NEW k, IsChart(k)
  PROVE  Follows(k, CleanTips(k)) /\ IsChart(CleanTips(k))
<1> DEFINE q == IF k.drawing = 1 THEN 1 ELSE k.queued
           a == [k EXCEPT !.drawing = 0]
           b == [k EXCEPT !.drawing = 0, !.timer = 0, !.tipsOf = NoRow,
                          !.tips = {}, !.old = 0, !.queued = q]
<1>1. q # 1 => k.queued # 1
  OBVIOUS
<1>2. CleanTips(k) = IF k.tipsOf = NoRow THEN a ELSE b
  BY DEF CleanTips, IsChart, Fields, NewChart
<1> HIDE DEF q
<1>3. Follows(k, a) /\ IsChart(a)
  BY DEF IsChart, Follows, Root, Fields, NewChart
<1>4. Follows(k, b) /\ IsChart(b)
  BY <1>1 DEF IsChart, Follows, Root, Fields, NewChart
<1> HIDE DEF a, b
<1> QED BY <1>2, <1>3, <1>4

(* A drawing alone changes only names and waits.                            *)
LEMMA DrawFollows ==
  ASSUME NEW c, NEW k, IsChart(k)
  PROVE  Follows(k, Draw(c, k)) /\ IsChart(Draw(c, k))
<1>1. Follows(k, k)
  BY DEF Follows
<1> DEFINE p == PreDraw(k)
           t == CleanTips(k)
           h == [t EXCEPT !.tipsOf = k.highlighted, !.timer = 1]
<1>2. Follows(k, t) /\ IsChart(t)
  BY CleanFollows
<1>3. p \in {k, t, h}
  BY DEF PreDraw
<1> HIDE DEF t
<1>4. Follows(t, h) /\ IsChart(h)
  BY <1>2 DEF IsChart, Follows, Root, Fields, NewChart
<1> HIDE DEF h
<1>5. Follows(k, p) /\ IsChart(p)
  <2> HIDE DEF p
  <2> QED BY <1>1, <1>2, <1>3, <1>4, FollowsOn
<1> HIDE DEF p
<1>6. Follows(k, CollectTips(p)) /\ IsChart(CollectTips(p))
  <2> DEFINE more == p.tips \cup (Children(p, p.tipsOf) \cap Drawn(p))
             e    == [p EXCEPT !.tips = more]
  <2>1. CollectTips(p) \in {p, e}
    BY DEF CollectTips
  <2> HIDE DEF more
  <2>2. Follows(p, e) /\ IsChart(e)
    BY <1>5 DEF IsChart, Follows, Root, Fields, NewChart
  <2> HIDE DEF e
  <2> QED BY <1>5, <2>1, <2>2, FollowsOn
<1> QED BY <1>1, <1>6 DEF Draw, p

-----------------------------------------------------------------------------
(* New places, new items.                                                   *)

LEMMA PlacedIs ==
  ASSUME NEW c, NEW k, IsChart(k), NEW r
  PROVE  LET p == Placed(c, k, r)
         IN  /\ IsChart(p) /\ p.seen = Seen(c, k.top, k.max_depth, r, k.items)
             /\ p.frozen = k.frozen /\ p.model_changed = k.model_changed
             /\ p.max_depth = k.max_depth /\ p.builtIn = k.builtIn
             /\ p.top = k.top /\ p.items = k.items
             /\ p.root = k.root /\ p.gone = k.gone /\ p.queued = k.queued
             /\ Sized(k) => Sized(p)
<1> DEFINE seen  == Seen(c, k.top, k.max_depth, r, k.items)
           drawn == {x \in seen : Depth(x) - Depth(k.top) <= k.max_depth}
           deeps == {0} \cup {Depth(x) - Depth(k.top) : x \in drawn}
           far   == Max(deeps)
           more  == IF seen = drawn THEN 0 ELSE 1
           p     == Placed(c, k, r)
<1>1. p = IF c = "rings" THEN [k EXCEPT !.seen = seen]
          ELSE [k EXCEPT !.seen = seen, !.far = far, !.more = more]
  BY DEF Placed
<1>2. ASSUME Sized(k) PROVE far \in Int
  <2>1. \A x \in drawn : x \in Folders /\ k.top \in Folders
    BY <1>2 DEF Sized, Seen
  <2>2. \A x \in drawn : /\ Depth(x) \in Nat /\ Depth(k.top) \in Nat
                         /\ Depth(x) <= Cardinality(Folders)
    BY <2>1, DepthIsNumber
  <2>3. Cardinality(Folders) \in Nat
    BY FoldersAssumption, FS_CardinalityType
  <2> HIDE DEF drawn
  <2>4. \A x \in drawn : /\ Depth(x) - Depth(k.top) \in Int
                         /\ Depth(x) - Depth(k.top) <= Cardinality(Folders)
    BY <2>2, <2>3
  <2>5. deeps \in SUBSET Int /\ deeps # {} /\ \A y \in deeps : y <= Cardinality(Folders)
    BY <2>3, <2>4
  <2> HIDE DEF deeps
  <2>6. Max(deeps) \in deeps
    <3> DEFINE n == Cardinality(Folders)
    <3>1. n \in Int /\ deeps \in SUBSET Int /\ deeps # {} /\ \A y \in deeps : y <= n
      BY <2>3, <2>5
    <3> HIDE DEF n
    <3> QED BY <3>1, MaxIn
  <2> QED BY <2>5, <2>6
<1> HIDE DEF seen, far, more
<1>3. /\ IsChart(p) /\ p.seen = seen
      /\ p.frozen = k.frozen /\ p.model_changed = k.model_changed
      /\ p.max_depth = k.max_depth /\ p.builtIn = k.builtIn
      /\ p.top = k.top /\ p.items = k.items
      /\ p.root = k.root /\ p.gone = k.gone /\ p.queued = k.queued
      /\ p.far \in {k.far, far}
  <2> DEFINE q1 == [k EXCEPT !.seen = seen]
             q2 == [k EXCEPT !.seen = seen, !.far = far, !.more = more]
  <2>1. p = q1 \/ p = q2
    BY <1>1
  <2> HIDE DEF p
  <2>2. CASE p = q1
    BY <2>2 DEF IsChart, Fields, NewChart
  <2>3. CASE p = q2
    BY <2>3 DEF IsChart, Fields, NewChart
  <2> QED BY <2>1, <2>2, <2>3
<1> HIDE DEF p
<1>4. Sized(k) => Sized(p)
  BY <1>2, <1>3 DEF Sized
<1> QED BY <1>3, <1>4 DEF p, seen

LEMMA FreeIs ==
  ASSUME NEW k, IsChart(k)
  PROVE  LET f == FreeItems(k)
         IN  /\ IsChart(f) /\ f.frozen = k.frozen /\ f.items = {}
             /\ f.max_depth = k.max_depth /\ f.far = k.far
             /\ f.root = k.root /\ f.gone = k.gone
<1> DEFINE was == IF k.tips # {} THEN 1 ELSE k.old
           f   == FreeItems(k)
<1>1. f = [k EXCEPT !.items = {}, !.seen = {}, !.freed = {}, !.top = NoRow,
                    !.highlighted = NoRow, !.old = was]
  BY DEF FreeItems
<1> HIDE DEF was
<1> QED BY <1>1 DEF IsChart, Fields, NewChart

(* The items that are made anew are up to date.                             *)
LEMMA GetItemsKept ==
  ASSUME NEW c, NEW k, IsChart(k), Sized(k), NEW listed, listed \subseteq Folders, NEW r
  PROVE  LET g == GetItems(c, k, listed, r)
         IN  IsChart(g) /\ Sized(g) /\ Kept(c, g, listed, r)
<1> DEFINE f   == FreeItems(k)
           top == Root(k)
           its == Items(c, top, k.max_depth, r, listed)
           e   == [f EXCEPT !.model_changed = 0]
           n   == [f EXCEPT !.items = its, !.top = top, !.builtIn = r, !.model_changed = 0]
           p   == Placed(c, n, r)
<1>1. /\ IsChart(f) /\ f.frozen = k.frozen /\ f.items = {}
      /\ f.max_depth = k.max_depth /\ f.far = k.far /\ Root(f) = top
  BY FreeIs DEF Root
<1>2. GetItems(c, k, listed, r) = IF top \notin listed THEN e ELSE p
  BY DEF GetItems
<1>3. its \subseteq Folders
  BY DEF Items, Below
<1> HIDE DEF f, top, its
<1>4. ASSUME top \notin listed
      PROVE  IsChart(e) /\ Sized(e) /\ Kept(c, e, listed, r)
  <2>1. IsChart(e) /\ e.items = {} /\ e.max_depth = k.max_depth /\ e.far = k.far /\ Root(e) = top
    BY <1>1 DEF IsChart, Root, Fields, NewChart
  <2> HIDE DEF e
  <2> QED BY <1>4, <2>1 DEF Sized, Kept
<1>5. ASSUME top \in listed
      PROVE  IsChart(p) /\ Sized(p) /\ Kept(c, p, listed, r)
  <2>1. /\ IsChart(n) /\ n.items = its /\ n.top = top /\ n.builtIn = r
        /\ n.max_depth = k.max_depth /\ n.far = k.far /\ Root(n) = top
    BY <1>1 DEF IsChart, Root, Fields, NewChart
  <2> HIDE DEF n
  <2>2. Sized(n)
    BY <1>3, <1>5, <2>1 DEF Sized
  <2>3. /\ IsChart(p) /\ p.seen = Seen(c, n.top, n.max_depth, r, n.items)
        /\ p.max_depth = n.max_depth /\ p.builtIn = n.builtIn
        /\ p.top = n.top /\ p.items = n.items /\ Root(p) = Root(n) /\ Sized(p)
    BY <2>1, <2>2, PlacedIs DEF Root
  <2> HIDE DEF p
  <2>4. UpToDate(c, p, listed, r)
    BY <2>1, <2>3 DEF UpToDate, Shallow, Due, its
  <2> QED BY <2>1, <2>3, <2>4 DEF Kept
<1> HIDE DEF e, p
<1> QED BY <1>2, <1>4, <1>5

(* expose: what is not made again was up to date.                           *)
LEMMA ExposeKept ==
  ASSUME NEW c, NEW k, IsChart(k), Sized(k), NEW listed, listed \subseteq Folders, NEW r,
         Kept(c, k, listed, r)
  PROVE  LET e == ExposeChart(c, k, listed, r)
         IN  Sized(e) /\ Kept(c, e, listed, r)
<1> DEFINE q == [k EXCEPT !.queued = 0]
           a == IF k.gone = 1 THEN [q EXCEPT !.root = NoRow, !.gone = 0] ELSE q
           g == GetItems(c, a, listed, r)
           remake == a.model_changed = 1 \/ a.items = {} \/ a.top # Root(a)
<1>1. /\ IsChart(q) /\ q.frozen = k.frozen /\ q.model_changed = k.model_changed
      /\ q.max_depth = k.max_depth /\ q.far = k.far /\ q.builtIn = k.builtIn
      /\ q.top = k.top /\ q.items = k.items /\ q.seen = k.seen
      /\ q.root = k.root /\ q.gone = k.gone
  BY DEF IsChart, Fields, NewChart
<1>2. ExposeChart(c, k, listed, r) = IF k.frozen = 1 THEN q
                                   ELSE IF remake THEN Draw(c, g) ELSE Draw(c, a)
  BY DEF ExposeChart
<1> HIDE DEF q
<1>3. /\ IsChart(a) /\ a.frozen = k.frozen /\ a.model_changed = k.model_changed
      /\ a.max_depth = k.max_depth /\ a.far = k.far /\ a.builtIn = k.builtIn
      /\ a.top = k.top /\ a.items = k.items /\ a.seen = k.seen
  BY <1>1 DEF IsChart, Fields, NewChart
<1> HIDE DEF a
<1>4. Sized(q) /\ Sized(a)
  BY <1>1, <1>3 DEF Sized
<1>5. k.frozen = 1 => Kept(c, q, listed, r)
  BY <1>1 DEF Kept
<1>6. IsChart(g) /\ Sized(g) /\ Kept(c, g, listed, r)
  BY <1>3, <1>4, GetItemsKept
<1> HIDE DEF g
<1>7. Sized(Draw(c, g)) /\ Kept(c, Draw(c, g), listed, r)
  BY <1>6, DrawFollows, FollowsKeeps
<1>8. ASSUME ~remake PROVE Sized(Draw(c, a)) /\ Kept(c, Draw(c, a), listed, r)
  <2>1. k.frozen = 0 => UpToDate(c, k, listed, r)
    BY <1>3, <1>8 DEF Kept
  <2>2. k.frozen = 0 => UpToDate(c, a, listed, r)
    BY <1>3, <2>1 DEF UpToDate, Shallow
  <2>3. Kept(c, a, listed, r)
    BY <1>3, <1>8, <2>2 DEF Kept
  <2> QED BY <1>3, <1>4, <2>3, DrawFollows, FollowsKeeps
<1> HIDE DEF remake
<1> QED BY <1>2, <1>4, <1>5, <1>7, <1>8

(* size_allocate, for the size the window has now.                          *)
LEMMA AllocateKept ==
  ASSUME NEW c, NEW k, IsChart(k), Sized(k), NEW listed, NEW old, NEW r
  PROVE  /\ Sized(Allocate(c, k, r))
         /\ Kept(c, k, listed, old) => Kept(c, Allocate(c, k, r), listed, r)
         /\ Waits(k) => Waits(Allocate(c, k, r))
<1>1. CASE k.items = {}
  <2>1. Allocate(c, k, r) = QueueDraw(k)
    BY <1>1 DEF Allocate
  <2> DEFINE m == QueueDraw(k)
  <2>2. Follows(k, m) /\ m.queued = 1
    BY QueueFollows
  <2> HIDE DEF m
  <2>3. Kept(c, m, listed, r) /\ Sized(m) /\ (Waits(k) => Waits(m))
    BY <1>1, <2>2 DEF Follows, Kept, Sized, Waits
  <2> QED BY <2>1, <2>3 DEF m
<1>2. CASE k.items # {}
  <2> DEFINE p == Placed(c, k, r)
             m == QueueDraw(p)
  <2>1. Allocate(c, k, r) = m
    BY <1>2 DEF Allocate
  <2>2. /\ IsChart(p) /\ p.seen = Seen(c, k.top, k.max_depth, r, k.items)
        /\ p.frozen = k.frozen /\ p.model_changed = k.model_changed
        /\ p.max_depth = k.max_depth /\ p.builtIn = k.builtIn
        /\ p.top = k.top /\ p.items = k.items /\ Sized(p)
    BY PlacedIs
  <2> HIDE DEF p
  <2>3. Follows(p, m) /\ m.queued = 1
    BY <2>2, QueueFollows
  <2> HIDE DEF m
  <2>4. Kept(c, k, listed, old) => Kept(c, m, listed, r)
    BY <1>2, <2>2, <2>3 DEF Follows, Kept, UpToDate, Shallow
  <2>5. Sized(m) /\ (Waits(k) => Waits(m))
    BY <2>2, <2>3, FollowsKeeps DEF Follows, Waits
  <2> QED BY <2>1, <2>4, <2>5
<1> QED BY <1>1, <1>2

-----------------------------------------------------------------------------
(* Rows, depths and thawing.                                                *)

(* A frozen chart hears nothing; another is marked, and asks for a drawing  *)
(* if the row is in what it shows.                                          *)
LEMMA ChangedIs ==
  ASSUME NEW k, IsChart(k), NEW x, NEW b \in BOOLEAN
  PROVE  LET m == RowChanged(k, x, b)
         IN  /\ IsChart(m) /\ m.frozen = k.frozen
             /\ m.max_depth = k.max_depth /\ m.far = k.far /\ m.builtIn = k.builtIn
             /\ m.top = k.top /\ m.items = k.items /\ m.seen = k.seen
             /\ Root(m) = Root(k) /\ m.queued \in {k.queued, 1}
             /\ k.frozen = 0 => m.model_changed = 1
             /\ k.frozen = 0 /\ b = TRUE =>
                  m.queued = 1 \/ ~(Root(k) \in Above[x] /\ Deep(x, Root(k), k.max_depth))
<1> DEFINE m == RowChanged(k, x, b)
           n == [k EXCEPT !.model_changed = 1]
           a == IF n.gone = 1 THEN [n EXCEPT !.root = NoRow, !.gone = 0] ELSE n
           near == Root(a) \in Above[x] /\ Depth(x) - Depth(Root(a)) <= a.max_depth
           d == QueueDraw(a)
<1>1. CASE k.frozen = 1
  <2>1. k.wired = 0
    BY <1>1 DEF IsChart
  <2>2. RowChanged(k, x, b) = k
    BY <2>1 DEF RowChanged
  <2> QED BY <1>1, <2>2
<1>2. CASE k.frozen = 0
  <2>1. m = IF ~b THEN n ELSE IF near THEN d ELSE a
    BY <1>2 DEF RowChanged, UpdateDraw, IsChart
  <2>2. /\ IsChart(n) /\ n.frozen = k.frozen /\ n.model_changed = 1
        /\ n.max_depth = k.max_depth /\ n.far = k.far /\ n.builtIn = k.builtIn
        /\ n.top = k.top /\ n.items = k.items /\ n.seen = k.seen
        /\ n.root = k.root /\ n.gone = k.gone /\ n.queued = k.queued
    BY DEF IsChart, Fields, NewChart
  <2> HIDE DEF n
  <2>3. /\ IsChart(a) /\ a.frozen = k.frozen /\ a.model_changed = 1
        /\ a.max_depth = k.max_depth /\ a.far = k.far /\ a.builtIn = k.builtIn
        /\ a.top = k.top /\ a.items = k.items /\ a.seen = k.seen
        /\ Root(a) = Root(k) /\ a.queued = k.queued
    BY <2>2 DEF IsChart, Root, Fields, NewChart
  <2> HIDE DEF a
  <2>4. /\ IsChart(d) /\ d.frozen = a.frozen /\ d.model_changed = a.model_changed
        /\ d.max_depth = a.max_depth /\ d.far = a.far /\ d.builtIn = a.builtIn
        /\ d.top = a.top /\ d.items = a.items /\ d.seen = a.seen
        /\ Root(d) = Root(a) /\ d.queued = 1
    BY <2>3 DEF QueueDraw, IsChart, Root, Fields, NewChart
  <2> HIDE DEF d
  <2>5. Root(n) = Root(k)
    BY <2>2 DEF Root
  <2>6. near <=> Root(k) \in Above[x] /\ Deep(x, Root(k), k.max_depth)
    BY <2>3 DEF Deep
  <2> HIDE DEF near, m
  <2> QED BY <2>1, <2>2, <2>3, <2>4, <2>5, <2>6 DEF m
<1> QED BY <1>1, <1>2 DEF IsChart

LEMMA ChangedSized ==
  ASSUME NEW k, IsChart(k), NEW x, NEW b \in BOOLEAN
  PROVE  /\ Sized(k) => Sized(RowChanged(k, x, b))
         /\ Waits(k) => Waits(RowChanged(k, x, b))
<1> DEFINE m == RowChanged(k, x, b)
<1>1. /\ m.frozen = k.frozen /\ m.max_depth = k.max_depth /\ m.far = k.far
      /\ m.top = k.top /\ m.items = k.items /\ m.queued \in {k.queued, 1}
      /\ k.frozen = 0 => m.model_changed = 1
  BY ChangedIs
<1> HIDE DEF m
<1>2. (Sized(k) => Sized(m)) /\ (Waits(k) => Waits(m))
  BY <1>1 DEF Sized, Waits
<1> QED BY <1>2 DEF m

(* A row that comes, or changes, is not in what a chart shows that waits    *)
(* for no drawing.                                                          *)
LEMMA ChangedKept ==
  ASSUME NEW c, NEW k, IsChart(k), Sized(k), NEW x \in Folders, NEW listed,
         NEW more, more = listed \/ more = listed \cup {x}, NEW r, Kept(c, k, listed, r)
  PROVE  Kept(c, RowChanged(k, x, TRUE), more, r)
<1> DEFINE m == RowChanged(k, x, TRUE)
<1>1. /\ m.frozen = k.frozen
      /\ m.max_depth = k.max_depth /\ m.far = k.far /\ m.builtIn = k.builtIn
      /\ m.top = k.top /\ m.items = k.items /\ m.seen = k.seen
      /\ Root(m) = Root(k) /\ m.queued \in {k.queued, 1}
      /\ k.frozen = 0 => m.model_changed = 1
      /\ k.frozen = 0 =>
           m.queued = 1 \/ ~(Root(k) \in Above[x] /\ Deep(x, Root(k), k.max_depth))
  BY ChangedIs
<1> HIDE DEF m
<1>2. ASSUME k.frozen = 0, m.queued # 1, Root(m) \in more
      PROVE  m.top = Root(m) /\ UpToDate(c, m, more, r)
  <2>1. ~(Root(k) \in Above[x] /\ Deep(x, Root(k), k.max_depth)) /\ k.queued # 1
    BY <1>1, <1>2
  <2>2. Root(k) # x
    <3>1. x \in Above[x]
      BY FoldersAssumption
    <3>2. Depth(x) \in Nat /\ k.max_depth \in Nat
      BY DepthIsNumber DEF Sized
    <3>3. Deep(x, x, k.max_depth)
      BY <3>2 DEF Deep
    <3> QED BY <2>1, <3>1, <3>3
  <2>3. Root(k) \in listed
    BY <1>1, <1>2, <2>2
  <2>4. k.top = Root(k) /\ UpToDate(c, k, listed, r)
    BY <1>2, <2>1, <2>3 DEF Kept
  <2>5. Due(c, k.top, k.max_depth, k.builtIn, more) = Due(c, k.top, k.max_depth, k.builtIn, listed)
    <3> DEFINE t == k.top
               d == k.max_depth
               v == k.builtIn
    <3>1. ~(t \in Above[x] /\ Deep(x, t, d))
      BY <2>1, <2>4
    <3> HIDE DEF t, d, v
    <3>2. Due(c, t, d, v, more) = Due(c, t, d, v, listed)
      BY <3>1 DEF Due, Items, Below
    <3> QED BY <3>2 DEF t, d, v
  <2>6. UpToDate(c, m, more, r)
    BY <1>1, <2>4, <2>5 DEF UpToDate, Shallow
  <2> QED BY <1>1, <2>4, <2>6
<1>3. Kept(c, m, more, r)
  BY <1>1, <1>2 DEF Kept
<1> QED BY <1>3 DEF m

LEMMA WaitsKept ==
  ASSUME NEW c, NEW k, Waits(k), NEW listed, NEW r
  PROVE  Kept(c, k, listed, r)
BY DEF Waits, Kept

(* Another depth marks the chart and draws it.                              *)
LEMMA SetMaxDepthKept ==
  ASSUME NEW c, NEW k, IsChart(k), Sized(k), NEW n \in Int, NEW listed, NEW r
  PROVE  /\ Sized(SetMaxDepth(k, n)) /\ IsChart(SetMaxDepth(k, n))
         /\ Kept(c, k, listed, r) => Kept(c, SetMaxDepth(k, n), listed, r)
         /\ Waits(k) => Waits(SetMaxDepth(k, n))
<1> DEFINE d == Max({1, Min({n, MaxDepth})})
           m == QueueDraw([k EXCEPT !.max_depth = d, !.model_changed = 1])
<1>1. SetMaxDepth(k, n) = IF d = k.max_depth THEN k ELSE m
  BY DEF SetMaxDepth
<1>2. d \in Nat
  BY ClampIsNumber
<1> HIDE DEF d
<1>3. /\ IsChart(m) /\ m.model_changed = 1 /\ m.queued = 1 /\ m.max_depth = d
      /\ m.far = k.far /\ m.items = k.items /\ m.top = k.top
  BY DEF QueueDraw, IsChart, Fields, NewChart
<1> HIDE DEF m
<1>4. Sized(m) /\ Waits(m)
  BY <1>2, <1>3 DEF Sized, Waits
<1> QED BY <1>1, <1>3, <1>4, WaitsKept

(* Frozen, a chart waits; thawed, it is marked and waits.                   *)
LEMMA FreezeWaits ==
  ASSUME NEW c, NEW k, IsChart(k), Sized(k)
  PROVE  Sized(Freeze(c, k)) /\ Waits(Freeze(c, k)) /\ Freeze(c, k).frozen = 1 /\ IsChart(Freeze(c, k))
<1> DEFINE d == Draw(c, k)
           z == QueueDraw(Disconnect([d EXCEPT !.frozen = 1]))
<1>1. IsChart(d) /\ Sized(d)
  BY DrawFollows, FollowsKeeps
<1>2. Freeze(c, k) = IF k.frozen = 1 THEN k ELSE z
  BY DEF Freeze
<1> HIDE DEF d
<1>3. /\ IsChart(z) /\ z.frozen = 1 /\ z.max_depth = d.max_depth /\ z.far = d.far
      /\ z.items = d.items /\ z.top = d.top
  <2> DEFINE y == [d EXCEPT !.frozen = 1]
             w == [y EXCEPT !.wired = 0]
  <2>1. /\ y = [f \in Fields |-> y[f]] /\ y.frozen = 1 /\ y.max_depth = d.max_depth
        /\ y.far = d.far /\ y.items = d.items /\ y.top = d.top
    BY <1>1 DEF IsChart, Fields, NewChart
  <2>2. z = QueueDraw(w)
    BY DEF Disconnect
  <2> HIDE DEF y
  <2>3. /\ IsChart(w) /\ w.frozen = 1 /\ w.max_depth = d.max_depth /\ w.far = d.far
        /\ w.items = d.items /\ w.top = d.top
    BY <2>1 DEF IsChart, Fields, NewChart
  <2> HIDE DEF w, z
  <2> QED BY <2>2, <2>3, QueueFollows DEF Follows
<1> HIDE DEF z
<1> QED BY <1>1, <1>2, <1>3 DEF Sized, Waits

LEMMA ThawWaits ==
  ASSUME NEW k, IsChart(k), Sized(k)
  PROVE  /\ Sized(Thaw(k)) /\ IsChart(Thaw(k))
         /\ k.frozen = 1 => Waits(Thaw(k))
         /\ k.frozen = 0 => Thaw(k) = k
<1> DEFINE z == QueueDraw([Connect(k) EXCEPT !.frozen = 0, !.model_changed = 1])
<1>1. Thaw(k) = IF k.frozen = 0 THEN k ELSE z
  BY DEF Thaw
<1>2. ASSUME k.frozen = 1
      PROVE  /\ IsChart(z) /\ z.queued = 1 /\ z.model_changed = 1
             /\ z.max_depth = k.max_depth /\ z.far = k.far
             /\ z.items = k.items /\ z.top = k.top
  <2> DEFINE y == Connect(k)
  <2>1. /\ y = [f \in Fields |-> y[f]] /\ y.wired = 1
        /\ y.max_depth = k.max_depth /\ y.far = k.far
        /\ y.items = k.items /\ y.top = k.top
    BY <1>2 DEF Connect, IsChart, Fields, NewChart
  <2> DEFINE w == [y EXCEPT !.frozen = 0, !.model_changed = 1]
  <2>2. z = QueueDraw(w)
    OBVIOUS
  <2> HIDE DEF y
  <2>3. /\ w = [f \in Fields |-> w[f]] /\ w.frozen = 0 /\ w.wired = 1 /\ w.model_changed = 1
        /\ w.max_depth = k.max_depth /\ w.far = k.far
        /\ w.items = k.items /\ w.top = k.top
    BY <2>1 DEF Fields, NewChart
  <2> HIDE DEF w, z
  <2>4. IsChart(w)
    BY <2>3 DEF IsChart
  <2> QED BY <2>2, <2>3, <2>4, QueueFollows DEF Follows
<1> HIDE DEF z
<1> QED BY <1>1, <1>2 DEF Sized, Waits, IsChart

-----------------------------------------------------------------------------
(* The steps.                                                               *)

LEMMA TreeInit == Init => TreeInv
<1> SUFFICES ASSUME Init PROVE TreeInv
  OBVIOUS
<1> DEFINE n == NewChart
<1>1. IsChart(n) /\ Sized(n) /\ n.frozen = 1 /\ Waits(n)
  BY DEF IsChart, Sized, Waits, Fields, NewChart
<1> HIDE DEF n
<1>2. Sized(Thaw(n)) /\ Waits(Thaw(n))
  BY <1>1, ThawWaits
<1>3. \A c \in Charts : Sized(chart[c]) /\ Waits(chart[c])
  BY <1>1, <1>2 DEF Init, n
<1>4. live \subseteq Folders /\ shown \in Charts
  BY DEF Init
<1> QED BY <1>3, <1>4, WaitsKept DEF TreeInv

(* Both charts follow what they were, and the rows are the same.            *)
LEMMA TreeFollows ==
  ASSUME Inv, TreeInv, shown' = shown, live' = live, room' = room,
         \A c \in Charts : Follows(chart[c], chart'[c])
  PROVE  TreeInv'
<1>1. \A c \in Charts : Sized(chart'[c])
  BY FollowsKeeps DEF TreeInv
<1>2. Kept(shown, chart'[shown], live, room)
  BY FollowsKeeps DEF TreeInv, Inv
<1>3. \A c \in Charts \ {shown} : Waits(chart'[c])
  BY FollowsKeeps DEF TreeInv
<1> QED BY <1>1, <1>2, <1>3 DEF TreeInv

(* Both charts are frozen, or are to be drawn with new items.               *)
LEMMA TreeWaits ==
  ASSUME live' \subseteq Folders, shown' \in Charts,
         \A c \in Charts : Sized(chart'[c]) /\ Waits(chart'[c])
  PROVE  TreeInv'
BY WaitsKept DEF TreeInv

(* Only the chart in the window changes.                                    *)
LEMMA TreeShown ==
  ASSUME Inv, TreeInv, shown' = shown, live' = live,
         NEW k, chart' = [chart EXCEPT ![shown] = k], Sized(k), Kept(shown, k, live, room')
  PROVE  TreeInv'
<1>1. shown \in Charts /\ chart = [c \in Charts |-> chart[c]]
  BY DEF Inv
<1>2. \A c \in Charts : chart'[c] = IF c = shown THEN k ELSE chart[c]
  BY <1>1
<1> QED BY <1>1, <1>2 DEF TreeInv

LEMMA TreeScan == Inv /\ TreeInv /\ Scan => TreeInv'
<1> SUFFICES ASSUME Inv, TreeInv, Scan PROVE TreeInv'
  OBVIOUS
<1>a. \A c \in Charts : IsChart(chart[c]) /\ Sized(chart[c])
  BY DEF Inv, Sound, TreeInv
<1>b. shown \in Charts /\ live \subseteq Folders
  BY DEF Inv, TreeInv
<1>1. CASE StartScan
  <2>1. \A c \in Charts : Sized(Freeze(c, chart[c])) /\ Waits(Freeze(c, chart[c]))
    BY <1>a, FreezeWaits
  <2>2. \A c \in Charts : chart'[c] = Freeze(c, chart[c])
    BY <1>1 DEF StartScan, Busy
  <2> QED BY <1>1, <1>b, <2>1, <2>2, TreeWaits DEF StartScan
<1>2. CASE ClearTree
  <2>1. ASSUME NEW c \in Charts
        PROVE  Sized(Lose(chart[c], Folders)) /\ Waits(Lose(chart[c], Folders))
    <3> DEFINE k == chart[c]
               l == Lose(k, Folders)
    <3>1. IsChart(k) /\ Sized(k) /\ k.frozen = 1
      BY <1>2, <1>a DEF ClearTree, Inv
    <3> HIDE DEF k
    <3>2. /\ l.frozen = 1 /\ l.max_depth = k.max_depth /\ l.far = k.far
          /\ l.items = k.items /\ l.top = k.top
      BY <3>1 DEF Lose, IsChart, Fields, NewChart
    <3> HIDE DEF l
    <3>3. Sized(l) /\ Waits(l)
      BY <3>1, <3>2 DEF Sized, Waits
    <3> QED BY <3>3 DEF l, k
  <2>2. \A c \in Charts : chart'[c] = Lose(chart[c], Folders)
    BY <1>2 DEF ClearTree
  <2>3. live' = {} /\ shown' = shown
    BY <1>2 DEF ClearTree
  <2> QED BY <1>b, <2>1, <2>2, <2>3, TreeWaits
<1>3. ASSUME NEW x \in Folders, InsertRow(x) \/ CountRow(x) PROVE TreeInv'
  <2>1. /\ shown' = shown /\ room' = room
        /\ live' = live \/ live' = live \cup {x}
        /\ \A c \in Charts : chart'[c] = RowChanged(chart[c], x, Realized(c))
    BY <1>3 DEF InsertRow, CountRow
  <2>2. \A c \in Charts : Realized(c) \in BOOLEAN
    BY DEF Realized
  <2>3. \A c \in Charts : Sized(chart'[c])
    BY <1>a, <2>1, <2>2, ChangedSized
  <2>4. Kept(shown, chart'[shown], live', room)
    <3>1. Realized(shown) = TRUE
      BY DEF Realized
    <3>2. chart'[shown] = RowChanged(chart[shown], x, TRUE)
      BY <1>b, <2>1, <3>1
    <3>3. Kept(shown, chart[shown], live, room)
      BY DEF TreeInv
    <3> QED BY <1>a, <1>b, <2>1, <3>2, <3>3, ChangedKept
  <2>5. \A c \in Charts \ {shown} : Waits(chart'[c])
    BY <1>a, <2>1, <2>2, ChangedSized DEF TreeInv
  <2>6. live' \subseteq Folders
    BY <1>b, <2>1
  <2> QED BY <2>1, <2>3, <2>4, <2>5, <2>6 DEF TreeInv
<1>4. CASE EndScan
  <2> DEFINE depths  == {1} \cup {Depth(x) - 1 : x \in live}
             deepest == Max(depths)
             told(c) == IF chart[c].wired = 0 \/ live = {} THEN chart[c]
                        ELSE QueueDraw(RowChanged(chart[c], First, Realized(c)))
  <2>1. chart' = [c \in Charts |-> Thaw(SetMaxDepth(told(c), deepest))]
    BY <1>4 DEF EndScan, Ready
  <2>2. deepest \in Int
    <3> DEFINE n == Cardinality(Folders) + 1
    <3>1. n \in Int /\ n >= 1
      BY FoldersAssumption, FS_CardinalityType
    <3>2. \A x \in live : Depth(x) - 1 \in Int /\ Depth(x) - 1 <= n
      BY <1>b, DepthIsNumber
    <3> HIDE DEF n
    <3>3. depths \in SUBSET Int /\ depths # {} /\ \A y \in depths : y <= n
      BY <3>1, <3>2
    <3> HIDE DEF depths
    <3>4. Max(depths) \in depths
      BY <3>1, <3>3, MaxIn
    <3> QED BY <3>3, <3>4
  <2>3. ASSUME NEW c \in Charts
        PROVE  /\ IsChart(told(c)) /\ Sized(told(c))
               /\ Waits(chart[c]) => Waits(told(c))
               /\ c = shown => Kept(c, told(c), live, room)
    <3> DEFINE m == RowChanged(chart[c], First, Realized(c))
               q == QueueDraw(m)
    <3>1. Realized(c) \in BOOLEAN /\ First \in Folders
      BY FoldersAssumption DEF Realized
    <3>2. IsChart(m) /\ Sized(m) /\ (Waits(chart[c]) => Waits(m))
      BY <1>a, <3>1, ChangedIs, ChangedSized
    <3>3. ASSUME c = shown PROVE Kept(c, m, live, room)
      <4>1. Kept(c, chart[c], live, room)
        BY <3>3 DEF TreeInv
      <4>2. Realized(c) = TRUE
        BY <3>3 DEF Realized
      <4> QED BY <1>a, <3>1, <4>1, <4>2, ChangedKept
    <3> HIDE DEF m
    <3>4. IsChart(q) /\ Sized(q) /\ (Waits(chart[c]) => Waits(q))
      BY <3>2, QueueFollows, FollowsKeeps
    <3>5. c = shown => Kept(c, q, live, room)
      BY <3>2, <3>3, QueueFollows, FollowsKeeps
    <3>6. told(c) = chart[c] \/ told(c) = q
      BY DEF m
    <3>7. c = shown => Kept(c, chart[c], live, room)
      BY DEF TreeInv
    <3> HIDE DEF q, told
    <3> QED BY <1>a, <3>4, <3>5, <3>6, <3>7
  <2> HIDE DEF told, deepest
  <2> DEFINE deep(c) == SetMaxDepth(told(c), deepest)
  <2>4. \A c \in Charts : /\ IsChart(deep(c)) /\ Sized(deep(c))
                          /\ Waits(chart[c]) => Waits(deep(c))
                          /\ c = shown => Kept(c, deep(c), live, room)
    BY <2>2, <2>3, SetMaxDepthKept
  <2>5. \A c \in Charts : chart'[c] = Thaw(deep(c))
    BY <2>1
  <2> HIDE DEF deep
  <2>6. \A c \in Charts : /\ Sized(chart'[c])
                          /\ Waits(chart[c]) => Waits(chart'[c])
                          /\ c = shown => Kept(c, chart'[c], live, room)
    <3> TAKE c \in Charts
    <3>1. deep(c).frozen \in {0, 1}
      BY <2>4 DEF IsChart
    <3>2. CASE deep(c).frozen = 0
      BY <2>4, <2>5, <3>2, ThawWaits
    <3>3. CASE deep(c).frozen = 1
      BY <2>4, <2>5, <3>3, ThawWaits, WaitsKept
    <3> QED BY <3>1, <3>2, <3>3
  <2>7. shown' = shown /\ live' = live /\ room' = room
    BY <1>4 DEF EndScan
  <2> QED BY <1>b, <2>6, <2>7 DEF TreeInv
<1> QED BY <1>1, <1>2, <1>3, <1>4 DEF Scan

LEMMA TreeUser == Inv /\ TreeInv /\ User => TreeInv'
<1> SUFFICES ASSUME Inv, TreeInv, User PROVE TreeInv'
  OBVIOUS
<1>a. \A c \in Charts : IsChart(chart[c]) /\ Sized(chart[c])
  BY DEF Inv, Sound, TreeInv
<1>b. /\ shown \in Charts /\ live \subseteq Folders /\ chart = [c \in Charts |-> chart[c]]
      /\ Kept(shown, chart[shown], live, room)
  BY DEF Inv, TreeInv
<1>c. \A k : Follows(k, k)
  BY DEF Follows
<1>d. ASSUME NEW x, \A c \in Charts : chart'[c] = SetRoot(chart[c], x), Quiet,
             UNCHANGED <<shown, room>>
      PROVE  TreeInv'
  BY <1>a, <1>d, SetRootFollows, TreeFollows DEF Quiet
<1>1. ASSUME NEW x \in Folders, SelectRow(x) PROVE TreeInv'
  BY <1>1, <1>d DEF SelectRow, Selected
<1>2. ASSUME NEW x \in Folders, TrashRow(x) PROVE TreeInv'
  <2>1. PICK next \in live \ Below(x) :
           LET lost == Selected([c \in Charts |-> Lose(chart[c], Below(x))], next)
           IN  chart' = [c \in Charts |-> RowChanged(lost[c], x, Realized(c))]
    BY <1>2 DEF TrashRow
  <2>2. \A c \in Charts :
           chart'[c] = RowChanged(SetRoot(Lose(chart[c], Below(x)), next), x, Realized(c))
    BY <2>1 DEF Selected
  <2>3. next # x /\ next # NoRow
    BY <1>b, FoldersAssumption DEF Below
  <2>4. ASSUME NEW c \in Charts
        PROVE  Sized(chart'[c]) /\ Waits(chart'[c])
    <3> DEFINE k == chart[c]
               l == Lose(k, Below(x))
               s == SetRoot(l, next)
               m == RowChanged(s, x, Realized(c))
    <3>1. IsChart(k) /\ Sized(k) /\ (k.root = x \/ k.root = NoRow)
      BY <1>2, <1>a DEF TrashRow
    <3> HIDE DEF k
    <3>2. /\ IsChart(l) /\ l.frozen = k.frozen /\ l.max_depth = k.max_depth /\ l.far = k.far
          /\ l.items = k.items /\ l.top = k.top /\ l.root = k.root
      BY <3>1 DEF Lose, IsChart, Fields, NewChart
    <3> HIDE DEF l
    <3>3. Sized(l) /\ l.root # next
      BY <2>3, <3>1, <3>2 DEF Sized
    <3>4. IsChart(s) /\ Sized(s) /\ s.queued = 1
      BY <3>2, <3>3, SetRootFollows, FollowsKeeps
    <3> HIDE DEF s
    <3>5. Realized(c) \in BOOLEAN
      BY DEF Realized
    <3>6. Sized(m) /\ m.queued = 1 /\ m.frozen = s.frozen /\ (s.frozen = 0 => m.model_changed = 1)
      BY <3>4, <3>5, ChangedIs, ChangedSized
    <3> HIDE DEF m
    <3>7. Sized(m) /\ Waits(m)
      BY <3>6 DEF Waits
    <3> QED BY <2>2, <3>7 DEF m, s, l, k
  <2>5. live' \subseteq Folders /\ shown' = shown
    BY <1>2, <1>b DEF TrashRow
  <2> QED BY <1>b, <2>4, <2>5, TreeWaits
<1>3. CASE ToggleAllocated
  <2> DEFINE stopped == Busy(chart)
             told(c) == IF live = {} THEN stopped[c]
                        ELSE RowChanged(stopped[c], First, Realized(c))
  <2>1. \A c \in Charts : chart'[c] = Thaw(told(c))
    BY <1>3 DEF ToggleAllocated, Ready
  <2>2. \A c \in Charts : IsChart(stopped[c]) /\ Sized(stopped[c]) /\ stopped[c].frozen = 1
    BY <1>a, FreezeWaits DEF Busy
  <2> HIDE DEF stopped
  <2>3. \A c \in Charts : Realized(c) \in BOOLEAN
    BY DEF Realized
  <2>4. \A c \in Charts : IsChart(told(c)) /\ Sized(told(c)) /\ told(c).frozen = 1
    <3> TAKE c \in Charts
    <3> DEFINE m == RowChanged(stopped[c], First, Realized(c))
    <3>1. IsChart(m) /\ Sized(m) /\ m.frozen = 1
      <4> DEFINE k == stopped[c]
                 b == Realized(c)
      <4>1. IsChart(k) /\ Sized(k) /\ k.frozen = 1 /\ b \in BOOLEAN
        BY <2>2, <2>3
      <4> HIDE DEF k, b
      <4>2. /\ IsChart(RowChanged(k, First, b)) /\ Sized(RowChanged(k, First, b))
            /\ RowChanged(k, First, b).frozen = 1
        BY <4>1, ChangedIs, ChangedSized
      <4> QED BY <4>2 DEF k, b
    <3>2. told(c) = stopped[c] \/ told(c) = m
      OBVIOUS
    <3> HIDE DEF told, m
    <3> QED BY <2>2, <3>1, <3>2
  <2> HIDE DEF told
  <2>5. \A c \in Charts : Sized(chart'[c]) /\ Waits(chart'[c])
    BY <2>1, <2>4, ThawWaits
  <2> QED BY <1>3, <1>b, <2>5, TreeWaits DEF ToggleAllocated, Quiet
<1>4. CASE SetActiveChart
  <2>1. \A c \in Charts :
           chart'[c] = IF c = shown THEN Freeze(c, chart[c])
                       ELSE QueueDraw(Allocate(c, Thaw(chart[c]), room))
    BY <1>4 DEF SetActiveChart
  <2>2. Sized(Freeze(shown, chart[shown])) /\ Waits(Freeze(shown, chart[shown]))
    BY <1>a, <1>b, FreezeWaits
  <2>3. ASSUME NEW c \in Charts, c # shown
        PROVE  LET q == QueueDraw(Allocate(c, Thaw(chart[c]), room)) IN Sized(q) /\ Waits(q)
    <3> DEFINE t == Thaw(chart[c])
               p == Allocate(c, t, room)
    <3>1. IsChart(t) /\ Sized(t) /\ Waits(t)
      <4>1. Waits(chart[c])
        BY <2>3 DEF TreeInv
      <4> QED BY <1>a, <4>1, ThawWaits DEF IsChart
    <3> HIDE DEF t
    <3>2. Sized(p) /\ Waits(p)
      BY <3>1, AllocateKept
    <3>3. IsChart(p)
      BY <3>1, PlacedIs, QueueFollows DEF Allocate
    <3> HIDE DEF p
    <3>4. Sized(QueueDraw(p)) /\ Waits(QueueDraw(p))
      BY <3>2, <3>3, QueueFollows, FollowsKeeps
    <3> QED BY <3>4 DEF p, t
  <2>4. \A c \in Charts : Sized(chart'[c]) /\ Waits(chart'[c])
    BY <1>b, <2>1, <2>2, <2>3
  <2>5. live' \subseteq Folders /\ shown' \in Charts
    <3>1. Other(shown) \in Charts
      BY <1>b DEF Other, Charts
    <3> QED BY <1>4, <1>b, <3>1 DEF SetActiveChart, Quiet
  <2> QED BY <2>4, <2>5, TreeWaits
<1>5. CASE Resize
  <2> DEFINE k == Allocate(shown, chart[shown], 1 - room)
  <2>1. Sized(k) /\ Kept(shown, k, live, 1 - room)
    BY <1>a, <1>b, AllocateKept
  <2>2. /\ shown' = shown /\ live' = live /\ room' = 1 - room
        /\ chart' = [chart EXCEPT ![shown] = k]
    BY <1>5 DEF Resize, Quiet
  <2> HIDE DEF k
  <2> QED BY <2>1, <2>2, TreeShown
<1>6. ASSUME NEW n \in Int, shown' = shown, live' = live, room' = room,
             chart' = [chart EXCEPT ![shown] = SetMaxDepth(chart[shown], n)]
      PROVE  TreeInv'
  <2> DEFINE k == SetMaxDepth(chart[shown], n)
  <2>1. Sized(k) /\ Kept(shown, k, live, room)
    BY <1>a, <1>b, SetMaxDepthKept
  <2> HIDE DEF k
  <2> QED BY <1>6, <2>1, TreeShown DEF k
<1>7. CASE ZoomIn
  <2> DEFINE n == ZoomedIn(shown, chart[shown])
  <2>1. n \in Int
    BY <1>a, <1>b DEF ZoomedIn, Sized
  <2>2. /\ shown' = shown /\ live' = live /\ room' = room
        /\ chart' = [chart EXCEPT ![shown] = SetMaxDepth(chart[shown], n)]
    BY <1>7 DEF ZoomIn, Quiet
  <2> HIDE DEF n
  <2> QED BY <1>6, <2>1, <2>2
<1>8. CASE ZoomOut
  <2> DEFINE n == chart[shown].max_depth + 1
  <2>1. n \in Int
    BY <1>a, <1>b DEF Sized
  <2>2. /\ shown' = shown /\ live' = live /\ room' = room
        /\ chart' = [chart EXCEPT ![shown] = SetMaxDepth(chart[shown], n)]
    BY <1>8 DEF ZoomOut, Quiet
  <2> HIDE DEF n
  <2> QED BY <1>6, <2>1, <2>2
<1>9. ASSUME NEW x, Hover(x) PROVE TreeInv'
  <2>1. /\ UNCHANGED <<shown, live, room>>
        /\ chart' = [chart EXCEPT ![shown] = SetItemHighlight(chart[shown], x)]
    BY <1>9 DEF Hover, Quiet
  <2>2. Follows(chart[shown], SetItemHighlight(chart[shown], x))
    BY <1>a, <1>b, HighlightFollows
  <2>3. \A c \in Charts : Follows(chart[c], chart'[c])
    BY <1>b, <1>c, <2>1, <2>2
  <2> QED BY <2>1, <2>3, TreeFollows
<1>10. CASE Click
  <2>1. UNCHANGED <<shown, room, live>>
    BY <1>10 DEF Click
  <2>2. CASE chart' = chart
    BY <1>c, <2>1, <2>2, TreeFollows
  <2>3. CASE chart' = Selected(chart, chart[shown].highlighted)
    <3> DEFINE x == chart[shown].highlighted
    <3>1. \A c \in Charts : chart'[c] = SetRoot(chart[c], x)
      BY <2>3 DEF Selected
    <3> HIDE DEF x
    <3>2. \A c \in Charts : Follows(chart[c], chart'[c])
      BY <1>a, <3>1, SetRootFollows
    <3> QED BY <2>1, <3>2, TreeFollows
  <2> QED BY <1>10, <2>2, <2>3 DEF Click
<1>11. CASE MoveUp
  <2> DEFINE k == chart[shown]
             p == Parent(k.root)
             up == [chart EXCEPT ![shown] = SetRoot(k, p)]
  <2>1. /\ \A c \in Charts : chart'[c] = SetRoot(up[c], p)
        /\ UNCHANGED <<shown, room, live>>
    BY <1>11 DEF MoveUp, Selected, Quiet
  <2> HIDE DEF p
  <2>2. Follows(k, SetRoot(k, p)) /\ IsChart(SetRoot(k, p))
    BY <1>a, <1>b, SetRootFollows
  <2>3. \A c \in Charts : IsChart(up[c]) /\ Follows(chart[c], up[c])
    BY <1>a, <1>b, <1>c, <2>2
  <2> HIDE DEF up
  <2>4. \A c \in Charts : Follows(chart[c], chart'[c])
    BY <2>1, <2>3, SetRootFollows, FollowsOn
  <2> QED BY <2>1, <2>4, TreeFollows
<1>12. CASE SetSubtipsEnabled
  <2> DEFINE k == chart["rings"]
  <2>1. /\ chart' = chart \/ chart' = [chart EXCEPT !["rings"] = CleanTips(k)]
        /\ UNCHANGED <<shown, room, live>>
    BY <1>b, <1>12 DEF SetSubtipsEnabled, Charts, Quiet
  <2>2. Follows(k, CleanTips(k))
    BY <1>a, CleanFollows DEF Charts
  <2>3. \A c \in Charts : Follows(chart[c], chart'[c])
    BY <1>b, <1>c, <2>1, <2>2
  <2> QED BY <2>1, <2>3, TreeFollows
<1> QED BY <1>1, <1>2, <1>3, <1>4, <1>5, <1>7, <1>8, <1>9, <1>10, <1>11, <1>12 DEF User

LEMMA TreeExpose == Inv /\ TreeInv /\ Expose => TreeInv'
<1> SUFFICES ASSUME Inv, TreeInv, Expose PROVE TreeInv'
  OBVIOUS
<1> DEFINE k == ExposeChart(shown, chart[shown], live, room)
<1>1. /\ shown' = shown /\ live' = live /\ room' = room
      /\ chart' = [chart EXCEPT ![shown] = k]
  BY DEF Expose, Quiet
<1>2. Sized(k) /\ Kept(shown, k, live, room)
  <2>1. /\ IsChart(chart[shown]) /\ Sized(chart[shown]) /\ live \subseteq Folders
        /\ Kept(shown, chart[shown], live, room)
    BY DEF Inv, Sound, TreeInv
  <2> QED BY <2>1, ExposeKept
<1> HIDE DEF k
<1> QED BY <1>1, <1>2, TreeShown

LEMMA TreeTimeout == Inv /\ TreeInv /\ SubfolderTipsTimeout => TreeInv'
<1> SUFFICES ASSUME Inv, TreeInv, SubfolderTipsTimeout PROVE TreeInv'
  OBVIOUS
<1> DEFINE k == chart["rings"]
           q == QueueDraw(k)
           m == [q EXCEPT !.timer = 2, !.drawing = 1]
<1>1. UNCHANGED <<shown, live, room>> /\ chart' = [chart EXCEPT !["rings"] = m]
  BY DEF SubfolderTipsTimeout, Quiet
<1>2. IsChart(k) /\ chart = [c \in Charts |-> chart[c]]
  BY DEF Inv, Sound, Charts
<1>3. Follows(k, q) /\ IsChart(q) /\ q.queued = 1
  BY <1>2, QueueFollows
<1> HIDE DEF q
<1>4. Follows(q, m)
  BY <1>3 DEF Follows, IsChart, Root, Fields, NewChart
<1> HIDE DEF m
<1>5. Follows(k, m)
  BY <1>3, <1>4, FollowsOn
<1>6. \A c \in Charts : Follows(chart[c], chart'[c])
  <2>1. \A c \in Charts : Follows(chart[c], chart[c])
    BY DEF Follows
  <2> QED BY <1>1, <1>2, <1>5, <2>1
<1> QED BY <1>1, <1>6, TreeFollows

LEMMA TreeShows == Inv /\ TreeInv => ShowsTheTree
<1> DEFINE k == chart[shown]
           now == Items(shown, Root(k), k.max_depth, room, live)
           fresh == [k EXCEPT !.top = Root(k), !.items = now,
                              !.seen = Seen(shown, Root(k), k.max_depth, room, now)]
<1> SUFFICES ASSUME Inv, TreeInv, k.queued = 0, k.frozen = 0, Root(k) \in live,
                    k.builtIn = room
             PROVE  Drawn(k) = Drawn(fresh)
  BY DEF ShowsTheTree
<1>1. k.top = Root(k) /\ UpToDate(shown, k, live, room) /\ IsChart(k)
  BY DEF TreeInv, Kept, Inv, Sound
<1> DEFINE t == k.top
           d == k.max_depth
<1>2. /\ Shallow(k) = Due(shown, t, d, room, live)
      /\ k.seen = Seen(shown, t, d, room, k.items)
  BY <1>1 DEF UpToDate
<1>3. /\ fresh.top = t /\ fresh.max_depth = d
      /\ fresh.seen = Seen(shown, t, d, room, Items(shown, t, d, room, live))
  BY <1>1 DEF IsChart, Fields, NewChart
<1> HIDE DEF fresh
<1>4. Drawn(fresh) = {x \in Due(shown, t, d, room, live) : Visible(shown, t, d, room, x)}
  BY <1>3 DEF Drawn, Seen, Due, Deep
<1>5. Drawn(k) = {x \in Shallow(k) : Visible(shown, t, d, room, x)}
  BY <1>2 DEF Drawn, Seen, Shallow, Deep
<1> QED BY <1>2, <1>4, <1>5

(* Once everything that was asked for is drawn, the chart in the window     *)
(* shows the selected part of the tree, as deep as it is set to, whatever   *)
(* rows came, went and changed, in whichever chart and size of window, and  *)
(* however often it was frozen and thawed in between.                       *)
THEOREM ChartShowsTheTree == Spec => []ShowsTheTree
<1>1. Inv /\ TreeInv /\ [Next]_vars => (Inv /\ TreeInv)'
  <2>1. Inv /\ UNCHANGED vars => Inv'
    BY DEF Inv, vars
  <2>2. TreeInv /\ UNCHANGED vars => TreeInv'
    BY DEF TreeInv, vars
  <2> QED BY <2>1, <2>2, ScanInv, UserInv, ExposeInv, TimeoutInv,
             TreeScan, TreeUser, TreeExpose, TreeTimeout DEF Next
<1> QED BY <1>1, InitInv, TreeInit, TreeShows, PTL DEF Spec

(* Induction, for a set of numbers.                                        *)
LEMMA AllNumbers ==
  ASSUME NEW P \in SUBSET Nat, 0 \in P, \A n \in P : n + 1 \in P
  PROVE  P = Nat
<1> SUFFICES ASSUME Nat \ P # {}
             PROVE  FALSE
  OBVIOUS
<1>1. PICK c \in Nat \ P : \A d \in Nat \ P : c <= d
  BY LeastOf
<1>2. c # 0 /\ c - 1 \in Nat /\ ~(c <= c - 1)
  BY <1>1
<1>3. c - 1 \in P
  BY <1>1, <1>2
<1>4. (c - 1) + 1 = c
  OBVIOUS
<1> QED BY <1>1, <1>3, <1>4

(* A function that is defined by its value at 0 and a step is one.         *)
HasIterates(W, w, F, n) ==
  \E g : /\ g \in [0..n -> W]
         /\ g[0] = w /\ \A k \in 1..n : g[k] = F[g[k - 1]]

LEMMA Iterates ==
  ASSUME NEW W, NEW w \in W, NEW F, \A v \in W : F[v] \in W, NEW n \in Nat
  PROVE  HasIterates(W, w, F, n)
<1> DEFINE Upto(m, g) == /\ g \in [0..m -> W]
                         /\ g[0] = w /\ \A k \in 1..m : g[k] = F[g[k - 1]]
           P == {m \in Nat : \E g : Upto(m, g)}
<1>1. 0 \in P
  <2>1. Upto(0, [k \in 0..0 |-> w])
    OBVIOUS
  <2> QED BY <2>1
<1>2. ASSUME NEW m \in P PROVE m + 1 \in P
  <2>1. PICK g : Upto(m, g)
    OBVIOUS
  <2> DEFINE h == [k \in 0..(m + 1) |-> IF k = m + 1 THEN F[g[m]] ELSE g[k]]
  <2>2. h \in [0..(m + 1) -> W]
    <3>1. F[g[m]] \in W
      BY <2>1
    <3>2. ASSUME NEW k \in 0..(m + 1), k # m + 1 PROVE g[k] \in W
      BY <2>1, <3>2
    <3> QED BY <3>1, <3>2
  <2>3. h[0] = w
    BY <2>1
  <2>4. ASSUME NEW k \in 1..(m + 1) PROVE h[k] = F[h[k - 1]]
    <3>1. k - 1 \in 0..(m + 1) /\ k - 1 # m + 1 /\ h[k - 1] = g[k - 1]
      OBVIOUS
    <3>2. CASE k = m + 1
      BY <3>1, <3>2
    <3>3. CASE k # m + 1
      BY <2>1, <3>1, <3>3
    <3> QED BY <3>2, <3>3
  <2> HIDE DEF h
  <2>5. Upto(m + 1, h) /\ m + 1 \in Nat
    BY <2>2, <2>3, <2>4
  <2> QED BY <2>5
<1>3. n \in P
  <2> HIDE DEF P
  <2>1. P \in SUBSET Nat
    BY DEF P
  <2> QED BY <1>1, <1>2, <2>1, AllNumbers
<1> QED BY <1>3 DEF HasIterates

-----------------------------------------------------------------------------
(* Sums.  A function that gives each set of some elements its sum.         *)
Additive(f, S, g) ==
  /\ g \in [SUBSET S -> Nat] /\ g[{}] = 0
  /\ \A s \in SUBSET S : \A x \in S \ s : g[s \cup {x}] = f[x] + g[s]

SumOf(f, S) == MapThenSumSet(LAMBDA x : f[x], S)

(* Induction over the subsets of a finite set.                             *)
LEMMA AllSubsets ==
  ASSUME NEW S, IsFiniteSet(S), NEW P, {} \in P,
         \A s \in SUBSET S : \A x \in S \ s : s \in P => s \cup {x} \in P
  PROVE  S \in P
<1> DEFINE Q == {n \in Nat : \A s \in SUBSET S : Cardinality(s) = n => s \in P}
<1>1. \A s \in SUBSET S : IsFiniteSet(s) /\ Cardinality(s) \in Nat
  BY FS_Subset, FS_CardinalityType
<1>2. 0 \in Q
  <2>1. \A s \in SUBSET S : Cardinality(s) = 0 => s = {}
    BY <1>1, FS_EmptySet
  <2> QED BY <2>1
<1>3. ASSUME NEW n \in Q PROVE n + 1 \in Q
  <2>0. n \in Nat
    OBVIOUS
  <2>1. ASSUME NEW s \in SUBSET S, Cardinality(s) = n + 1 PROVE s \in P
    <3>1. s # {}
      <4> HIDE DEF Q
      <4> QED BY <2>0, <2>1, FS_EmptySet
    <3>2. PICK x \in s : TRUE
      BY <3>1
    <3>3. Cardinality(s \ {x}) = n
      BY <1>1, <2>1, FS_RemoveElement
    <3>4. s \ {x} \in P
      BY <3>3
    <3>5. x \in S \ (s \ {x}) /\ (s \ {x}) \cup {x} = s
      OBVIOUS
    <3> QED BY <3>4, <3>5
  <2> QED BY <2>1
<1>4. Q = Nat
  <2> HIDE DEF Q
  <2>1. Q \in SUBSET Nat
    BY DEF Q
  <2> QED BY <1>2, <1>3, <2>1, AllNumbers
<1> QED BY <1>1, <1>4

LEMMA SumsExist ==
  ASSUME NEW S, IsFiniteSet(S), NEW f, \A x \in S : f[x] \in Nat
  PROVE  \E g : Additive(f, S, g)
<1> DEFINE P == {s \in SUBSET S : \E g : Additive(f, s, g)}
<1>1. {} \in P
  <2>1. Additive(f, {}, [s \in SUBSET {} |-> 0])
    BY DEF Additive
  <2> QED BY <2>1
<1>2. ASSUME NEW s \in SUBSET S, NEW x \in S \ s, s \in P PROVE s \cup {x} \in P
  <2>1. PICK g : Additive(f, s, g)
    BY <1>2
  <2> DEFINE h == [t \in SUBSET (s \cup {x}) |-> IF x \in t THEN f[x] + g[t \ {x}] ELSE g[t]]
  <2>2. h \in [SUBSET (s \cup {x}) -> Nat]
    <3>1. \A t \in SUBSET (s \cup {x}) : t \ {x} \in SUBSET s /\ (x \notin t => t \in SUBSET s)
      OBVIOUS
    <3>2. f[x] \in Nat /\ \A t \in SUBSET s : g[t] \in Nat
      BY <2>1 DEF Additive
    <3>3. ASSUME NEW t \in SUBSET (s \cup {x})
          PROVE  (IF x \in t THEN f[x] + g[t \ {x}] ELSE g[t]) \in Nat
      <4>1. CASE x \in t
        <5>1. g[t \ {x}] \in Nat
          BY <3>1, <3>2
        <5> QED BY <4>1, <5>1, <3>2
      <4>2. CASE x \notin t
        BY <4>2, <3>1, <3>2
      <4> QED BY <4>1, <4>2
    <3> QED BY <3>3
  <2>3. h[{}] = 0
    BY <2>1 DEF Additive
  <2>4. ASSUME NEW t \in SUBSET (s \cup {x}), NEW y \in (s \cup {x}) \ t
        PROVE  h[t \cup {y}] = f[y] + h[t]
    <3> DEFINE u == t \cup {y}
    <3>0. u \in SUBSET (s \cup {x})
      OBVIOUS
    <3>1. CASE y = x
      <4>1. u \ {x} = t /\ x \in u /\ x \notin t
        BY <3>1
      <4>2. h[u] = f[x] + g[u \ {x}] /\ h[t] = g[t]
        BY <3>0, <4>1
      <4> QED BY <3>1, <4>1, <4>2
    <3>2. CASE y # x /\ x \in t
      <4>1. u \ {x} = (t \ {x}) \cup {y} /\ x \in u /\ t \ {x} \in SUBSET s /\ y \in s \ (t \ {x})
        BY <3>2
      <4>2. h[u] = f[x] + g[u \ {x}] /\ h[t] = f[x] + g[t \ {x}]
        BY <3>0, <3>2, <4>1
      <4>3. g[u \ {x}] = f[y] + g[t \ {x}]
        BY <2>1, <4>1 DEF Additive
      <4>4. g[t \ {x}] \in Nat /\ f[x] \in Nat /\ f[y] \in Nat
        BY <2>1, <4>1 DEF Additive
      <4> HIDE DEF h, u
      <4>5. h[u] = f[y] + h[t]
        BY <4>2, <4>3, <4>4
      <4> QED BY <4>5 DEF u
    <3>3. CASE y # x /\ x \notin t
      <4>1. x \notin u /\ t \in SUBSET s /\ y \in s \ t
        BY <3>3
      <4>2. h[u] = g[u] /\ h[t] = g[t]
        BY <3>0, <4>1, <3>3
      <4>3. g[u] = f[y] + g[t]
        BY <2>1, <4>1 DEF Additive
      <4> QED BY <4>2, <4>3
    <3> QED BY <3>1, <3>2, <3>3
  <2>5. Additive(f, s \cup {x}, h)
    <3> HIDE DEF h
    <3> QED BY <2>2, <2>3, <2>4 DEF Additive
  <2> QED BY <2>5
<1>3. S \in P
  <2> HIDE DEF P
  <2> QED BY <1>1, <1>2, AllSubsets
<1> QED BY <1>3

Fold(f, S, it) ==
  it = [s \in SUBSET S |-> IF s = {} THEN 0
                           ELSE f[CHOOSE x \in s : TRUE] + it[s \ {CHOOSE x \in s : TRUE}]]

LEMMA AdditiveFolds ==
  ASSUME NEW S, NEW f, NEW g, Additive(f, S, g)
  PROVE  Fold(f, S, g)
<1>1. ASSUME NEW s \in SUBSET S, s # {}
      PROVE  g[s] = f[CHOOSE x \in s : TRUE] + g[s \ {CHOOSE x \in s : TRUE}]
  <2> DEFINE c == CHOOSE x \in s : TRUE
  <2>1. c \in s
    BY <1>1
  <2> HIDE DEF c
  <2>2. s \ {c} \in SUBSET S /\ c \in S \ (s \ {c}) /\ (s \ {c}) \cup {c} = s
    BY <2>1
  <2>3. g[(s \ {c}) \cup {c}] = f[c] + g[s \ {c}]
    BY <2>2 DEF Additive
  <2>4. g[s] = f[c] + g[s \ {c}]
    BY <2>2, <2>3
  <2> QED BY <2>4 DEF c
<1>2. g = [s \in SUBSET S |-> g[s]] /\ g[{}] = 0
  BY DEF Additive
<1> QED BY <1>1, <1>2 DEF Fold

LEMMA FoldsAdd ==
  ASSUME NEW S, IsFiniteSet(S), NEW f, NEW g, Additive(f, S, g), NEW it, Fold(f, S, it)
  PROVE  it[S] = g[S]
<1> DEFINE Q == {n \in Nat : \A s \in SUBSET S : Cardinality(s) = n => it[s] = g[s]}
<1>1. \A s \in SUBSET S : IsFiniteSet(s) /\ Cardinality(s) \in Nat
  BY FS_Subset, FS_CardinalityType
<1>2. 0 \in Q
  <2>1. \A s \in SUBSET S : Cardinality(s) = 0 => s = {}
    BY <1>1, FS_EmptySet
  <2>2. it[{}] = 0 /\ g[{}] = 0
    BY DEF Fold, Additive
  <2> QED BY <2>1, <2>2
<1>3. ASSUME NEW n \in Q PROVE n + 1 \in Q
  <2>0. n \in Nat
    OBVIOUS
  <2>1. ASSUME NEW s \in SUBSET S, Cardinality(s) = n + 1 PROVE it[s] = g[s]
    <3> DEFINE c == CHOOSE x \in s : TRUE
    <3>1. s # {}
      <4> HIDE DEF Q
      <4> QED BY <2>0, <2>1, FS_EmptySet
    <3>2. c \in s
      BY <3>1
    <3>3. it[s] = f[c] + it[s \ {c}] /\ g[s] = f[c] + g[s \ {c}]
      <4>1. ASSUME NEW i, Fold(f, S, i) PROVE i[s] = f[c] + i[s \ {c}]
        BY <3>1, <4>1, Zenon DEF Fold
      <4> QED BY <4>1, AdditiveFolds
    <3> HIDE DEF c
    <3>4. Cardinality(s \ {c}) = n
      <4> HIDE DEF Q
      <4>1. Cardinality(s \ {c}) = Cardinality(s) - 1
        BY <1>1, <3>2, FS_RemoveElement
      <4> QED BY <2>0, <2>1, <4>1
    <3>5. it[s \ {c}] = g[s \ {c}]
      BY <3>4
    <3> QED BY <3>3, <3>5
  <2> QED BY <2>1
<1>4. Q = Nat
  <2> HIDE DEF Q
  <2>1. Q \in SUBSET Nat
    BY DEF Q
  <2> QED BY <1>2, <1>3, <2>1, AllNumbers
<1> QED BY <1>1, <1>4

LEMMA SumIs ==
  ASSUME NEW S, IsFiniteSet(S), NEW f, NEW g, Additive(f, S, g)
  PROVE  SumOf(f, S) = g[S]
<1> DEFINE it == CHOOSE i : i = [s \in SUBSET S |-> IF s = {} THEN 0
             ELSE f[CHOOSE x \in s : TRUE] + i[s \ {CHOOSE x \in s : TRUE}]]
<1>1. Fold(f, S, it)
  <2>1. \E i : i = [s \in SUBSET S |-> IF s = {} THEN 0
             ELSE f[CHOOSE x \in s : TRUE] + i[s \ {CHOOSE x \in s : TRUE}]]
    <3>1. Fold(f, S, g)
      BY AdditiveFolds
    <3> QED BY <3>1, Zenon DEF Fold
  <2>2. it = [s \in SUBSET S |-> IF s = {} THEN 0
             ELSE f[CHOOSE x \in s : TRUE] + it[s \ {CHOOSE x \in s : TRUE}]]
    BY <2>1, Zenon
  <2> HIDE DEF it
  <2> QED BY <2>2 DEF Fold
<1>2. SumOf(f, S) = it[S]
  BY DEF SumOf, MapThenSumSet, MapThenFoldSet
<1> QED BY <1>1, <1>2, FoldsAdd

(* The sums of all the subsets of a set, together.                         *)
LEMMA SumsOfSubsets ==
  ASSUME NEW S, IsFiniteSet(S), NEW f, \A x \in S : f[x] \in Nat
  PROVE  \E g : Additive(f, S, g) /\ \A t \in SUBSET S : SumOf(f, t) = g[t]
<1>1. PICK g : Additive(f, S, g)
  BY SumsExist
<1>2. ASSUME NEW t \in SUBSET S PROVE SumOf(f, t) = g[t]
  <2> DEFINE h == [s \in SUBSET t |-> g[s]]
  <2>1. Additive(f, t, h)
    BY <1>1 DEF Additive
  <2>2. IsFiniteSet(t)
    BY FS_Subset
  <2>3. h[t] = g[t]
    OBVIOUS
  <2> HIDE DEF h
  <2> QED BY <2>1, <2>2, <2>3, SumIs
<1> QED BY <1>1, <1>2

LEMMA SumAdd ==
  ASSUME NEW S, IsFiniteSet(S), NEW f, NEW x, x \notin S, \A y \in S \cup {x} : f[y] \in Nat
  PROVE  SumOf(f, S \cup {x}) = f[x] + SumOf(f, S) /\ SumOf(f, S) \in Nat
<1>1. IsFiniteSet(S \cup {x})
  BY FS_AddElement
<1>2. PICK g : Additive(f, S \cup {x}, g) /\ \A t \in SUBSET (S \cup {x}) : SumOf(f, t) = g[t]
  BY <1>1, SumsOfSubsets
<1> QED BY <1>2 DEF Additive

LEMMA SumIsNumber ==
  ASSUME NEW S, IsFiniteSet(S), NEW f, \A y \in S : f[y] \in Nat
  PROVE  SumOf(f, S) \in Nat /\ SumOf(f, {}) = 0
<1>2. PICK g : Additive(f, S, g) /\ \A t \in SUBSET S : SumOf(f, t) = g[t]
  BY SumsOfSubsets
<1> QED BY <1>2 DEF Additive

LEMMA SumJoin ==
  ASSUME NEW S, NEW T, IsFiniteSet(S), IsFiniteSet(T), S \cap T = {},
         NEW f, \A y \in S \cup T : f[y] \in Nat
  PROVE  SumOf(f, S \cup T) = SumOf(f, S) + SumOf(f, T)
<1>1. IsFiniteSet(S \cup T)
  BY FS_Union
<1>2. PICK g : Additive(f, S \cup T, g) /\ \A t \in SUBSET (S \cup T) : SumOf(f, t) = g[t]
  BY <1>1, SumsOfSubsets
<1> DEFINE P == {t \in SUBSET T : g[S \cup t] = g[S] + g[t]}
<1>3. {} \in P
  <2>1. S \cup {} = S /\ g[S] \in Nat /\ g[{}] = 0
    BY <1>2 DEF Additive
  <2> QED BY <2>1
<1>4. ASSUME NEW t \in SUBSET T, NEW x \in T \ t, t \in P PROVE t \cup {x} \in P
  <2>1. S \cup (t \cup {x}) = (S \cup t) \cup {x} /\ x \in (S \cup T) \ (S \cup t)
        /\ x \in (S \cup T) \ t
    OBVIOUS
  <2>2. g[(S \cup t) \cup {x}] = f[x] + g[S \cup t] /\ g[t \cup {x}] = f[x] + g[t]
    BY <1>2, <2>1 DEF Additive
  <2>3. g[t] \in Nat /\ g[S] \in Nat /\ f[x] \in Nat
    BY <1>2 DEF Additive
  <2>4. g[S \cup t] = g[S] + g[t]
    BY <1>4
  <2>5. g[S \cup (t \cup {x})] = g[S] + g[t \cup {x}]
    <3>1. g[S \cup (t \cup {x})] = f[x] + (g[S] + g[t])
      BY <2>1, <2>2, <2>4
    <3> QED BY <2>2, <2>3, <3>1
  <2>6. t \cup {x} \in SUBSET T
    OBVIOUS
  <2> QED BY <2>5, <2>6
<1>5. T \in P
  <2> HIDE DEF P
  <2>1. \A t \in SUBSET T : \A x \in T \ t : t \in P => t \cup {x} \in P
    BY <1>4
  <2> QED BY <1>3, <2>1, AllSubsets
<1> QED BY <1>2, <1>5

(* The sum over a family of disjoint sets.                                 *)
LEMMA SumFamily ==
  ASSUME NEW I, IsFiniteSet(I), NEW U, IsFiniteSet(U), NEW A \in [I -> SUBSET U],
         \A i, j \in I : i # j => A[i] \cap A[j] = {},
         NEW f, \A y \in U : f[y] \in Nat,
         NEW h, \A i \in I : h[i] = SumOf(f, A[i])
  PROVE  SumOf(h, I) = SumOf(f, UNION {A[i] : i \in I})
<1> DEFINE All(s) == UNION {A[i] : i \in s}
           g == [s \in SUBSET I |-> SumOf(f, All(s))]
<1>1. \A s \in SUBSET I : All(s) \in SUBSET U /\ IsFiniteSet(All(s))
  <2>1. \A s \in SUBSET I : All(s) \in SUBSET U
    OBVIOUS
  <2> HIDE DEF All
  <2> QED BY <2>1, FS_Subset
<1>2. Additive(h, I, g)
  <2>1. g \in [SUBSET I -> Nat]
    <3> HIDE DEF All
    <3>1. \A s \in SUBSET I : SumOf(f, All(s)) \in Nat
      BY <1>1, SumIsNumber
    <3> QED BY <3>1
  <2>2. g[{}] = 0
    <3>1. All({}) = {}
      OBVIOUS
    <3> HIDE DEF All
    <3>2. SumOf(f, {}) = 0
      BY SumIsNumber
    <3> QED BY <3>1, <3>2
  <2>3. ASSUME NEW s \in SUBSET I, NEW x \in I \ s PROVE g[s \cup {x}] = h[x] + g[s]
    <3>1. All(s \cup {x}) = A[x] \cup All(s) /\ A[x] \cap All(s) = {}
      OBVIOUS
    <3>2. A[x] \in SUBSET U /\ IsFiniteSet(A[x])
      BY FS_Subset
    <3> HIDE DEF All
    <3>3. SumOf(f, A[x] \cup All(s)) = SumOf(f, A[x]) + SumOf(f, All(s))
      BY <1>1, <3>1, <3>2, SumJoin
    <3> QED BY <3>1, <3>3
  <2> HIDE DEF g
  <2> QED BY <2>1, <2>2, <2>3 DEF Additive
<1>3. SumOf(h, I) = g[I]
  <2> HIDE DEF g
  <2> QED BY <1>2, SumIs
<1> QED BY <1>3

(* The same sum, counted by other names.                                   *)
LEMMA SumRenamed ==
  ASSUME NEW I, IsFiniteSet(I), NEW U, IsFiniteSet(U), NEW b \in [I -> U],
         \A i, j \in I : b[i] = b[j] => i = j,
         NEW f, \A y \in U : f[y] \in Nat,
         NEW h, \A i \in I : h[i] = f[b[i]]
  PROVE  SumOf(h, I) = SumOf(f, {b[i] : i \in I})
<1> DEFINE A == [i \in I |-> {b[i]}]
<1>1. A \in [I -> SUBSET U] /\ \A i, j \in I : i # j => A[i] \cap A[j] = {}
  OBVIOUS
<1>2. ASSUME NEW i \in I PROVE h[i] = SumOf(f, A[i])
  <2>1. {} \cup {b[i]} = A[i] /\ b[i] \in U /\ IsFiniteSet({}) /\ b[i] \notin {}
    BY FS_EmptySet
  <2>2. SumOf(f, {} \cup {b[i]}) = f[b[i]] + SumOf(f, {}) /\ SumOf(f, {}) = 0
    <3> HIDE DEF A
    <3> QED BY <2>1, SumAdd, SumIsNumber
  <2>3. f[b[i]] \in Nat /\ h[i] = f[b[i]]
    OBVIOUS
  <2> HIDE DEF A
  <2>4. SumOf(f, A[i]) = f[b[i]] + 0
    BY <2>1, <2>2
  <2> QED BY <2>3, <2>4
<1>3. UNION {A[i] : i \in I} = {b[i] : i \in I}
  OBVIOUS
<1> HIDE DEF A
<1>4. SumOf(h, I) = SumOf(f, UNION {A[i] : i \in I})
  BY <1>1, <1>2, SumFamily
<1> QED BY <1>3, <1>4
-----------------------------------------------------------------------------
(* The folders as a tree, as far as it is not closed.                      *)
Things == Dirs \cup Files
Entries(C, x) == IF x \in C THEN {} ELSE Range(Kids[x])
Levels(C, d) ==
  LET level[k \in 0..Cardinality(Dirs)] ==
        IF k = 0 THEN {d} ELSE UNION {Entries(C, x) : x \in level[k - 1] \cap Dirs}
  IN  level
Inside(C, d) == UNION Range(Levels(C, d))

LEMMA DirsAreFinite == IsFiniteSet(Dirs) /\ IsFiniteSet(Files) /\ Cardinality(Dirs) \in Nat
<1>1. Dirs \subseteq Dirs \cup Files /\ Files \subseteq Dirs \cup Files
  OBVIOUS
<1> QED BY <1>1, EntriesAssumption, FS_Subset, FS_CardinalityType

LEMMA LevelsAre ==
  ASSUME NEW C, NEW d
  PROVE  LET L == Levels(C, d)
         IN  /\ DOMAIN L = 0..Cardinality(Dirs) /\ L[0] = {d}
             /\ \A k \in 1..Cardinality(Dirs) :
                  L[k] = UNION {Entries(C, x) : x \in L[k - 1] \cap Dirs}
<1> DEFINE n == Cardinality(Dirs)
           U == {d} \cup UNION {Entries(C, x) : x \in Dirs}
           F == [v \in SUBSET U |-> UNION {Entries(C, x) : x \in v \cap Dirs}]
           lv == CHOOSE level : level = [k \in 0..n |->
                   IF k = 0 THEN {d} ELSE UNION {Entries(C, x) : x \in level[k - 1] \cap Dirs}]
<1>1. {d} \in SUBSET U /\ \A v \in SUBSET U : F[v] \in SUBSET U
  OBVIOUS
<1>2. n \in Nat
  BY DirsAreFinite
<1>3. PICK g : /\ g \in [0..n -> SUBSET U]
               /\ g[0] = {d} /\ \A k \in 1..n : g[k] = F[g[k - 1]]
  <2> DEFINE W == SUBSET U
             w == {d}
  <2>1. w \in W /\ \A v \in W : F[v] \in W
    BY <1>1
  <2> HIDE DEF F, U, n, W, w
  <2>2. HasIterates(W, w, F, n)
    BY <1>2, <2>1, Iterates
  <2> QED BY <2>2 DEF w, W, HasIterates
<1>5. g = [k \in 0..n |-> IF k = 0 THEN {d} ELSE UNION {Entries(C, x) : x \in g[k - 1] \cap Dirs}]
  <2>1. ASSUME NEW k \in 0..n, k # 0
        PROVE  g[k] = UNION {Entries(C, x) : x \in g[k - 1] \cap Dirs}
    <3>1. k - 1 \in 0..n /\ k \in 1..n
      BY <1>2, <2>1
    <3>2. g[k - 1] \in SUBSET U
      BY <1>3, <3>1
    <3> HIDE DEF U, n
    <3> QED BY <1>3, <3>1, <3>2
  <2>2. g = [k \in 0..n |-> g[k]]
    BY <1>3
  <2> HIDE DEF F, U, n
  <2> QED BY <1>3, <2>1, <2>2, Zenon
<1>6. lv = [k \in 0..n |-> IF k = 0 THEN {d} ELSE UNION {Entries(C, x) : x \in lv[k - 1] \cap Dirs}]
  BY <1>5, Zenon
<1>7. Levels(C, d) = lv
  BY Zenon DEF Levels
<1> HIDE DEF lv
<1>8. DOMAIN lv = 0..n /\ lv[0] = {d}
  BY <1>6, <1>2
<1>9. ASSUME NEW k \in 1..n PROVE lv[k] = UNION {Entries(C, x) : x \in lv[k - 1] \cap Dirs}
  <2>1. k \in 0..n /\ k # 0
    BY <1>2
  <2> HIDE DEF n
  <2> QED BY <1>6, <2>1, Zenon
<1> QED BY <1>7, <1>8, <1>9

LEMMA InsideIs ==
  ASSUME NEW C, NEW d, NEW x
  PROVE  x \in Inside(C, d) <=> \E k \in 0..Cardinality(Dirs) : x \in Levels(C, d)[k]
BY LevelsAre DEF Inside, Range

LEMMA LevelAbove ==
  ASSUME NEW C, NEW d, NEW k \in 1..Cardinality(Dirs), NEW z
  PROVE  z \in Levels(C, d)[k] <=>
           \E p \in Levels(C, d)[k - 1] \cap Dirs : z \in Entries(C, p)
BY LevelsAre

LEMMA EntryIs ==
  ASSUME NEW C, NEW d \in Dirs, NEW z \in Entries(C, d)
  PROVE  d \notin C /\ \E i \in DOMAIN Kids[d] : z = Kids[d][i]
BY DEF Entries, Range

LEMMA OneFolder ==
  ASSUME NEW C, NEW p \in Dirs, NEW q \in Dirs, NEW z \in Things,
         z \in Entries(C, p), z \in Entries(C, q)
  PROVE  p = q
BY EntryIs, EntriesAssumption DEF Things

(* Folders that are all in one another there are not.                      *)
LEMMA NoCircle ==
  ASSUME NEW C, NEW S \in SUBSET Dirs, \A d \in S : \E e \in S : d \in Entries(C, e)
  PROVE  S = {}
<1>1. \A d \in S : \E e \in S : d \in Range(Kids[e])
  BY DEF Entries
<1> QED BY <1>1, EntriesAssumption

LEMMA LevelsDiffer ==
  ASSUME NEW C, NEW d, NEW i \in 0..Cardinality(Dirs), NEW j \in 0..Cardinality(Dirs), i < j
  PROVE  Levels(C, d)[i] \cap Levels(C, d)[j] \cap Dirs = {}
<1> DEFINE n == Cardinality(Dirs)
           L == Levels(C, d)
<1>0. n \in Nat
  BY DirsAreFinite
<1>1. \A k \in 1..n : k - 1 \in 0..n
  BY <1>0
<1>2. \A k \in 1..n : d \notin L[k] \cap Dirs
  <2> SUFFICES ASSUME NEW k \in 1..n, d \in L[k] \cap Dirs PROVE FALSE
    OBVIOUS
  <2> DEFINE S == {z \in Dirs : \E m \in 0..n : z \in L[m]}
  <2>1. ASSUME NEW z \in S PROVE \E e \in S : z \in Entries(C, e)
    <3>1. PICK m \in 1..n : z \in L[m]
      <4>1. PICK m \in 0..n : z \in L[m]
        OBVIOUS
      <4>2. CASE m = 0
        <5>1. z = d
          BY <4>1, <4>2, LevelsAre
        <5> QED BY <5>1
      <4>3. CASE m # 0
        <5>1. m \in 1..n
          BY <4>3, <1>0
        <5> QED BY <4>1, <5>1
      <4> QED BY <4>2, <4>3
    <3>2. PICK p \in L[m - 1] \cap Dirs : z \in Entries(C, p)
      BY <3>1, LevelAbove
    <3> QED BY <1>1, <3>2
  <2>2. S = {}
    <3>1. S \in SUBSET Dirs
      OBVIOUS
    <3> HIDE DEF S
    <3> QED BY <2>1, <3>1, NoCircle
  <2>3. d \in S
    <3>1. k \in 0..n
      BY <1>0
    <3> QED BY <3>1
  <2> QED BY <2>2, <2>3
<1> DEFINE S == {z \in Dirs : \E a, b \in 0..n : a < b /\ z \in L[a] /\ z \in L[b]}
<1>3. ASSUME NEW z \in S PROVE \E e \in S : z \in Entries(C, e)
  <2>1. PICK a \in 0..n, b \in 0..n : a < b /\ z \in L[a] /\ z \in L[b]
    OBVIOUS
  <2>2. b \in 1..n
    BY <1>0, <2>1
  <2>3. a \in 1..n
    <3>1. CASE a = 0
      <4>1. z = d
        BY <2>1, <3>1, LevelsAre
      <4> QED BY <1>2, <2>1, <2>2, <4>1
    <3> QED BY <1>0, <3>1
  <2>4. PICK p \in L[a - 1] \cap Dirs : z \in Entries(C, p)
    BY <2>1, <2>3, LevelAbove
  <2>5. PICK q \in L[b - 1] \cap Dirs : z \in Entries(C, q)
    BY <2>1, <2>2, LevelAbove
  <2>6. p = q
    BY <2>4, <2>5, OneFolder DEF Things
  <2>7. a - 1 < b - 1 /\ a - 1 \in 0..n /\ b - 1 \in 0..n
    BY <1>0, <2>1, <2>2, <2>3
  <2>8. p \in S
    BY <2>4, <2>5, <2>6, <2>7
  <2> QED BY <2>4, <2>8
<1>4. S = {}
  <2>1. S \in SUBSET Dirs
    OBVIOUS
  <2> HIDE DEF S
  <2> QED BY <1>3, <2>1, NoCircle
<1> QED BY <1>4

(* No folder is deeper than there are folders.                             *)
LEMMA NoFolderDeeper ==
  ASSUME NEW C, NEW d, NEW k \in 0..Cardinality(Dirs), Levels(C, d)[k] \cap Dirs # {}
  PROVE  k < Cardinality(Dirs)
<1> DEFINE n == Cardinality(Dirs)
           L == Levels(C, d)
           Q == {j \in Nat : j > n \/ L[n - j] \cap Dirs # {}}
<1>0. n \in Nat
  BY DirsAreFinite
<1> SUFFICES ASSUME k = n PROVE FALSE
  BY <1>0
<1>1. 0 \in Q
  BY <1>0
<1>2. ASSUME NEW j \in Q PROVE j + 1 \in Q
  <2> SUFFICES ASSUME ~(j + 1 > n) PROVE L[n - (j + 1)] \cap Dirs # {}
    OBVIOUS
  <2>1. n - j \in 1..n /\ n - (j + 1) = (n - j) - 1 /\ ~(j > n)
    BY <1>0
  <2>2. PICK z \in L[n - j] \cap Dirs : TRUE
    BY <2>1
  <2>3. PICK p \in L[(n - j) - 1] \cap Dirs : z \in Entries(C, p)
    BY <2>1, <2>2, LevelAbove
  <2> QED BY <2>1, <2>3
<1>3. Q = Nat
  <2>1. Q \in SUBSET Nat
    OBVIOUS
  <2> HIDE DEF Q
  <2> QED BY <1>1, <1>2, <2>1, AllNumbers
<1>4. \A m \in 0..n : L[m] \cap Dirs # {}
  <2> TAKE m \in 0..n
  <2>1. n - m \in Nat /\ ~(n - m > n) /\ n - (n - m) = m
    BY <1>0
  <2>2. n - m \in Q
    BY <1>3, <2>1
  <2> QED BY <2>1, <2>2
<1> DEFINE c == [m \in 0..n |-> CHOOSE z : z \in L[m] \cap Dirs]
<1>5. \A m \in 0..n : c[m] \in L[m] \cap Dirs
  BY <1>4
<1> HIDE DEF c
<1>6. c \in [0..n -> Dirs]
  BY <1>5 DEF c
<1>7. IsFiniteSet(0..n) /\ Cardinality(0..n) = n + 1
  BY <1>0, FS_Interval
<1>8. n < Cardinality(0..n)
  BY <1>0, <1>7
<1>9. PICK x \in 0..n, y \in 0..n : x # y /\ c[x] = c[y]
  BY <1>6, <1>7, <1>8, DirsAreFinite, FS_PigeonHole
<1>10. c[x] \in L[x] \cap L[y] \cap Dirs
  BY <1>5, <1>9
<1>11. x < y \/ y < x
  BY <1>9
<1> QED BY <1>10, <1>11, LevelsDiffer

LEMMA InsideSelf ==
  ASSUME NEW C, NEW d
  PROVE  d \in Inside(C, d)
<1>1. 0 \in 0..Cardinality(Dirs)
  BY DirsAreFinite
<1> QED BY <1>1, InsideIs, LevelsAre

LEMMA InsideEntries ==
  ASSUME NEW C, NEW d, NEW x \in Inside(C, d) \cap Dirs
  PROVE  Entries(C, x) \subseteq Inside(C, d)
<1>1. PICK k \in 0..Cardinality(Dirs) : x \in Levels(C, d)[k]
  BY InsideIs
<1>2. k < Cardinality(Dirs)
  BY <1>1, NoFolderDeeper
<1>3. k + 1 \in 1..Cardinality(Dirs) /\ k + 1 \in 0..Cardinality(Dirs) /\ (k + 1) - 1 = k
  BY <1>2, DirsAreFinite
<1>4. ASSUME NEW z \in Entries(C, x) PROVE z \in Levels(C, d)[k + 1]
  BY <1>1, <1>3, LevelAbove
<1> QED BY <1>3, <1>4, InsideIs

LEMMA InsideLeast ==
  ASSUME NEW C, NEW d, NEW S, d \in S, \A x \in S \cap Dirs : Entries(C, x) \subseteq S
  PROVE  Inside(C, d) \subseteq S
<1> DEFINE n == Cardinality(Dirs)
           P == {k \in Nat : k \in 0..n => Levels(C, d)[k] \subseteq S}
<1>0. n \in Nat
  BY DirsAreFinite
<1>1. 0 \in P
  BY LevelsAre
<1>2. ASSUME NEW k \in P PROVE k + 1 \in P
  <2> SUFFICES ASSUME k + 1 \in 0..n, NEW z \in Levels(C, d)[k + 1] PROVE z \in S
    OBVIOUS
  <2>1. k + 1 \in 1..n /\ (k + 1) - 1 = k /\ k \in 0..n
    BY <1>0
  <2>2. PICK p \in Levels(C, d)[k] \cap Dirs : z \in Entries(C, p)
    BY <2>1, LevelAbove
  <2> QED BY <2>1, <2>2
<1>3. P = Nat
  <2>1. P \in SUBSET Nat
    OBVIOUS
  <2> HIDE DEF P
  <2> QED BY <1>1, <1>2, <2>1, AllNumbers
<1>4. ASSUME NEW z \in Inside(C, d) PROVE z \in S
  <2>1. PICK k \in 0..n : z \in Levels(C, d)[k]
    BY InsideIs
  <2>2. k \in P
    BY <1>3
  <2> QED BY <2>1, <2>2
<1> QED BY <1>4

LEMMA InsideParent ==
  ASSUME NEW C, NEW d, NEW z \in Inside(C, d), z # d
  PROVE  \E p \in Inside(C, d) \cap Dirs : z \in Entries(C, p)
<1> DEFINE n == Cardinality(Dirs)
<1>1. PICK k \in 0..n : z \in Levels(C, d)[k]
  BY InsideIs
<1>2. k \in 1..n
  <2>1. k # 0
    BY <1>1, LevelsAre
  <2> QED BY <2>1, DirsAreFinite
<1>3. PICK p \in Levels(C, d)[k - 1] \cap Dirs : z \in Entries(C, p)
  BY <1>1, <1>2, LevelAbove
<1>4. k - 1 \in 0..n
  BY <1>2, DirsAreFinite
<1>5. p \in Inside(C, d)
  BY <1>3, <1>4, InsideIs
<1> QED BY <1>3, <1>5

LEMMA InsideWithin ==
  ASSUME NEW C, NEW d, NEW y \in Inside(C, d)
  PROVE  Inside(C, y) \subseteq Inside(C, d)
<1>1. \A x \in Inside(C, d) \cap Dirs : Entries(C, x) \subseteq Inside(C, d)
  BY InsideEntries
<1> QED BY <1>1, InsideLeast

LEMMA InsideSplit ==
  ASSUME NEW C, NEW d \in Dirs
  PROVE  Inside(C, d) = {d} \cup UNION {Inside(C, x) : x \in Entries(C, d)}
<1> DEFINE S == {d} \cup UNION {Inside(C, x) : x \in Entries(C, d)}
<1>1. \A x \in S \cap Dirs : Entries(C, x) \subseteq S
  <2> SUFFICES ASSUME NEW x \in S \cap Dirs, NEW z \in Entries(C, x) PROVE z \in S
    OBVIOUS
  <2>1. CASE x = d
    BY <2>1, InsideSelf
  <2>2. CASE x # d
    <3>1. PICK e \in Entries(C, d) : x \in Inside(C, e)
      BY <2>2
    <3>2. z \in Inside(C, e)
      BY <3>1, InsideEntries
    <3> QED BY <3>2
  <2> QED BY <2>1, <2>2
<1>2. Inside(C, d) \subseteq S
  <2>1. d \in S
    OBVIOUS
  <2> HIDE DEF S
  <2> QED BY <1>1, <2>1, InsideLeast
<1>3. S \subseteq Inside(C, d)
  <2>1. d \in Inside(C, d)
    BY InsideSelf
  <2>2. Entries(C, d) \subseteq Inside(C, d)
    BY <2>1, InsideEntries
  <2>3. \A x \in Entries(C, d) : Inside(C, x) \subseteq Inside(C, d)
    BY <2>2, InsideWithin
  <2> QED BY <2>1, <2>3
<1> QED BY <1>2, <1>3

LEMMA InsideAlone ==
  ASSUME NEW C, NEW d, d \notin Dirs \/ d \in C
  PROVE  Inside(C, d) = {d}
<1>1. \A x \in {d} \cap Dirs : Entries(C, x) \subseteq {d}
  BY DEF Entries
<1>2. Inside(C, d) \subseteq {d}
  BY <1>1, InsideLeast
<1> QED BY <1>2, InsideSelf

LEMMA NotInItsEntries ==
  ASSUME NEW C, NEW d \in Dirs, NEW x \in Entries(C, d)
  PROVE  d \notin Inside(C, x)
<1> SUFFICES ASSUME d \in Inside(C, x) PROVE FALSE
  OBVIOUS
<1> DEFINE S == Inside(C, x) \cap Dirs
<1>1. ASSUME NEW z \in S PROVE \E e \in S : z \in Entries(C, e)
  <2>1. CASE z = x
    BY <2>1
  <2>2. CASE z # x
    BY <2>2, InsideParent
  <2> QED BY <2>1, <2>2
<1>2. S \in SUBSET Dirs /\ d \in S
  OBVIOUS
<1> HIDE DEF S
<1>3. S = {}
  BY <1>1, <1>2, NoCircle
<1> QED BY <1>2, <1>3

(* What is in one entry of a folder is not in another.                     *)
LEMMA EntriesApart ==
  ASSUME NEW C, NEW d \in Dirs, NEW x \in Entries(C, d), NEW y \in Entries(C, d), x # y,
         x \in Things, y \in Things
  PROVE  Inside(C, x) \cap Inside(C, y) \cap Things = {}
<1> DEFINE S == Inside(C, x) \cap Inside(C, y) \cap Dirs
<1>1. ASSUME NEW z \in Inside(C, x) \cap Inside(C, y) \cap Things
      PROVE  \E e \in S : z \in Entries(C, e)
  <2>1. z # x
    <3> SUFFICES ASSUME z = x PROVE FALSE
      OBVIOUS
    <3>1. PICK p \in Inside(C, y) \cap Dirs : x \in Entries(C, p)
      BY InsideParent
    <3>2. p = d
      BY <3>1, OneFolder
    <3> QED BY <3>1, <3>2, NotInItsEntries
  <2>2. z # y
    <3> SUFFICES ASSUME z = y PROVE FALSE
      OBVIOUS
    <3>1. PICK p \in Inside(C, x) \cap Dirs : y \in Entries(C, p)
      BY InsideParent
    <3>2. p = d
      BY <3>1, OneFolder
    <3> QED BY <3>1, <3>2, NotInItsEntries
  <2>3. PICK p \in Inside(C, x) \cap Dirs : z \in Entries(C, p)
    BY <2>1, InsideParent
  <2>4. PICK q \in Inside(C, y) \cap Dirs : z \in Entries(C, q)
    BY <2>2, InsideParent
  <2>5. p = q
    BY <2>3, <2>4, OneFolder
  <2> QED BY <2>3, <2>4, <2>5
<1>2. S = {}
  <2>1. \A z \in S : \E e \in S : z \in Entries(C, e)
    BY <1>1 DEF Things
  <2>2. S \in SUBSET Dirs
    OBVIOUS
  <2> HIDE DEF S
  <2> QED BY <2>1, <2>2, NoCircle
<1> QED BY <1>1, <1>2

-----------------------------------------------------------------------------
(* How deep the folders in a folder are.                                   *)
Heights(C, d) == {k \in 0..Cardinality(Dirs) : Levels(C, d)[k] \cap Dirs # {}}

LEMMA HeightsOfNone ==
  ASSUME NEW C, NEW d, d \notin Dirs
  PROVE  Heights(C, d) = {}
<1> SUFFICES ASSUME NEW k \in 0..Cardinality(Dirs), NEW z \in Levels(C, d)[k] \cap Dirs
             PROVE  FALSE
  BY DEF Heights
<1>1. z \in Inside(C, d)
  BY InsideIs
<1> QED BY <1>1, InsideAlone

LEMMA HeightsOfClosed ==
  ASSUME NEW C, NEW d \in Dirs, d \in C
  PROVE  Heights(C, d) = {0}
<1> DEFINE n == Cardinality(Dirs)
<1>0. n \in Nat
  BY DirsAreFinite
<1>1. 0 \in Heights(C, d)
  <2>1. d \in Levels(C, d)[0] /\ 0 \in 0..n
    BY <1>0, LevelsAre
  <2> QED BY <2>1 DEF Heights
<1>2. ASSUME NEW k \in Heights(C, d), k # 0 PROVE FALSE
  <2>1. PICK z \in Levels(C, d)[k] \cap Dirs : k \in 0..n
    BY DEF Heights
  <2>2. 0 \in 0..n /\ 0 < k
    BY <1>0, <1>2, <2>1
  <2>3. z \in Inside(C, d)
    BY <2>1, InsideIs
  <2>4. z = d
    BY <2>3, InsideAlone
  <2>5. d \in Levels(C, d)[0] \cap Levels(C, d)[k] \cap Dirs
    BY <2>1, <2>4, LevelsAre
  <2> QED BY <2>1, <2>2, <2>5, LevelsDiffer
<1> QED BY <1>1, <1>2

LEMMA HeightsOfFolder ==
  ASSUME NEW C, NEW d \in Dirs
  PROVE  Heights(C, d) =
           {0} \cup UNION {{k + 1 : k \in Heights(C, x)} : x \in Entries(C, d)}
<1> DEFINE n == Cardinality(Dirs)
<1>0. n \in Nat
  BY DirsAreFinite
<1>1. 0 \in Heights(C, d)
  <2>1. d \in Levels(C, d)[0] /\ 0 \in 0..n
    BY <1>0, LevelsAre
  <2> QED BY <2>1 DEF Heights
<1>2. ASSUME NEW x \in Entries(C, d), NEW k \in Heights(C, x) PROVE k + 1 \in Heights(C, d)
  <2> DEFINE P == {m \in Nat : m + 1 \in 0..n => Levels(C, x)[m] \subseteq Levels(C, d)[m + 1]}
  <2>1. 0 \in P
    <3> SUFFICES ASSUME 1 \in 0..n PROVE Levels(C, x)[0] \subseteq Levels(C, d)[1]
      OBVIOUS
    <3>1. Levels(C, x)[0] = {x} /\ Levels(C, d)[0] = {d} /\ 1 \in 1..n /\ 1 - 1 = 0
      BY LevelsAre, <1>0
    <3>2. x \in Levels(C, d)[1]
      BY <3>1, LevelAbove
    <3> QED BY <3>1, <3>2
  <2>2. ASSUME NEW m \in P PROVE m + 1 \in P
    <3> SUFFICES ASSUME (m + 1) + 1 \in 0..n, NEW z \in Levels(C, x)[m + 1]
                 PROVE  z \in Levels(C, d)[(m + 1) + 1]
      OBVIOUS
    <3>1. m + 1 \in 1..n /\ (m + 1) - 1 = m /\ m + 1 \in 0..n
          /\ (m + 1) + 1 \in 1..n /\ ((m + 1) + 1) - 1 = m + 1
      BY <1>0
    <3>2. PICK p \in Levels(C, x)[m] \cap Dirs : z \in Entries(C, p)
      BY <3>1, LevelAbove
    <3>3. p \in Levels(C, d)[m + 1]
      BY <3>1, <3>2
    <3> QED BY <3>1, <3>2, <3>3, LevelAbove
  <2>3. P = Nat
    <3>1. P \in SUBSET Nat
      OBVIOUS
    <3> HIDE DEF P
    <3> QED BY <2>1, <2>2, <3>1, AllNumbers
  <2>4. k \in 0..n /\ Levels(C, x)[k] \cap Dirs # {}
    BY DEF Heights
  <2>5. k + 1 \in 0..n
    BY <1>0, <2>4, NoFolderDeeper
  <2>6. k \in P
    BY <2>3, <2>4
  <2>7. Levels(C, d)[k + 1] \cap Dirs # {}
    BY <2>4, <2>5, <2>6
  <2> QED BY <2>5, <2>7 DEF Heights
<1>3. ASSUME NEW k \in Heights(C, d), k # 0
      PROVE  \E x \in Entries(C, d) : k - 1 \in Heights(C, x)
  <2> DEFINE P == {m \in Nat : m + 1 \in 0..n =>
                     \A z \in Levels(C, d)[m + 1] : \E x \in Entries(C, d) : z \in Levels(C, x)[m]}
  <2>1. 0 \in P
    <3> SUFFICES ASSUME 1 \in 0..n, NEW z \in Levels(C, d)[1]
                 PROVE  \E x \in Entries(C, d) : z \in Levels(C, x)[0]
      OBVIOUS
    <3>1. Levels(C, d)[0] = {d} /\ 1 \in 1..n /\ 1 - 1 = 0
      BY LevelsAre, <1>0
    <3>2. z \in Entries(C, d)
      BY <3>1, LevelAbove
    <3>3. z \in Levels(C, z)[0]
      BY LevelsAre
    <3> QED BY <3>2, <3>3
  <2>2. ASSUME NEW m \in P PROVE m + 1 \in P
    <3> SUFFICES ASSUME (m + 1) + 1 \in 0..n, NEW z \in Levels(C, d)[(m + 1) + 1]
                 PROVE  \E x \in Entries(C, d) : z \in Levels(C, x)[m + 1]
      OBVIOUS
    <3>1. m + 1 \in 1..n /\ (m + 1) - 1 = m /\ m + 1 \in 0..n
          /\ (m + 1) + 1 \in 1..n /\ ((m + 1) + 1) - 1 = m + 1
      BY <1>0
    <3>2. PICK p \in Levels(C, d)[m + 1] \cap Dirs : z \in Entries(C, p)
      BY <3>1, LevelAbove
    <3>3. PICK x \in Entries(C, d) : p \in Levels(C, x)[m]
      BY <3>1, <3>2
    <3>4. z \in Levels(C, x)[m + 1]
      BY <3>1, <3>2, <3>3, LevelAbove
    <3> QED BY <3>4
  <2>3. P = Nat
    <3>1. P \in SUBSET Nat
      OBVIOUS
    <3> HIDE DEF P
    <3> QED BY <2>1, <2>2, <3>1, AllNumbers
  <2>4. PICK z \in Levels(C, d)[k] \cap Dirs : k \in 0..n
    BY DEF Heights
  <2>5. k - 1 \in Nat /\ (k - 1) + 1 = k /\ k - 1 \in 0..n
    BY <1>0, <1>3, <2>4
  <2>6. k - 1 \in P
    BY <2>3, <2>5
  <2>7. PICK x \in Entries(C, d) : z \in Levels(C, x)[k - 1]
    BY <2>4, <2>5, <2>6
  <2>8. k - 1 \in Heights(C, x)
    BY <2>4, <2>5, <2>7 DEF Heights
  <2> QED BY <2>8
<1>4. \A k \in Heights(C, d) : k \in Int
  BY <1>0 DEF Heights
<1>5. ASSUME NEW k \in Heights(C, d), k # 0
      PROVE  \E x \in Entries(C, d) : \E m \in Heights(C, x) : k = m + 1
  <2>1. PICK x \in Entries(C, d) : k - 1 \in Heights(C, x)
    BY <1>3, <1>5
  <2>2. k = (k - 1) + 1
    BY <1>4
  <2> QED BY <2>1, <2>2
<1> QED BY <1>1, <1>2, <1>5
-----------------------------------------------------------------------------
(* What a walk that nobody interfered with has done so far.                *)
FrameRecords ==
  [dir : Dirs, next : Nat, size : Nat, elements : Nat, hl : Nat, depth : Nat]
RowRecords ==
  [of : Dirs, parent : Nat, size : Nat, elements : Int, hl : Nat, live : {TRUE}]

(* The entries of a frame that have been dealt with: the one whose folder  *)
(* is open, or being opened, has not.                                      *)
Handled(i) ==
  IF i < Len(frames) \/ opening # NoDir THEN frames[i].next - 2 ELSE frames[i].next - 1

SeenIn(C, d, m) == {d} \cup UNION {Inside(C, Kids[d][j]) : j \in 1..m}
Raised(C, x) == {k + 1 : k \in Heights(C, x)}
HeightsIn(C, d, m) == {0} \cup UNION {Raised(C, Kids[d][j]) : j \in 1..m}
FirstEntries(d, m) == {Kids[d][j] : j \in 1..m}

SeenOf(i) == SeenIn(Closed, frames[i].dir, Handled(i))
Visited == UNION {SeenOf(i) : i \in 1..Len(frames)}

(* x is the entry of frame i to be dealt with next. *)
IsNext(i, x) ==
  /\ Handled(i) < Len(Kids[frames[i].dir])
  /\ x = Kids[frames[i].dir][Handled(i) + 1]

(* The frames are a way down from the folder that is scanned.              *)
FramesHold ==
  /\ frames \in Seq(FrameRecords)
  /\ \A i \in 1..Len(frames) :
       /\ frames[i].dir \notin Closed
       /\ Handled(i) \in 0..Len(Kids[frames[i].dir])
  /\ IF frames = <<>> THEN opening = current_location
     ELSE /\ frames[1].dir = current_location
          /\ opening # NoDir => opening \in Dirs /\ IsNext(Len(frames), opening)
  /\ \A i \in 1..Len(frames) : \A j \in 1..Len(frames) : i < j =>
       /\ IsNext(i, Kids[frames[i].dir][Handled(i) + 1])
       /\ frames[j].dir \in Inside(Closed, Kids[frames[i].dir][Handled(i) + 1])
       /\ j = i + 1 => frames[j].dir = Kids[frames[i].dir][Handled(i) + 1]

(* What is counted of some things when S is skipped and missed are links   *)
(* that are not counted.                                                   *)
Amount(S, missed, V) == SumOf(Size, ((V \cap Things) \ S) \ missed)
IsMax(k, S) == k \in S /\ \A m \in S : m <= k

AmountsHold(missed) ==
  \A i \in 1..Len(frames) :
    LET f == frames[i]
    IN  /\ f.size = Amount(Skipped, missed, SeenOf(i))
        /\ f.hl = SumOf(Size, missed \cap FirstEntries(f.dir, Handled(i)))
        /\ IsMax(f.depth, HeightsIn(Closed, f.dir, Handled(i)))

(* There is one row for each folder among V that could be read, ...        *)
RowsHold(V) ==
  /\ rows \in Seq(RowRecords)
  /\ {rows[r].of : r \in 1..Len(rows)} = (V \cap Dirs) \ Closed
  /\ \A r \in 1..Len(rows) : \A q \in 1..Len(rows) : rows[r].of = rows[q].of => r = q
  /\ \A r \in 1..Len(rows) :
       IF r = 1 THEN rows[r].parent = 0 /\ rows[r].of = current_location
       ELSE /\ rows[r].parent \in 1..r - 1
            /\ rows[r].of \in Entries(Closed, rows[rows[r].parent].of)

(* ... filled in unless the folder is open.                                *)
FilledHold(missed) ==
  \A r \in 1..Len(rows) : (\A i \in 1..Len(iterstack) : iterstack[i] # r) =>
    /\ rows[r].size = Amount(Skipped, missed, Inside(Closed, rows[r].of))
    /\ rows[r].hl = SumOf(Size, missed \cap Entries(Closed, rows[r].of))

StackHolds ==
  /\ iterstack \in Seq(Nat) /\ Len(iterstack) = Len(frames)
  /\ \A i \in 1..Len(frames) :
       iterstack[i] \in 1..Len(rows) /\ rows[iterstack[i]].of = frames[i].dir

(* From the last row up lie the rows of the open folders.                  *)
IsPath(path) ==
  /\ path \in [1..currentdepth + 1 -> 1..Len(rows)]
  /\ path[currentdepth + 1] = currentiter
  /\ \A i \in 1..currentdepth : rows[path[i + 1]].parent = path[i]
  /\ \A i \in 1..Len(frames) : path[i] = iterstack[i]

PlaceHolds ==
  IF rows = <<>> THEN currentdepth = -1
  ELSE /\ firstiter = 1 /\ currentiter = Len(rows)
       /\ currentdepth \in Nat /\ Len(frames) <= currentdepth + 1
       /\ \E path \in [1..currentdepth + 1 -> 1..Len(rows)] : IsPath(path)

(* Of the links to one inode among V all but one are missed.               *)
InodesHold(V, missed, inodes) ==
  /\ missed \subseteq V \cap Linked
  /\ inodes = {Inode[f] : f \in V \cap Linked}
  /\ \A f \in V \cap Linked : \A g \in V \cap Linked :
       Inode[f] = Inode[g] => f = g \/ f \in missed \/ g \in missed
  /\ \A f \in V \cap Linked : \E g \in (V \cap Linked) \ missed : Inode[g] = Inode[f]

WalkHolds(missed) ==
  /\ FramesHold /\ AmountsHold(missed) /\ RowsHold(Visited) /\ FilledHold(missed)
  /\ StackHolds /\ PlaceHolds /\ InodesHold(Visited, missed, hla)

Scanned == Inside(Closed, current_location)

DoneHolds(missed) ==
  /\ current_location \in Dirs
  /\ RowsHold(Scanned) /\ FilledHold(missed) /\ iterstack = <<>>
  /\ InodesHold(Scanned, missed, hla) /\ IsMax(model_max_depth, Heights(Closed, current_location))

CallsHold ==
  stage = "starting" /\ ~STOP_SCANNING => current_location = Last(calls)

-----------------------------------------------------------------------------
(* What things amount to.                                                  *)
LEMMA ThingsAreFinite ==
  /\ IsFiniteSet(Things) /\ \A S \in SUBSET Things : IsFiniteSet(S)
  /\ \A x \in Things : Size[x] \in Nat
BY EntriesAssumption, FS_Subset DEF Things

LEMMA AmountIsNumber ==
  ASSUME NEW S, NEW missed, NEW V
  PROVE  Amount(S, missed, V) \in Nat
<1>1. ((V \cap Things) \ S) \ missed \in SUBSET Things
  OBVIOUS
<1> QED BY <1>1, ThingsAreFinite, SumIsNumber DEF Amount

LEMMA AmountJoin ==
  ASSUME NEW S, NEW missed, NEW V, NEW W, V \cap W \cap Things = {}
  PROVE  Amount(S, missed, V \cup W) = Amount(S, missed, V) + Amount(S, missed, W)
<1> DEFINE A == ((V \cap Things) \ S) \ missed
           B == ((W \cap Things) \ S) \ missed
<1>1. A \in SUBSET Things /\ B \in SUBSET Things /\ A \cap B = {}
      /\ (((V \cup W) \cap Things) \ S) \ missed = A \cup B
  OBVIOUS
<1>2. SumOf(Size, A \cup B) = SumOf(Size, A) + SumOf(Size, B)
  <2> HIDE DEF A, B
  <2>1. IsFiniteSet(A) /\ IsFiniteSet(B) /\ \A x \in A \cup B : Size[x] \in Nat
    BY <1>1, ThingsAreFinite
  <2> QED BY <1>1, <2>1, SumJoin
<1> QED BY <1>1, <1>2 DEF Amount

LEMMA SumOfOne ==
  ASSUME NEW x \in Things
  PROVE  SumOf(Size, {x}) = Size[x] /\ SumOf(Size, {}) = 0
<1>1. {} \cup {x} = {x} /\ x \notin {} /\ IsFiniteSet({}) /\ \A y \in {} \cup {x} : Size[y] \in Nat
  BY ThingsAreFinite, FS_EmptySet
<1>2. SumOf(Size, {}) = 0
  BY <1>1, SumIsNumber
<1>3. SumOf(Size, {x}) = Size[x] + SumOf(Size, {})
  <2> DEFINE N == {}
  <2>1. x \notin N /\ IsFiniteSet(N) /\ (\A y \in N \cup {x} : Size[y] \in Nat) /\ N \cup {x} = {x}
    BY <1>1
  <2>2. SumOf(Size, N \cup {x}) = Size[x] + SumOf(Size, N)
    <3> HIDE DEF N
    <3> QED BY <2>1, SumAdd
  <2> QED BY <2>1, <2>2
<1>4. Size[x] \in Nat
  BY ThingsAreFinite
<1> QED BY <1>2, <1>3, <1>4

LEMMA AmountOfOne ==
  ASSUME NEW S, NEW missed, NEW x
  PROVE  Amount(S, missed, {x}) = IF x \in (Things \ S) \ missed THEN Size[x] ELSE 0
<1>1. CASE x \in (Things \ S) \ missed
  <2>1. (({x} \cap Things) \ S) \ missed = {x}
    BY <1>1
  <2> QED BY <1>1, <2>1, SumOfOne DEF Amount
<1>2. CASE x \notin (Things \ S) \ missed
  <2>1. (({x} \cap Things) \ S) \ missed = {}
    BY <1>2
  <2>2. SumOf(Size, {}) = 0
    BY FS_EmptySet, SumIsNumber
  <2> QED BY <1>2, <2>1, <2>2 DEF Amount
<1> QED BY <1>1, <1>2

LEMMA AmountWithout ==
  ASSUME NEW S, NEW missed, NEW V, NEW f, f \notin V
  PROVE  Amount(S, missed \cup {f}, V) = Amount(S, missed, V)
<1>1. ((V \cap Things) \ S) \ (missed \cup {f}) = ((V \cap Things) \ S) \ missed
  OBVIOUS
<1> QED BY <1>1 DEF Amount

-----------------------------------------------------------------------------
(* One entry more of a folder, from the first to the last.                 *)
LEMMA KidsAre ==
  ASSUME NEW d \in Dirs
  PROVE  /\ Len(Kids[d]) \in Nat /\ DOMAIN Kids[d] = 1..Len(Kids[d])
         /\ \A C : d \notin C => Entries(C, d) = FirstEntries(d, Len(Kids[d]))
<1>1. Kids[d] \in Seq(Range(Kids[d]))
  BY EntriesAssumption
<1>2. Len(Kids[d]) \in Nat /\ DOMAIN Kids[d] = 1..Len(Kids[d])
  BY <1>1
<1> QED BY <1>2 DEF Entries, FirstEntries, Range

LEMMA NextEntryIs ==
  ASSUME NEW C, NEW d \in Dirs, d \notin C, NEW m \in Nat, m < Len(Kids[d])
  PROVE  LET x == Kids[d][m + 1]
         IN  /\ x \in Entries(C, d)
             /\ SeenIn(C, d, m + 1) = SeenIn(C, d, m) \cup Inside(C, x)
             /\ HeightsIn(C, d, m + 1) = HeightsIn(C, d, m) \cup Raised(C, x)
             /\ FirstEntries(d, m + 1) = FirstEntries(d, m) \cup {x}
<1>1. 1..(m + 1) = 1..m \cup {m + 1} /\ m + 1 \in 1..Len(Kids[d])
  BY KidsAre
<1>2. Kids[d][m + 1] \in Entries(C, d)
  BY <1>1, KidsAre DEF FirstEntries
<1>3. SeenIn(C, d, m + 1) = SeenIn(C, d, m) \cup Inside(C, Kids[d][m + 1])
  BY <1>1 DEF SeenIn
<1>4. HeightsIn(C, d, m + 1) =
        HeightsIn(C, d, m) \cup Raised(C, Kids[d][m + 1])
  BY <1>1 DEF HeightsIn
<1>5. FirstEntries(d, m + 1) = FirstEntries(d, m) \cup {Kids[d][m + 1]}
  BY <1>1 DEF FirstEntries
<1> QED BY <1>2, <1>3, <1>4, <1>5

LEMMA NextHeights ==
  ASSUME NEW C, NEW d \in Dirs, d \notin C, NEW m \in Nat, m < Len(Kids[d]),
         NEW x, x = Kids[d][m + 1]
  PROVE  HeightsIn(C, d, m + 1) = HeightsIn(C, d, m) \cup Raised(C, x)
BY NextEntryIs

LEMMA NextFirst ==
  ASSUME NEW d \in Dirs, NEW m \in Nat, m < Len(Kids[d]), NEW x, x = Kids[d][m + 1]
  PROVE  FirstEntries(d, m + 1) = FirstEntries(d, m) \cup {x}
<1>1. 1..(m + 1) = 1..m \cup {m + 1} /\ m + 1 \in 1..Len(Kids[d])
  BY KidsAre
<1> QED BY <1>1 DEF FirstEntries

LEMMA NoEntryYet ==
  ASSUME NEW C, NEW d
  PROVE  SeenIn(C, d, 0) = {d} /\ HeightsIn(C, d, 0) = {0} /\ FirstEntries(d, 0) = {}
BY DEF SeenIn, HeightsIn, FirstEntries

LEMMA AllEntries ==
  ASSUME NEW C, NEW d \in Dirs, d \notin C
  PROVE  /\ SeenIn(C, d, Len(Kids[d])) = Inside(C, d)
         /\ HeightsIn(C, d, Len(Kids[d])) = Heights(C, d)
<1>1. Entries(C, d) = {Kids[d][j] : j \in 1..Len(Kids[d])}
  BY KidsAre DEF FirstEntries
<1>2. SeenIn(C, d, Len(Kids[d])) = Inside(C, d)
  BY <1>1, InsideSplit DEF SeenIn
<1>3. HeightsIn(C, d, Len(Kids[d])) = Heights(C, d)
  BY <1>1, HeightsOfFolder DEF HeightsIn, Raised
<1> QED BY <1>2, <1>3

(* What is in the next entry has not been seen in the folder.              *)
LEMMA NextIsNew ==
  ASSUME NEW C, NEW d \in Dirs, d \notin C, NEW m \in Nat, m < Len(Kids[d]),
         Kids[d][m + 1] \in Things
  PROVE  SeenIn(C, d, m) \cap Inside(C, Kids[d][m + 1]) \cap Things = {}
<1> DEFINE x == Kids[d][m + 1]
<1>1. x \in Entries(C, d)
  BY NextEntryIs
<1>2. d \notin Inside(C, x)
  BY <1>1, NotInItsEntries
<1>3. ASSUME NEW j \in 1..m PROVE Inside(C, Kids[d][j]) \cap Inside(C, x) \cap Things = {}
  <2> DEFINE y == Kids[d][j]
  <2>1. y \in Entries(C, d) /\ j \in DOMAIN Kids[d] /\ m + 1 \in DOMAIN Kids[d] /\ j # m + 1
    BY KidsAre DEF FirstEntries
  <2>2. y # x
    BY <2>1, EntriesAssumption DEF Things
  <2>3. CASE y \in Things
    BY <1>1, <2>1, <2>2, <2>3, EntriesApart
  <2>4. CASE y \notin Things
    BY <2>4, InsideAlone DEF Things
  <2> QED BY <2>3, <2>4
<1> QED BY <1>2, <1>3 DEF SeenIn
-----------------------------------------------------------------------------
LEMMA ClosedAre == 
  ASSUME excluded \subseteq Dirs
  PROVE  Skipped \subseteq Dirs /\ Closed \subseteq Dirs
BY TreeAssumption DEF Skipped, Closed

LEMMA FramesAre ==
  ASSUME FramesHold
  PROVE  /\ Len(frames) \in Nat /\ DOMAIN frames = 1..Len(frames)
         /\ \A i \in 1..Len(frames) :
              /\ frames[i] \in FrameRecords /\ frames[i].dir \in Dirs \ Closed
              /\ Handled(i) \in 0..Len(Kids[frames[i].dir]) /\ Handled(i) \in Nat
              /\ Len(Kids[frames[i].dir]) \in Nat
<1>1. frames \in Seq(FrameRecords)
  BY DEF FramesHold
<1>2. Len(frames) \in Nat /\ DOMAIN frames = 1..Len(frames)
  BY <1>1
<1>3. ASSUME NEW i \in 1..Len(frames)
      PROVE  /\ frames[i] \in FrameRecords /\ frames[i].dir \in Dirs \ Closed
             /\ Handled(i) \in 0..Len(Kids[frames[i].dir]) /\ Handled(i) \in Nat
             /\ Len(Kids[frames[i].dir]) \in Nat
  <2>1. frames[i] \in FrameRecords
    BY <1>1
  <2>2. frames[i].dir \in Dirs
    BY <2>1 DEF FrameRecords
  <2>3. frames[i].dir \notin Closed /\ Handled(i) \in 0..Len(Kids[frames[i].dir])
    BY DEF FramesHold
  <2>4. Len(Kids[frames[i].dir]) \in Nat
    BY <2>2, KidsAre
  <2> QED BY <2>1, <2>2, <2>3, <2>4
<1> QED BY <1>2, <1>3

(* Nothing of the entry to be dealt with next has been seen.               *)
LEMMA Fresh ==
  ASSUME FramesHold, NEW k \in 1..Len(frames), NEW x, IsNext(k, x)
  PROVE  /\ x \in Entries(Closed, frames[k].dir)
         /\ \A i \in 1..k : SeenOf(i) \cap Inside(Closed, x) \cap Things = {}
<1>1. \A i \in 1..Len(frames) :
        frames[i].dir \in Dirs \ Closed /\ Handled(i) \in Nat /\ Len(frames) \in Nat
  BY FramesAre
<1>2. x \in Entries(Closed, frames[k].dir)
  BY <1>1, NextEntryIs DEF IsNext
<1>3. ASSUME NEW i \in 1..Len(frames), NEW y, IsNext(i, y), y \in Things
      PROVE  SeenOf(i) \cap Inside(Closed, y) \cap Things = {}
  BY <1>1, <1>3, NextIsNew DEF IsNext, SeenOf
<1>4. ASSUME NEW i \in 1..k PROVE SeenOf(i) \cap Inside(Closed, x) \cap Things = {}
  <2>1. CASE x \notin Things
    BY <2>1, InsideAlone DEF Things
  <2>2. CASE x \in Things /\ i = k
    BY <2>2, <1>3
  <2>3. CASE x \in Things /\ i < k
    <3> DEFINE y == Kids[frames[i].dir][Handled(i) + 1]
    <3>0. i \in 1..Len(frames)
      BY <1>1
    <3>1. IsNext(i, y) /\ frames[k].dir \in Inside(Closed, y)
      BY <2>3, <3>0 DEF FramesHold
    <3>2. x \in Inside(Closed, y)
      BY <1>1, <1>2, <3>1, InsideEntries
    <3>3. Inside(Closed, x) \subseteq Inside(Closed, y)
      BY <3>2, InsideWithin
    <3>4. y \in Things
      BY <1>1, <3>1, InsideAlone DEF Things
    <3>5. SeenOf(i) \cap Inside(Closed, y) \cap Things = {}
      BY <3>0, <3>1, <3>4, <1>3
    <3> QED BY <3>3, <3>5
  <2>4. i = k \/ i < k
    BY <1>1
  <2> QED BY <2>1, <2>2, <2>3, <2>4
<1> QED BY <1>2, <1>4

LEMMA FirstEntriesSeen ==
  ASSUME NEW C, NEW d, NEW m
  PROVE  FirstEntries(d, m) \subseteq SeenIn(C, d, m)
BY InsideSelf DEF FirstEntries, SeenIn

LEMMA MaxJoin ==
  ASSUME NEW G \in SUBSET Nat, NEW H \in SUBSET Nat, NEW a, NEW b,
         IsMax(a, G), IsMax(b, {a} \cup H)
  PROVE  IsMax(b, G \cup H)
<1>1. a \in Nat /\ b \in Nat /\ a <= b /\ (b = a \/ b \in H)
  BY DEF IsMax
<1>2. \A m \in G : m \in Nat /\ m <= a
  BY DEF IsMax
<1>3. \A m \in H : m <= b
  BY DEF IsMax
<1> QED BY <1>1, <1>2, <1>3 DEF IsMax

(* The entry x of the frame k, now the last, has been dealt with.          *)
Advances(k, x, missed, new) ==
  /\ excluded' = excluded /\ current_location' = current_location
  /\ frames' \in Seq(FrameRecords) /\ Len(frames') = k /\ opening' = NoDir
  /\ \A i \in 1..k - 1 : frames'[i] = frames[i]
  /\ frames'[k].dir = frames[k].dir /\ frames'[k].next = Handled(k) + 2
  /\ frames'[k].size = frames[k].size + Amount(Skipped, new, Inside(Closed, x))
  /\ frames'[k].hl = frames[k].hl + SumOf(Size, new \cap {x})
  /\ IsMax(frames'[k].depth, {frames[k].depth} \cup Raised(Closed, x))
  /\ new \in SUBSET Linked /\ missed \subseteq new /\ new \subseteq missed \cup {x}

LEMMA AdvanceFrames ==
  ASSUME NEW missed, NEW new, NEW k \in 1..Len(frames), NEW x, FramesHold, IsNext(k, x),
         Advances(k, x, missed, new)
  PROVE  /\ FramesHold' /\ Closed' = Closed /\ Skipped' = Skipped
         /\ Handled(k)' = Handled(k) + 1 /\ \A i \in 1..k - 1 : Handled(i)' = Handled(i)
<1>1. Len(frames) \in Nat /\ \A i \in 1..Len(frames) :
        frames[i].dir \in Dirs \ Closed /\ Handled(i) \in Nat
         /\ Handled(i) \in 0..Len(Kids[frames[i].dir]) /\ Len(Kids[frames[i].dir]) \in Nat
  BY FramesAre
<1>2. Closed' = Closed /\ Skipped' = Skipped
  BY DEF Advances, Closed, Skipped
<1>3. Handled(k)' = Handled(k) + 1
  BY <1>1 DEF Advances, Handled
<1>4. ASSUME NEW i \in 1..k - 1 PROVE Handled(i)' = Handled(i) /\ frames'[i] = frames[i]
  <2>1. i < Len(frames') /\ i < Len(frames) /\ frames'[i] = frames[i]
    BY <1>1 DEF Advances
  <2> QED BY <2>1 DEF Handled
<1>5. \A i \in 1..k : frames'[i].dir = frames[i].dir /\ i \in 1..Len(frames)
  BY <1>1, <1>4 DEF Advances
<1>6. FramesHold'
  <2>1. frames' \in Seq(FrameRecords) /\ Len(frames') = k /\ opening' = NoDir
        /\ frames' # <<>> /\ current_location' = current_location
    BY <1>1 DEF Advances
  <2>2. ASSUME NEW i \in 1..k
        PROVE frames'[i].dir \notin Closed' /\ Handled(i)' \in 0..Len(Kids[frames'[i].dir])
    <3>1. CASE i = k
      BY <3>1, <1>1, <1>2, <1>3, <1>5 DEF IsNext
    <3>2. CASE i \in 1..k - 1
      BY <3>2, <1>1, <1>2, <1>4, <1>5
    <3>3. i = k \/ i \in 1..k - 1
      BY <1>1
    <3> QED BY <3>1, <3>2, <3>3
  <2>3. frames'[1].dir = current_location'
    <3>1. frames[1].dir = current_location
      BY <1>1 DEF FramesHold
    <3> QED BY <1>1, <1>5, <2>1, <3>1
  <2>4. ASSUME NEW i \in 1..k, NEW j \in 1..k, i < j
        PROVE  /\ IsNext(i, Kids[frames[i].dir][Handled(i) + 1])'
               /\ frames'[j].dir \in Inside(Closed, Kids[frames[i].dir][Handled(i) + 1])'
               /\ j = i + 1 => frames'[j].dir = (Kids[frames[i].dir][Handled(i) + 1])'
    <3>1. i \in 1..k - 1
      BY <1>1, <2>4
    <3>2. /\ IsNext(i, Kids[frames[i].dir][Handled(i) + 1])
          /\ frames[j].dir \in Inside(Closed, Kids[frames[i].dir][Handled(i) + 1])
          /\ j = i + 1 => frames[j].dir = Kids[frames[i].dir][Handled(i) + 1]
      BY <1>5, <2>4 DEF FramesHold
    <3>3. Handled(i)' = Handled(i) /\ frames'[i].dir = frames[i].dir /\ frames'[j].dir = frames[j].dir
      BY <1>4, <1>5, <3>1
    <3>4. IsNext(i, Kids[frames[i].dir][Handled(i) + 1])'
      BY <3>2, <3>3 DEF IsNext
    <3> QED BY <3>2, <3>3, <3>4, <1>2
  <2> QED BY <2>1, <2>2, <2>3, <2>4 DEF FramesHold
<1> QED BY <1>2, <1>3, <1>4, <1>6

LEMMA AdvanceSeen ==
  ASSUME NEW missed, NEW new, NEW k \in 1..Len(frames), NEW x, FramesHold, IsNext(k, x),
         Advances(k, x, missed, new)
  PROVE  /\ \A i \in 1..k - 1 : SeenOf(i)' = SeenOf(i)
         /\ SeenOf(k)' = SeenOf(k) \cup Inside(Closed, x)
         /\ Visited' = (UNION {SeenOf(i) : i \in 1..k}) \cup Inside(Closed, x)
<1>1. Len(frames) \in Nat /\ frames[k].dir \in Dirs \ Closed /\ Handled(k) \in Nat
  BY FramesAre
<1>2. Closed' = Closed /\ Handled(k)' = Handled(k) + 1 /\ \A i \in 1..k - 1 : Handled(i)' = Handled(i)
  BY AdvanceFrames
<1>3. (\A i \in 1..k - 1 : frames'[i] = frames[i]) /\ frames'[k].dir = frames[k].dir /\ Len(frames') = k
  BY DEF Advances
<1>4. \A i \in 1..k - 1 : SeenOf(i)' = SeenOf(i)
  BY <1>2, <1>3 DEF SeenOf
<1>5. SeenOf(k)' = SeenOf(k) \cup Inside(Closed, x)
  <2>1. SeenOf(k)' = SeenIn(Closed, frames[k].dir, Handled(k) + 1)
    BY <1>2, <1>3 DEF SeenOf
  <2>2. Handled(k) < Len(Kids[frames[k].dir]) /\ x = Kids[frames[k].dir][Handled(k) + 1]
    BY DEF IsNext
  <2>3. SeenIn(Closed, frames[k].dir, Handled(k) + 1) =
          SeenIn(Closed, frames[k].dir, Handled(k)) \cup Inside(Closed, x)
    <3>1. PICK d, m : d = frames[k].dir /\ m = Handled(k)
      OBVIOUS
    <3>2. d \in Dirs /\ d \notin Closed /\ m \in Nat /\ m < Len(Kids[d]) /\ x = Kids[d][m + 1]
      BY <1>1, <2>2, <3>1
    <3>3. SeenIn(Closed, d, m + 1) = SeenIn(Closed, d, m) \cup Inside(Closed, x)
      BY ONLY <3>2, NextEntryIs
    <3> QED BY <3>1, <3>3
  <2> QED BY <2>1, <2>3 DEF SeenOf
<1>6. 1..k = 1..(k - 1) \cup {k}
  BY <1>1
<1>7. Visited' = UNION {SeenOf(i)' : i \in 1..k}
  BY <1>3 DEF Visited
<1>8. UNION {SeenOf(i)' : i \in 1..k} = (UNION {SeenOf(i) : i \in 1..k}) \cup Inside(Closed, x)
  <2> DEFINE s(i) == SeenOf(i)
             t(i) == SeenOf(i)'
  <2>1. (\A i \in 1..k - 1 : t(i) = s(i)) /\ t(k) = s(k) \cup Inside(Closed, x)
    BY <1>4, <1>5
  <2> HIDE DEF s, t
  <2>2. UNION {t(i) : i \in 1..k - 1} = UNION {s(i) : i \in 1..k - 1}
    BY <2>1
  <2>3. UNION {t(i) : i \in 1..k} = (UNION {t(i) : i \in 1..k - 1}) \cup t(k)
    BY <1>6
  <2>4. UNION {s(i) : i \in 1..k} = (UNION {s(i) : i \in 1..k - 1}) \cup s(k)
    BY <1>6
  <2>5. UNION {t(i) : i \in 1..k} = (UNION {s(i) : i \in 1..k}) \cup Inside(Closed, x)
    BY <2>1, <2>2, <2>3, <2>4
  <2> QED BY <2>5 DEF s, t
<1> QED BY <1>4, <1>5, <1>7, <1>8

LEMMA AdvanceVisited ==
  ASSUME NEW missed, NEW new, NEW k \in 1..Len(frames), NEW x, FramesHold, IsNext(k, x),
         Advances(k, x, missed, new)
  PROVE  Visited' = (UNION {SeenOf(i) : i \in 1..k}) \cup Inside(Closed, x)
BY AdvanceSeen

LEMMA AdvanceAmounts ==
  ASSUME NEW missed, NEW new, NEW k \in 1..Len(frames), NEW x, FramesHold, IsNext(k, x),
         AmountsHold(missed), Advances(k, x, missed, new)
  PROVE  AmountsHold(new)'
<1>1. Len(frames) \in Nat /\ frames[k].dir \in Dirs \ Closed /\ Handled(k) \in Nat
      /\ frames[k].hl \in Nat /\ frames[k].size \in Nat /\ frames[k].depth \in Nat
  BY FramesAre DEF FrameRecords
<1>2. /\ Closed' = Closed /\ Skipped' = Skipped
      /\ Handled(k)' = Handled(k) + 1 /\ \A i \in 1..k - 1 : Handled(i)' = Handled(i)
  BY AdvanceFrames
<1>3. /\ \A i \in 1..k - 1 : frames'[i] = frames[i]
      /\ frames'[k].dir = frames[k].dir /\ Len(frames') = k
      /\ new \in SUBSET Linked /\ missed \subseteq new /\ new \subseteq missed \cup {x}
  BY DEF Advances
<1>4. (\A i \in 1..k - 1 : SeenOf(i)' = SeenOf(i)) /\ SeenOf(k)' = SeenOf(k) \cup Inside(Closed, x)
  BY AdvanceSeen
<1>5. \A i \in 1..k : SeenOf(i) \cap Inside(Closed, x) \cap Things = {}
  BY Fresh
<1>6. new = missed \/ (new = missed \cup {x} /\ x \in Things)
  BY <1>3, TreeAssumption DEF Things
<1>7. ASSUME NEW i \in 1..k, new # missed PROVE x \notin SeenOf(i)
  BY <1>5, <1>6, <1>7, InsideSelf
<1>8. ASSUME NEW i \in 1..k
      PROVE  /\ Amount(Skipped, new, SeenOf(i)) = Amount(Skipped, missed, SeenOf(i))
             /\ new \cap FirstEntries(frames[i].dir, Handled(i)) =
                  missed \cap FirstEntries(frames[i].dir, Handled(i))
  <2>1. CASE new = missed
    BY <2>1
  <2>2. CASE new # missed
    <3>1. x \notin SeenOf(i) /\ new = missed \cup {x}
      BY <1>6, <1>7, <2>2
    <3>2. FirstEntries(frames[i].dir, Handled(i)) \subseteq SeenOf(i)
      BY FirstEntriesSeen DEF SeenOf
    <3> QED BY <3>1, <3>2, AmountWithout
  <2> QED BY <2>1, <2>2
<1>9. ASSUME NEW i \in 1..k
      PROVE  /\ frames[i].size = Amount(Skipped, new, SeenOf(i))
             /\ frames[i].hl = SumOf(Size, new \cap FirstEntries(frames[i].dir, Handled(i)))
             /\ IsMax(frames[i].depth, HeightsIn(Closed, frames[i].dir, Handled(i)))
  <2>1. i \in 1..Len(frames)
    BY <1>1
  <2> QED BY <1>8, <2>1 DEF AmountsHold
<1>k. k \in 1..k
  BY <1>1
<1>10. frames'[k].size = Amount(Skipped, new, SeenOf(k)')
  <2>1. frames'[k].size = frames[k].size + Amount(Skipped, new, Inside(Closed, x))
    BY DEF Advances
  <2>2. Amount(Skipped, new, SeenOf(k) \cup Inside(Closed, x)) =
          Amount(Skipped, new, SeenOf(k)) + Amount(Skipped, new, Inside(Closed, x))
    <3>1. SeenOf(k) \cap Inside(Closed, x) \cap Things = {}
      BY <1>1, <1>5
    <3> QED BY <3>1, AmountJoin
  <2>3. frames[k].size = Amount(Skipped, new, SeenOf(k))
    BY <1>k, <1>9
  <2> QED BY <1>4, <2>1, <2>2, <2>3
<1>11. frames'[k].hl = SumOf(Size, new \cap FirstEntries(frames[k].dir, Handled(k) + 1))
  <2> DEFINE A == new \cap FirstEntries(frames[k].dir, Handled(k))
             B == new \cap {x}
  <2>1. FirstEntries(frames[k].dir, Handled(k) + 1) = FirstEntries(frames[k].dir, Handled(k)) \cup {x}
    <3>1. PICK d, m : d = frames[k].dir /\ m = Handled(k)
      OBVIOUS
    <3>2. d \in Dirs /\ m \in Nat /\ m < Len(Kids[d]) /\ x = Kids[d][m + 1]
      BY <1>1, <3>1 DEF IsNext
    <3>3. FirstEntries(d, m + 1) = FirstEntries(d, m) \cup {x}
      BY ONLY <3>2, NextFirst
    <3> QED BY <3>1, <3>3
  <2>2. A \cap B = {}
    <3>1. FirstEntries(frames[k].dir, Handled(k)) \subseteq SeenOf(k)
      BY FirstEntriesSeen DEF SeenOf
    <3>2. x \in Inside(Closed, x) /\ new \subseteq Things
      BY <1>3, InsideSelf, TreeAssumption DEF Things
    <3> QED BY <1>5, <3>1, <3>2
  <2>3. A \in SUBSET Things /\ B \in SUBSET Things
    BY <1>3, TreeAssumption DEF Things
  <2>4. SumOf(Size, A \cup B) = SumOf(Size, A) + SumOf(Size, B)
    <3> HIDE DEF A, B
    <3>1. IsFiniteSet(A) /\ IsFiniteSet(B) /\ \A y \in A \cup B : Size[y] \in Nat
      BY <2>3, ThingsAreFinite
    <3> QED BY <2>2, <3>1, SumJoin
  <2>5. A \cup B = new \cap FirstEntries(frames[k].dir, Handled(k) + 1)
    BY <2>1
  <2>6. frames[k].hl = SumOf(Size, A)
    BY <1>9
  <2>7. frames'[k].hl = frames[k].hl + SumOf(Size, B)
    BY DEF Advances
  <2> QED BY <2>4, <2>5, <2>6, <2>7
<1>12. IsMax(frames'[k].depth, HeightsIn(Closed, frames[k].dir, Handled(k) + 1))
  <2> DEFINE H == Raised(Closed, x)
             G == HeightsIn(Closed, frames[k].dir, Handled(k))
  <2>1. HeightsIn(Closed, frames[k].dir, Handled(k) + 1) = G \cup H
    <3>1. Handled(k) < Len(Kids[frames[k].dir]) /\ x = Kids[frames[k].dir][Handled(k) + 1]
      BY DEF IsNext
    <3>2. frames[k].dir \in Dirs /\ frames[k].dir \notin Closed
      BY <1>1
    <3> HIDE DEF G, H
    <3>3. HeightsIn(Closed, frames[k].dir, Handled(k) + 1) =
            HeightsIn(Closed, frames[k].dir, Handled(k)) \cup Raised(Closed, x)
      <4>1. PICK d, m : d = frames[k].dir /\ m = Handled(k)
        OBVIOUS
      <4>2. d \in Dirs /\ d \notin Closed /\ m \in Nat /\ m < Len(Kids[d]) /\ x = Kids[d][m + 1]
        BY <1>1, <3>1, <3>2, <4>1
      <4>3. HeightsIn(Closed, d, m + 1) = HeightsIn(Closed, d, m) \cup Raised(Closed, x)
        BY ONLY <4>2, NextHeights
      <4> QED BY <4>1, <4>3
    <3> QED BY <3>3 DEF G, H
  <2>2. IsMax(frames[k].depth, G)
    BY <1>k, <1>9
  <2>3. IsMax(frames'[k].depth, {frames[k].depth} \cup H)
    BY DEF Advances
  <2>4. G \subseteq Nat /\ H \subseteq Nat
    BY DEF HeightsIn, Heights, Raised
  <2> HIDE DEF G, H
  <2>5. IsMax(frames'[k].depth, G \cup H)
    BY <2>2, <2>3, <2>4, MaxJoin
  <2> QED BY <2>1, <2>5
<1>13. ASSUME NEW i \in 1..k
       PROVE  /\ frames'[i].size = Amount(Skipped', new, SeenOf(i)')
              /\ frames'[i].hl = SumOf(Size, new \cap FirstEntries(frames'[i].dir, Handled(i)'))
              /\ IsMax(frames'[i].depth, HeightsIn(Closed', frames'[i].dir, Handled(i)'))
  <2>1. CASE i = k
    BY <2>1, <1>2, <1>3, <1>10, <1>11, <1>12
  <2>2. CASE i \in 1..k - 1
    BY <2>2, <1>2, <1>3, <1>4, <1>9
  <2>3. i = k \/ i \in 1..k - 1
    BY <1>1
  <2> QED BY <2>1, <2>2, <2>3
<1> QED BY <1>3, <1>13 DEF AmountsHold
-----------------------------------------------------------------------------
Filled(r) == \A i \in 1..Len(iterstack) : iterstack[i] # r

LEMMA RowsAre ==
  ASSUME NEW V, RowsHold(V)
  PROVE  /\ Len(rows) \in Nat /\ DOMAIN rows = 1..Len(rows)
         /\ \A r \in 1..Len(rows) :
              /\ rows[r] \in RowRecords /\ rows[r].of \in (V \cap Dirs) \ Closed
              /\ rows[r].parent \in Nat
<1>1. rows \in Seq(RowRecords) /\ {rows[r].of : r \in 1..Len(rows)} = (V \cap Dirs) \ Closed
  BY DEF RowsHold
<1>2. Len(rows) \in Nat /\ DOMAIN rows = 1..Len(rows) /\ \A r \in 1..Len(rows) : rows[r] \in RowRecords
  BY <1>1
<1>3. \A r \in 1..Len(rows) : rows[r].parent \in Nat
  BY <1>2 DEF RowRecords
<1> QED BY <1>1, <1>2, <1>3

(* All that is in the folder of a row that is filled has been seen.        *)
LEMMA FilledSeen ==
  ASSUME FramesHold, RowsHold(Visited), StackHolds, NEW r \in 1..Len(rows), Filled(r)
  PROVE  /\ Inside(Closed, rows[r].of) \subseteq Visited
         /\ Entries(Closed, rows[r].of) \subseteq Visited
<1> DEFINE d == rows[r].of
<1>1. d \in (Visited \cap Dirs) \ Closed
  BY RowsAre
<1>2. PICK i \in 1..Len(frames) : d \in SeenOf(i)
  BY <1>1 DEF Visited
<1>3. d # frames[i].dir
  <2>1. iterstack[i] \in 1..Len(rows) /\ rows[iterstack[i]].of = frames[i].dir
        /\ Len(iterstack) = Len(frames)
    BY DEF StackHolds
  <2>2. iterstack[i] # r
    BY <2>1 DEF Filled
  <2> QED BY <2>1, <2>2 DEF RowsHold
<1>4. PICK j \in 1..Handled(i) : d \in Inside(Closed, Kids[frames[i].dir][j])
  BY <1>2, <1>3 DEF SeenOf, SeenIn
<1>5. Inside(Closed, d) \subseteq Inside(Closed, Kids[frames[i].dir][j])
  BY <1>4, InsideWithin
<1>6. Inside(Closed, Kids[frames[i].dir][j]) \subseteq Visited
  BY DEF SeenOf, SeenIn, Visited
<1>7. Entries(Closed, d) \subseteq Inside(Closed, d)
  BY <1>1, InsideSelf, InsideEntries
<1> QED BY <1>5, <1>6, <1>7

LEMMA FilledStay ==
  ASSUME FramesHold, RowsHold(Visited), StackHolds, NEW missed, FilledHold(missed),
         NEW new, NEW x, new = missed \/ (new = missed \cup {x} /\ x \notin Visited)
  PROVE  FilledHold(new)
<1> SUFFICES ASSUME NEW r \in 1..Len(rows), Filled(r)
             PROVE  /\ rows[r].size = Amount(Skipped, new, Inside(Closed, rows[r].of))
                    /\ rows[r].hl = SumOf(Size, new \cap Entries(Closed, rows[r].of))
  BY DEF FilledHold, Filled
<1>1. /\ rows[r].size = Amount(Skipped, missed, Inside(Closed, rows[r].of))
      /\ rows[r].hl = SumOf(Size, missed \cap Entries(Closed, rows[r].of))
  BY DEF FilledHold, Filled
<1>2. CASE new = missed
  BY <1>1, <1>2
<1>3. CASE new = missed \cup {x} /\ x \notin Visited
  <2>1. Inside(Closed, rows[r].of) \subseteq Visited /\ Entries(Closed, rows[r].of) \subseteq Visited
    BY FilledSeen
  <2>2. x \notin Inside(Closed, rows[r].of)
    BY <1>3, <2>1
  <2>3. (missed \cup {x}) \cap Entries(Closed, rows[r].of) = missed \cap Entries(Closed, rows[r].of)
    BY <1>3, <2>1
  <2> QED BY <1>1, <1>3, <2>2, <2>3, AmountWithout
<1> QED BY <1>2, <1>3

(* An entry that is no open folder has been dealt with.                    *)
LEMMA EntryDealtWith ==
  ASSUME excluded \subseteq Dirs, NEW missed, WalkHolds(missed), frames # <<>>,
         NEW x, IsNext(Len(frames), x), x \in Closed \/ x \notin Dirs,
         NEW new, Advances(Len(frames), x, missed, new),
         UNCHANGED <<rows, iterstack, currentdepth, currentiter, firstiter>>,
         InodesHold(Visited \cup {x}, new, hla')
  PROVE  WalkHolds(new)'
<1> DEFINE n == Len(frames)
<1>1. /\ FramesHold /\ AmountsHold(missed) /\ RowsHold(Visited) /\ FilledHold(missed)
      /\ StackHolds /\ PlaceHolds
  BY DEF WalkHolds
<1>2. n \in 1..n /\ n \in Nat
  BY <1>1, FramesAre
<1>3. Inside(Closed, x) = {x}
  BY InsideAlone
<1>4. FramesHold' /\ AmountsHold(new)' /\ Closed' = Closed /\ Skipped' = Skipped
  BY <1>1, <1>2, AdvanceFrames, AdvanceAmounts
<1>5. Visited' = Visited \cup {x}
  <2>1. Visited' = (UNION {SeenOf(i) : i \in 1..n}) \cup Inside(Closed, x)
    <3>1. PICK k : k = n
      OBVIOUS
    <3>2. k \in 1..Len(frames) /\ FramesHold /\ IsNext(k, x) /\ Advances(k, x, missed, new)
      BY <1>1, <1>2, <3>1
    <3>3. Visited' = (UNION {SeenOf(i) : i \in 1..k}) \cup Inside(Closed, x)
      BY ONLY <3>2, AdvanceVisited
    <3> QED BY <3>1, <3>3
  <2> QED BY <2>1, <1>3 DEF Visited
<1>6. /\ Len(frames') = n /\ \A i \in 1..n : frames'[i].dir = frames[i].dir
      /\ current_location' = current_location
      /\ missed \subseteq new /\ new \subseteq missed \cup {x} /\ new \subseteq Things
  <2>1. n = n /\ \A i \in 1..n : i \in 1..n - 1 \/ i = n
    BY <1>2
  <2> QED BY <2>1, TreeAssumption DEF Advances, Things
<1>7. RowsHold(Visited)'
  <2>1. ((Visited \cup {x}) \cap Dirs) \ Closed = (Visited \cap Dirs) \ Closed
    OBVIOUS
  <2> QED BY <2>1, <1>1, <1>4, <1>5, <1>6 DEF RowsHold
<1>8. FilledHold(new)'
  <2>1. new = missed \/ (new = missed \cup {x} /\ x \notin Visited)
    <3>1. \A i \in 1..n : SeenOf(i) \cap Inside(Closed, x) \cap Things = {}
      BY <1>1, <1>2, Fresh
    <3>2. x \in Things => x \notin Visited
      BY <1>3, <3>1 DEF Visited
    <3> QED BY <1>6, <3>2
  <2>2. FilledHold(new)
    BY <1>1, <2>1, FilledStay
  <2> QED BY <2>2, <1>4 DEF FilledHold
<1>9. StackHolds'
  BY <1>1, <1>6 DEF StackHolds
<1>10. PlaceHolds'
  BY <1>1, <1>6 DEF PlaceHolds, IsPath
<1>11. InodesHold(Visited', new, hla')
  BY <1>5
<1> QED BY <1>4, <1>7, <1>8, <1>9, <1>10, <1>11 DEF WalkHolds

(* Sequences whose last element is replaced.                               *)
LEMMA LastReplaced ==
  ASSUME NEW R, NEW s \in Seq(R), NEW k \in 1..Len(s), NEW f \in R,
         NEW t, t = Append(SubSeq(s, 1, k - 1), f)
  PROVE  t \in Seq(R) /\ Len(t) = k /\ t[k] = f /\ \A i \in 1..k - 1 : t[i] = s[i]
<1>1. k - 1 \in 0..Len(s) /\ k \in Nat /\ (k - 1) - 1 + 1 = k - 1
  OBVIOUS
<1>2. SubSeq(s, 1, k - 1) \in Seq(R) /\ Len(SubSeq(s, 1, k - 1)) = k - 1
      /\ \A i \in 1..k - 1 : SubSeq(s, 1, k - 1)[i] = s[i]
  BY <1>1
<1> QED BY <1>1, <1>2

LEMMA FrontsAre ==
  ASSUME NEW R, NEW s \in Seq(R), s # <<>>
  PROVE  /\ Len(s) \in 1..Len(s) /\ Last(s) = s[Len(s)] /\ Last(s) \in R
         /\ Front(s) = SubSeq(s, 1, Len(s) - 1) /\ Front(s) \in Seq(R)
         /\ Len(Front(s)) = Len(s) - 1 /\ \A i \in 1..Len(s) - 1 : Front(s)[i] = s[i]
         /\ Front(s) = <<>> <=> Len(s) = 1
<1>1. Len(s) \in 1..Len(s) /\ Len(s) - 1 \in 0..Len(s)
  OBVIOUS
<1>2. Front(s) = SubSeq(s, 1, Len(s) - 1) /\ Last(s) = s[Len(s)]
  BY DEF Front, Last
<1>3. Last(s) \in R
  BY <1>1, <1>2
<1>4. Front(s) \in Seq(R) /\ Len(Front(s)) = Len(s) - 1 /\ \A i \in 1..Len(s) - 1 : Front(s)[i] = s[i]
  <2> DEFINE m == Len(s) - 1
  <2>1. m \in 0..Len(s) /\ m \in Nat
    BY <1>1
  <2>2. SubSeq(s, 1, m) \in Seq(R) /\ Len(SubSeq(s, 1, m)) = m
    BY <2>1
  <2>3. \A i \in 1..m : SubSeq(s, 1, m)[i] = s[i]
    BY <2>1
  <2> QED BY <2>2, <2>3, <1>2
<1>5. Front(s) = <<>> <=> Len(s) = 1
  BY <1>1, <1>4
<1> QED BY <1>1, <1>2, <1>3, <1>4, <1>5
-----------------------------------------------------------------------------
Grown(f, s, dep) == [f EXCEPT !.size = @ + s, !.elements = @ + 1,
                              !.depth = IF dep + 1 > @ THEN dep + 1 ELSE @]

LEMMA FrameGrown ==
  ASSUME NEW f \in FrameRecords, NEW s \in Nat, NEW dep \in Nat
  PROVE  LET g == Grown(f, s, dep)
         IN  /\ g \in FrameRecords /\ g.dir = f.dir /\ g.next = f.next /\ g.size = f.size + s
             /\ g.hl = f.hl /\ g.depth = IF dep + 1 > f.depth THEN dep + 1 ELSE f.depth
<1> DEFINE g == Grown(f, s, dep)
<1>1. f.dir \in Dirs /\ f.next \in Nat /\ f.size \in Nat /\ f.elements \in Nat /\ f.hl \in Nat
      /\ f.depth \in Nat
  BY DEF FrameRecords
<1>2. g.dir = f.dir /\ g.next = f.next /\ g.size = f.size + s /\ g.elements = f.elements + 1
      /\ g.hl = f.hl /\ g.depth = IF dep + 1 > f.depth THEN dep + 1 ELSE f.depth
  BY DEF FrameRecords, Grown
<1>3. g \in FrameRecords
  <2> DEFINE a == f.size + s
             b == f.elements + 1
             c == IF dep + 1 > f.depth THEN dep + 1 ELSE f.depth
  <2>1. a \in Nat /\ b \in Nat /\ c \in Nat
    BY <1>1
  <2>2. g = [f EXCEPT !.size = a, !.elements = b, !.depth = c]
    BY DEF Grown
  <2> HIDE DEF a, b, c, g
  <2>3. [f EXCEPT !.size = a, !.elements = b, !.depth = c] \in FrameRecords
    BY <2>1 DEF FrameRecords
  <2> QED BY <2>2, <2>3
<1> QED BY <1>2, <1>3

LEMMA DepthRaised ==
  ASSUME NEW C, NEW x, NEW d \in Nat, NEW dep, IsMax(dep, Heights(C, x))
  PROVE  dep \in Nat /\ IsMax(IF dep + 1 > d THEN dep + 1 ELSE d, {d} \cup Raised(C, x))
<1>1. Heights(C, x) \subseteq Nat
  BY DEF Heights
<1>2. dep \in Heights(C, x) /\ \A m \in Heights(C, x) : m <= dep
  BY DEF IsMax
<1>3. dep + 1 \in Raised(C, x) /\ \A m \in Raised(C, x) : m \in Nat /\ m <= dep + 1
  BY <1>1, <1>2 DEF Raised
<1> QED BY <1>1, <1>2, <1>3 DEF IsMax

LEMMA TopReplaced ==
  ASSUME FramesHold, NEW k \in 1..Len(frames), NEW f \in FrameRecords,
         frames' = Append(SubSeq(frames, 1, k - 1), f)
  PROVE  /\ frames' \in Seq(FrameRecords) /\ Len(frames') = k /\ frames'[k] = f
         /\ \A i \in 1..k - 1 : frames'[i] = frames[i]
<1>1. frames \in Seq(FrameRecords)
  BY DEF FramesHold
<1> QED BY <1>1, LastReplaced

LEMMA TopAdvances ==
  ASSUME NEW missed \in SUBSET Linked, FramesHold, NEW k \in 1..Len(frames), NEW x, IsNext(k, x),
         NEW f \in FrameRecords, frames' = Append(SubSeq(frames, 1, k - 1), f),
         UNCHANGED <<excluded, current_location>>, opening' = NoDir,
         f.dir = frames[k].dir, f.next = Handled(k) + 2,
         NEW new, f.size = frames[k].size + Amount(Skipped, new, Inside(Closed, x)),
         f.hl = frames[k].hl + SumOf(Size, new \cap {x}),
         IsMax(f.depth, {frames[k].depth} \cup Raised(Closed, x)),
         new \in SUBSET Linked, missed \subseteq new, new \subseteq missed \cup {x}
  PROVE  Advances(k, x, missed, new)
<1>1. /\ frames' \in Seq(FrameRecords) /\ Len(frames') = k /\ frames'[k] = f
      /\ \A i \in 1..k - 1 : frames'[i] = frames[i]
  BY TopReplaced
<1> QED BY <1>1 DEF Advances

LEMMA FrontFrames ==
  ASSUME FramesHold, frames # <<>>
  PROVE  /\ Len(frames) \in 1..Len(frames) /\ Len(frames) \in Nat /\ Top = frames[Len(frames)]
         /\ Top \in FrameRecords /\ Top.dir \in Dirs \ Closed /\ DOMAIN Kids[Top.dir] = 1..Len(Kids[Top.dir])
         /\ Front(frames) = SubSeq(frames, 1, Len(frames) - 1)
         /\ Handled(Len(frames)) = IF opening # NoDir THEN Top.next - 2 ELSE Top.next - 1
<1>1. frames \in Seq(FrameRecords)
  BY DEF FramesHold
<1>2. Len(frames) \in 1..Len(frames) /\ Top = frames[Len(frames)]
      /\ Top \in FrameRecords /\ Front(frames) = SubSeq(frames, 1, Len(frames) - 1)
  BY <1>1, FrontsAre DEF Top
<1>3. Top.dir \in Dirs \ Closed /\ Len(frames) \in Nat
  BY <1>2, FramesAre
<1>4. DOMAIN Kids[Top.dir] = 1..Len(Kids[Top.dir])
  BY <1>3, KidsAre
<1>5. Handled(Len(frames)) = IF opening # NoDir THEN Top.next - 2 ELSE Top.next - 1
  BY <1>2, <1>3 DEF Handled
<1> QED BY <1>2, <1>3, <1>4, <1>5

(* Below a folder that is closed nothing is looked at.                     *)
LEMMA ClosedDealtWith ==
  ASSUME excluded \subseteq Dirs, NEW missed \in SUBSET Linked, WalkHolds(missed),
         frames # <<>>, opening \in Closed, NEW s, s = Amount(Skipped, missed, {opening}),
         Leave(frames, s, 0), opening' = NoDir,
         UNCHANGED <<excluded, current_location, tree, hla>>
  PROVE  WalkHolds(missed)'
<1> DEFINE n == Len(frames)
           x == opening
<1>1. FramesHold /\ InodesHold(Visited, missed, hla)
  BY DEF WalkHolds
<1>2. x \in Dirs /\ x # NoDir /\ x \notin Linked /\ IsNext(n, x)
  <2>1. x \in Dirs
    BY ClosedAre
  <2> QED BY <2>1, <1>1, EntriesAssumption, TreeAssumption DEF FramesHold
<1>3. n \in 1..n /\ n \in Nat /\ Top = frames[n] /\ Top \in FrameRecords
      /\ Front(frames) = SubSeq(frames, 1, n - 1) /\ Handled(n) = Top.next - 2
  BY <1>1, <1>2, FrontFrames
<1>4. s \in Nat /\ Inside(Closed, x) = {x} /\ Heights(Closed, x) = {0}
  BY <1>2, AmountIsNumber, InsideAlone, HeightsOfClosed
<1> DEFINE f == Grown(Top, s, 0)
<1>5. frames' = Append(SubSeq(frames, 1, n - 1), f)
  BY <1>3 DEF Leave, Returned, Top, Grown
<1>6. /\ f \in FrameRecords /\ f.dir = frames[n].dir /\ f.next = Handled(n) + 2
      /\ f.size = frames[n].size + s
      /\ f.hl = frames[n].hl /\ f.depth = IF 0 + 1 > frames[n].depth THEN 0 + 1 ELSE frames[n].depth
      /\ frames[n].depth \in Nat /\ frames[n].hl \in Nat
  <2>1. /\ f \in FrameRecords /\ f.dir = Top.dir /\ f.next = Top.next /\ f.size = Top.size + s
        /\ f.hl = Top.hl /\ f.depth = IF 0 + 1 > Top.depth THEN 0 + 1 ELSE Top.depth
    <3>1. Top \in FrameRecords /\ s \in Nat /\ 0 \in Nat
      BY <1>3, <1>4
    <3> QED BY ONLY <3>1, FrameGrown, Zenon
  <2>2. Top.next \in Nat /\ Top.depth \in Nat /\ Top.hl \in Nat
    BY <1>3 DEF FrameRecords
  <2> HIDE DEF f
  <2> QED BY <2>1, <2>2, <1>3
<1> HIDE DEF f
<1>7. IsMax(f.depth, {frames[n].depth} \cup Raised(Closed, x))
  <2>1. IsMax(0, Heights(Closed, x))
    BY <1>4 DEF IsMax
  <2> QED BY <2>1, <1>6, DepthRaised
<1>8. f.hl = frames[n].hl + SumOf(Size, missed \cap {x})
  <2>1. missed \cap {x} = {}
    BY <1>2
  <2>2. SumOf(Size, {}) = 0
    BY FS_EmptySet, SumIsNumber
  <2>3. SumOf(Size, missed \cap {x}) = 0
    BY <2>1, <2>2
  <2> HIDE DEF x
  <2> QED BY <2>3, <1>6
<1>9. Advances(n, x, missed, missed)
  <2>1. UNCHANGED <<excluded, current_location>>
    OBVIOUS
  <2>2. f.size = frames[n].size + Amount(Skipped, missed, Inside(Closed, x))
    BY <1>4, <1>6
  <2> HIDE DEF x
  <2> QED BY <1>1, <1>2, <1>3, <1>5, <1>6, <1>7, <1>8, <2>1, <2>2, TopAdvances
<1>10. InodesHold(Visited \cup {x}, missed, hla')
  <2>1. (Visited \cup {x}) \cap Linked = Visited \cap Linked /\ hla' = hla
    BY <1>2
  <2> QED BY <1>1, <2>1 DEF InodesHold
<1>11. UNCHANGED <<rows, iterstack, currentdepth, currentiter, firstiter>>
  BY DEF tree
<1> QED BY <1>2, <1>9, <1>10, <1>11, EntryDealtWith
-----------------------------------------------------------------------------
LEMMA NextFrame ==
  ASSUME NEW f \in FrameRecords, NEW g \in FrameRecords, g.next = f.next
  PROVE  LET h == [g EXCEPT !.next = @ + 1]
         IN  /\ h \in FrameRecords /\ h.dir = g.dir /\ h.next = f.next + 1 /\ h.size = g.size
             /\ h.hl = g.hl /\ h.depth = g.depth /\ f.next \in Nat /\ f.depth \in Nat
             /\ f.hl \in Nat /\ f.size \in Nat
BY DEF FrameRecords

LEMMA ReadingTop ==
  ASSUME FramesHold, Reading
  PROVE  /\ frames # <<>> /\ Len(frames) \in 1..Len(frames) /\ Top = frames[Len(frames)]
         /\ Top \in FrameRecords /\ Handled(Len(frames)) = Top.next - 1
         /\ Front(frames) = SubSeq(frames, 1, Len(frames) - 1)
         /\ Top.next <= Len(Kids[Top.dir]) => IsNext(Len(frames), Entry)
<1>1. /\ frames # <<>> /\ Len(frames) \in 1..Len(frames) /\ Top = frames[Len(frames)]
      /\ Top \in FrameRecords /\ Handled(Len(frames)) = Top.next - 1
      /\ Front(frames) = SubSeq(frames, 1, Len(frames) - 1) /\ Top.dir \in Dirs
  BY FrontFrames DEF Reading
<1>2. Top.next \in Nat /\ Len(Kids[Top.dir]) \in Nat
  BY <1>1, KidsAre DEF FrameRecords
<1>3. ASSUME Top.next <= Len(Kids[Top.dir]) PROVE IsNext(Len(frames), Entry)
  BY <1>1, <1>2, <1>3 DEF IsNext, Entry
<1> QED BY <1>1, <1>3

LEMMA NothingMissed ==
  ASSUME NEW missed, NEW x, x \notin missed
  PROVE  SumOf(Size, missed \cap {x}) = 0
<1>1. missed \cap {x} = {} /\ SumOf(Size, {}) = 0
  BY FS_EmptySet, SumIsNumber
<1>2. missed \cap {x} = {}
  OBVIOUS
<1> QED BY <1>1, <1>2

(* An entry that is no folder: g is the frame but for the next entry.      *)
LEMMA OtherAdvances ==
  ASSUME NEW missed \in SUBSET Linked, FramesHold, Reading, Top.next <= Len(Kids[Top.dir]),
         Entry \notin Dirs, NEW g \in FrameRecords, g.next = Top.next, g.dir = Top.dir,
         frames' = NextEntry(g), UNCHANGED <<excluded, current_location, opening>>,
         NEW new, g.size = Top.size + Amount(Skipped, new, {Entry}),
         g.hl = Top.hl + SumOf(Size, new \cap {Entry}), g.depth = Top.depth,
         new \in SUBSET Linked, missed \subseteq new, new \subseteq missed \cup {Entry}
  PROVE  IsNext(Len(frames), Entry) /\ Advances(Len(frames), Entry, missed, new)
<1> DEFINE n == Len(frames)
           x == Entry
           h == [g EXCEPT !.next = @ + 1]
<1>1. /\ n \in 1..n /\ Top = frames[n] /\ Top \in FrameRecords /\ Handled(n) = Top.next - 1
      /\ Front(frames) = SubSeq(frames, 1, n - 1) /\ IsNext(n, x)
  BY ReadingTop
<1>2. /\ h \in FrameRecords /\ h.dir = g.dir /\ h.next = Top.next + 1 /\ h.size = g.size
      /\ h.hl = g.hl /\ h.depth = g.depth /\ Top.next \in Nat /\ Top.depth \in Nat
  BY <1>1, NextFrame
<1>3. frames' = Append(SubSeq(frames, 1, n - 1), h)
  BY <1>1 DEF NextEntry
<1>4. Inside(Closed, x) = {x} /\ Raised(Closed, x) = {}
  BY InsideAlone, HeightsOfNone DEF Raised
<1> HIDE DEF h, x
<1>5. IsMax(h.depth, {frames[n].depth} \cup Raised(Closed, x))
  BY <1>1, <1>2, <1>4 DEF IsMax
<1>6. h.next = Handled(n) + 2
  BY <1>1, <1>2
<1>7. UNCHANGED <<excluded, current_location>> /\ opening' = NoDir
  BY DEF Reading
<1>8. h.size = frames[n].size + Amount(Skipped, new, Inside(Closed, x))
      /\ h.hl = frames[n].hl + SumOf(Size, new \cap {x})
  BY <1>1, <1>2, <1>4 DEF x
<1>9. new \subseteq missed \cup {x}
  BY DEF x
<1>10. Advances(n, x, missed, new)
  BY <1>1, <1>2, <1>3, <1>5, <1>6, <1>7, <1>8, <1>9, TopAdvances
<1> QED BY <1>1, <1>10 DEF x

LEMMA IgnoreOtherStep ==
  ASSUME excluded \subseteq Dirs, NEW missed \in SUBSET Linked, WalkHolds(missed), IgnoreOther
  PROVE  WalkHolds(missed)'
<1> DEFINE x == Entry
<1>1. FramesHold /\ InodesHold(Visited, missed, hla) /\ frames # <<>>
  BY DEF WalkHolds, IgnoreOther, Reading
<1>2. x \notin Things /\ Top.next <= Len(Kids[Top.dir]) /\ Reading /\ frames' = NextEntry(Top)
      /\ UNCHANGED <<excluded, current_location, opening>> /\ hla' = hla
      /\ UNCHANGED <<rows, iterstack, currentdepth, currentiter, firstiter>>
  BY DEF IgnoreOther, Things, tree
<1>3. Linked \subseteq Things
  BY TreeAssumption DEF Things
<1>4. Amount(Skipped, missed, {x}) = 0 /\ SumOf(Size, missed \cap {x}) = 0
  BY <1>2, <1>3, AmountOfOne, NothingMissed
<1>5. Top \in FrameRecords /\ Top.size \in Nat /\ Top.hl \in Nat
  BY <1>1, <1>2, ReadingTop DEF FrameRecords
<1>6. Top.size = Top.size + Amount(Skipped, missed, {x}) /\ Top.hl = Top.hl + SumOf(Size, missed \cap {x})
  BY <1>4, <1>5
<1>7. x \notin Dirs
  BY <1>2 DEF Things
<1>8. IsNext(Len(frames), x) /\ Advances(Len(frames), x, missed, missed)
  BY <1>1, <1>2, <1>5, <1>6, <1>7, OtherAdvances
<1>9. InodesHold(Visited \cup {x}, missed, hla')
  <2>1. (Visited \cup {x}) \cap Linked = Visited \cap Linked /\ hla' = hla
    BY <1>2, <1>3
  <2> HIDE DEF x
  <2> QED BY <1>1, <2>1 DEF InodesHold
<1> HIDE DEF x
<1> QED BY <1>1, <1>2, <1>7, <1>8, <1>9, EntryDealtWith

LEMMA CountFileStep ==
  ASSUME excluded \subseteq Dirs, NEW missed \in SUBSET Linked, WalkHolds(missed), CountFile
  PROVE  \E new \in SUBSET Linked : WalkHolds(new)'
<1> DEFINE x == Entry
           new == IF Counted(x) THEN missed ELSE missed \cup {x}
<1>1. FramesHold /\ InodesHold(Visited, missed, hla) /\ frames # <<>>
  BY DEF WalkHolds, CountFile, AtEntry, Reading
<1>2. /\ x \in Files /\ Top.next <= Len(Kids[Top.dir]) /\ Reading
      /\ UNCHANGED <<excluded, current_location, opening>>
      /\ UNCHANGED <<rows, iterstack, currentdepth, currentiter, firstiter>>
  BY DEF CountFile, AtEntry, tree, Entry
<1>3. x \in Things /\ x \notin Dirs /\ x \notin Skipped /\ Size[x] \in Nat
  BY <1>2, EntriesAssumption, ClosedAre DEF Things
<1>4. x \notin Visited
  <2>1. Len(frames) \in 1..Len(frames) /\ IsNext(Len(frames), x)
    BY <1>1, <1>2, ReadingTop
  <2>2. \A i \in 1..Len(frames) : SeenOf(i) \cap Inside(Closed, x) \cap Things = {}
    BY <1>1, <2>1, Fresh
  <2> QED BY <1>3, <2>2, InsideSelf DEF Visited
<1>5. missed \subseteq Visited \cap Linked /\ x \notin missed
  BY <1>1, <1>4 DEF InodesHold
<1>6. Counted(x) <=> x \notin Linked \/ \A f \in Visited \cap Linked : Inode[f] # Inode[x]
  BY <1>1 DEF Counted, InodesHold
<1>7. new \in SUBSET Linked /\ missed \subseteq new /\ new \subseteq missed \cup {x}
  BY DEF Counted
<1>8. InodesHold(Visited \cup {x}, new, hla')
  <2>1. hla' = IF Counted(x) /\ x \in Linked THEN hla \cup {Inode[x]} ELSE hla
    BY DEF CountFile
  <2>2. CASE x \notin Linked
    <3>1. (Visited \cup {x}) \cap Linked = Visited \cap Linked /\ new = missed /\ hla' = hla
      BY <2>1, <2>2 DEF Counted
    <3> HIDE DEF x, new
    <3> QED BY <1>1, <3>1 DEF InodesHold
  <2>3. CASE x \in Linked
    <3> DEFINE V == Visited \cap Linked
               W == V \cup {x}
    <3>1. (Visited \cup {x}) \cap Linked = W
      BY <2>3
    <3>2. /\ missed \subseteq V /\ hla = {Inode[f] : f \in V}
          /\ \A f \in V : \A g \in V : Inode[f] = Inode[g] => f = g \/ f \in missed \/ g \in missed
          /\ \A f \in V : \E g \in V \ missed : Inode[g] = Inode[f]
      BY <1>1 DEF InodesHold
    <3>3. x \notin V /\ (Counted(x) <=> \A f \in V : Inode[f] # Inode[x])
      BY <1>4, <1>6, <2>3
    <3> HIDE DEF V, x
    <3>4. /\ new \subseteq W /\ hla' = {Inode[f] : f \in W}
          /\ \A f \in W : \A g \in W : Inode[f] = Inode[g] => f = g \/ f \in new \/ g \in new
          /\ \A f \in W : \E g \in W \ new : Inode[g] = Inode[f]
      <4>1. CASE Counted(x)
        <5>1. new = missed /\ hla' = hla \cup {Inode[x]} /\ \A f \in V : Inode[f] # Inode[x]
          BY <4>1, <2>1, <2>3, <3>3
        <5>2. x \notin missed
          BY <3>2, <3>3
        <5> HIDE DEF new
        <5> QED BY <5>1, <5>2, <3>2
      <4>2. CASE ~Counted(x)
        <5>1. new = missed \cup {x} /\ hla' = hla
          BY <4>2, <2>1
        <5>2. PICK f \in V : Inode[f] = Inode[x]
          BY <4>2, <3>3
        <5>3. PICK g \in V \ missed : Inode[g] = Inode[f]
          BY <3>2
        <5> HIDE DEF new
        <5> QED BY <5>1, <5>2, <5>3, <3>2, <3>3
      <4> QED BY <4>1, <4>2
    <3> HIDE DEF new, W
    <3> QED BY <3>1, <3>4 DEF InodesHold
  <2> QED BY <2>2, <2>3
<1> DEFINE g == IF Counted(x) THEN [Top EXCEPT !.size = @ + Size[x], !.elements = @ + 1]
                ELSE [Top EXCEPT !.hl = @ + Size[x]]
<1>9. frames' = NextEntry(g)
  BY DEF CountFile
<1>10. /\ g \in FrameRecords /\ g.next = Top.next /\ g.dir = Top.dir /\ g.depth = Top.depth
       /\ g.size = Top.size + Amount(Skipped, new, {x})
       /\ g.hl = Top.hl + SumOf(Size, new \cap {x})
  <2>1. Top \in FrameRecords /\ Top.size \in Nat /\ Top.hl \in Nat /\ Top.elements \in Nat
    BY <1>1, <1>2, ReadingTop DEF FrameRecords
  <2>2. CASE Counted(x)
    <3>1. Amount(Skipped, new, {x}) = Size[x] /\ SumOf(Size, new \cap {x}) = 0
      BY <2>2, <1>3, <1>5, AmountOfOne, NothingMissed
    <3>2. g = [Top EXCEPT !.size = @ + Size[x], !.elements = @ + 1]
      BY <2>2
    <3> HIDE DEF g, new, x
    <3>3. g \in FrameRecords
      <4> DEFINE a == Top.size + Size[x]
                 b == Top.elements + 1
      <4>1. a \in Nat /\ b \in Nat /\ g = [Top EXCEPT !.size = a, !.elements = b]
        BY <2>1, <1>3, <3>2
      <4> HIDE DEF a, b
      <4> QED BY <4>1, <2>1 DEF FrameRecords
    <3>4. g.next = Top.next /\ g.dir = Top.dir /\ g.depth = Top.depth
          /\ g.size = Top.size + Size[x] /\ g.hl = Top.hl
      BY <3>2, <2>1 DEF FrameRecords
    <3> QED BY <3>1, <3>3, <3>4, <2>1
  <2>3. CASE ~Counted(x)
    <3>1. Amount(Skipped, new, {x}) = 0
      BY <2>3, AmountOfOne
    <3>2. new \cap {x} = {x} /\ SumOf(Size, {x}) = Size[x]
      BY <2>3, <1>3, SumOfOne
    <3>3. SumOf(Size, new \cap {x}) = Size[x]
      BY <3>2
    <3>4. g = [Top EXCEPT !.hl = @ + Size[x]]
      BY <2>3
    <3> HIDE DEF g, new, x
    <3> QED BY <3>1, <3>3, <3>4, <2>1, <1>3 DEF FrameRecords
  <2> QED BY <2>2, <2>3
<1> HIDE DEF g, new
<1>11. IsNext(Len(frames), x) /\ Advances(Len(frames), x, missed, new)
  BY <1>1, <1>2, <1>3, <1>7, <1>9, <1>10, OtherAdvances
<1> HIDE DEF x
<1>12. PICK m : m = new
  OBVIOUS
<1>13. PICK y : y = x
  OBVIOUS
<1>14. WalkHolds(m)'
  <2>1. /\ IsNext(Len(frames), y) /\ Advances(Len(frames), y, missed, m) /\ y \notin Dirs
        /\ InodesHold(Visited \cup {y}, m, hla')
    BY <1>3, <1>8, <1>11, <1>12, <1>13
  <2> QED BY <1>1, <1>2, <2>1, EntryDealtWith
<1> QED BY <1>7, <1>12, <1>14
-----------------------------------------------------------------------------
LEMMA EnterDirStep ==
  ASSUME NEW missed \in SUBSET Linked, WalkHolds(missed), EnterDir
  PROVE  WalkHolds(missed)'
<1> DEFINE n == Len(frames)
           h == [Top EXCEPT !.next = @ + 1]
<1>1. /\ FramesHold /\ AmountsHold(missed) /\ RowsHold(Visited) /\ FilledHold(missed)
      /\ StackHolds /\ PlaceHolds /\ InodesHold(Visited, missed, hla)
  BY DEF WalkHolds
<1>2. /\ Reading /\ Top.next <= Len(Kids[Top.dir]) /\ Entry \in Dirs /\ opening' = Entry
      /\ frames' = Append(Front(frames), h) /\ Closed' = Closed /\ Skipped' = Skipped
      /\ current_location' = current_location /\ opening = NoDir
      /\ UNCHANGED <<rows, iterstack, currentdepth, currentiter, firstiter, hla>>
  BY DEF EnterDir, AtEntry, Entry, NextEntry, tree, Closed, Skipped, Reading
<1>3. /\ n \in 1..n /\ n \in Nat /\ Top = frames[n] /\ Top \in FrameRecords
      /\ Handled(n) = Top.next - 1 /\ Front(frames) = SubSeq(frames, 1, n - 1) /\ IsNext(n, Entry)
      /\ frames # <<>>
  BY <1>1, <1>2, ReadingTop, FramesAre
<1>4. /\ h \in FrameRecords /\ h.dir = Top.dir /\ h.next = Top.next + 1 /\ h.size = Top.size
      /\ h.hl = Top.hl /\ h.depth = Top.depth /\ Top.next \in Nat
  BY <1>3, NextFrame
<1> HIDE DEF h
<1>5. /\ frames' \in Seq(FrameRecords) /\ Len(frames') = n /\ frames'[n] = h
      /\ \A i \in 1..n - 1 : frames'[i] = frames[i]
  <2>1. PICK k : k = n
    OBVIOUS
  <2>2. frames' = Append(SubSeq(frames, 1, k - 1), h) /\ k \in 1..Len(frames) /\ h \in FrameRecords
    BY <2>1, <1>2, <1>3, <1>4
  <2>3. /\ frames' \in Seq(FrameRecords) /\ Len(frames') = k /\ frames'[k] = h
        /\ \A i \in 1..k - 1 : frames'[i] = frames[i]
    BY <2>2, <1>1, TopReplaced
  <2> QED BY <2>1, <2>3
<1>6. Entry # NoDir
  BY <1>2, EntriesAssumption
<1>7. ASSUME NEW i \in 1..n
      PROVE  /\ frames'[i].dir = frames[i].dir /\ frames'[i].size = frames[i].size
             /\ frames'[i].hl = frames[i].hl /\ frames'[i].depth = frames[i].depth
             /\ Handled(i)' = Handled(i)
  <2>1. CASE i = n
    <3>1. Handled(i)' = frames'[i].next - 2
      BY <1>2, <1>6 DEF Handled
    <3> QED BY <2>1, <3>1, <1>3, <1>4, <1>5
  <2>2. CASE i \in 1..n - 1
    <3>1. i < n /\ frames'[i] = frames[i]
      BY <2>2, <1>3, <1>5
    <3> QED BY <3>1, <1>5 DEF Handled
  <2> QED BY <2>1, <2>2, <1>3
<1>8. FramesHold'
  <2>1. ASSUME NEW i \in 1..n
        PROVE frames'[i].dir \notin Closed' /\ Handled(i)' \in 0..Len(Kids[frames'[i].dir])
    BY <1>1, <1>2, <1>7, FramesAre
  <2>2. frames'[1].dir = current_location'
    BY <1>1, <1>2, <1>3, <1>7 DEF FramesHold
  <2>3. ASSUME NEW i \in 1..n, NEW y, IsNext(i, y) PROVE IsNext(i, y)'
    BY <1>7, <2>3 DEF IsNext
  <2>4. opening' \in Dirs /\ IsNext(Len(frames), opening)'
    <3>1. Handled(n) < Len(Kids[frames[n].dir]) /\ Entry = Kids[frames[n].dir][Handled(n) + 1]
      BY <1>3 DEF IsNext
    <3>2. Len(frames') = n /\ Handled(Len(frames))' = Handled(n)
          /\ frames'[Len(frames')].dir = frames[n].dir
      BY <1>3, <1>5, <1>7
    <3> QED BY <1>2, <3>1, <3>2 DEF IsNext
  <2>5. ASSUME NEW i \in 1..n, NEW j \in 1..n, i < j
        PROVE  /\ IsNext(i, Kids[frames[i].dir][Handled(i) + 1])'
               /\ frames'[j].dir \in Inside(Closed, Kids[frames[i].dir][Handled(i) + 1])'
               /\ j = i + 1 => frames'[j].dir = (Kids[frames[i].dir][Handled(i) + 1])'
    <3>1. /\ IsNext(i, Kids[frames[i].dir][Handled(i) + 1])
          /\ frames[j].dir \in Inside(Closed, Kids[frames[i].dir][Handled(i) + 1])
          /\ j = i + 1 => frames[j].dir = Kids[frames[i].dir][Handled(i) + 1]
      BY <1>1, <2>5 DEF FramesHold
    <3>2. Handled(i)' = Handled(i) /\ frames'[i].dir = frames[i].dir /\ frames'[j].dir = frames[j].dir
      BY <1>7
    <3>3. IsNext(i, Kids[frames[i].dir][Handled(i) + 1])'
      BY <3>1, <3>2 DEF IsNext
    <3> QED BY <3>1, <3>2, <3>3, <1>2
  <2>6. frames' # <<>> /\ Len(frames') = n
    BY <1>3, <1>5
  <2>7. \A i \in 1..Len(frames') :
          frames'[i].dir \notin Closed' /\ Handled(i)' \in 0..Len(Kids[frames'[i].dir])
    BY <2>1, <2>6
  <2>8. \A i \in 1..Len(frames') : \A j \in 1..Len(frames') : i < j =>
          /\ IsNext(i, Kids[frames[i].dir][Handled(i) + 1])'
          /\ frames'[j].dir \in Inside(Closed, Kids[frames[i].dir][Handled(i) + 1])'
          /\ j = i + 1 => frames'[j].dir = (Kids[frames[i].dir][Handled(i) + 1])'
    BY <2>5, <2>6
  <2> QED BY ONLY <1>5, <2>2, <2>4, <2>6, <2>7, <2>8 DEF FramesHold
<1>9. AmountsHold(missed)' /\ Visited' = Visited
  <2>1. \A i \in 1..n : SeenOf(i)' = SeenOf(i)
    BY <1>2, <1>7 DEF SeenOf
  <2>2. AmountsHold(missed)'
    <3> SUFFICES ASSUME NEW i \in 1..n
                 PROVE  /\ frames'[i].size = Amount(Skipped', missed, SeenOf(i)')
                        /\ frames'[i].hl
                             = SumOf(Size, missed \cap FirstEntries(frames'[i].dir, Handled(i)'))
                        /\ IsMax(frames'[i].depth, HeightsIn(Closed', frames'[i].dir, Handled(i)'))
      BY <1>5 DEF AmountsHold
    <3>1. /\ frames[i].size = Amount(Skipped, missed, SeenOf(i))
          /\ frames[i].hl = SumOf(Size, missed \cap FirstEntries(frames[i].dir, Handled(i)))
          /\ IsMax(frames[i].depth, HeightsIn(Closed, frames[i].dir, Handled(i)))
      BY <1>1 DEF AmountsHold
    <3>2. Closed' = Closed /\ Skipped' = Skipped
      BY <1>2
    <3> QED BY <2>1, <3>1, <3>2, <1>7
  <2>3. Visited' = UNION {SeenOf(i)' : i \in 1..n}
    BY <1>5 DEF Visited
  <2> QED BY <2>1, <2>2, <2>3 DEF Visited
<1>10. RowsHold(Visited)'
  BY <1>1, <1>2, <1>9 DEF RowsHold
<1>11. FilledHold(missed)'
  BY <1>1, <1>2 DEF FilledHold
<1>12. StackHolds'
  BY <1>1, <1>2, <1>5, <1>7 DEF StackHolds
<1>13. PlaceHolds'
  BY <1>1, <1>2, <1>5 DEF PlaceHolds, IsPath
<1>14. InodesHold(Visited', missed, hla')
  BY <1>1, <1>2, <1>9
<1> QED BY <1>8, <1>9, <1>10, <1>11, <1>12, <1>13, <1>14 DEF WalkHolds

(* Going up from row r one row at a time: up[k] is the k-th row passed.    *)
LEMMA AncestorIs ==
  ASSUME NEW r, NEW k \in Nat, NEW up, DOMAIN up = 0..k, up[0] = r,
         \A i \in 1..k : up[i] = IF up[i - 1] = 0 THEN 0 ELSE rows[up[i - 1]].parent
  PROVE  Ancestor(r, k) = up[k]
<1> DEFINE Goes(f) ==
             f = [i \in 0..k |->
                    IF i = 0 THEN r ELSE IF f[i - 1] = 0 THEN 0 ELSE rows[f[i - 1]].parent]
           f == CHOOSE f : Goes(f)
<1>1. \E g : Goes(g)
  <2> DEFINE g == [i \in 0..k |-> up[i]]
  <2>1. DOMAIN g = 0..k /\ \A i \in 0..k : g[i] = up[i]
    OBVIOUS
  <2>2. ASSUME NEW i \in 0..k
        PROVE g[i] = IF i = 0 THEN r ELSE IF g[i - 1] = 0 THEN 0 ELSE rows[g[i - 1]].parent
    <3>1. CASE i = 0
      BY <3>1
    <3>2. CASE i # 0
      <4>1. i \in 1..k /\ i - 1 \in 0..k
        BY <3>2
      <4> QED BY <3>2, <4>1
    <3> QED BY <3>1, <3>2
  <2>3. g = [i \in 0..k |->
                    IF i = 0 THEN r ELSE IF g[i - 1] = 0 THEN 0 ELSE rows[g[i - 1]].parent]
    BY <2>1, <2>2
  <2> HIDE DEF g
  <2> QED BY <2>3
<1>2. Goes(f)
  BY <1>1
<1>3. Ancestor(r, k) = f[k]
  BY DEF Ancestor
<1> HIDE DEF f
<1>4. /\ f[0] = r
      /\ \A i \in 1..k : f[i] = IF f[i - 1] = 0 THEN 0 ELSE rows[f[i - 1]].parent
  <2>1. 0 \in 0..k /\ \A i \in 1..k : i \in 0..k /\ i # 0
    OBVIOUS
  <2> QED BY <1>2, <2>1
<1> DEFINE P == {i \in Nat : i \in 0..k => f[i] = up[i]}
<1>5. P = Nat
  <2>1. 0 \in P
    BY <1>4
  <2>2. ASSUME NEW i \in P PROVE i + 1 \in P
    <3>1. CASE i + 1 \in 0..k
      <4>1. i + 1 \in 1..k /\ (i + 1) - 1 = i /\ i \in 0..k
        BY <3>1
      <4> QED BY <4>1, <1>4
    <3> QED BY <3>1
  <2>3. P \in SUBSET Nat
    OBVIOUS
  <2> HIDE DEF P
  <2> QED BY <2>1, <2>2, <2>3, AllNumbers
<1> QED BY <1>3, <1>5
-----------------------------------------------------------------------------
(* The place of a new row is below the row of the folder that is open.     *)
LEMMA PlaceIs ==
  ASSUME FramesHold, RowsHold(Visited), StackHolds, PlaceHolds, frames # <<>>
  PROVE  /\ rows # <<>> /\ currentdepth \in Nat /\ firstiter = 1
         /\ Place(Len(frames)) = iterstack[Len(frames)]
         /\ iterstack[Len(frames)] \in 1..Len(rows)
         /\ \A i \in 1..Len(frames) - 1 : rows[iterstack[i + 1]].parent = iterstack[i]
<1> DEFINE n == Len(frames)
           c == currentdepth - n + 1
<1>1. n \in Nat /\ n \in 1..n /\ 1 \in 1..n
  BY FrontFrames
<1>2. \A i \in 1..n : iterstack[i] \in 1..Len(rows) /\ rows[iterstack[i]].of = frames[i].dir
  BY DEF StackHolds
<1>3. rows # <<>> /\ Len(rows) \in Nat /\ 1 \in 1..Len(rows)
  BY <1>1, <1>2, RowsAre
<1>4. /\ firstiter = 1 /\ currentdepth \in Nat /\ n <= currentdepth + 1
      /\ \E path \in [1..currentdepth + 1 -> 1..Len(rows)] : IsPath(path)
  BY <1>3 DEF PlaceHolds
<1>5. PICK path \in [1..currentdepth + 1 -> 1..Len(rows)] : IsPath(path)
  BY <1>4
<1>6. /\ path[currentdepth + 1] = currentiter
      /\ \A i \in 1..currentdepth : rows[path[i + 1]].parent = path[i]
      /\ \A i \in 1..n : path[i] = iterstack[i]
  BY <1>5 DEF IsPath
<1>7. ASSUME NEW i \in 1..n - 1 PROVE rows[iterstack[i + 1]].parent = iterstack[i]
  <2>1. i \in 1..n /\ i + 1 \in 1..n /\ i \in 1..currentdepth
    BY <1>1, <1>4
  <2> QED BY <2>1, <1>6
<1>8. Place(n) = iterstack[n]
  <2>1. CASE n = 1
    <3>1. rows[iterstack[1]].of = rows[1].of
      BY <1>1, <1>2, <1>3 DEF RowsHold, FramesHold
    <3>2. iterstack[1] = 1
      BY <3>1, <1>1, <1>2, <1>3 DEF RowsHold
    <3> QED BY <2>1, <3>2, <1>4 DEF Place
  <2>2. CASE n # 1
    <3> DEFINE up == [i \in 0..c |-> path[currentdepth + 1 - i]]
    <3>1. c \in Nat /\ 0 \in 0..c /\ c \in 0..c /\ currentdepth + 1 - c = n
      BY <1>1, <1>4
    <3>2. DOMAIN up = 0..c /\ up[0] = currentiter
      BY <3>1, <1>4, <1>6
    <3>3. ASSUME NEW i \in 1..c
          PROVE up[i] = IF up[i - 1] = 0 THEN 0 ELSE rows[up[i - 1]].parent
      <4> DEFINE j == currentdepth + 1 - i
      <4>1. /\ j \in 1..currentdepth /\ j + 1 \in 1..currentdepth + 1
            /\ currentdepth + 1 - (i - 1) = j + 1 /\ i \in 0..c /\ i - 1 \in 0..c
        BY <3>1, <1>1, <1>4
      <4>2. up[i] = path[j] /\ up[i - 1] = path[j + 1]
        BY <4>1
      <4>3. path[j + 1] \in 1..Len(rows) /\ rows[path[j + 1]].parent = path[j]
        BY <4>1, <1>5, <1>6
      <4> HIDE DEF j, up
      <4> QED BY <4>2, <4>3, <1>3
    <3>4. Ancestor(currentiter, c) = up[c]
      <4> HIDE DEF up, c
      <4> QED BY <3>1, <3>2, <3>3, AncestorIs
    <3>5. up[c] = iterstack[n]
      BY <3>1, <1>1, <1>6
    <3>6. Place(n) = Ancestor(currentiter, c)
      BY <2>2, <1>4 DEF Place, Climb
    <3> QED BY <3>4, <3>5, <3>6
  <2> QED BY <2>1, <2>2
<1> QED BY <1>1, <1>2, <1>3, <1>4, <1>7, <1>8

(* A folder that is opened has not been seen.                              *)
LEMMA OpeningIsNew ==
  ASSUME FramesHold, opening \in Dirs
  PROVE  /\ opening \notin Visited
         /\ \A i \in 1..Len(frames) :
              LET y == Kids[frames[i].dir][Handled(i) + 1]
              IN  IsNext(i, y) /\ opening \in Inside(Closed, y) /\ (i = Len(frames) => opening = y)
<1>1. CASE frames = <<>>
  <2>1. 1..Len(frames) = {}
    BY <1>1
  <2> QED BY <2>1 DEF Visited
<1>2. CASE frames # <<>>
  <2> DEFINE n == Len(frames)
             y(i) == Kids[frames[i].dir][Handled(i) + 1]
  <2>1. n \in 1..n /\ n \in Nat /\ IsNext(n, opening) /\ frames[n].dir \in Dirs
    BY <1>2, FrontFrames, EntriesAssumption DEF FramesHold
  <2>2. /\ opening \in Entries(Closed, frames[n].dir)
        /\ \A i \in 1..n : SeenOf(i) \cap Inside(Closed, opening) \cap Things = {}
    BY <2>1, Fresh
  <2>3. opening \notin Visited
    BY <2>2, InsideSelf DEF Visited, Things
  <2>4. y(n) = opening
    BY <2>1 DEF IsNext
  <2>5. ASSUME NEW i \in 1..n, i # n PROVE IsNext(i, y(i)) /\ opening \in Inside(Closed, y(i))
    <3>1. i < n
      BY <2>1, <2>5
    <3>2. IsNext(i, y(i)) /\ frames[n].dir \in Inside(Closed, y(i))
      BY <2>1, <3>1 DEF FramesHold
    <3>3. opening \in Inside(Closed, y(i))
      <4> HIDE DEF y
      <4> QED BY <2>1, <2>2, <3>2, InsideEntries
    <3> QED BY <3>2, <3>3
  <2>6. IsNext(n, y(n)) /\ opening \in Inside(Closed, y(n))
    BY <2>1, <2>4, InsideSelf
  <2> QED BY <2>3, <2>4, <2>5, <2>6
<1> QED BY <1>1, <1>2
-----------------------------------------------------------------------------
LEMMA OpensFrames ==
  ASSUME excluded \subseteq Dirs, FramesHold, NEW d, opening = d, d \in Dirs \ Closed,
         frames' = Append(frames, Frame(d)), opening' = NoDir,
         UNCHANGED <<excluded, current_location>>
  PROVE  /\ FramesHold' /\ Len(frames') = Len(frames) + 1 /\ Len(frames) \in Nat
         /\ \A i \in 1..Len(frames) : frames'[i] = frames[i] /\ Handled(i)' = Handled(i)
         /\ frames'[Len(frames) + 1] = Frame(d)
         /\ \A i \in {Len(frames) + 1} : Handled(i)' = 0
<1> DEFINE n == Len(frames)
<1>1. /\ frames \in Seq(FrameRecords) /\ n \in Nat
      /\ \A i \in 1..n : frames[i] \in FrameRecords /\ frames[i].dir \in Dirs \ Closed
           /\ Handled(i) \in 0..Len(Kids[frames[i].dir])
  BY FramesAre DEF FramesHold
<1>2. Frame(d) \in FrameRecords /\ Frame(d).dir = d /\ Frame(d).next = 1
  <2>1. Size[d] \in Nat
    BY EntriesAssumption
  <2> QED BY <2>1 DEF Frame, FrameRecords
<1>3. /\ frames' \in Seq(FrameRecords) /\ Len(frames') = n + 1 /\ frames'[n + 1] = Frame(d)
      /\ \A i \in 1..n : frames'[i] = frames[i]
  <2> HIDE DEF FrameRecords
  <2> QED BY <1>1, <1>2
<1>4. d # NoDir /\ Closed' = Closed
  BY EntriesAssumption DEF Closed, Skipped
<1>5. ASSUME NEW i \in 1..n PROVE Handled(i)' = Handled(i)
  <2>1. i < Len(frames') /\ frames'[i] = frames[i]
    BY <1>1, <1>3
  <2> QED BY <2>1, <1>4 DEF Handled
<1>6. ASSUME NEW i \in {n + 1} PROVE Handled(i)' = 0
  <2>1. ~(i < Len(frames')) /\ frames'[i].next = 1
    BY <1>1, <1>2, <1>3
  <2> QED BY <2>1 DEF Handled
<1>7. ASSUME NEW i \in 1..n + 1
      PROVE  frames'[i].dir \notin Closed' /\ Handled(i)' \in 0..Len(Kids[frames'[i].dir])
  <2>1. CASE i \in 1..n
    BY <2>1, <1>1, <1>3, <1>4, <1>5
  <2>2. CASE i = n + 1
    BY <2>2, <1>2, <1>3, <1>4, <1>6, KidsAre
  <2> QED BY <2>1, <2>2, <1>1
<1>8. frames'[1].dir = current_location'
  <2>1. CASE n = 0
    BY <2>1, <1>1, <1>2, <1>3 DEF FramesHold
  <2>2. CASE n # 0
    <3>1. frames # <<>> /\ 1 \in 1..n
      BY <2>2, <1>1
    <3> QED BY <3>1, <1>3 DEF FramesHold
  <2> QED BY <2>1, <2>2
<1>9. ASSUME NEW i \in 1..n + 1, NEW j \in 1..n + 1, i < j
      PROVE  /\ IsNext(i, Kids[frames[i].dir][Handled(i) + 1])'
             /\ frames'[j].dir \in Inside(Closed, Kids[frames[i].dir][Handled(i) + 1])'
             /\ j = i + 1 => frames'[j].dir = (Kids[frames[i].dir][Handled(i) + 1])'
  <2> DEFINE y == Kids[frames[i].dir][Handled(i) + 1]
  <2>1. i \in 1..n /\ Handled(i)' = Handled(i) /\ frames'[i] = frames[i]
    BY <1>1, <1>3, <1>5, <1>9
  <2>2. CASE j \in 1..n
    <3>1. IsNext(i, y) /\ frames[j].dir \in Inside(Closed, y) /\ (j = i + 1 => frames[j].dir = y)
      BY <2>1, <2>2, <1>9 DEF FramesHold
    <3>2. IsNext(i, y)'
      BY <2>1, <3>1 DEF IsNext
    <3> QED BY <2>1, <2>2, <3>1, <3>2, <1>3, <1>4
  <2>3. CASE j = n + 1
    <3>1. IsNext(i, y) /\ d \in Inside(Closed, y) /\ (i = n => d = y)
      BY <2>1, OpeningIsNew
    <3>2. IsNext(i, y)'
      BY <2>1, <3>1 DEF IsNext
    <3>3. frames'[j].dir = d /\ (j = i + 1 => i = n)
      BY <2>1, <2>3, <1>1, <1>2, <1>3
    <3> QED BY <2>1, <3>1, <3>2, <3>3, <1>4
  <2> QED BY <2>2, <2>3, <1>1
<1>10. frames' # <<>>
  BY <1>1, <1>3
<1>11. FramesHold'
  BY <1>3, <1>7, <1>8, <1>9, <1>10 DEF FramesHold
<1> QED BY <1>1, <1>3, <1>5, <1>6, <1>11

LEMMA OpensAmounts ==
  ASSUME excluded \subseteq Dirs, NEW missed \in SUBSET Linked, FramesHold, AmountsHold(missed),
         NEW d, opening = d, d \in Dirs \ Closed,
         frames' = Append(frames, Frame(d)), opening' = NoDir,
         UNCHANGED <<excluded, current_location>>
  PROVE  AmountsHold(missed)' /\ Visited' = Visited \cup {d}
<1>0. PICK n : n = Len(frames)
  OBVIOUS
<1>1. /\ Len(frames') = n + 1 /\ n \in Nat
      /\ \A i \in 1..n : frames'[i] = frames[i] /\ Handled(i)' = Handled(i)
      /\ frames'[n + 1] = Frame(d) /\ \A i \in {n + 1} : Handled(i)' = 0
  BY <1>0, OpensFrames
<1>2. Closed' = Closed /\ Skipped' = Skipped
  BY DEF Closed, Skipped
<1>3. \A i \in 1..n : SeenOf(i)' = SeenOf(i)
  BY <1>1, <1>2 DEF SeenOf
<1>4. Frame(d).dir = d /\ Frame(d).size = Size[d] /\ Frame(d).hl = 0 /\ Frame(d).depth = 0
  BY DEF Frame
<1>5. \A i \in {n + 1} : SeenOf(i)' = {d}
  BY <1>1, <1>2, <1>4, NoEntryYet DEF SeenOf
<1>6. Size[d] = Amount(Skipped, missed, {d})
  <2>1. d \in (Things \ Skipped) \ missed
    BY TreeAssumption, EntriesAssumption DEF Closed, Things
  <2> QED BY <2>1, AmountOfOne
<1>7. 0 = SumOf(Size, missed \cap FirstEntries(d, 0))
  <2>1. missed \cap FirstEntries(d, 0) = {}
    BY NoEntryYet
  <2>2. SumOf(Size, {}) = 0
    BY FS_EmptySet, SumIsNumber
  <2> QED BY <2>1, <2>2
<1>8. IsMax(0, HeightsIn(Closed, d, 0))
  BY NoEntryYet DEF IsMax
<1>9. ASSUME NEW i \in 1..n + 1
      PROVE  /\ frames'[i].size = Amount(Skipped', missed, SeenOf(i)')
             /\ frames'[i].hl = SumOf(Size, missed \cap FirstEntries(frames'[i].dir, Handled(i)'))
             /\ IsMax(frames'[i].depth, HeightsIn(Closed', frames'[i].dir, Handled(i)'))
  <2>1. CASE i \in 1..n
    BY <2>1, <1>0, <1>1, <1>2, <1>3 DEF AmountsHold
  <2>2. CASE i = n + 1
    BY <2>2, <1>1, <1>2, <1>4, <1>5, <1>6, <1>7, <1>8
  <2>3. i \in 1..n \/ i = n + 1
    BY <1>1
  <2> QED BY ONLY <2>1, <2>2, <2>3
<1>10. AmountsHold(missed)'
  BY <1>1, <1>9 DEF AmountsHold
<1>11. Visited' = Visited \cup {d}
  <2> DEFINE s(i) == SeenOf(i)
             t(i) == SeenOf(i)'
  <2>1. (\A i \in 1..n : t(i) = s(i)) /\ t(n + 1) = {d}
    BY <1>3, <1>5
  <2>2. Visited = UNION {s(i) : i \in 1..n} /\ Visited' = UNION {t(i) : i \in 1..n + 1}
    BY <1>0, <1>1 DEF Visited
  <2> HIDE DEF s, t
  <2>3. 1..n + 1 = 1..n \cup {n + 1}
    BY <1>1
  <2> QED BY <2>1, <2>2, <2>3
<1> QED BY <1>10, <1>11
-----------------------------------------------------------------------------
LEMMA NoRowsYet ==
  ASSUME FramesHold, RowsHold(Visited), frames = <<>>
  PROVE  Visited = {} /\ rows = <<>> /\ opening = current_location
<1>1. 1..Len(frames) = {}
  BY DEF FramesHold
<1>2. Visited = {}
  BY <1>1 DEF Visited
<1>3. rows \in Seq(RowRecords) /\ Len(rows) \in Nat
  BY RowsAre DEF RowsHold
<1>4. 1..Len(rows) = {}
  BY <1>2, RowsAre
<1>5. rows = <<>>
  <2>1. Len(rows) = 0
    <3>1. Len(rows) # 0 => 1 \in 1..Len(rows)
      BY <1>3
    <3> QED BY <3>1, <1>4
  <2> HIDE DEF RowRecords
  <2> QED BY <1>3, <2>1, EmptySeq
<1> QED BY <1>2, <1>5 DEF FramesHold

(* A row for a folder that has none, in its place.                         *)
LEMMA RowAppended ==
  ASSUME NEW V, RowsHold(V), NEW d \in Dirs \ Closed, d \notin V, NEW p \in Nat,
         rows' = Append(rows, Row(d, p, 1, -1)), UNCHANGED <<excluded, current_location>>,
         IF rows = <<>> THEN p = 0 /\ d = current_location
         ELSE p \in 1..Len(rows) /\ d \in Entries(Closed, rows[p].of)
  PROVE  /\ RowsHold(V \cup {d})' /\ Len(rows') = Len(rows) + 1 /\ Len(rows) \in Nat
         /\ \A r \in 1..Len(rows) : rows'[r] = rows[r]
         /\ rows'[Len(rows) + 1] = Row(d, p, 1, -1)
<1>0. PICK m : m = Len(rows)
  OBVIOUS
<1>1. /\ rows \in Seq(RowRecords) /\ m \in Nat
      /\ \A r \in 1..m : rows[r].of \in (V \cap Dirs) \ Closed
  BY <1>0, RowsAre DEF RowsHold
<1> DEFINE new == Row(d, p, 1, -1)
<1>2. new \in RowRecords /\ new.of = d /\ new.parent = p
  BY DEF Row, RowRecords
<1> HIDE DEF new
<1>3. /\ rows' \in Seq(RowRecords) /\ Len(rows') = m + 1 /\ rows'[m + 1] = new
      /\ \A r \in 1..m : rows'[r] = rows[r]
  <2>1. rows' = Append(rows, new)
    BY DEF new
  <2> HIDE DEF RowRecords
  <2> QED BY <2>1, <1>0, <1>1, <1>2
<1>4. Closed' = Closed
  BY DEF Closed, Skipped
<1>5. 1..m + 1 = 1..m \cup {m + 1}
  BY <1>1
<1>6. {rows'[r].of : r \in 1..m + 1} = ((V \cup {d}) \cap Dirs) \ Closed'
  <2>1. {rows'[r].of : r \in 1..m + 1} = {rows[r].of : r \in 1..m} \cup {d}
    BY <1>2, <1>3, <1>5
  <2>2. {rows[r].of : r \in 1..m} = (V \cap Dirs) \ Closed
    BY <1>0 DEF RowsHold
  <2> QED BY <2>1, <2>2, <1>4
<1>7. ASSUME NEW r \in 1..m + 1, NEW q \in 1..m + 1, rows'[r].of = rows'[q].of PROVE r = q
  <2>1. CASE r \in 1..m /\ q \in 1..m
    BY <2>1, <1>0, <1>3, <1>7 DEF RowsHold
  <2>2. CASE r = m + 1 /\ q \in 1..m
    BY <2>2, <1>1, <1>2, <1>3, <1>7
  <2>3. CASE r \in 1..m /\ q = m + 1
    BY <2>3, <1>1, <1>2, <1>3, <1>7
  <2> QED BY <2>1, <2>2, <2>3, <1>5
<1>8. ASSUME NEW r \in 1..m + 1
      PROVE  IF r = 1 THEN rows'[r].parent = 0 /\ rows'[r].of = current_location'
             ELSE /\ rows'[r].parent \in 1..r - 1
                  /\ rows'[r].of \in Entries(Closed', rows'[rows'[r].parent].of)
  <2>1. CASE r \in 1..m
    <3>1. IF r = 1 THEN rows[r].parent = 0 /\ rows[r].of = current_location
          ELSE /\ rows[r].parent \in 1..r - 1
               /\ rows[r].of \in Entries(Closed, rows[rows[r].parent].of)
      BY <2>1, <1>0 DEF RowsHold
    <3>2. rows'[r] = rows[r] /\ (r # 1 => rows[r].parent \in 1..m)
      BY <2>1, <3>1, <1>1, <1>3
    <3> QED BY <3>1, <3>2, <1>3, <1>4
  <2>2. CASE r = m + 1 /\ m = 0
    <3>1. rows = <<>>
      BY <2>2, <1>0, <1>1
    <3> QED BY <2>2, <3>1, <1>2, <1>3
  <2>3. CASE r = m + 1 /\ m # 0
    <3>1. rows # <<>>
      BY <2>3, <1>0
    <3>2. p \in 1..m /\ d \in Entries(Closed, rows[p].of) /\ r # 1
      BY <2>3, <3>1, <1>0, <1>1
    <3>3. rows'[r].parent = p /\ rows'[r].of = d /\ rows'[p] = rows[p]
      BY <2>3, <3>2, <1>2, <1>3
    <3>4. p \in 1..r - 1
      BY <2>3, <3>2, <1>1
    <3> QED BY <3>2, <3>3, <3>4, <1>4
  <2> QED BY <2>1, <2>2, <2>3, <1>5
<1>9. RowsHold(V \cup {d})'
  BY <1>3, <1>6, <1>7, <1>8 DEF RowsHold
<1> QED BY <1>0, <1>1, <1>3, <1>9 DEF new

LEMMA LoopdirOpensStep ==
  ASSUME excluded \subseteq Dirs, NEW missed \in SUBSET Linked, WalkHolds(missed), LoopdirOpens,
         PlaceIsLive(Len(frames))
  PROVE  WalkHolds(missed)'
<1>0. PICK n : n = Len(frames)
  OBVIOUS
<1>d. PICK d : d = opening
  OBVIOUS
<1>m. PICK m : m = Len(rows)
  OBVIOUS
<1>1. /\ FramesHold /\ AmountsHold(missed) /\ RowsHold(Visited) /\ FilledHold(missed)
      /\ StackHolds /\ PlaceHolds /\ InodesHold(Visited, missed, hla)
  BY DEF WalkHolds
<1>2. /\ d \in Dirs \ Closed /\ d \in Dirs /\ d \notin Closed
      /\ frames' = Append(frames, Frame(d)) /\ opening' = NoDir
      /\ UNCHANGED <<excluded, current_location>> /\ hla' = hla /\ PrefillModel(d, n)
  BY <1>0, <1>d DEF LoopdirOpens, Closed
<1>3. /\ FramesHold' /\ Len(frames') = n + 1 /\ n \in Nat
      /\ \A i \in 1..n : frames'[i] = frames[i]
      /\ frames'[n + 1] = Frame(d) /\ AmountsHold(missed)' /\ Visited' = Visited \cup {d}
  BY <1>0, <1>d, <1>1, <1>2, OpensFrames, OpensAmounts
<1>4. Closed' = Closed /\ Skipped' = Skipped
  BY <1>2 DEF Closed, Skipped
<1>5. d \notin Visited
  BY <1>1, <1>2, <1>d, OpeningIsNew
<1>p. PICK p : p = Place(n)
  OBVIOUS
<1>6. /\ p \in Nat /\ firstiter' = 1
      /\ IF rows = <<>> THEN p = 0 /\ d = current_location
         ELSE p \in 1..Len(rows) /\ d \in Entries(Closed, rows[p].of)
      /\ n # 0 => p = iterstack[n] /\ \A i \in 1..n - 1 : rows[iterstack[i + 1]].parent = iterstack[i]
  <2>1. CASE n = 0
    <3>1. frames = <<>> /\ rows = <<>> /\ d = current_location
      <4>1. frames = <<>>
        BY <2>1, <1>0, <1>1 DEF FramesHold
      <4> QED BY <4>1, <1>d, <1>1, NoRowsYet
    <3>2. currentdepth = -1 /\ Len(rows) = 0
      BY <3>1, <1>1 DEF PlaceHolds
    <3>3. p = 0 /\ firstiter' = 1
      BY <3>2, <1>2, <1>p DEF Place, PrefillModel
    <3> QED BY <2>1, <3>1, <3>3
  <2>2. CASE n # 0
    <3>1. frames # <<>> /\ n \in 1..n
      BY <2>2, <1>0, <1>3
    <3>2. /\ rows # <<>> /\ currentdepth \in Nat /\ firstiter = 1
          /\ p = iterstack[n] /\ iterstack[n] \in 1..Len(rows)
          /\ \A i \in 1..n - 1 : rows[iterstack[i + 1]].parent = iterstack[i]
      BY <3>1, <1>0, <1>p, <1>1, PlaceIs
    <3>3. rows[p].of = frames[n].dir
      BY <3>1, <3>2, <1>0, <1>1 DEF StackHolds
    <3>4. d \in Entries(Closed, frames[n].dir)
      <4>1. IsNext(n, d)
        BY <3>1, <1>0, <1>d, <1>1, <1>2, EntriesAssumption DEF FramesHold
      <4> QED BY <4>1, <3>1, <1>0, <1>1, Fresh
    <3>5. firstiter' = 1
      BY <3>2, <1>2 DEF PrefillModel
    <3>6. p \in Nat
      BY <3>2
    <3> QED BY <3>2, <3>3, <3>4, <3>5, <3>6
  <2> QED BY <2>1, <2>2
<1>7. /\ rows' = Append(rows, Row(d, p, 1, -1)) /\ iterstack' = Append(iterstack, m + 1)
      /\ currentdepth' = n /\ currentiter' = m + 1
  BY <1>2, <1>m, <1>p DEF PrefillModel
<1>8. /\ RowsHold(Visited \cup {d})' /\ Len(rows') = m + 1 /\ m \in Nat
      /\ \A r \in 1..m : rows'[r] = rows[r]
      /\ rows'[m + 1] = Row(d, p, 1, -1)
  <2>1. PICK V : V = Visited
    OBVIOUS
  <2>2. /\ RowsHold(V \cup {d})' /\ Len(rows') = m + 1 /\ m \in Nat
        /\ \A r \in 1..m : rows'[r] = rows[r]
        /\ rows'[m + 1] = Row(d, p, 1, -1)
    BY <2>1, <1>1, <1>2, <1>5, <1>6, <1>7, <1>m, RowAppended
  <2>3. Visited' \cup {d} = V \cup {d}
    BY <2>1, <1>3
  <2> QED BY <2>2, <2>3
<1>9. RowsHold(Visited)'
  <2>1. Visited' \cup {d} = Visited'
    BY <1>3
  <2> QED BY <2>1, <1>8
<1>10. /\ iterstack \in Seq(Nat) /\ Len(iterstack) = n
       /\ \A i \in 1..n : iterstack[i] \in 1..m /\ rows[iterstack[i]].of = frames[i].dir
  BY <1>0, <1>m, <1>1 DEF StackHolds
<1>11. /\ iterstack' \in Seq(Nat) /\ Len(iterstack') = n + 1 /\ iterstack'[n + 1] = m + 1
       /\ \A i \in 1..n : iterstack'[i] = iterstack[i]
  BY <1>3, <1>7, <1>8, <1>10
<1>12. 1..n + 1 = 1..n \cup {n + 1} /\ 1..m + 1 = 1..m \cup {m + 1}
  BY <1>3, <1>8
<1>13. Row(d, p, 1, -1).of = d /\ Row(d, p, 1, -1).parent = p /\ Frame(d).dir = d
  BY DEF Row, Frame
<1>14. StackHolds'
  <2>1. ASSUME NEW i \in 1..n + 1
        PROVE iterstack'[i] \in 1..m + 1 /\ rows'[iterstack'[i]].of = frames'[i].dir
    <3>1. CASE i \in 1..n
      <4>1. iterstack[i] \in 1..m /\ rows[iterstack[i]].of = frames[i].dir /\ iterstack'[i] = iterstack[i]
        BY <3>1, <1>10, <1>11
      <4>2. iterstack'[i] \in 1..m + 1
        BY <4>1, <1>12
      <4> QED BY <3>1, <4>1, <4>2, <1>3, <1>8
    <3>2. CASE i = n + 1
      BY <3>2, <1>3, <1>8, <1>11, <1>12, <1>13
    <3> QED BY <3>1, <3>2, <1>12
  <2> QED BY <2>1, <1>3, <1>8, <1>11 DEF StackHolds
<1>15. FilledHold(missed)'
  <2> SUFFICES ASSUME NEW r \in 1..Len(rows'), \A i \in 1..Len(iterstack') : iterstack'[i] # r
               PROVE  /\ rows'[r].size = Amount(Skipped', missed, Inside(Closed', rows'[r].of))
                      /\ rows'[r].hl = SumOf(Size, missed \cap Entries(Closed', rows'[r].of))
    BY DEF FilledHold
  <2>1. r \in 1..m /\ \A i \in 1..n : iterstack[i] # r
    BY <1>8, <1>11, <1>12
  <2>2. rows'[r] = rows[r]
    BY <2>1, <1>8
  <2> QED BY <2>1, <2>2, <1>1, <1>4, <1>10, <1>m DEF FilledHold
<1>16. PlaceHolds'
  <2> DEFINE path == [i \in 1..n + 1 |-> IF i = n + 1 THEN m + 1 ELSE iterstack[i]]
  <2>1. path \in [1..n + 1 -> 1..m + 1]
    BY <1>10, <1>12
  <2>2. path[n + 1] = m + 1 /\ \A i \in 1..n : path[i] = iterstack[i]
    BY <1>3, <1>12
  <2>3. ASSUME NEW i \in 1..n PROVE rows'[path[i + 1]].parent = path[i]
    <3>1. n # 0
      OBVIOUS
    <3>2. CASE i = n
      BY <3>1, <3>2, <2>2, <1>6, <1>8, <1>13
    <3>3. CASE i # n
      <4>1. i \in 1..n - 1 /\ i + 1 \in 1..n
        BY <3>3, <1>3
      <4>2. path[i + 1] = iterstack[i + 1] /\ rows'[iterstack[i + 1]] = rows[iterstack[i + 1]]
        BY <4>1, <2>2, <1>8, <1>10
      <4> QED BY <3>1, <4>1, <4>2, <2>2, <1>6
    <3> QED BY <3>2, <3>3
  <2>4. PICK q : q = path
    OBVIOUS
  <2> HIDE DEF path
  <2>5. q \in [1..currentdepth' + 1 -> 1..Len(rows')] /\ IsPath(q)'
    <3>1. \A i \in 1..n + 1 : q[i] = iterstack'[i]
      BY <2>2, <2>4, <1>11, <1>12
    <3> QED BY <3>1, <2>1, <2>2, <2>3, <2>4, <1>3, <1>7, <1>8 DEF IsPath
  <2>6. \E path1 \in [1..currentdepth' + 1 -> 1..Len(rows')] : IsPath(path1)'
    BY <2>5
  <2>7. rows' # <<>> /\ n \in Nat /\ n + 1 <= n + 1
    BY <1>3, <1>8
  <2> QED BY <2>6, <2>7, <1>3, <1>6, <1>7, <1>8 DEF PlaceHolds
<1>17. InodesHold(Visited', missed, hla')
  <2>1. d \notin Linked
    BY <1>2, EntriesAssumption, TreeAssumption
  <2>2. (Visited \cup {d}) \cap Linked = Visited \cap Linked
    BY <2>1
  <2> QED BY <2>2, <1>1, <1>2, <1>3 DEF InodesHold
<1> QED BY <1>3, <1>9, <1>14, <1>15, <1>16, <1>17 DEF WalkHolds
-----------------------------------------------------------------------------
LEMMA ElementReplaced ==
  ASSUME NEW R, NEW s \in Seq(R), NEW i \in 1..Len(s), NEW e \in R, NEW t, t = [s EXCEPT ![i] = e]
  PROVE  /\ t \in Seq(R) /\ Len(t) = Len(s) /\ t[i] = e
         /\ \A q \in 1..Len(s) : q # i => t[q] = s[q]
BY ExceptSeq

(* What filling the row on top of iterstack leaves.                        *)
LEMMA RowFilled ==
  ASSUME FramesHold, RowsHold(Visited), StackHolds, frames # <<>>, opening = NoDir,
         NEW missed, AmountsHold(missed), FilledHold(missed), Top.next > Len(Kids[Top.dir]),
         NEW r, r = Last(iterstack),
         rows' = [rows EXCEPT ![r].of = Top.dir, ![r].size = Top.size,
                              ![r].elements = Top.elements, ![r].hl = Top.hl],
         iterstack' = Front(iterstack), UNCHANGED <<excluded, current_location>>
  PROVE  /\ r = iterstack[Len(frames)] /\ r \in 1..Len(rows) /\ Len(rows') = Len(rows)
         /\ iterstack' \in Seq(Nat) /\ Len(iterstack') = Len(frames) - 1
         /\ \A i \in 1..Len(frames) - 1 : iterstack'[i] = iterstack[i]
         /\ SeenOf(Len(frames)) = Inside(Closed, Top.dir)
         /\ IsMax(Top.depth, Heights(Closed, Top.dir))
         /\ Top.size = Amount(Skipped, missed, Inside(Closed, Top.dir))
         /\ \A q \in 1..Len(rows) : rows'[q].of = rows[q].of /\ rows'[q].parent = rows[q].parent
         /\ rows' \in Seq(RowRecords) /\ FilledHold(missed)'
<1>0. PICK n : n = Len(frames)
  OBVIOUS
<1>1. /\ n \in 1..n /\ n \in Nat /\ Top = frames[n] /\ Top \in FrameRecords /\ Top.dir \in Dirs \ Closed
      /\ Handled(n) = Top.next - 1 /\ Handled(n) \in 0..Len(Kids[Top.dir])
      /\ Len(Kids[Top.dir]) \in Nat /\ Top.next \in Nat
  BY <1>0, FrontFrames, FramesAre DEF FrameRecords
<1>2. Handled(n) = Len(Kids[Top.dir])
  BY <1>1
<1>3. SeenOf(n) = Inside(Closed, Top.dir) /\ HeightsIn(Closed, Top.dir, Handled(n)) = Heights(Closed, Top.dir)
      /\ FirstEntries(Top.dir, Handled(n)) = Entries(Closed, Top.dir)
  BY <1>1, <1>2, AllEntries, KidsAre DEF SeenOf
<1>4. /\ Top.size = Amount(Skipped, missed, Inside(Closed, Top.dir))
      /\ Top.hl = SumOf(Size, missed \cap Entries(Closed, Top.dir))
      /\ IsMax(Top.depth, Heights(Closed, Top.dir))
  BY <1>0, <1>1, <1>3 DEF AmountsHold
<1>5. /\ iterstack \in Seq(Nat) /\ Len(iterstack) = n /\ iterstack # <<>>
      /\ \A i \in 1..n : iterstack[i] \in 1..Len(rows) /\ rows[iterstack[i]].of = frames[i].dir
  BY <1>0, <1>1 DEF StackHolds
<1>6. /\ r = iterstack[n] /\ iterstack' \in Seq(Nat) /\ Len(iterstack') = n - 1
      /\ \A i \in 1..n - 1 : iterstack'[i] = iterstack[i]
  BY <1>5, FrontsAre
<1>7. r \in 1..Len(rows) /\ rows[r].of = Top.dir
  BY <1>1, <1>5, <1>6
<1>8. /\ rows \in Seq(RowRecords) /\ Len(rows) \in Nat /\ DOMAIN rows = 1..Len(rows)
      /\ \A q \in 1..Len(rows) : rows[q] \in RowRecords
  BY RowsAre DEF RowsHold
<1> DEFINE new == [rows[r] EXCEPT !.of = Top.dir, !.size = Top.size,
                                  !.elements = Top.elements, !.hl = Top.hl]
<1>9. new \in RowRecords /\ new.of = Top.dir /\ new.parent = rows[r].parent
      /\ new.size = Top.size /\ new.hl = Top.hl
  <2>1. rows[r] \in RowRecords
    BY <1>7, <1>8
  <2>2. Top.dir \in Dirs /\ Top.size \in Nat /\ Top.elements \in Int /\ Top.hl \in Nat
    BY <1>1 DEF FrameRecords
  <2>3. new \in RowRecords
    BY <2>1, <2>2 DEF RowRecords
  <2>4. new.of = Top.dir /\ new.parent = rows[r].parent /\ new.size = Top.size /\ new.hl = Top.hl
    BY <2>1 DEF RowRecords
  <2> QED BY <2>3, <2>4
<1>10. rows' = [rows EXCEPT ![r] = new]
  OBVIOUS
<1> HIDE DEF new
<1>11. /\ rows' \in Seq(RowRecords) /\ Len(rows') = Len(rows) /\ rows'[r] = new
       /\ \A q \in 1..Len(rows) : q # r => rows'[q] = rows[q]
  BY ONLY <1>7, <1>8, <1>9, <1>10, ElementReplaced
<1>12. \A q \in 1..Len(rows) : rows'[q].of = rows[q].of /\ rows'[q].parent = rows[q].parent
  BY <1>7, <1>9, <1>11
<1>13. FilledHold(missed)'
  <2> SUFFICES ASSUME NEW q \in 1..Len(rows'), \A i \in 1..Len(iterstack') : iterstack'[i] # q
               PROVE  /\ rows'[q].size = Amount(Skipped', missed, Inside(Closed', rows'[q].of))
                      /\ rows'[q].hl = SumOf(Size, missed \cap Entries(Closed', rows'[q].of))
    BY DEF FilledHold
  <2>1. Closed' = Closed /\ Skipped' = Skipped
    BY DEF Closed, Skipped
  <2>4. q \in 1..Len(rows) /\ \A i \in 1..n - 1 : iterstack[i] # q
    BY <1>6, <1>11
  <2>2. CASE q = r
    BY <2>1, <2>2, <1>4, <1>7, <1>9, <1>11
  <2>3. CASE q # r
    <3>1. \A i \in 1..n : iterstack[i] # q
      BY <2>3, <2>4, <1>1, <1>6
    <3> QED BY <2>1, <2>3, <2>4, <3>1, <1>5, <1>11 DEF FilledHold
  <2> QED BY <2>2, <2>3
<1> QED BY <1>0, <1>3, <1>4, <1>6, <1>7, <1>11, <1>12, <1>13

LEMMA RowsHoldStill ==
  ASSUME NEW V, RowsHold(V), rows' \in Seq(RowRecords), Len(rows') = Len(rows),
         \A q \in 1..Len(rows) : rows'[q].of = rows[q].of /\ rows'[q].parent = rows[q].parent,
         UNCHANGED <<excluded, current_location>>
  PROVE  RowsHold(V)'
<1>1. Closed' = Closed /\ Len(rows) \in Nat
  BY RowsAre DEF Closed, Skipped
<1>2. ASSUME NEW r \in 1..Len(rows)
      PROVE  IF r = 1 THEN rows'[r].parent = 0 /\ rows'[r].of = current_location'
             ELSE /\ rows'[r].parent \in 1..r - 1
                  /\ rows'[r].of \in Entries(Closed', rows'[rows'[r].parent].of)
  <2>1. IF r = 1 THEN rows[r].parent = 0 /\ rows[r].of = current_location
        ELSE /\ rows[r].parent \in 1..r - 1
             /\ rows[r].of \in Entries(Closed, rows[rows[r].parent].of)
    BY DEF RowsHold
  <2>2. r # 1 => rows[r].parent \in 1..Len(rows)
    BY <2>1, <1>1
  <2> QED BY <2>1, <2>2, <1>1
<1>3. {rows'[r].of : r \in 1..Len(rows)} = (V \cap Dirs) \ Closed
  <2>1. {rows'[r].of : r \in 1..Len(rows)} = {rows[r].of : r \in 1..Len(rows)}
    OBVIOUS
  <2> QED BY <2>1 DEF RowsHold
<1>4. \A r \in 1..Len(rows) : \A q \in 1..Len(rows) : rows'[r].of = rows'[q].of => r = q
  BY DEF RowsHold
<1> QED BY <1>1, <1>2, <1>3, <1>4 DEF RowsHold

(* The row of the folder on top is filled, and there is a folder above it. *)
LEMMA FillInside ==
  ASSUME excluded \subseteq Dirs, NEW missed \in SUBSET Linked, WalkHolds(missed),
         FillModel(FALSE), Live(Last(iterstack)), Len(frames) # 1
  PROVE  WalkHolds(missed)'
<1>0. PICK n : n = Len(frames)
  OBVIOUS
<1>1. /\ FramesHold /\ AmountsHold(missed) /\ RowsHold(Visited) /\ FilledHold(missed)
      /\ StackHolds /\ PlaceHolds /\ InodesHold(Visited, missed, hla)
  BY DEF WalkHolds
<1>2. /\ frames # <<>> /\ opening = NoDir /\ opening' = NoDir /\ Top.next > Len(Kids[Top.dir])
      /\ UNCHANGED <<excluded, current_location>>
      /\ UNCHANGED <<currentdepth, currentiter, firstiter, hla>>
      /\ iterstack' = Front(iterstack) /\ frames' = Returned(Front(frames), Top.size, Top.depth)
      /\ rows' = [rows EXCEPT ![Last(iterstack)].of = Top.dir, ![Last(iterstack)].size = Top.size,
                              ![Last(iterstack)].elements = Top.elements,
                              ![Last(iterstack)].hl = Top.hl]
  BY DEF FillModel, Reading, Leave
<1>3. /\ Len(rows') = Len(rows) /\ iterstack' \in Seq(Nat) /\ Len(iterstack') = n - 1
      /\ \A i \in 1..n - 1 : iterstack'[i] = iterstack[i]
      /\ SeenOf(n) = Inside(Closed, Top.dir)
      /\ IsMax(Top.depth, Heights(Closed, Top.dir))
      /\ Top.size = Amount(Skipped, missed, Inside(Closed, Top.dir))
      /\ \A q \in 1..Len(rows) : rows'[q].of = rows[q].of /\ rows'[q].parent = rows[q].parent
      /\ rows' \in Seq(RowRecords) /\ FilledHold(missed)'
  <2>1. PICK r : r = Last(iterstack)
    OBVIOUS
  <2> QED BY <2>1, <1>0, <1>1, <1>2, RowFilled
<1>4. /\ n \in Nat /\ n \in 1..n /\ n - 1 \in 1..n /\ n - 1 \in Nat /\ Top = frames[n]
      /\ Top \in FrameRecords /\ Top.dir \in Dirs \ Closed
      /\ Front(frames) = SubSeq(frames, 1, n - 1) /\ frames \in Seq(FrameRecords)
  <2>1. /\ n \in Nat /\ n \in 1..n /\ Top = frames[n]
        /\ Top \in FrameRecords /\ Top.dir \in Dirs \ Closed
        /\ Front(frames) = SubSeq(frames, 1, n - 1)
    BY <1>0, <1>1, <1>2, FrontFrames
  <2>2. n # 1
    BY <1>0
  <2> QED BY <2>1, <2>2, <1>1 DEF FramesHold
<1>k. PICK k : k = n - 1
  OBVIOUS
<1>x. PICK x : x = Top.dir
  OBVIOUS
<1>5. /\ Front(frames) \in Seq(FrameRecords) /\ Len(Front(frames)) = k /\ Front(frames) # <<>>
      /\ \A i \in 1..k : Front(frames)[i] = frames[i]
  BY <1>0, <1>2, <1>4, <1>k, FrontsAre
<1>6. /\ Last(Front(frames)) = frames[k] /\ Front(Front(frames)) = SubSeq(frames, 1, k - 1)
      /\ frames[k] \in FrameRecords
  <2>1. Last(Front(frames)) = Front(frames)[k] /\ Front(Front(frames)) = SubSeq(Front(frames), 1, k - 1)
    BY <1>5, FrontsAre
  <2>2. k \in 1..k /\ k \in 1..Len(frames) /\ k \in Nat
    BY <1>0, <1>4, <1>k
  <2>3. SubSeq(Front(frames), 1, k - 1) = SubSeq(frames, 1, k - 1)
    <3> DEFINE s == SubSeq(frames, 1, k - 1)
               t == SubSeq(Front(frames), 1, k - 1)
    <3>1. s \in Seq(FrameRecords) /\ Len(s) = k - 1 /\ \A i \in 1..k - 1 : s[i] = frames[i]
      <4> HIDE DEF FrameRecords
      <4>1. k - 1 \in 0..Len(frames) /\ k - 1 \in Nat
        BY <2>2
      <4> QED BY <4>1, <1>4
    <3>2. t \in Seq(FrameRecords) /\ Len(t) = k - 1 /\ \A i \in 1..k - 1 : t[i] = Front(frames)[i]
      <4> HIDE DEF FrameRecords
      <4>1. k - 1 \in 0..Len(Front(frames)) /\ k - 1 \in Nat
        BY <2>2, <1>5
      <4> QED BY <4>1, <1>5
    <3>3. \A i \in 1..k - 1 : s[i] = t[i]
      BY <3>1, <3>2, <1>5, <2>2
    <3> HIDE DEF s, t, FrameRecords
    <3>4. s = t
      BY <3>1, <3>2, <3>3, SeqEqual
    <3> QED BY <3>4 DEF s, t
  <2> QED BY <2>1, <2>2, <2>3, <1>1, <1>5, FramesAre
<1>7. Top.size \in Nat /\ Top.depth \in Nat
  BY <1>4 DEF FrameRecords
<1> DEFINE f == Grown(frames[k], Top.size, Top.depth)
<1>8. frames' = Append(SubSeq(frames, 1, k - 1), f)
  BY <1>2, <1>5, <1>6 DEF Returned, Grown
<1>9. /\ f \in FrameRecords /\ f.dir = frames[k].dir /\ f.next = frames[k].next
      /\ f.size = frames[k].size + Top.size /\ f.hl = frames[k].hl
      /\ f.depth = IF Top.depth + 1 > frames[k].depth THEN Top.depth + 1 ELSE frames[k].depth
  BY <1>6, <1>7, FrameGrown, Zenon
<1> HIDE DEF f
<1>10. /\ k \in 1..Len(frames) /\ IsNext(k, x) /\ Handled(k) = frames[k].next - 2
       /\ frames[k].next \in Nat /\ frames[k].depth \in Nat /\ frames[k].hl \in Nat
  <2>1. k \in 1..n /\ k < n /\ n = k + 1
    BY <1>4, <1>k
  <2>2. IsNext(k, Kids[frames[k].dir][Handled(k) + 1]) /\ Kids[frames[k].dir][Handled(k) + 1] = x
    BY <2>1, <1>0, <1>1, <1>4, <1>x DEF FramesHold
  <2>3. Handled(k) = frames[k].next - 2
    BY <2>1, <1>0 DEF Handled
  <2> QED BY <2>1, <2>2, <2>3, <1>0, <1>6 DEF FrameRecords
<1>11. x \notin missed /\ SumOf(Size, missed \cap {x}) = 0
  <2>1. x \notin missed
    BY <1>4, <1>x, TreeAssumption, EntriesAssumption
  <2> QED BY <2>1, NothingMissed
<1>12. Advances(k, x, missed, missed)
  <2>1. IsMax(f.depth, {frames[k].depth} \cup Raised(Closed, x))
    BY <1>3, <1>9, <1>10, <1>x, DepthRaised
  <2>2. f.next = Handled(k) + 2 /\ f.hl = frames[k].hl + SumOf(Size, missed \cap {x})
    BY <1>9, <1>10, <1>11
  <2>3. f.size = frames[k].size + Amount(Skipped, missed, Inside(Closed, x))
    BY <1>3, <1>9, <1>x
  <2> QED BY <2>1, <2>2, <2>3, <1>1, <1>2, <1>8, <1>9, <1>10, TopAdvances
<1>13. FramesHold' /\ AmountsHold(missed)'
  BY <1>1, <1>10, <1>12, AdvanceFrames, AdvanceAmounts
<1>14. Visited' = Visited
  <2>1. Visited' = (UNION {SeenOf(i) : i \in 1..k}) \cup Inside(Closed, x)
    <3>1. FramesHold /\ IsNext(k, x) /\ k \in 1..Len(frames)
      BY <1>1, <1>10
    <3> QED BY ONLY <3>1, <1>12, AdvanceVisited
  <2>2. 1..n = 1..k \cup {n}
    BY <1>4, <1>k
  <2>3. Visited = (UNION {SeenOf(i) : i \in 1..k}) \cup SeenOf(n)
    BY <2>2, <1>0 DEF Visited
  <2> QED BY <2>1, <2>3, <1>3, <1>x
<1>15. RowsHold(Visited)'
  <2>1. PICK V : V = Visited
    OBVIOUS
  <2>2. RowsHold(V)'
    BY <2>1, <1>1, <1>2, <1>3, RowsHoldStill
  <2> QED BY <2>1, <2>2, <1>14
<1>16. /\ Len(frames') = k /\ \A i \in 1..k : frames'[i].dir = frames[i].dir
  <2>1. \A i \in 1..k : i \in 1..k - 1 \/ i = k
    BY <1>10
  <2> QED BY <2>1, <1>12 DEF Advances
<1>17. StackHolds'
  <2>1. ASSUME NEW i \in 1..k
        PROVE iterstack'[i] \in 1..Len(rows') /\ rows'[iterstack'[i]].of = frames'[i].dir
    <3>1. i \in 1..Len(frames) /\ i \in 1..n - 1
      BY <1>0, <1>4, <1>k
    <3>2. iterstack[i] \in 1..Len(rows) /\ rows[iterstack[i]].of = frames[i].dir
      BY <3>1, <1>1 DEF StackHolds
    <3> QED BY <3>1, <3>2, <1>3, <1>16
  <2> QED BY <2>1, <1>3, <1>16, <1>k DEF StackHolds
<1>18. PlaceHolds'
  <2>1. /\ rows # <<>> /\ rows' # <<>> /\ Len(rows) \in Nat
    <3>1. iterstack[n] \in 1..Len(rows) /\ Len(rows) \in Nat
      BY <1>0, <1>1, <1>4, RowsAre DEF StackHolds
    <3> QED BY <3>1, <1>3
  <2>2. /\ firstiter = 1 /\ currentiter = Len(rows)
        /\ currentdepth \in Nat /\ n <= currentdepth + 1
        /\ \E path \in [1..currentdepth + 1 -> 1..Len(rows)] : IsPath(path)
    BY <2>1, <1>0, <1>1 DEF PlaceHolds
  <2>3. PICK path \in [1..currentdepth + 1 -> 1..Len(rows)] : IsPath(path)
    BY <2>2
  <2>4. /\ path[currentdepth + 1] = currentiter
        /\ \A i \in 1..currentdepth : rows[path[i + 1]].parent = path[i]
        /\ \A i \in 1..n : path[i] = iterstack[i]
    BY <2>3, <1>0 DEF IsPath
  <2>5. \A i \in 1..k : path[i] = iterstack'[i]
    BY <2>4, <1>3, <1>4, <1>k
  <2>6. \A i \in 1..currentdepth : rows'[path[i + 1]].parent = path[i]
    <3> SUFFICES ASSUME NEW i \in 1..currentdepth PROVE rows'[path[i + 1]].parent = path[i]
      OBVIOUS
    <3>1. i + 1 \in 1..currentdepth + 1
      BY <2>2
    <3>2. path[i + 1] \in 1..Len(rows)
      BY <3>1, <2>3
    <3> QED BY <3>2, <2>4, <1>3
  <2>7. IsPath(path)'
    BY <2>3, <2>4, <2>5, <2>6, <1>2, <1>3, <1>16 DEF IsPath
  <2>8. k <= currentdepth + 1
    BY <2>2, <1>4, <1>k
  <2> QED BY <2>1, <2>2, <2>3, <2>7, <2>8, <1>2, <1>3, <1>16 DEF PlaceHolds
<1>19. InodesHold(Visited', missed, hla')
  BY <1>1, <1>2, <1>14
<1> QED BY <1>3, <1>13, <1>15, <1>17, <1>18, <1>19 DEF WalkHolds
-----------------------------------------------------------------------------
(* The folder that is scanned has been read.                               *)
LEMMA FillLast ==
  ASSUME excluded \subseteq Dirs, NEW missed \in SUBSET Linked, WalkHolds(missed),
         FillModel(FALSE), Live(Last(iterstack)), Len(frames) = 1
  PROVE  DoneHolds(missed)'
<1>1. /\ FramesHold /\ AmountsHold(missed) /\ RowsHold(Visited) /\ FilledHold(missed)
      /\ StackHolds /\ InodesHold(Visited, missed, hla)
  BY DEF WalkHolds
<1>2. /\ frames # <<>> /\ opening = NoDir /\ Top.next > Len(Kids[Top.dir])
      /\ UNCHANGED <<excluded, current_location>> /\ hla' = hla
      /\ iterstack' = Front(iterstack)
      /\ model_max_depth' = IF Front(frames) = <<>> THEN Top.depth ELSE model_max_depth
      /\ rows' = [rows EXCEPT ![Last(iterstack)].of = Top.dir, ![Last(iterstack)].size = Top.size,
                              ![Last(iterstack)].elements = Top.elements,
                              ![Last(iterstack)].hl = Top.hl]
  BY DEF FillModel, Reading, Leave
<1>3. /\ Len(rows') = Len(rows) /\ iterstack' \in Seq(Nat) /\ Len(iterstack') = 0
      /\ SeenOf(1) = Inside(Closed, Top.dir)
      /\ IsMax(Top.depth, Heights(Closed, Top.dir))
      /\ \A q \in 1..Len(rows) : rows'[q].of = rows[q].of /\ rows'[q].parent = rows[q].parent
      /\ rows' \in Seq(RowRecords) /\ FilledHold(missed)'
  <2>1. PICK r : r = Last(iterstack)
    OBVIOUS
  <2>2. PICK n : n = Len(frames)
    OBVIOUS
  <2>3. /\ Len(rows') = Len(rows) /\ iterstack' \in Seq(Nat) /\ Len(iterstack') = n - 1
        /\ SeenOf(n) = Inside(Closed, Top.dir)
        /\ IsMax(Top.depth, Heights(Closed, Top.dir))
        /\ \A q \in 1..Len(rows) : rows'[q].of = rows[q].of /\ rows'[q].parent = rows[q].parent
        /\ rows' \in Seq(RowRecords) /\ FilledHold(missed)'
    BY ONLY <2>1, <2>2, <1>1, <1>2, RowFilled
  <2> QED BY <2>2, <2>3
<1>4. Front(frames) = <<>> /\ Top = frames[1] /\ Top.dir \in Dirs \ Closed
      /\ Top.dir = current_location
  <2>1. frames \in Seq(FrameRecords) /\ frames[1].dir = current_location
    BY <1>1, <1>2 DEF FramesHold
  <2>2. Front(frames) = <<>>
    BY <2>1, <1>2, FrontsAre
  <2> QED BY <2>1, <2>2, <1>1, <1>2, FrontFrames
<1>5. Closed' = Closed /\ Scanned' = Scanned
  BY <1>2 DEF Closed, Skipped, Scanned
<1>6. Visited = Scanned
  <2>1. 1..Len(frames) = {1}
    OBVIOUS
  <2> QED BY <2>1, <1>3, <1>4 DEF Visited, Scanned
<1>7. RowsHold(Scanned)'
  <2>1. PICK V : V = Visited
    OBVIOUS
  <2>2. RowsHold(V)'
    BY <2>1, <1>1, <1>2, <1>3, RowsHoldStill
  <2> QED BY <2>1, <2>2, <1>5, <1>6
<1>8. iterstack' = <<>>
  BY <1>3, EmptySeq
<1>9. IsMax(model_max_depth, Heights(Closed, current_location))'
  <2>1. model_max_depth' = Top.depth /\ current_location' = Top.dir
    BY <1>2, <1>4
  <2> QED BY <2>1, <1>3, <1>5
<1>10. InodesHold(Scanned', missed, hla')
  BY <1>1, <1>2, <1>5, <1>6
<1> QED BY <1>2, <1>3, <1>4, <1>7, <1>8, <1>9, <1>10 DEF DoneHolds

(* The folder that is scanned cannot be read, or is skipped.               *)
LEMMA ClosedLast ==
  ASSUME excluded \subseteq Dirs, NEW missed \in SUBSET Linked, WalkHolds(missed),
         frames = <<>>, opening \in Closed, model_max_depth' = 0,
         UNCHANGED <<excluded, current_location, rows, iterstack, hla>>
  PROVE  DoneHolds(missed)'
<1>1. /\ FramesHold /\ RowsHold(Visited) /\ FilledHold(missed)
      /\ StackHolds /\ InodesHold(Visited, missed, hla)
  BY DEF WalkHolds
<1>2. Visited = {} /\ rows = <<>> /\ opening = current_location
  BY <1>1, NoRowsYet
<1>3. current_location \in Dirs /\ Scanned = {current_location} /\ current_location \notin Linked
      /\ Heights(Closed, current_location) = {0}
  BY <1>2, ClosedAre, InsideAlone, HeightsOfClosed, EntriesAssumption, TreeAssumption DEF Scanned
<1>4. Closed' = Closed /\ Scanned' = Scanned /\ Skipped' = Skipped
  BY DEF Closed, Skipped, Scanned
<1>5. RowsHold(Scanned)'
  <2>1. (Scanned \cap Dirs) \ Closed = (Visited \cap Dirs) \ Closed
    BY <1>2, <1>3
  <2> QED BY <2>1, <1>1, <1>4 DEF RowsHold
<1>6. FilledHold(missed)'
  BY <1>1, <1>4 DEF FilledHold
<1>7. iterstack = <<>>
  <2>1. iterstack \in Seq(Nat) /\ Len(iterstack) = 0
    BY <1>1 DEF StackHolds
  <2> QED BY <2>1, EmptySeq
<1>8. InodesHold(Scanned', missed, hla')
  <2>1. Scanned \cap Linked = Visited \cap Linked
    BY <1>2, <1>3
  <2> QED BY <2>1, <1>1, <1>4 DEF InodesHold
<1>9. IsMax(model_max_depth, Heights(Closed, current_location))'
  BY <1>3, <1>4 DEF IsMax
<1> QED BY <1>3, <1>5, <1>6, <1>7, <1>8, <1>9 DEF DoneHolds

(* Before the folder is opened that is scanned.                            *)
LEMMA WalkBegins ==
  ASSUME frames' = <<>>, rows' = <<>>, iterstack' = <<>>, currentdepth' = -1, hla' = {},
         opening' = current_location'
  PROVE  WalkHolds({})'
<1>1. /\ Len(frames') = 0 /\ 1..Len(frames') = {} /\ frames' \in Seq(FrameRecords)
      /\ Len(rows') = 0 /\ 1..Len(rows') = {} /\ rows' \in Seq(RowRecords)
      /\ iterstack' \in Seq(Nat) /\ Len(iterstack') = 0
  BY EmptySeq
<1>2. Visited' = {}
  BY <1>1 DEF Visited
<1>3. FramesHold'
  BY <1>1 DEF FramesHold
<1>4. AmountsHold({})'
  BY <1>1 DEF AmountsHold
<1>5. RowsHold(Visited)'
  <2>1. {rows'[r].of : r \in 1..Len(rows')} = (Visited' \cap Dirs) \ Closed'
    BY <1>1, <1>2
  <2> QED BY <1>1, <2>1 DEF RowsHold
<1>6. FilledHold({})'
  BY <1>1 DEF FilledHold
<1>7. StackHolds'
  BY <1>1 DEF StackHolds
<1>8. PlaceHolds'
  BY DEF PlaceHolds
<1>9. InodesHold(Visited', {}, hla')
  BY <1>2 DEF InodesHold
<1> QED BY <1>3, <1>4, <1>5, <1>6, <1>7, <1>8, <1>9 DEF WalkHolds
-----------------------------------------------------------------------------
CallsInv ==
  /\ excluded \subseteq Dirs /\ current_location \in Dirs \cup {NoDir}
  /\ calls \in Seq(Dirs \cup {NoDir}) /\ CallsHold
CalmWalk == calm /\ InWalk => ~STOP_SCANNING /\ \E missed \in SUBSET Linked : WalkHolds(missed)
CalmDone ==
  calm /\ stage \in {"finishing", "ready", "idle"} => \E missed \in SUBSET Linked : DoneHolds(missed)
WholeInv == CallsInv /\ CalmWalk /\ CalmDone

LEMMA DoneStays ==
  ASSUME NEW missed, DoneHolds(missed), UNCHANGED <<excluded, current_location, rows, hla, model_max_depth>>,
         iterstack' \in {iterstack, <<>>}
  PROVE  DoneHolds(missed)'
<1>1. Closed' = Closed /\ Scanned' = Scanned /\ Skipped' = Skipped
  BY DEF Closed, Skipped, Scanned
<1>2. /\ current_location \in Dirs
      /\ RowsHold(Scanned) /\ FilledHold(missed) /\ iterstack = <<>> /\ iterstack' = <<>>
      /\ InodesHold(Scanned, missed, hla) /\ IsMax(model_max_depth, Heights(Closed, current_location))
  BY DEF DoneHolds
<1>3. RowsHold(Scanned)'
  BY <1>1, <1>2 DEF RowsHold
<1>4. FilledHold(missed)'
  BY <1>1, <1>2 DEF FilledHold
<1> QED BY <1>1, <1>2, <1>3, <1>4 DEF DoneHolds

LEMMA WalkStays ==
  ASSUME NEW missed, WalkHolds(missed), UNCHANGED <<excluded, current_location, opening, frames, hla, tree>>
  PROVE  WalkHolds(missed)'
<1>1. /\ FramesHold /\ AmountsHold(missed) /\ RowsHold(Visited) /\ FilledHold(missed)
      /\ StackHolds /\ PlaceHolds /\ InodesHold(Visited, missed, hla)
  BY DEF WalkHolds
<1>2. /\ Closed' = Closed /\ Skipped' = Skipped /\ frames' = frames /\ opening' = opening
      /\ UNCHANGED <<rows, iterstack, currentdepth, currentiter, firstiter>>
  BY DEF Closed, Skipped, tree
<1>3. \A i \in 1..Len(frames) : Handled(i)' = Handled(i)
  BY <1>2 DEF Handled
<1>4. \A i \in 1..Len(frames) : SeenOf(i)' = SeenOf(i)
  BY <1>2, <1>3 DEF SeenOf
<1>5. Visited' = Visited
  <2>1. Visited' = UNION {SeenOf(i)' : i \in 1..Len(frames)}
    BY <1>2 DEF Visited
  <2> QED BY <2>1, <1>4 DEF Visited
<1>6. FramesHold'
  <2>1. ASSUME NEW i \in 1..Len(frames), NEW x, IsNext(i, x) PROVE IsNext(i, x)'
    BY <2>1, <1>2, <1>3 DEF IsNext
  <2>2. frames # <<>> /\ opening # NoDir => IsNext(Len(frames), opening)'
    <3> SUFFICES ASSUME frames # <<>>, opening # NoDir PROVE IsNext(Len(frames), opening)'
      OBVIOUS
    <3>1. Len(frames) \in 1..Len(frames) /\ IsNext(Len(frames), opening)
      BY <1>1, FrontFrames DEF FramesHold
    <3>2. Handled(Len(frames))' = Handled(Len(frames))
      BY <3>1, <1>2, <1>3
    <3> QED BY <3>1, <3>2, <1>2 DEF IsNext
  <2>3. ASSUME NEW i \in 1..Len(frames), NEW j \in 1..Len(frames), i < j
        PROVE  /\ IsNext(i, Kids[frames[i].dir][Handled(i) + 1])'
               /\ frames'[j].dir \in Inside(Closed, Kids[frames[i].dir][Handled(i) + 1])'
               /\ j = i + 1 => frames'[j].dir = (Kids[frames[i].dir][Handled(i) + 1])'
    <3> DEFINE y == Kids[frames[i].dir][Handled(i) + 1]
    <3>1. IsNext(i, y) /\ frames[j].dir \in Inside(Closed, y) /\ (j = i + 1 => frames[j].dir = y)
      BY <1>1, <2>3 DEF FramesHold
    <3>2. IsNext(i, y)'
      BY <3>1, <1>2, <1>3 DEF IsNext
    <3> QED BY <3>1, <3>2, <1>2, <1>3
  <2>4. \A i \in 1..Len(frames) :
          frames'[i].dir \notin Closed' /\ Handled(i)' \in 0..Len(Kids[frames'[i].dir])
    BY <1>1, <1>2, <1>3 DEF FramesHold
  <2>5. IF frames' = <<>> THEN opening' = current_location'
        ELSE /\ frames'[1].dir = current_location'
             /\ opening' # NoDir => opening' \in Dirs
    BY <1>1, <1>2 DEF FramesHold
  <2>6. frames' \in Seq(FrameRecords)
    BY <1>1, <1>2 DEF FramesHold
  <2> QED BY <1>2, <2>2, <2>3, <2>4, <2>5, <2>6 DEF FramesHold
<1>7. AmountsHold(missed)'
  BY <1>1, <1>2, <1>3, <1>4 DEF AmountsHold
<1>8. RowsHold(Visited)'
  BY <1>1, <1>2, <1>5 DEF RowsHold
<1>9. FilledHold(missed)'
  BY <1>1, <1>2 DEF FilledHold
<1>10. StackHolds'
  BY <1>1, <1>2 DEF StackHolds
<1>11. PlaceHolds'
  BY <1>1, <1>2 DEF PlaceHolds, IsPath
<1>12. InodesHold(Visited', missed, hla')
  BY <1>1, <1>5
<1> QED BY <1>6, <1>7, <1>8, <1>9, <1>10, <1>11, <1>12 DEF WalkHolds
-----------------------------------------------------------------------------
LEMMA WholeInvInit == ScanInit => WholeInv
<1> SUFFICES ASSUME ScanInit PROVE WholeInv
  OBVIOUS
<1>1. excluded \subseteq Dirs
  BY TreeAssumption DEF ScanInit, SanityChecked
<1>2. /\ current_location \in Dirs \cup {NoDir} /\ calls = <<>> /\ STOP_SCANNING = TRUE
      /\ calm = FALSE
  BY DEF ScanInit
<1>3. calls \in Seq(Dirs \cup {NoDir}) /\ CallsHold
  BY <1>2, EmptySeq DEF CallsHold
<1> QED BY <1>1, <1>2, <1>3 DEF WholeInv, CallsInv, CalmWalk, CalmDone

(* Steps that leave the calls as they are.                                 *)
LEMMA CallsStay ==
  ASSUME CallsInv, UNCHANGED <<excluded, current_location, calls>>,
         \/ stage' # "starting" \/ STOP_SCANNING' = TRUE
         \/ UNCHANGED <<stage, STOP_SCANNING>>
  PROVE  CallsInv'
BY DEF CallsInv, CallsHold

LEMMA BeginsScanCalls ==
  ASSUME CallsInv, NEW l \in Dirs \cup {NoDir}, BeginsScan(l)
  PROVE  CallsInv'
<1>1. calls' = Append(calls, l) /\ current_location' = l /\ excluded' = excluded
  BY DEF BeginsScan
<1>2. calls' \in Seq(Dirs \cup {NoDir}) /\ Last(calls') = l
  BY <1>1 DEF CallsInv, Last
<1> QED BY <1>1, <1>2 DEF CallsInv, CallsHold

LEMMA UndefinedCalls ==
  ASSUME CallsInv, Undefined
  PROVE  CallsInv'
<1>1. calls' = <<>> /\ UNCHANGED <<excluded, current_location>> /\ stage' = "undefined"
  BY DEF Undefined
<1> QED BY <1>1, EmptySeq DEF CallsInv, CallsHold

LEMMA CallsKept ==
  ASSUME CallsInv, [ScanNext]_scanvars
  PROVE  CallsInv'
<1>1. ASSUME NEW failed, BeginWalk(failed) PROVE CallsInv'
  BY <1>1, CallsStay DEF BeginWalk
<1>2. CASE LoopdirSkips
  BY <1>2, CallsStay DEF LoopdirSkips, WalkOn
<1>3. CASE LoopdirCannotRead
  BY <1>3, CallsStay DEF LoopdirCannotRead, WalkOn
<1>4. CASE LoopdirOpens
  BY <1>4, CallsStay, UndefinedCalls DEF LoopdirOpens
<1>5. CASE StopSeen
  BY <1>5, CallsStay DEF StopSeen, WalkOn
<1>6. CASE EnterDir
  BY <1>6, CallsStay DEF EnterDir
<1>7. CASE CountFile
  BY <1>7, CallsStay DEF CountFile
<1>8. CASE IgnoreOther
  BY <1>8, CallsStay DEF IgnoreOther
<1>9. ASSUME NEW failed, FillModel(failed) PROVE CallsInv'
  BY <1>9, CallsStay, UndefinedCalls DEF FillModel
<1>10. CASE Finish
  BY <1>10, CallsStay DEF Finish
<1>11. CASE Return
  <2>1. /\ calls' = Front(calls) /\ STOP_SCANNING' = TRUE
        /\ UNCHANGED <<excluded, current_location>>
    BY <1>11 DEF Return
  <2>2. calls' \in Seq(Dirs \cup {NoDir})
    <3>1. CASE calls = <<>>
      <4>1. Front(calls) = SubSeq(calls, 1, Len(calls) - 1) /\ Len(calls) = 0
        BY <3>1 DEF Front
      <4>2. SubSeq(calls, 1, -1) \in Seq(Dirs \cup {NoDir})
        BY DEF CallsInv
      <4> QED BY <2>1, <4>1, <4>2
    <3>2. CASE calls # <<>>
      <4>1. calls \in Seq(Dirs \cup {NoDir})
        BY DEF CallsInv
      <4> QED BY <2>1, <3>2, <4>1, FrontsAre
    <3> QED BY <3>1, <3>2
  <2> QED BY <2>1, <2>2 DEF CallsInv, CallsHold
<1>12. ASSUME NEW l \in Locations, RequestScan(l) PROVE CallsInv'
  <2>1. l \in Dirs \cup {NoDir}
    BY TreeAssumption
  <2> QED BY <1>12, <2>1, BeginsScanCalls DEF RequestScan
<1>13. CASE Stop
  BY <1>13, CallsStay DEF Stop
<1>14. CASE Quit
  BY <1>14, CallsStay DEF Quit
<1>15. CASE ToggleAllocatedSpace
  BY <1>15, CallsStay DEF ToggleAllocatedSpace
<1>16. ASSUME NEW uris \in SUBSET Excludable, ExcludedUrisChanged(uris) PROVE CallsInv'
  <2>1. uris \subseteq Dirs
    BY TreeAssumption
  <2>2. excluded' = uris /\ UNCHANGED <<stage, calls, current_location, STOP_SCANNING>>
    BY <1>16 DEF ExcludedUrisChanged
  <2> QED BY <2>1, <2>2 DEF CallsInv, CallsHold
<1>17. ASSUME NEW c, SwitchChart(c) PROVE CallsInv'
  BY <1>17, CallsStay DEF SwitchChart
<1>18. ASSUME NEW r, TrashDir(r) PROVE CallsInv'
  BY <1>18, CallsStay DEF TrashDir
<1>19. ASSUME NEW r, PressRow(r) PROVE CallsInv'
  <2>1. CASE BeginsScan(current_location)
    <3>1. current_location \in Dirs \cup {NoDir}
      BY DEF CallsInv
    <3> QED BY <2>1, <3>1, BeginsScanCalls
  <2>2. CASE ~BeginsScan(current_location)
    BY <1>19, <2>2, CallsStay DEF PressRow
  <2> QED BY <2>1, <2>2
<1>20. ASSUME NEW enable, MonitorHome(enable) PROVE CallsInv'
  BY <1>20, CallsStay DEF MonitorHome
<1>21. CASE HomeContentsChanged
  BY <1>21, CallsStay DEF HomeContentsChanged
<1>22. CASE UNCHANGED scanvars
  BY <1>22, CallsStay DEF scanvars, control
<1> QED BY <1>1, <1>2, <1>3, <1>4, <1>5, <1>6, <1>7, <1>8, <1>9, <1>10, <1>11, <1>12, <1>13,
           <1>14, <1>15, <1>16, <1>17, <1>18, <1>19, <1>20, <1>21, <1>22
           DEF ScanNext, ScanStep, Loopdir, UserStep
-----------------------------------------------------------------------------
(* Steps after which the scan is not calm, or nothing is said of it.       *)
LEMMA NotCalm ==
  ASSUME calm' = FALSE \/ stage' \in {"starting", "exit", "undefined"}
  PROVE  CalmWalk' /\ CalmDone'
BY DEF CalmWalk, CalmDone, InWalk

LEMMA UndefinedNotCalm ==
  ASSUME Undefined
  PROVE  CalmWalk' /\ CalmDone'
BY NotCalm DEF Undefined

LEMMA WalkGoesOn ==
  ASSUME stage' \in {"walking", "events"}, ~STOP_SCANNING',
         NEW missed \in SUBSET Linked, WalkHolds(missed)'
  PROVE  CalmWalk' /\ CalmDone'
BY DEF CalmWalk, CalmDone

LEMMA WalkEnds ==
  ASSUME stage' \in {"finishing", "ready", "idle"}, NEW missed \in SUBSET Linked, DoneHolds(missed)'
  PROVE  CalmWalk' /\ CalmDone'
BY DEF CalmWalk, CalmDone, InWalk

(* Steps that change nothing the invariant speaks of.                      *)
LEMMA CalmStays ==
  ASSUME WholeInv, UNCHANGED <<stage, STOP_SCANNING, calm, excluded, current_location, walk, tree>>
  PROVE  CalmWalk' /\ CalmDone'
<1>1. UNCHANGED <<excluded, current_location, opening, frames, hla, tree>>
      /\ UNCHANGED <<excluded, current_location, rows, hla, model_max_depth>>
      /\ iterstack' \in {iterstack, <<>>}
  BY DEF walk, tree
<1>2. ASSUME calm, InWalk, NEW missed \in SUBSET Linked, WalkHolds(missed), ~STOP_SCANNING
      PROVE  CalmWalk' /\ CalmDone'
  <2>1. WalkHolds(missed)'
    BY <1>1, <1>2, WalkStays
  <2> QED BY <1>2, <2>1 DEF CalmWalk, CalmDone, InWalk
<1>3. ASSUME calm, stage \in {"finishing", "ready", "idle"}, NEW missed \in SUBSET Linked,
             DoneHolds(missed)
      PROVE  CalmWalk' /\ CalmDone'
  <2>1. DoneHolds(missed)'
    BY <1>1, <1>3, DoneStays
  <2> QED BY <1>3, <2>1 DEF CalmWalk, CalmDone, InWalk
<1>4. CASE ~calm \/ (~InWalk /\ stage \notin {"finishing", "ready", "idle"})
  BY <1>4 DEF CalmWalk, CalmDone, InWalk
<1> QED BY <1>2, <1>3, <1>4 DEF WholeInv, CalmWalk, CalmDone

(* In a walk that is calm.                                                 *)
LEMMA CalmIs ==
  ASSUME WholeInv, calm, InWalk
  PROVE  /\ excluded \subseteq Dirs /\ ~STOP_SCANNING
         /\ \E missed \in SUBSET Linked : WalkHolds(missed)
BY DEF WholeInv, CallsInv, CalmWalk
-----------------------------------------------------------------------------
LEMMA ClosedFolderStep ==
  ASSUME WholeInv, calm, InWalk, opening \in Closed, NEW s,
         \A missed \in SUBSET Linked : s = Amount(Skipped, missed, {opening}),
         Leave(frames, s, 0), opening' = NoDir, stage' = WalkOn(frames),
         UNCHANGED <<excluded, current_location, STOP_SCANNING, tree, hla>>
  PROVE  CalmWalk' /\ CalmDone'
<1>1. excluded \subseteq Dirs /\ ~STOP_SCANNING /\ ~STOP_SCANNING'
  BY CalmIs
<1>2. PICK missed \in SUBSET Linked : WalkHolds(missed)
  BY CalmIs
<1>3. CASE frames = <<>>
  <2>1. model_max_depth' = 0 /\ stage' = "finishing"
    BY <1>3 DEF Leave, WalkOn
  <2>2. DoneHolds(missed)'
    BY <2>1, <1>1, <1>2, <1>3, ClosedLast DEF tree
  <2> QED BY <2>1, <2>2, WalkEnds
<1>4. CASE frames # <<>>
  <2>1. stage' = "walking" /\ s = Amount(Skipped, missed, {opening})
    BY <1>4 DEF WalkOn
  <2>2. WalkHolds(missed)'
    BY <2>1, <1>1, <1>2, <1>4, ClosedDealtWith
  <2> QED BY <2>1, <2>2, <1>1, WalkGoesOn
<1> QED BY <1>3, <1>4

LEMMA LoopdirCalm ==
  ASSUME WholeInv, calm, InWalk, Loopdir
  PROVE  CalmWalk' /\ CalmDone'
<1>1. excluded \subseteq Dirs /\ ~STOP_SCANNING
  BY CalmIs
<1>2. PICK missed \in SUBSET Linked : WalkHolds(missed)
  BY CalmIs
<1>3. CASE LoopdirSkips
  <2>1. \A m \in SUBSET Linked : 0 = Amount(Skipped, m, {opening})
    BY <1>3, AmountOfOne DEF LoopdirSkips
  <2>2. opening \in Closed
    BY <1>3 DEF LoopdirSkips, Closed
  <2> QED BY <2>1, <2>2, <1>3, ClosedFolderStep DEF LoopdirSkips
<1>4. CASE LoopdirCannotRead
  <2>1. opening \in Unreadable \ Skipped /\ opening \in Dirs
    BY <1>4, TreeAssumption DEF LoopdirCannotRead
  <2>2. opening \in Things \ Skipped /\ opening \notin Linked /\ opening \in Closed
    BY <2>1, TreeAssumption, EntriesAssumption DEF Things, Closed
  <2>3. \A m \in SUBSET Linked : Size[opening] = Amount(Skipped, m, {opening})
    BY <2>2, AmountOfOne
  <2> QED BY <2>2, <2>3, <1>4, ClosedFolderStep DEF LoopdirCannotRead
<1>5. CASE LoopdirOpens
  <2>1. CASE PlaceIsLive(Len(frames))
    <3>1. WalkHolds(missed)'
      BY <2>1, <1>1, <1>2, <1>5, LoopdirOpensStep
    <3>2. stage' = "events" /\ STOP_SCANNING' = STOP_SCANNING
      BY <2>1, <1>5 DEF LoopdirOpens
    <3> QED BY <3>1, <3>2, <1>1, WalkGoesOn
  <2>2. CASE ~PlaceIsLive(Len(frames))
    BY <2>2, <1>5, UndefinedNotCalm DEF LoopdirOpens
  <2> QED BY <2>1, <2>2
<1>6. CASE StopSeen
  BY <1>1, <1>6 DEF StopSeen
<1>7. CASE EnterDir
  <2>1. WalkHolds(missed)'
    BY <1>2, <1>7, EnterDirStep
  <2>2. stage' = "walking" /\ STOP_SCANNING' = STOP_SCANNING
    BY <1>7 DEF EnterDir
  <2> QED BY <2>1, <2>2, <1>1, WalkGoesOn
<1>8. CASE CountFile
  <2>1. PICK m \in SUBSET Linked : WalkHolds(m)'
    BY <1>1, <1>2, <1>8, CountFileStep
  <2>2. stage' = "walking" /\ STOP_SCANNING' = STOP_SCANNING
    BY <1>8 DEF CountFile
  <2> QED BY <2>1, <2>2, <1>1, WalkGoesOn
<1>9. CASE IgnoreOther
  <2>1. WalkHolds(missed)'
    BY <1>1, <1>2, <1>9, IgnoreOtherStep
  <2>2. stage' = "walking" /\ STOP_SCANNING' = STOP_SCANNING
    BY <1>9 DEF IgnoreOther
  <2> QED BY <2>1, <2>2, <1>1, WalkGoesOn
<1>10. CASE FillModel(FALSE)
  <2>1. CASE Live(Last(iterstack)) /\ Len(frames) = 1
    <3>1. DoneHolds(missed)'
      BY <2>1, <1>1, <1>2, <1>10, FillLast
    <3>2. stage' = "finishing"
      BY <2>1, <1>10 DEF FillModel
    <3> QED BY <3>1, <3>2, WalkEnds
  <2>2. CASE Live(Last(iterstack)) /\ Len(frames) # 1
    <3>1. WalkHolds(missed)'
      BY <2>2, <1>1, <1>2, <1>10, FillInside
    <3>2. stage' = "events" /\ STOP_SCANNING' = STOP_SCANNING
      BY <2>2, <1>10 DEF FillModel
    <3> QED BY <3>1, <3>2, <1>1, WalkGoesOn
  <2>3. CASE ~Live(Last(iterstack))
    BY <2>3, <1>10, UndefinedNotCalm DEF FillModel
  <2> QED BY <2>1, <2>2, <2>3
<1> QED BY <1>3, <1>4, <1>5, <1>6, <1>7, <1>8, <1>9, <1>10 DEF Loopdir

(* The steps of a scan that is not calm leave it so.                       *)
LEMMA LoopdirKeeps ==
  ASSUME Loopdir
  PROVE  InWalk /\ (~calm => ~calm')
<1>1. CASE LoopdirSkips
  BY <1>1 DEF LoopdirSkips
<1>2. CASE LoopdirCannotRead
  BY <1>2 DEF LoopdirCannotRead
<1>3. CASE LoopdirOpens
  BY <1>3 DEF LoopdirOpens, Undefined
<1>4. CASE StopSeen
  BY <1>4 DEF StopSeen, Reading
<1>5. CASE EnterDir
  BY <1>5 DEF EnterDir, AtEntry, Reading
<1>6. CASE CountFile
  BY <1>6 DEF CountFile, AtEntry, Reading
<1>7. CASE IgnoreOther
  BY <1>7 DEF IgnoreOther, Reading
<1>8. CASE FillModel(FALSE)
  BY <1>8 DEF FillModel, Reading, Undefined
<1> QED BY <1>1, <1>2, <1>3, <1>4, <1>5, <1>6, <1>7, <1>8 DEF Loopdir

LEMMA CalmKept ==
  ASSUME WholeInv, [ScanNext]_scanvars
  PROVE  CalmWalk' /\ CalmDone'
<1>1. ASSUME NEW failed \in BOOLEAN, BeginWalk(failed) PROVE CalmWalk' /\ CalmDone'
  <2>1. CASE failed \/ STOP_SCANNING
    BY <1>1, <2>1, NotCalm DEF BeginWalk
  <2>2. CASE ~failed /\ ~STOP_SCANNING
    <3>1. /\ stage = "starting" /\ stage' = "walking" /\ ~STOP_SCANNING'
          /\ frames' = <<>> /\ rows' = <<>> /\ iterstack' = <<>> /\ currentdepth' = -1 /\ hla' = {}
          /\ opening' = Last(calls) /\ current_location' = current_location
      BY <1>1, <2>2 DEF BeginWalk
    <3>2. opening' = current_location'
      BY <3>1, <2>2 DEF WholeInv, CallsInv, CallsHold
    <3>3. WalkHolds({})'
      BY <3>1, <3>2, WalkBegins
    <3>4. {} \in SUBSET Linked
      OBVIOUS
    <3> QED BY <3>1, <3>3, <3>4, WalkGoesOn
  <2> QED BY <2>1, <2>2
<1>2. CASE Loopdir
  <2>1. CASE calm
    BY <2>1, <1>2, LoopdirKeeps, LoopdirCalm
  <2>2. CASE ~calm
    <3>1. ~calm'
      BY <2>2, <1>2, LoopdirKeeps
    <3> QED BY <3>1 DEF CalmWalk, CalmDone
  <2> QED BY <2>1, <2>2
<1>3. CASE FillModel(TRUE)
  <2>1. ~calm'
    BY <1>3 DEF FillModel, Undefined
  <2> QED BY <2>1 DEF CalmWalk, CalmDone
<1>4. CASE Finish \/ Return
  <2>1. /\ stage \in {"finishing", "ready"} /\ ~InWalk' /\ calm' = calm
        /\ UNCHANGED <<excluded, current_location, rows, hla, model_max_depth>>
        /\ iterstack' \in {iterstack, <<>>}
    BY <1>4 DEF Finish, Return, walk, tree, InWalk
  <2>2. CASE ~calm
    BY <2>1, <2>2 DEF CalmWalk, CalmDone
  <2>3. CASE calm
    <3>1. PICK missed \in SUBSET Linked : DoneHolds(missed)
      BY <2>1, <2>3 DEF WholeInv, CalmDone
    <3>2. DoneHolds(missed)'
      BY <2>1, <3>1, DoneStays
    <3> QED BY <2>1, <3>2 DEF CalmWalk, CalmDone
  <2> QED BY <2>2, <2>3
<1>5. ASSUME NEW l, BeginsScan(l) PROVE CalmWalk' /\ CalmDone'
  BY <1>5, NotCalm DEF BeginsScan
<1>6. CASE Stop \/ Quit
  BY <1>6, NotCalm DEF Stop, Quit
<1>7. CASE ToggleAllocatedSpace
  BY <1>7, CalmStays DEF ToggleAllocatedSpace
<1>8. ASSUME NEW uris, ExcludedUrisChanged(uris) PROVE CalmWalk' /\ CalmDone'
  BY <1>8, NotCalm DEF ExcludedUrisChanged
<1>9. ASSUME NEW c, SwitchChart(c) PROVE CalmWalk' /\ CalmDone'
  BY <1>9, CalmStays DEF SwitchChart
<1>10. ASSUME NEW r, TrashDir(r) PROVE CalmWalk' /\ CalmDone'
  BY <1>10, NotCalm DEF TrashDir
<1>11. ASSUME NEW r, PressRow(r) PROVE CalmWalk' /\ CalmDone'
  BY <1>5, <1>11, CalmStays DEF PressRow
<1>12. ASSUME NEW enable, MonitorHome(enable) PROVE CalmWalk' /\ CalmDone'
  BY <1>12, CalmStays DEF MonitorHome
<1>13. CASE HomeContentsChanged
  BY <1>13, CalmStays DEF HomeContentsChanged
<1>14. CASE UNCHANGED scanvars
  BY <1>14, CalmStays DEF scanvars, control
<1>15. ASSUME NEW l, RequestScan(l) PROVE CalmWalk' /\ CalmDone'
  BY <1>5, <1>15 DEF RequestScan
<1> QED BY <1>1, <1>2, <1>3, <1>4, <1>6, <1>7, <1>8, <1>9, <1>10, <1>11, <1>12, <1>13, <1>14, <1>15
        DEF ScanNext, ScanStep, UserStep

(* The invariant holds whatever the user does and the disk fails to do.    *)
LEMMA WholeInvHolds == ScanSpec => []WholeInv
<1>1. WholeInv /\ [ScanNext]_scanvars => WholeInv'
  BY CallsKept, CalmKept DEF WholeInv
<1> QED BY <1>1, WholeInvInit, PTL DEF ScanSpec
-----------------------------------------------------------------------------
(* Two ways of adding that agree on S.                                     *)
LEMMA HlSum ==
  ASSUME NEW S, IsFiniteSet(S), NEW h, \A x \in S : h[x] = rows[x].hl /\ h[x] \in Nat
  PROVE  MapThenSumSet(LAMBDA x : rows[x].hl, S) = SumOf(h, S)
<1> DEFINE Adds(i) ==
             i = [s \in SUBSET S |->
                    IF s = {} THEN 0
                    ELSE rows[CHOOSE x \in s : TRUE].hl + i[s \ {CHOOSE x \in s : TRUE}]]
           it == CHOOSE i : Adds(i)
<1>1. PICK g : Additive(h, S, g)
  BY SumsExist
<1>2. \A s \in SUBSET S : s # {} => h[CHOOSE x \in s : TRUE] = rows[CHOOSE x \in s : TRUE].hl
  OBVIOUS
<1>3. ASSUME NEW i PROVE Fold(h, S, i) <=> Adds(i)
  BY <1>2 DEF Fold
<1>4. Adds(g)
  BY <1>1, <1>3, AdditiveFolds
<1>5. Fold(h, S, it)
  <2>1. Adds(it)
    <3> HIDE DEF Adds
    <3> QED BY <1>4
  <2> HIDE DEF Adds, it
  <2> QED BY <2>1, <1>3
<1>6. MapThenSumSet(LAMBDA x : rows[x].hl, S) = it[S]
  BY DEF MapThenSumSet, MapThenFoldSet
<1> HIDE DEF it
<1> QED BY <1>1, <1>5, <1>6, FoldsAdd, SumIs

InodeSize(i) == Size[CHOOSE f \in Linked : Inode[f] = i]

LEMMA InodeSum ==
  ASSUME NEW S, IsFiniteSet(S), NEW h, \A x \in S : h[x] = InodeSize(x) /\ h[x] \in Nat
  PROVE  MapThenSumSet(LAMBDA i : Size[CHOOSE f \in Linked : Inode[f] = i], S) = SumOf(h, S)
<1> DEFINE Adds(i) ==
             i = [s \in SUBSET S |->
                    IF s = {} THEN 0
                    ELSE InodeSize(CHOOSE x \in s : TRUE) + i[s \ {CHOOSE x \in s : TRUE}]]
           it == CHOOSE i : Adds(i)
<1>1. PICK g : Additive(h, S, g)
  BY SumsExist
<1>2. \A s \in SUBSET S : s # {} =>
        h[CHOOSE x \in s : TRUE] = InodeSize(CHOOSE x \in s : TRUE)
  OBVIOUS
<1>3. ASSUME NEW i PROVE Fold(h, S, i) <=> Adds(i)
  BY <1>2 DEF Fold
<1>4. Adds(g)
  BY <1>1, <1>3, AdditiveFolds
<1>5. Fold(h, S, it)
  <2>1. Adds(it)
    <3> HIDE DEF Adds
    <3> QED BY <1>4
  <2> HIDE DEF Adds, it
  <2> QED BY <2>1, <1>3
<1>6. MapThenSumSet(LAMBDA i : Size[CHOOSE f \in Linked : Inode[f] = i], S) = it[S]
  BY DEF MapThenSumSet, MapThenFoldSet, InodeSize
<1> HIDE DEF it
<1> QED BY <1>1, <1>5, <1>6, FoldsAdd, SumIs
-----------------------------------------------------------------------------
(* The rows above a row.                                                   *)
RowAbove(x) == IF x = 0 THEN 0 ELSE rows[x].parent

LEMMA AncestorSelf ==
  ASSUME NEW x
  PROVE  Ancestor(x, 0) = x
<1> DEFINE up == [i \in 0..0 |-> x]
<1>1. DOMAIN up = 0..0 /\ up[0] = x /\ 1..0 = {}
  OBVIOUS
<1>2. \A i \in 1..0 : up[i] = IF up[i - 1] = 0 THEN 0 ELSE rows[up[i - 1]].parent
  BY <1>1
<1> HIDE DEF up
<1>3. Ancestor(x, 0) = up[0]
  BY <1>1, <1>2, AncestorIs
<1> QED BY <1>1, <1>3

LEMMA AncestorAbove ==
  ASSUME NEW V, RowsHold(V), NEW x \in 0..Len(rows), NEW k \in Nat
  PROVE  RowAbove(x) \in 0..Len(rows) /\ Ancestor(x, k + 1) = Ancestor(RowAbove(x), k)
<1> DEFINE W == 0..Len(rows)
           F == [v \in W |-> RowAbove(v)]
<1>1. Len(rows) \in Nat /\ \A v \in 1..Len(rows) : rows[v].parent \in 0..v - 1
  <2>1. Len(rows) \in Nat
    BY RowsAre
  <2>2. ASSUME NEW v \in 1..Len(rows) PROVE rows[v].parent \in 0..v - 1
    <3>1. IF v = 1 THEN rows[v].parent = 0 ELSE rows[v].parent \in 1..v - 1
      BY DEF RowsHold
    <3> QED BY <3>1
  <2> QED BY <2>1, <2>2
<1>2. \A v \in W : RowAbove(v) \in W
  <2> SUFFICES ASSUME NEW v \in W PROVE RowAbove(v) \in W
    OBVIOUS
  <2>1. CASE v = 0
    BY <2>1 DEF RowAbove
  <2>2. CASE v # 0
    <3>1. v \in 1..Len(rows)
      BY <2>2, <1>1
    <3>2. rows[v].parent \in 0..v - 1
      BY <3>1, <1>1
    <3> QED BY <2>2, <3>1, <3>2, <1>1 DEF RowAbove
  <2> QED BY <2>1, <2>2
<1>3. \A v \in W : F[v] \in W /\ F[v] = RowAbove(v)
  BY <1>2
<1>4. PICK g : g \in [0..k -> W] /\ g[0] = RowAbove(x) /\ \A i \in 1..k : g[i] = F[g[i - 1]]
  <2>1. RowAbove(x) \in W
    BY <1>2
  <2> HIDE DEF W, F
  <2>2. HasIterates(W, RowAbove(x), F, k)
    BY <2>1, <1>3, Iterates
  <2> QED BY <2>2 DEF HasIterates
<1> HIDE DEF F
<1>5. \A i \in 1..k : g[i] = IF g[i - 1] = 0 THEN 0 ELSE rows[g[i - 1]].parent
  <2> SUFFICES ASSUME NEW i \in 1..k PROVE g[i] = RowAbove(g[i - 1])
    BY DEF RowAbove
  <2>1. i - 1 \in 0..k
    OBVIOUS
  <2> QED BY <2>1, <1>3, <1>4
<1>6. Ancestor(RowAbove(x), k) = g[k]
  <2>1. DOMAIN g = 0..k /\ g[0] = RowAbove(x)
    BY <1>4
  <2>2. PICK r : r = RowAbove(x)
    OBVIOUS
  <2>3. Ancestor(r, k) = g[k]
    BY ONLY k \in Nat, <2>1, <2>2, <1>5, AncestorIs
  <2> QED BY <2>2, <2>3
<1> DEFINE up == [i \in 0..k + 1 |-> IF i = 0 THEN x ELSE g[i - 1]]
<1>7. DOMAIN up = 0..k + 1 /\ up[0] = x /\ k + 1 \in Nat /\ up[k + 1] = g[k]
  OBVIOUS
<1>8. \A i \in 1..k + 1 : up[i] = IF up[i - 1] = 0 THEN 0 ELSE rows[up[i - 1]].parent
  <2> SUFFICES ASSUME NEW i \in 1..k + 1 PROVE up[i] = RowAbove(up[i - 1])
    BY DEF RowAbove
  <2>1. i \in 0..k + 1 /\ i - 1 \in 0..k + 1
    OBVIOUS
  <2>2. CASE i = 1
    BY <2>1, <2>2, <1>4
  <2>3. CASE i # 1
    <3>1. i - 1 \in 1..k /\ (i - 1) - 1 \in 0..k
      BY <2>3
    <3>2. up[i] = g[i - 1] /\ up[i - 1] = g[(i - 1) - 1]
      BY <2>1, <2>3, <3>1
    <3> HIDE DEF up
    <3> QED BY <3>1, <3>2, <1>5 DEF RowAbove
  <2> QED BY <2>2, <2>3
<1>9. Ancestor(x, k + 1) = g[k]
  <2> HIDE DEF up
  <2>1. Ancestor(x, k + 1) = up[k + 1]
    BY <1>7, <1>8, AncestorIs
  <2> QED BY <2>1, <1>7
<1> QED BY <1>2, <1>6, <1>9
-----------------------------------------------------------------------------
(* When a scan is over.                                                    *)
LEMMA ScannedRows ==
  ASSUME RowsHold(Scanned)
  PROVE  /\ Len(rows) \in Nat /\ DOMAIN rows = 1..Len(rows)
         /\ \A r \in 1..Len(rows) :
              /\ rows[r].of \in Dirs \ Closed /\ rows[r].of \in Scanned /\ rows[r].of \in Things
              /\ Inside(Closed, rows[r].of) \subseteq Scanned
         /\ \A d \in (Scanned \cap Dirs) \ Closed : \E r \in 1..Len(rows) : rows[r].of = d
<1>1. /\ Len(rows) \in Nat /\ DOMAIN rows = 1..Len(rows)
      /\ \A r \in 1..Len(rows) : rows[r].of \in (Scanned \cap Dirs) \ Closed
  BY RowsAre
<1>2. \A r \in 1..Len(rows) : Inside(Closed, rows[r].of) \subseteq Scanned
  BY <1>1, InsideWithin DEF Scanned
<1>3. \A d \in (Scanned \cap Dirs) \ Closed : d \in {rows[r].of : r \in 1..Len(rows)}
  BY DEF RowsHold
<1> QED BY <1>1, <1>2, <1>3 DEF Things

(* The parent of the row whose folder is an entry of p is the row of p.    *)
LEMMA ParentIs ==
  ASSUME RowsHold(Scanned), NEW x \in 1..Len(rows), NEW p \in Scanned \cap Dirs,
         rows[x].of \in Entries(Closed, p)
  PROVE  x # 1 /\ RowAbove(x) \in 1..x - 1 /\ rows[RowAbove(x)].of = p
<1>1. rows[x].of \in Things /\ Len(rows) \in Nat
  BY ScannedRows
<1>2. rows[1].of = current_location \/ x # 1
  BY DEF RowsHold
<1>3. x # 1
  <2> SUFFICES ASSUME x = 1 PROVE FALSE
    OBVIOUS
  <2>1. current_location \in Entries(Closed, p)
    BY <1>2
  <2>2. p \notin Inside(Closed, current_location)
    BY <2>1, NotInItsEntries
  <2> QED BY <2>2 DEF Scanned
<1>4. RowAbove(x) = rows[x].parent /\ rows[x].parent \in 1..x - 1
      /\ rows[x].of \in Entries(Closed, rows[rows[x].parent].of)
  BY <1>1, <1>3 DEF RowsHold, RowAbove
<1>5. RowAbove(x) \in 1..Len(rows)
  BY <1>1, <1>4
<1>6. rows[RowAbove(x)].of = p
  BY <1>1, <1>4, <1>5, ScannedRows, OneFolder
<1> QED BY <1>3, <1>4, <1>6

LEMMA AboveHolds ==
  ASSUME RowsHold(Scanned), NEW x \in 1..Len(rows), RowAbove(x) # 0
  PROVE  /\ RowAbove(x) \in 1..Len(rows)
         /\ rows[x].of \in Inside(Closed, rows[RowAbove(x)].of)
<1>1. IF x = 1 THEN rows[x].parent = 0
      ELSE /\ rows[x].parent \in 1..x - 1
           /\ rows[x].of \in Entries(Closed, rows[rows[x].parent].of)
  BY DEF RowsHold
<1>2. RowAbove(x) = rows[x].parent /\ Len(rows) \in Nat
  BY ScannedRows DEF RowAbove
<1>3. /\ RowAbove(x) \in 1..Len(rows) /\ rows[x].of \in Entries(Closed, rows[RowAbove(x)].of)
  BY <1>1, <1>2
<1>4. rows[RowAbove(x)].of \in Dirs
  BY <1>3, ScannedRows
<1> QED BY <1>3, <1>4, InsideSelf, InsideEntries

LEMMA AncestorHolds ==
  ASSUME RowsHold(Scanned), NEW r \in 1..Len(rows), NEW x \in 1..Len(rows), NEW k \in Nat,
         Ancestor(x, k) = r
  PROVE  rows[x].of \in Inside(Closed, rows[r].of)
<1> DEFINE P == {n \in Nat : /\ Ancestor(0, n) = 0
                             /\ \A y \in 1..Len(rows) :
                                  Ancestor(y, n) = r => rows[y].of \in Inside(Closed, rows[r].of)}
<1>0. Len(rows) \in Nat
  BY ScannedRows
<1>1. 0 \in P
  <2>1. \A y : Ancestor(y, 0) = y
    BY AncestorSelf
  <2> QED BY <2>1, InsideSelf
<1>2. ASSUME NEW n \in P PROVE n + 1 \in P
  <2>1. n \in Nat /\ n + 1 \in Nat
    OBVIOUS
  <2>2. Ancestor(0, n + 1) = 0
    <3>1. 0 \in 0..Len(rows) /\ RowAbove(0) = 0
      BY <1>0 DEF RowAbove
    <3> QED BY <2>1, <3>1, AncestorAbove
  <2>3. ASSUME NEW y \in 1..Len(rows), Ancestor(y, n + 1) = r
        PROVE rows[y].of \in Inside(Closed, rows[r].of)
    <3>1. Ancestor(RowAbove(y), n) = r
      <4>1. y \in 0..Len(rows)
        BY <1>0
      <4>2. Ancestor(y, n + 1) = Ancestor(RowAbove(y), n)
        BY <4>1, <2>1, AncestorAbove
      <4> QED BY <4>2, <2>3
    <3>2. RowAbove(y) # 0
      BY <3>1, <1>0
    <3>3. RowAbove(y) \in 1..Len(rows) /\ rows[y].of \in Inside(Closed, rows[RowAbove(y)].of)
      BY <3>2, AboveHolds
    <3>4. rows[RowAbove(y)].of \in Inside(Closed, rows[r].of)
      BY <3>1, <3>3
    <3> QED BY <3>3, <3>4, InsideWithin
  <2> QED BY <2>1, <2>2, <2>3
<1>3. P = Nat
  <2>1. P \in SUBSET Nat
    OBVIOUS
  <2> HIDE DEF P
  <2> QED BY <1>1, <1>2, <2>1, AllNumbers
<1>4. k \in P
  BY <1>3
<1> QED BY <1>4

LEMMA HeldHasAncestor ==
  ASSUME RowsHold(Scanned), NEW r \in 1..Len(rows), NEW x \in 1..Len(rows),
         rows[x].of \in Inside(Closed, rows[r].of)
  PROVE  \E k \in 0..Len(rows) : Ancestor(x, k) = r
<1> DEFINE P == {n \in Nat : \A y \in 1..Len(rows) :
                   y <= n /\ rows[y].of \in Inside(Closed, rows[r].of)
                     => \E k \in 0..y - 1 : Ancestor(y, k) = r}
<1>0. Len(rows) \in Nat
  BY ScannedRows
<1>1. 0 \in P
  BY <1>0
<1>2. ASSUME NEW n \in P PROVE n + 1 \in P
  <2>1. n \in Nat /\ n + 1 \in Nat
    OBVIOUS
  <2>2. ASSUME NEW y \in 1..Len(rows), y <= n + 1, rows[y].of \in Inside(Closed, rows[r].of)
        PROVE \E k \in 0..y - 1 : Ancestor(y, k) = r
    <3>1. CASE rows[y].of = rows[r].of
      <4>1. y = r /\ 0 \in 0..y - 1 /\ Ancestor(y, 0) = y
        BY <3>1, <1>0, AncestorSelf DEF RowsHold
      <4> QED BY <4>1
    <3>2. CASE rows[y].of # rows[r].of
      <4>1. PICK p \in Inside(Closed, rows[r].of) \cap Dirs : rows[y].of \in Entries(Closed, p)
        BY <2>2, <3>2, InsideParent
      <4>2. p \in Scanned \cap Dirs
        BY <4>1, ScannedRows
      <4>3. y # 1 /\ RowAbove(y) \in 1..y - 1 /\ rows[RowAbove(y)].of = p
        BY <4>1, <4>2, ParentIs
      <4>4. RowAbove(y) \in 1..Len(rows) /\ RowAbove(y) <= n
        BY <4>3, <2>1, <2>2, <1>0
      <4>5. PICK k \in 0..RowAbove(y) - 1 : Ancestor(RowAbove(y), k) = r
        BY <4>1, <4>3, <4>4
      <4>6. k \in Nat /\ k + 1 \in 0..y - 1 /\ y \in 0..Len(rows)
        BY <4>3, <4>5, <1>0
      <4>7. Ancestor(y, k + 1) = r
        BY <4>5, <4>6, AncestorAbove
      <4> QED BY <4>6, <4>7
    <3> QED BY <3>1, <3>2
  <2> QED BY <2>1, <2>2
<1>3. P = Nat
  <2>1. P \in SUBSET Nat
    OBVIOUS
  <2> HIDE DEF P
  <2> QED BY <1>1, <1>2, <2>1, AllNumbers
<1>4. x \in P /\ x <= x
  BY <1>3, <1>0
<1>5. PICK k \in 0..x - 1 : Ancestor(x, k) = r
  BY <1>4
<1>6. k \in 0..Len(rows)
  BY <1>0
<1> QED BY <1>5, <1>6

LEMMA UnderIs ==
  ASSUME RowsHold(Scanned), NEW r \in 1..Len(rows)
  PROVE  /\ Under(r) \subseteq 1..Len(rows) /\ IsFiniteSet(Under(r))
         /\ \A x \in 1..Len(rows) : x \in Under(r) <=> rows[x].of \in Inside(Closed, rows[r].of)
<1>1. Len(rows) \in Nat /\ DOMAIN rows = 1..Len(rows)
  BY ScannedRows
<1>2. Under(r) \subseteq 1..Len(rows)
  BY <1>1 DEF Under
<1>3. IsFiniteSet(1..Len(rows))
  BY <1>1, FS_Interval
<1>4. IsFiniteSet(Under(r))
  BY <1>2, <1>3, FS_Subset
<1>5. ASSUME NEW x \in 1..Len(rows) PROVE x \in Under(r) <=> rows[x].of \in Inside(Closed, rows[r].of)
  <2>1. ASSUME x \in Under(r) PROVE rows[x].of \in Inside(Closed, rows[r].of)
    <3>1. PICK k \in 0..Len(rows) : Ancestor(x, k) = r
      BY <2>1 DEF Under
    <3>2. k \in Nat
      BY <1>1
    <3> QED BY <3>1, <3>2, AncestorHolds
  <2>2. ASSUME rows[x].of \in Inside(Closed, rows[r].of) PROVE x \in Under(r)
    BY <2>2, <1>1, HeldHasAncestor DEF Under
  <2> QED BY <2>1, <2>2
<1> QED BY <1>2, <1>4, <1>5
-----------------------------------------------------------------------------
(* The tree of a scan that nobody interfered with.                         *)
LEMMA BeneathIs ==
  ASSUME NEW d
  PROVE  /\ Beneath(d) = Inside(Closed, d)
         /\ \A k : At(d)[k] = Levels(Closed, d)[k]
         /\ DOMAIN At(d) = DOMAIN Levels(Closed, d)
<1>1. At(d) = Levels(Closed, d)
  BY Zenon DEF At, KidsOf, Levels, Entries
<1> QED BY <1>1, Zenon DEF Beneath, Inside

LEMMA HeightIs ==
  ASSUME NEW d, NEW m, IsMax(m, Heights(Closed, d))
  PROVE  m = Height(d)
<1>1. DOMAIN At(d) = 0..Cardinality(Dirs) /\ \A k : At(d)[k] = Levels(Closed, d)[k]
  BY BeneathIs, LevelsAre
<1>2. {k \in DOMAIN At(d) : At(d)[k] \cap Dirs # {}} = Heights(Closed, d)
  BY <1>1 DEF Heights
<1>3. \A k \in Heights(Closed, d) : k \in Nat
  BY DirsAreFinite DEF Heights
<1>4. PICK H : H = Heights(Closed, d)
  OBVIOUS
<1>5. m = CHOOSE x \in H : \A y \in H : x >= y
  BY ONLY <1>3, <1>4, IsMax(m, Heights(Closed, d)) DEF IsMax
<1> QED BY <1>2, <1>4, <1>5, Zenon DEF Height, Max

LEMMA RowsCounted ==
  ASSUME RowsHold(Scanned)
  PROVE  Len(rows) = Cardinality((Scanned \cap Dirs) \ Closed)
<1> DEFINE S == (Scanned \cap Dirs) \ Closed
           b == [r \in 1..Len(rows) |-> rows[r].of]
<1>1. Len(rows) \in Nat /\ \A r \in 1..Len(rows) : rows[r].of \in S
  BY ScannedRows
<1>2. b \in [1..Len(rows) -> S]
  BY <1>1
<1>3. \A t \in S : \E r \in 1..Len(rows) : rows[r].of = t
  BY ScannedRows
<1>4. \A r \in 1..Len(rows) : \A q \in 1..Len(rows) : rows[r].of = rows[q].of => r = q
  BY DEF RowsHold
<1>5. b \in Injection(1..Len(rows), S)
  <2>1. \A r \in 1..Len(rows) : \A q \in 1..Len(rows) : b[r] = b[q] => r = q
    BY <1>4
  <2> HIDE DEF b, S
  <2>2. DOMAIN b = 1..Len(rows)
    BY <1>2
  <2> QED BY <1>2, <2>1, <2>2 DEF Injection, IsInjective
<1>6. b \in Surjection(1..Len(rows), S)
  BY <1>2, <1>3 DEF Surjection
<1>7. ExistsBijection(1..Len(rows), S)
  BY <1>5, <1>6 DEF ExistsBijection, Bijection
<1>8. IsFiniteSet(1..Len(rows)) /\ Cardinality(1..Len(rows)) = Len(rows)
  <2>1. PICK n \in Nat : n = Len(rows)
    BY <1>1
  <2>2. IsFiniteSet(1..n) /\ Cardinality(1..n) = IF 1 > n THEN 0 ELSE n - 1 + 1
    BY FS_Interval
  <2>3. Cardinality(1..n) = n
    BY <2>2
  <2> QED BY <2>1, <2>2, <2>3
<1>9. PICK T : T = S
  OBVIOUS
<1>10. Cardinality(T) = Cardinality(1..Len(rows))
  BY <1>7, <1>8, <1>9, FS_Bijection
<1> QED BY <1>8, <1>9, <1>10

LEMMA SkippedAre ==
  ASSUME excluded \subseteq Dirs
  PROVE  Skipped \subseteq Dirs /\ Linked \subseteq Things /\ Linked \cap Dirs = {}
         /\ Linked \cap Skipped = {}
BY TreeAssumption, EntriesAssumption DEF Skipped, Things

(* The links that are missed in a folder are left out in the rows of the   *)
(* folders in it.                                                          *)
LEMMA HlUnderIs ==
  ASSUME excluded \subseteq Dirs, NEW missed \in SUBSET Linked, DoneHolds(missed),
         NEW r \in 1..Len(rows)
  PROVE  HlUnder(r) = SumOf(Size, missed \cap Inside(Closed, rows[r].of))
<1> DEFINE In == Inside(Closed, rows[r].of)
           U == Under(r)
           h == [x \in 1..Len(rows) |-> rows[x].hl]
           A == [x \in U |-> missed \cap Entries(Closed, rows[x].of)]
<1>1. RowsHold(Scanned) /\ FilledHold(missed) /\ iterstack = <<>>
  BY DEF DoneHolds
<1>2. /\ U \subseteq 1..Len(rows) /\ IsFiniteSet(U)
      /\ \A x \in 1..Len(rows) : x \in U <=> rows[x].of \in In
  BY <1>1, UnderIs
<1>3. \A x \in 1..Len(rows) : rows[x].hl = SumOf(Size, missed \cap Entries(Closed, rows[x].of))
  BY <1>1 DEF FilledHold
<1>4. missed \subseteq Things /\ missed \cap Dirs = {}
  BY SkippedAre
<1>5. IsFiniteSet(Things) /\ \A x \in Things : Size[x] \in Nat
  BY ThingsAreFinite
<1>6. \A x \in U : h[x] = rows[x].hl /\ h[x] \in Nat /\ h[x] = SumOf(Size, A[x])
  <2> SUFFICES ASSUME NEW x \in U
               PROVE  rows[x].hl \in Nat /\ rows[x].hl = SumOf(Size, A[x])
    BY <1>2
  <2>1. x \in 1..Len(rows) /\ A[x] = missed \cap Entries(Closed, rows[x].of)
    BY <1>2
  <2>2. A[x] \in SUBSET Things
    BY <2>1, <1>4
  <2>3. SumOf(Size, A[x]) \in Nat
    <3> HIDE DEF A
    <3>1. IsFiniteSet(A[x])
      BY <2>2, ThingsAreFinite
    <3> QED BY <2>2, <3>1, <1>5, SumIsNumber
  <2> QED BY <2>1, <2>3, <1>3
<1>7. HlUnder(r) = SumOf(h, U)
  <2> HIDE DEF h, A
  <2> QED BY <1>2, <1>6, HlSum DEF HlUnder
<1>8. A \in [U -> SUBSET Things]
  BY <1>4
<1>9. ASSUME NEW x \in U, NEW y \in U, x # y PROVE A[x] \cap A[y] = {}
  <2> SUFFICES ASSUME NEW z \in A[x] \cap A[y] PROVE FALSE
    OBVIOUS
  <2>1. /\ x \in 1..Len(rows) /\ y \in 1..Len(rows) /\ z \in Things
        /\ z \in Entries(Closed, rows[x].of) /\ z \in Entries(Closed, rows[y].of)
    BY <1>2, <1>4
  <2>2. rows[x].of \in Dirs /\ rows[y].of \in Dirs
    BY <2>1, <1>1, ScannedRows
  <2>3. rows[x].of = rows[y].of
    BY <2>1, <2>2, OneFolder
  <2> QED BY <2>1, <2>3, <1>1, <1>9 DEF RowsHold
<1>10. UNION {A[x] : x \in U} = missed \cap In
  <2>1. ASSUME NEW x \in U PROVE A[x] \subseteq missed \cap In
    <3>1. x \in 1..Len(rows)
      BY <1>2
    <3>2. rows[x].of \in In \cap Dirs
      BY <3>1, <1>1, <1>2, ScannedRows
    <3> QED BY <3>2, InsideEntries
  <2>2. ASSUME NEW z \in missed \cap In PROVE \E x \in U : z \in A[x]
    <3>1. rows[r].of \in Dirs /\ In \subseteq Scanned
      BY <1>1, ScannedRows
    <3>2. z # rows[r].of
      BY <3>1, <1>4
    <3>3. PICK p \in In \cap Dirs : z \in Entries(Closed, p)
      BY <3>2, InsideParent
    <3>4. p \notin Closed
      BY <3>3, EntryIs
    <3>5. PICK x \in 1..Len(rows) : rows[x].of = p
      BY <3>1, <3>3, <3>4, <1>1, ScannedRows
    <3>6. x \in U
      BY <3>3, <3>5, <1>2
    <3> QED BY <3>3, <3>5, <3>6
  <2> HIDE DEF A
  <2> QED BY <2>1, <2>2
<1>11. SumOf(h, U) = SumOf(Size, UNION {A[x] : x \in U})
  <2> HIDE DEF h, A, U
  <2>1. IsFiniteSet(U) /\ IsFiniteSet(Things) /\ A \in [U -> SUBSET Things]
    BY <1>2, <1>5, <1>8
  <2>2. \A x, y \in U : x # y => A[x] \cap A[y] = {}
    BY <1>9
  <2>3. \A x \in U : h[x] = SumOf(Size, A[x])
    BY <1>6
  <2> QED BY ONLY <1>5, <2>1, <2>2, <2>3, SumFamily
<1> QED BY <1>7, <1>10, <1>11

LEMMA RowSizeIs ==
  ASSUME excluded \subseteq Dirs, NEW missed \in SUBSET Linked, DoneHolds(missed),
         NEW r \in 1..Len(rows)
  PROVE  rows[r].size + HlUnder(r) = TotalSize(Measured(rows[r].of))
<1> DEFINE In == Inside(Closed, rows[r].of)
           A == ((In \cap Things) \ Skipped) \ missed
           B == missed \cap In
<1>1. rows[r].size = SumOf(Size, A)
  <2>1. \A i \in 1..Len(iterstack) : iterstack[i] # r
    BY DEF DoneHolds
  <2>2. rows[r].size = Amount(Skipped, missed, In)
    BY <2>1 DEF DoneHolds, FilledHold
  <2> QED BY <2>2 DEF Amount
<1>2. HlUnder(r) = SumOf(Size, B)
  BY HlUnderIs
<1>3. Measured(rows[r].of) = A \cup B
  <2>1. Beneath(rows[r].of) = In
    BY BeneathIs
  <2>2. B \subseteq Things \ Skipped
    BY SkippedAre
  <2> QED BY <2>1, <2>2 DEF Measured, Things
<1>4. A \in SUBSET Things /\ B \in SUBSET Things /\ A \cap B = {}
  BY SkippedAre
<1>5. SumOf(Size, A \cup B) = SumOf(Size, A) + SumOf(Size, B)
  <2> HIDE DEF A, B
  <2>1. IsFiniteSet(A) /\ IsFiniteSet(B) /\ \A x \in A \cup B : Size[x] \in Nat
    BY <1>4, ThingsAreFinite
  <2> QED BY <1>4, <2>1, SumJoin
<1>6. TotalSize(Measured(rows[r].of)) = SumOf(Size, Measured(rows[r].of))
  BY DEF TotalSize, SumOf
<1> QED BY <1>1, <1>2, <1>3, <1>5, <1>6

(* The first row counts one link to each inode.                            *)
LEMMA FirstRowIs ==
  ASSUME excluded \subseteq Dirs, NEW missed \in SUBSET Linked, DoneHolds(missed), rows # <<>>
  PROVE  rows[1].size = EachInodeOnce(Measured(current_location))
<1> DEFINE M == Measured(current_location)
           N == M \ Linked
           K == (M \cap Linked) \ missed
           J == {Inode[f] : f \in M \cap Linked}
           b == [k \in K |-> Inode[k]]
           h == [i \in J |-> InodeSize(i)]
<1>1. /\ RowsHold(Scanned) /\ FilledHold(missed) /\ iterstack = <<>>
      /\ InodesHold(Scanned, missed, hla)
  BY DEF DoneHolds
<1>2. 1 \in 1..Len(rows) /\ rows[1].of = current_location
  <2>1. Len(rows) \in Nat /\ rows \in Seq(RowRecords)
    BY <1>1, ScannedRows DEF RowsHold
  <2>2. Len(rows) # 0
    BY <2>1, EmptySeq
  <2> QED BY <2>1, <2>2, <1>1 DEF RowsHold
<1>3. M = (Scanned \cap Things) \ Skipped /\ M \subseteq Things /\ M \cap Linked = Scanned \cap Linked
  BY BeneathIs, SkippedAre DEF Measured, Things, Scanned
<1>4. rows[1].size = SumOf(Size, M \ missed)
  <2>1. \A i \in 1..Len(iterstack) : iterstack[i] # 1
    BY <1>1
  <2>2. rows[1].size = Amount(Skipped, missed, Scanned)
    BY <1>1, <1>2, <2>1 DEF FilledHold, Scanned
  <2> QED BY <2>2, <1>3 DEF Amount
<1>5. M \ missed = N \cup K /\ N \cap K = {} /\ N \in SUBSET Things /\ K \in SUBSET Things
  BY <1>3
<1>6. IsFiniteSet(N) /\ IsFiniteSet(K) /\ \A x \in Things : Size[x] \in Nat
  <2> HIDE DEF N, K
  <2> QED BY <1>5, ThingsAreFinite
<1>7. SumOf(Size, N \cup K) = SumOf(Size, N) + SumOf(Size, K)
  <2> HIDE DEF N, K
  <2> QED BY <1>5, <1>6, SumJoin
<1>8. IsFiniteSet(J)
  <2>1. IsFiniteSet(M \cap Linked)
    BY <1>3, ThingsAreFinite
  <2>2. PICK L : L = M \cap Linked
    OBVIOUS
  <2> DEFINE inode == [f \in L |-> Inode[f]]
  <2>3. inode \in Surjection(L, J)
    BY <2>2 DEF Surjection
  <2> HIDE DEF inode, J
  <2> QED BY <2>1, <2>2, <2>3, FS_Surjection
<1>9. \A f \in Linked : InodeSize(Inode[f]) = Size[f] /\ Size[f] \in Nat
  <2> SUFFICES ASSUME NEW f \in Linked PROVE InodeSize(Inode[f]) = Size[f] /\ Size[f] \in Nat
    OBVIOUS
  <2>1. PICK g : g = CHOOSE e \in Linked : Inode[e] = Inode[f]
    OBVIOUS
  <2>2. g \in Linked /\ Inode[g] = Inode[f]
    BY <2>1
  <2>3. Size[g] = Size[f]
    BY <2>2, EntriesAssumption
  <2>4. f \in Things
    BY SkippedAre
  <2> QED BY <2>1, <2>3, <2>4, ThingsAreFinite DEF InodeSize
<1>10. \A i \in J : h[i] = InodeSize(i) /\ h[i] \in Nat
  BY <1>9
<1>11. {b[k] : k \in K} = J
  BY <1>1, <1>3 DEF InodesHold
<1>12. b \in [K -> J]
  OBVIOUS
<1>13. \A k, l \in K : b[k] = b[l] => k = l
  BY <1>1, <1>3 DEF InodesHold
<1>14. \A k \in K : Size[k] = h[b[k]]
  BY <1>9
<1>15. SumOf(Size, K) = SumOf(h, J)
  <2> HIDE DEF K, J, b, h
  <2>1. SumOf(Size, K) = SumOf(h, {b[k] : k \in K})
    BY <1>6, <1>8, <1>10, <1>12, <1>13, <1>14, SumRenamed
  <2> QED BY <2>1, <1>11
<1>16. MapThenSumSet(LAMBDA i : Size[CHOOSE f \in Linked : Inode[f] = i], J) = SumOf(h, J)
  <2> HIDE DEF h, J
  <2> QED BY <1>8, <1>10, InodeSum
<1>17. TotalSize(N) = SumOf(Size, N)
  BY DEF TotalSize, SumOf
<1>18. EachInodeOnce(M) = TotalSize(N) +
         MapThenSumSet(LAMBDA i : Size[CHOOSE f \in Linked : Inode[f] = i], J)
  BY DEF EachInodeOnce
<1> QED BY <1>4, <1>5, <1>7, <1>15, <1>16, <1>17, <1>18

LEMMA TreeOfDone ==
  ASSUME WholeInv
  PROVE  TreeIsWhole
<1> SUFFICES ASSUME stage = "idle", calm PROVE TreeIsWhole
  BY DEF TreeIsWhole
<1>1. excluded \subseteq Dirs
  BY DEF WholeInv, CallsInv
<1>2. PICK missed \in SUBSET Linked : DoneHolds(missed)
  BY DEF WholeInv, CalmDone
<1> DEFINE top == current_location
           shownDirs == (Beneath(top) \cap Dirs) \ Closed
<1>3. RowsHold(Scanned) /\ IsMax(model_max_depth, Heights(Closed, top))
  BY <1>2 DEF DoneHolds
<1>4. Len(rows) \in Nat /\ DOMAIN rows = 1..Len(rows) /\ shownDirs = (Scanned \cap Dirs) \ Closed
  BY <1>3, ScannedRows, BeneathIs DEF Scanned
<1>5. {rows[r].of : r \in DOMAIN rows} = shownDirs
  BY <1>3, <1>4 DEF RowsHold
<1>6. Len(rows) = Cardinality(shownDirs)
  BY <1>3, <1>4, RowsCounted
<1>7. ASSUME NEW r \in DOMAIN rows
      PROVE  IF rows[r].of = top THEN rows[r].parent = 0
             ELSE rows[r].of \in KidsOf(rows[rows[r].parent].of)
  <2>1. r \in 1..Len(rows)
    BY <1>4
  <2>2. 1 \in 1..Len(rows)
    BY <2>1, <1>4
  <2>3. IF r = 1 THEN rows[r].parent = 0 /\ rows[r].of = top
        ELSE /\ rows[r].parent \in 1..r - 1
             /\ rows[r].of \in Entries(Closed, rows[rows[r].parent].of)
    BY <2>1, <1>3 DEF RowsHold
  <2>4. rows[1].of = top
    BY <2>2, <1>3 DEF RowsHold
  <2>5. rows[r].of = top => r = 1
    BY <2>1, <2>2, <2>4, <1>3 DEF RowsHold
  <2> QED BY <2>3, <2>5 DEF Entries, KidsOf
<1>8. \A r \in DOMAIN rows : rows[r].size + HlUnder(r) = TotalSize(Measured(rows[r].of))
  BY <1>1, <1>2, <1>4, RowSizeIs
<1>9. rows # <<>> => rows[1].size = EachInodeOnce(Measured(top))
  BY <1>1, <1>2, FirstRowIs
<1>10. model_max_depth = Height(top)
  BY <1>3, HeightIs
<1> QED BY <1>5, <1>6, <1>7, <1>8, <1>9, <1>10 DEF TreeIsWhole

(* TreeIsWhole: when a scan is over with which nobody interfered, there is *)
(* a row for each folder that could be read, below the row of its parent;  *)
(* a row's size and what the rows in it left out as further links make up  *)
(* everything below its folder; the first row counts each inode once; and  *)
(* the charts are given the depth of the tree.  For any finite tree of     *)
(* folders: baobab_scan_location, loopdir and prefill_model with           *)
(* fill_model agree, through iterstack, on which row is whose.             *)
THEOREM TreeComesOutWhole == ScanSpec => []TreeIsWhole
BY WholeInvHolds, TreeOfDone, PTL
-----------------------------------------------------------------------------
(* The chart in the window is frozen only while the window is busy.        *)
ChartInv == ~busy => current_chart \notin frozen

(* ShownChartFollows: with no scan running and the window not busy, the    *)
(* chart in the window is not left frozen by any order of set_busy, the    *)
(* end of a scan, the allocated space item and set_active_chart.           *)
THEOREM WindowChartFollows == ScanSpec => []ShownChartFollows
<1>1. ScanInit => ChartInv
  BY DEF ScanInit, ChartInv
<1>2. ASSUME ChartInv, [ScanNext]_scanvars PROVE ChartInv'
  <2>1. CASE UNCHANGED window
    BY <1>2, <2>1 DEF ChartInv, window
  <2>2. ASSUME NEW l, BeginsScan(l) PROVE ChartInv'
    BY <2>2 DEF BeginsScan, ChartInv
  <2>3. ASSUME NEW failed, BeginWalk(failed) PROVE ChartInv'
    BY <1>2, <2>3 DEF BeginWalk, ChartInv
  <2>4. CASE Finish
    BY <2>4 DEF Finish, ChartInv
  <2>5. CASE ToggleAllocatedSpace
    BY <2>5 DEF ToggleAllocatedSpace, ChartInv
  <2>6. ASSUME NEW c, SwitchChart(c) PROVE ChartInv'
    BY <2>6 DEF SwitchChart, ChartInv
  <2>7. CASE Loopdir
    BY <2>1, <2>7 DEF Loopdir, LoopdirSkips, LoopdirCannotRead, LoopdirOpens, Undefined, StopSeen,
         EnterDir, CountFile, IgnoreOther, FillModel
  <2>8. CASE FillModel(TRUE)
    BY <2>1, <2>8 DEF FillModel, Undefined
  <2>9. CASE Return
    BY <2>1, <2>9 DEF Return
  <2>10. CASE Stop \/ Quit \/ HomeContentsChanged
    BY <2>1, <2>10 DEF Stop, Quit, HomeContentsChanged
  <2>11. ASSUME NEW uris, ExcludedUrisChanged(uris) PROVE ChartInv'
    BY <2>1, <2>11 DEF ExcludedUrisChanged
  <2>12. ASSUME NEW r, TrashDir(r) PROVE ChartInv'
    BY <2>1, <2>12 DEF TrashDir
  <2>13. ASSUME NEW r, PressRow(r) PROVE ChartInv'
    BY <2>1, <2>2, <2>13 DEF PressRow
  <2>14. ASSUME NEW enable, MonitorHome(enable) PROVE ChartInv'
    BY <2>1, <2>14 DEF MonitorHome
  <2>15. ASSUME NEW l, RequestScan(l) PROVE ChartInv'
    BY <2>2, <2>15 DEF RequestScan
  <2>16. CASE UNCHANGED scanvars
    BY <2>1, <2>16 DEF scanvars
  <2> QED BY <1>2, <2>3, <2>4, <2>5, <2>6, <2>7, <2>8, <2>9, <2>10, <2>11, <2>12, <2>13, <2>14,
             <2>15, <2>16 DEF ScanNext, ScanStep, UserStep
<1>3. ChartInv => ShownChartFollows
  BY DEF ChartInv, ShownChartFollows
<1> QED BY <1>1, <1>2, <1>3, PTL DEF ScanSpec
=============================================================================
