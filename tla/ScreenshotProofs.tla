-------------------------- MODULE ScreenshotProofs --------------------------
(***************************************************************************)
(* The picture shows what was asked for, and a save that succeeds has      *)
(* saved all of it.                                                        *)
(*                                                                         *)
(* The first is geometry, once the selection is known to be empty or to    *)
(* have been dragged from a point of the screen to another.  The second is *)
(* about the parent, one child, and one copy at a time: the child says     *)
(* nothing before the file is whole, no copy begins before that, and none  *)
(* while another goes on or waits for an answer.                           *)
(***************************************************************************)
EXTENDS Screenshot, TLAPS

-----------------------------------------------------------------------------
(* The picture.                                                            *)

(* Of an area: every pixel between its corners, and no other.              *)
LEMMA AreaPicture ==
  ASSUME NEW from \in Points, NEW to \in Points,
         NEW rect, rect = Dragged(from, to), ~IsEmpty(rect)
  PROVE  GetPixbuf(Root, rect, FALSE, FALSE) =
           {p \in Pixels(Screen) : \A i \in 1..2 : Between(p[i], from[i], to[i])}
<1> DEFINE x == Smaller(from[1], to[1])
           y == Smaller(from[2], to[2])
           w == Distance(from[1], to[1])
           h == Distance(from[2], to[2])
           source == Source(Root, rect)
<1>1. /\ from[1] \in 0..Width - 1 /\ from[2] \in 0..Height - 1
      /\ to[1] \in 0..Width - 1 /\ to[2] \in 0..Height - 1
  BY ScreenAssumption
<1>2. rect = Rect(x, y, w, h)
  BY DEF Dragged
<1>3. x \in Nat /\ y \in Nat /\ w \in Nat /\ h \in Nat /\ w # 0 /\ h # 0
  BY <1>1, <1>2, ScreenAssumption DEF Smaller, Larger, Distance, IsEmpty, Rect
<1>4. /\ x + w = Larger(from[1], to[1]) /\ y + h = Larger(from[2], to[2])
      /\ x + w \in 0..Width - 1 /\ y + h \in 0..Height - 1
  BY <1>1, ScreenAssumption DEF Smaller, Larger, Distance
<1>5. source = Rect(x, y, w, h)
  <2>1. rect # Empty
    BY <1>2, <1>3 DEF Rect, Empty
  <2>2. /\ Clip(Root.x, Root.width, Width).begin = 0
        /\ Clip(Root.y, Root.height, Height).begin = 0
    BY DEF Clip, Root, Larger
  <2> QED BY <1>2, <1>3, <2>1, <2>2 DEF Source, Rect
<1> HIDE DEF x, y, w, h, source
<1>6. /\ Pixels(source) = (x .. x + w - 1) \X (y .. y + h - 1)
      /\ Pixels(Screen) = (0 .. Width - 1) \X (0 .. Height - 1)
  BY <1>5, ScreenAssumption DEF Pixels, Rect, Screen
<1>7. Pixels(source) \cap Pixels(Screen) =
        {p \in Pixels(Screen) : \A i \in 1..2 : Between(p[i], from[i], to[i])}
  <2>1. ASSUME NEW p \in Pixels(Screen)
        PROVE  p \in Pixels(source) <=>
                 Between(p[1], from[1], to[1]) /\ Between(p[2], from[2], to[2])
    BY <1>3, <1>4, <1>6, ScreenAssumption DEF Between, x, y
  <2>2. ASSUME NEW p
        PROVE  (\A i \in 1..2 : Between(p[i], from[i], to[i])) <=>
                 Between(p[1], from[1], to[1]) /\ Between(p[2], from[2], to[2])
    <3>1. \A i \in 1..2 : i = 1 \/ i = 2
      OBVIOUS
    <3> QED BY <3>1
  <2> QED BY <2>1, <2>2
<1> QED BY <1>7 DEF GetPixbuf, source

(* Of the screen: what the monitors show of it.                            *)
LEMMA ScreenPicture ==
  GetPixbuf(Root, Empty, FALSE, TRUE) = UNION {Pixels(m) : m \in Monitors}
<1>1. Source(Root, Empty) = Screen
  BY ScreenAssumption DEF Source, Clip, Root, Screen, Rect, Larger
<1>2. UNION {Pixels(m) : m \in Monitors} \subseteq Pixels(Screen)
  BY MonitorsAssumption
<1> QED BY <1>1, <1>2 DEF GetPixbuf, Masked

(* In one direction: what is read of a window and is on the screen is what  *)
(* is of the window and on the screen.                                      *)
LEMMA Clipped ==
  ASSUME NEW orig \in Int, NEW length \in Nat, NEW screen \in Nat, NEW n \in 0 .. screen - 1
  PROVE  LET c == Clip(orig, length, screen)
         IN  /\ c.begin \in Nat /\ c.length \in Int
             /\ c.begin = IF orig < 0 THEN 0 ELSE orig
             /\ n \in c.begin .. c.begin + c.length - 1 <=> n \in orig .. orig + length - 1
BY DEF Clip, Larger

(* In one direction: what is copied of a rectangle of the shape is of that  *)
(* rectangle, and is all of it if the window does not begin off the screen. *)
LEMMA ShapeClipped ==
  ASSUME NEW from \in Nat, NEW length \in Nat, NEW real \in Int, NEW screen \in Nat,
         NEW n \in 0 .. screen - 1, NEW orig, orig = IF real < 0 THEN 0 ELSE real
  PROVE  LET c == Shaped(from, length, real, orig, screen)
         IN  /\ c.begin \in Int /\ c.length \in Int
             /\ n \in orig + c.begin .. orig + c.begin + c.length - 1
                  => n \in real + from .. real + from + length - 1
             /\ real >= 0 /\ n \in real + from .. real + from + length - 1
                  => n \in orig + c.begin .. orig + c.begin + c.length - 1
<1>1. CASE real < 0
  BY <1>1 DEF Shaped, Larger
<1>2. CASE real >= 0
  BY <1>2 DEF Shaped, Larger
<1> QED BY <1>1, <1>2

(* Of a window: nothing that is not of it or not of its shape, and all of   *)
(* that unless a shaped window hangs over the left or the upper edge.       *)
LEMMA WindowPicture ==
  ASSUME NEW window \in Windows, NEW include_border \in BOOLEAN
  PROVE  LET wanted  == WindowPixels(window, include_border)
             picture == GetPixbuf(window, Empty, include_border, FALSE)
         IN  /\ picture \subseteq wanted
             /\ ~include_border \/ (window.x >= 0 /\ window.y >= 0) => picture = wanted
<1> DEFINE source == Source(window, Empty)
           across == Clip(window.x, window.width, Width)
           down   == Clip(window.y, window.height, Height)
           seen   == Pixels(source) \cap Pixels(Screen)
           acrossOf(r) == Shaped(r.x, r.width, window.x, source.x, Width)
           downOf(r)   == Shaped(r.y, r.height, window.y, source.y, Height)
           copied(r) == Pixels(Rect(source.x + acrossOf(r).begin, source.y + downOf(r).begin,
                                    acrossOf(r).length, downOf(r).length))
           shape(r)  == Pixels(Rect(window.x + r.x, window.y + r.y, r.width, r.height))
<1>1. /\ window.x \in Int /\ window.y \in Int /\ window.width \in Nat /\ window.height \in Nat
      /\ Width \in Nat /\ Height \in Nat
      /\ \A r \in window.shape :
           r.x \in Nat /\ r.y \in Nat /\ r.width \in Nat /\ r.height \in Nat
  BY WindowsAssumption, ScreenAssumption
<1>2. source = Rect(across.begin, down.begin, across.length, down.length)
  BY DEF Source
<1>3. Pixels(Screen) = (0 .. Width - 1) \X (0 .. Height - 1)
  BY <1>1 DEF Pixels, Rect, Screen
<1>4. /\ source.x = IF window.x < 0 THEN 0 ELSE window.x
      /\ source.y = IF window.y < 0 THEN 0 ELSE window.y
  BY <1>1, <1>2 DEF Rect, Clip, Larger
<1>5. seen = Pixels(Screen) \cap Pixels(window)
  <2>1. /\ Pixels(window) = (window.x .. window.x + window.width - 1)
                              \X (window.y .. window.y + window.height - 1)
        /\ Pixels(source) = (across.begin .. across.begin + across.length - 1)
                              \X (down.begin .. down.begin + down.length - 1)
    BY <1>2 DEF Pixels, Rect
  <2>2. ASSUME NEW p \in Pixels(Screen)
        PROVE  p \in Pixels(source) <=> p \in Pixels(window)
    <3>1. p[1] \in 0 .. Width - 1 /\ p[2] \in 0 .. Height - 1 /\ p = <<p[1], p[2]>>
      BY <1>3
    <3>2. p[1] \in across.begin .. across.begin + across.length - 1
            <=> p[1] \in window.x .. window.x + window.width - 1
      BY <1>1, <3>1, Clipped
    <3>3. p[2] \in down.begin .. down.begin + down.length - 1
            <=> p[2] \in window.y .. window.y + window.height - 1
      BY <1>1, <3>1, Clipped
    <3> HIDE DEF across, down
    <3> QED BY <2>1, <3>1, <3>2, <3>3
  <2> QED BY <2>2
<1>6. ASSUME NEW p \in Pixels(Screen), NEW r \in window.shape
      PROVE  /\ p \in copied(r) => p \in shape(r)
             /\ window.x >= 0 /\ window.y >= 0 /\ p \in shape(r) => p \in copied(r)
  <2> DEFINE a == acrossOf(r)
             d == downOf(r)
  <2>1. p[1] \in 0 .. Width - 1 /\ p[2] \in 0 .. Height - 1 /\ p = <<p[1], p[2]>>
    BY <1>3
  <2>2. /\ p[1] \in source.x + a.begin .. source.x + a.begin + a.length - 1
             => p[1] \in window.x + r.x .. window.x + r.x + r.width - 1
        /\ window.x >= 0 /\ p[1] \in window.x + r.x .. window.x + r.x + r.width - 1
             => p[1] \in source.x + a.begin .. source.x + a.begin + a.length - 1
    BY <1>1, <1>4, <2>1, ShapeClipped
  <2>3. /\ p[2] \in source.y + d.begin .. source.y + d.begin + d.length - 1
             => p[2] \in window.y + r.y .. window.y + r.y + r.height - 1
        /\ window.y >= 0 /\ p[2] \in window.y + r.y .. window.y + r.y + r.height - 1
             => p[2] \in source.y + d.begin .. source.y + d.begin + d.length - 1
    BY <1>1, <1>4, <2>1, ShapeClipped
  <2>4. copied(r) = (source.x + a.begin .. source.x + a.begin + a.length - 1)
                      \X (source.y + d.begin .. source.y + d.begin + d.length - 1)
    BY DEF Pixels, Rect
  <2>5. shape(r) = (window.x + r.x .. window.x + r.x + r.width - 1)
                     \X (window.y + r.y .. window.y + r.y + r.height - 1)
    BY DEF Pixels, Rect
  <2> HIDE DEF a, d, source, copied, shape
  <2> QED BY <2>1, <2>2, <2>3, <2>4, <2>5
<1>7. WindowPixels(window, include_border) =
        IF include_border /\ window.shape # {}
          THEN seen \cap UNION {shape(r) : r \in window.shape} ELSE seen
  <2> HIDE DEF seen, shape
  <2>1. CASE include_border /\ window.shape # {}
    BY <1>5, <2>1 DEF WindowPixels, shape
  <2>2. CASE ~(include_border /\ window.shape # {})
    BY <1>5, <2>2 DEF WindowPixels
  <2> QED BY <2>1, <2>2
<1>8. GetPixbuf(window, Empty, include_border, FALSE) =
        IF include_border /\ window.shape # {}
          THEN seen \cap UNION {copied(r) : r \in window.shape} ELSE seen
  BY DEF GetPixbuf, ShapedPixels
<1>9. seen \subseteq Pixels(Screen)
  OBVIOUS
<1> HIDE DEF seen, copied, shape
<1>10. /\ seen \cap UNION {copied(r) : r \in window.shape}
             \subseteq seen \cap UNION {shape(r) : r \in window.shape}
       /\ window.x >= 0 /\ window.y >= 0 =>
           seen \cap UNION {copied(r) : r \in window.shape}
             = seen \cap UNION {shape(r) : r \in window.shape}
  BY <1>6, <1>9
<1>11. CASE include_border /\ window.shape # {}
  BY <1>7, <1>8, <1>10, <1>11
<1>12. CASE ~(include_border /\ window.shape # {})
  BY <1>7, <1>8, <1>12
<1> QED BY <1>11, <1>12

-----------------------------------------------------------------------------
(* The selection, from the options to the shot.                            *)

IsSelection(sel) == sel = [f \in DOMAIN NoSelection |-> sel[f]]

(* The user has dragged from a point to a point. *)
Made(sel) ==
  sel.from \in Points /\ sel.to \in Points /\ sel.rect = Dragged(sel.from, sel.to)

(* Nothing is selected until an area is asked for, and then an area that is *)
(* taken is one that was dragged and is not empty.                          *)
SelectionHolds ==
  /\ IsSelection(selection) /\ ~(take_area_shot /\ take_window_shot)
  /\ phase \in {"options", "delay", "dialog"} => selection = NoSelection
  /\ phase = "area" => take_area_shot /\ (selection.pressed => selection.from \in Points)
  /\ phase = "found" => take_area_shot /\ (Made(selection) \/ IsEmpty(selection.rect))
  /\ phase = "check" /\ take_area_shot => Made(selection) /\ ~IsEmpty(selection.rect)
  /\ phase = "check" /\ ~take_area_shot => selection = NoSelection

asking == <<phase, selection, take_area_shot, take_window_shot>>

LEMMA NoSelectionIs ==
  /\ IsSelection(NoSelection) /\ IsEmpty(NoSelection.rect)
  /\ NoSelection.rect = Empty /\ ~NoSelection.pressed
BY DEF IsSelection, NoSelection, IsEmpty, Empty, Rect

(* The user's handlers of the selection. *)
LEMMA Handlers ==
  ASSUME NEW sel, IsSelection(sel), NEW p \in Points, sel.pressed => sel.from \in Points
  PROVE  /\ IsSelection(Press(sel, p)) /\ IsSelection(Motion(sel, p)) /\ IsSelection(Release(sel, p))
         /\ Press(sel, p).from \in Points
         /\ Motion(sel, p).pressed => Motion(sel, p).from \in Points
         /\ sel.pressed => Made(Release(sel, p))
<1>1. IsSelection(Press(sel, p)) /\ Press(sel, p).from \in Points
  BY DEF IsSelection, NoSelection, Press
<1>2. IsSelection(Motion(sel, p)) /\ (Motion(sel, p).pressed => Motion(sel, p).from \in Points)
  BY DEF IsSelection, NoSelection, Motion
<1>3. IsSelection(Release(sel, p)) /\ (sel.pressed => Made(Release(sel, p)))
  BY DEF IsSelection, NoSelection, Release, Made
<1> QED BY <1>1, <1>2, <1>3

(* Whichever way the program ends, it asks for nothing more.               *)
LEMMA QuitEnds ==
  ASSUME Quit
  PROVE  phase' \in {"gone", "closing"} /\ selection' = NoSelection
BY DEF Quit, Exit

LEMMA EndHolds ==
  ASSUME SelectionHolds, phase' \in {"gone", "closing"}, selection' = NoSelection,
         UNCHANGED take_area_shot, UNCHANGED take_window_shot
  PROVE  SelectionHolds'
BY NoSelectionIs DEF SelectionHolds

(* push_check_file_job. *)
LEMMA PushHolds ==
  ASSUME SelectionHolds, PushCheckFileJob,
         (phase = "delay" /\ ~take_area_shot) \/ phase = "found"
  PROVE  SelectionHolds'
<1>1. CASE Exit /\ UNCHANGED options
  <2>1. phase' = "gone" /\ selection' = NoSelection
    BY <1>1 DEF Exit
  <2> QED BY <1>1, <2>1, EndHolds DEF options
<1> DEFINE narrowed == UNCHANGED take_area_shot /\ take_window_shot' \in {take_window_shot, FALSE}
<1>2. narrowed => (take_area_shot' <=> take_area_shot) /\ ~(take_area_shot' /\ take_window_shot')
  <2>1. SUFFICES ASSUME narrowed
                 PROVE  (take_area_shot' <=> take_area_shot) /\ ~(take_area_shot' /\ take_window_shot')
    OBVIOUS
  <2>2. ~(take_area_shot /\ take_window_shot)
    BY DEF SelectionHolds
  <2>3. take_area_shot' = take_area_shot
    BY <2>1
  <2>4. take_window_shot' = take_window_shot \/ take_window_shot' = FALSE
    BY <2>1
  <2> HIDE DEF narrowed
  <2>5. take_area_shot' <=> take_area_shot
    BY ONLY <2>3, SMT
  <2>6. take_window_shot' => take_window_shot
    <3>1. CASE take_window_shot' = take_window_shot
      BY ONLY <3>1, SMT
    <3>2. CASE take_window_shot' = FALSE
      BY ONLY <3>2, SMT
    <3> QED BY ONLY <2>4, <3>1, <3>2, Zenon
  <2> QED BY ONLY <2>2, <2>5, <2>6, Zenon
<1>3. CASE narrowed /\ Quit
  <2> HIDE DEF narrowed
  <2> QED BY <1>2, <1>3, QuitEnds, NoSelectionIs DEF SelectionHolds
<1>4. CASE /\ narrowed /\ ~(phase = "found" /\ IsEmpty(selection.rect))
           /\ phase' = "check" /\ UNCHANGED selection
  <2> HIDE DEF narrowed
  <2>1. CASE phase = "delay" /\ ~take_area_shot
    BY <1>2, <1>4, <2>1 DEF SelectionHolds
  <2>2. CASE phase = "found"
    BY <1>2, <1>4, <2>2 DEF SelectionHolds
  <2> QED BY <2>1, <2>2
<1> QED BY <1>1, <1>3, <1>4 DEF PushCheckFileJob

(* One step per action that the selection or the phase is touched by; the   *)
(* others leave both alone.                                                 *)
THEOREM SelectionInvariant == Spec => []SelectionHolds
<1>1. Init => SelectionHolds
  <2> SUFFICES ASSUME Init PROVE SelectionHolds
    OBVIOUS
  <2>1. ~(take_area_shot /\ take_window_shot) /\ phase \in {"options", "delay"} /\ selection = NoSelection
    BY DEF Init
  <2> QED BY <2>1, NoSelectionIs DEF SelectionHolds
<1>2. SelectionHolds /\ [Next]_vars => SelectionHolds'
  <2> SUFFICES ASSUME SelectionHolds, [Next]_vars PROVE SelectionHolds'
    OBVIOUS
  <2>1. CASE UNCHANGED asking
    BY <2>1 DEF SelectionHolds, asking
  <2>2. CASE OptionsOk
    <3>1. ~(take_area_shot' /\ take_window_shot') /\ phase = "options" /\ phase' = "delay" /\ UNCHANGED selection
      BY <2>2 DEF OptionsOk
    <3> QED BY <3>1 DEF SelectionHolds
  <2>3. CASE OptionsCancel
    BY <2>3, QuitEnds, EndHolds DEF OptionsCancel, options
  <2>4. CASE Select
    <3>1. CASE AreaPress
      <4>1. PICK p \in Points : phase = "area" /\ phase' = "area" /\ selection' = Press(selection, p)
                                /\ UNCHANGED <<take_area_shot, take_window_shot>>
        BY <3>1 DEF AreaPress, Selecting, options
      <4> QED BY <4>1, Handlers DEF SelectionHolds
    <3>2. CASE AreaMotion
      <4>1. PICK p \in Points : phase = "area" /\ phase' = "area" /\ selection' = Motion(selection, p)
                                /\ UNCHANGED <<take_area_shot, take_window_shot>>
        BY <3>2 DEF AreaMotion, Selecting, options
      <4> QED BY <4>1, Handlers DEF SelectionHolds
    <3>3. CASE AreaRelease
      <4>1. PICK p \in Points : phase = "area" /\ phase' = "found" /\ selection' = Release(selection, p)
                                /\ UNCHANGED <<take_area_shot, take_window_shot>>
        BY <3>3 DEF AreaRelease, Selecting, options
      <4>2. selection.pressed
        BY <3>3 DEF AreaRelease
      <4> QED BY <4>1, <4>2, Handlers DEF SelectionHolds
    <3>4. CASE AreaEscape
      <4>1. phase = "area" /\ phase' = "found" /\ selection' = NoSelection
            /\ UNCHANGED <<take_area_shot, take_window_shot>>
        BY <3>4 DEF AreaEscape, Selecting, options
      <4> QED BY <4>1, NoSelectionIs DEF SelectionHolds
    <3> QED BY <2>4, <3>1, <3>2, <3>3, <3>4 DEF Select
  <2>5. CASE Prepare
    <3>1. CASE take_area_shot
      <4>1. /\ phase = "delay" /\ phase' \in {"area", "found"}
            /\ UNCHANGED <<selection, take_area_shot, take_window_shot>>
        BY <2>5, <3>1 DEF Prepare, options
      <4>2. selection = NoSelection
        BY <4>1 DEF SelectionHolds
      <4> QED BY <3>1, <4>1, <4>2, NoSelectionIs DEF SelectionHolds
    <3>2. CASE ~take_area_shot
      BY <2>5, <3>2, PushHolds DEF Prepare
    <3> QED BY <3>1, <3>2
  <2>6. CASE RectangleFound
    BY <2>6, PushHolds DEF RectangleFound
  <2>7. CASE FinishPrepareScreenshot
    <3>1. \/ phase' \in {"gone", "dialog"} /\ selection' = NoSelection
          \/ Quit
      BY <2>7 DEF FinishPrepareScreenshot, Exit
    <3>2. UNCHANGED <<take_area_shot, take_window_shot>>
      BY <2>7 DEF FinishPrepareScreenshot, options
    <3> QED BY <3>1, <3>2, QuitEnds, NoSelectionIs DEF SelectionHolds
  <2>8. CASE New
    <3>1. phase = "dialog" /\ phase' = "options" /\ UNCHANGED <<selection, take_area_shot, take_window_shot>>
      BY <2>8 DEF New, CanUse, CanClose, options
    <3> QED BY <3>1 DEF SelectionHolds
  <2>9. CASE Close
    BY <2>9, QuitEnds, EndHolds DEF Close, options
  <2>10. CASE Dismiss
    BY <2>10, EndHolds DEF Dismiss, Exit, options
  <2>11. CASE Crash
    BY <2>11, EndHolds DEF Crash, Exit, options
  <2>12. ASSUME NEW j \in 1..MaxTransfers, TransferDone(j) PROVE SelectionHolds'
    <3>1. CASE Quit
      BY <2>12, <3>1, QuitEnds, EndHolds DEF TransferDone, options
    <3>2. CASE UNCHANGED <<phase, selection>>
      BY <2>1, <2>12, <3>2 DEF TransferDone, options, asking
    <3> QED BY <2>12, <3>1, <3>2 DEF TransferDone
  <2>13. CASE Save \/ NameIsTaken \/ Answer
    BY <2>1, <2>13 DEF Save, NameIsTaken, Answer, JobUnchanged, process, options, asking
  <2>14. ASSUME NEW c \in Shots, ReadPipe(c) \/ ChildDone(c) \/ Child(c) \/ ChildDies(c)
         PROVE  SelectionHolds'
    BY <2>1, <2>14 DEF ReadPipe, ChildDone, Child, ChildOpens, ChildSaves, ChildFails, ChildEnds,
                       ChildDies, ChildUnchanged, process, options, asking
  <2>15. ASSUME NEW j \in 1..MaxTransfers, Copy(j) \/ CancelTransfer(j)
         PROVE  SelectionHolds'
    BY <2>1, <2>15 DEF Copy, JobStarts, CopyOpens, CopyFindsFile, CopyEnds, CopyFails,
                       CancelTransfer, JobUnchanged, options, asking
  <2>16. CASE UNCHANGED vars
    BY <2>1, <2>16 DEF vars, process, options, asking
  <2> QED BY <2>2, <2>3, <2>4, <2>5, <2>6, <2>7, <2>8, <2>9, <2>10, <2>11, <2>12, <2>13, <2>14,
             <2>15, <2>16 DEF Next, User
<1> QED BY <1>1, <1>2, PTL DEF Spec

(* The picture shows what was asked for, for every screen, every placement  *)
(* of monitors, every window and shape, and every way to drag.              *)
THEOREM PictureIsRight == Spec => []ShotShowsWhatWasAsked
<1>1. SelectionHolds => ShotShowsWhatWasAsked
  <2> SUFFICES ASSUME SelectionHolds, phase = "check" PROVE ShotShowsWhatWasAsked
    BY DEF ShotShowsWhatWasAsked
  <2>1. CASE take_area_shot
    <3>1. /\ selection.from \in Points /\ selection.to \in Points
          /\ selection.rect = Dragged(selection.from, selection.to) /\ ~IsEmpty(selection.rect)
      BY <2>1 DEF SelectionHolds, Made
    <3>2. Picture(Root, FALSE) = GetPixbuf(Root, selection.rect, FALSE, FALSE)
      BY <2>1 DEF Picture
    <3> QED BY <2>1, <3>1, <3>2, AreaPicture DEF ShotShowsWhatWasAsked
  <2>2. CASE ~take_area_shot
    <3>1. selection.rect = Empty
      BY <2>2, NoSelectionIs DEF SelectionHolds
    <3>2. CASE ~take_window_shot
      <4>1. Picture(Root, FALSE) = GetPixbuf(Root, Empty, FALSE, TRUE)
        BY <2>2, <3>1, <3>2 DEF Picture
      <4> QED BY <2>2, <3>2, <4>1, ScreenPicture DEF ShotShowsWhatWasAsked
    <3>3. CASE take_window_shot
      <4>1. ASSUME NEW window \in Windows, NEW include_border \in BOOLEAN
            PROVE  Picture(window, include_border) = GetPixbuf(window, Empty, include_border, FALSE)
        <5>1. CASE include_border
          BY <2>2, <3>1, <3>3, <5>1 DEF Picture
        <5>2. CASE ~include_border
          BY <2>2, <3>1, <3>3, <5>2 DEF Picture
        <5> QED BY <5>1, <5>2
      <4> QED BY <2>2, <3>3, <4>1, WindowPicture DEF ShotShowsWhatWasAsked
    <3> QED BY <3>2, <3>3
  <2> QED BY <2>1, <2>2
<1> QED BY <1>1, SelectionInvariant, PTL

-----------------------------------------------------------------------------
(* The save.                                                               *)

Files == {NoFile} \cup [shot : Nat, whole : BOOLEAN]
Job ==
  [state : {"queued", "copying", "asking", "writing", "finished", "done"},
   overwrite : BOOLEAN, agreed : BOOLEAN, cancelled : BOOLEAN, from : Files,
   result : {"none", "ok", "error", "overwrite", "cancelled"}]
Dialog == [kind : Messages \cup {"confirm"}, of : Nat]
Saving == {"none", "opening", "writing"}
Over   == {"closing", "gone"}
First  == Bytes(1, TRUE)

SaveTypes ==
  /\ shot \in Nat /\ jobs \in Seq(Job) /\ file \in Files
  /\ child \in [Shots -> Saving \cup {"waiting", "done", "killed", "noticed"}]
  /\ pipe \in [Shots -> {"open", "message", "hup", "read"}]
  /\ phase \in Over => jobs = <<>>
  /\ phase \notin Over => modal \in Seq(Dialog)

(* A child says nothing before it has saved, and there is none before its   *)
(* shot.                                                                    *)
ChildrenHold ==
  \A c \in Shots :
    /\ c > shot => child[c] = "none"
    /\ child[c] \in Saving <=> pipe[c] = "open"

(* While there is one shot, and its child was not killed as it was writing: *)
Undisturbed == shot <= 1 /\ "saving" \notin died

(* the file is what the child has written, and all of it once it said so;   *)
FileHolds ==
  /\ child[1] = "writing" => file \in {NoFile, Bytes(1, FALSE)}
  /\ pipe[1] = "hup" => file \in {NoFile, First}
  /\ temporary_file => pipe[1] = "read" /\ file \in {NoFile, First}

(* no copy begins before that, nor while another goes on;                   *)
OneCopy ==
  /\ jobs # <<>> => temporary_file
  /\ \A j \in DOMAIN jobs : j < Len(jobs) \/ ~busy => jobs[j].state = "done"

(* a copy reads the whole of it, and is not disturbed once it is made;      *)
CopyHolds ==
  \A j \in DOMAIN jobs :
    /\ jobs[j].state = "writing" => jobs[j].from = First
    /\ jobs[j].result = "ok" => jobs[j].state = "finished" /\ dest = First

(* and a confirmation is of the copy that waits for it.                     *)
DialogsHold ==
  phase \notin Over =>
    /\ \A i \in DOMAIN modal :
         modal[i].kind = "confirm" =>
           modal[i].of \in DOMAIN jobs /\ jobs[modal[i].of].state = "asking"
    /\ \A i, k \in DOMAIN modal :
         modal[i].kind = "confirm" /\ modal[i] = modal[k] => i = k

SaveHolds ==
  /\ SaveTypes /\ ChildrenHold
  /\ Undisturbed => FileHolds /\ OneCopy /\ CopyHolds /\ DialogsHold

LEMMA FirstIs == First \in Files /\ First # NoFile /\ NoFile \in Files /\ NewJob \in Job
<1>1. First \in [shot : Nat, whole : BOOLEAN]
  BY DEF First, Bytes
<1>2. First \in Files /\ First # NoFile /\ NoFile \in Files
  BY <1>1, NoFileAssumption DEF Files
<1>3. NewJob \in Job
  BY <1>2 DEF NewJob, Job
<1> QED BY <1>2, <1>3

(* What is not touched by a step stays as it was.                           *)
LEMMA KeepsJobs ==
  ASSUME UNCHANGED <<phase, jobs, modal, busy, temporary_file, dest>>
  PROVE  (OneCopy => OneCopy') /\ (CopyHolds => CopyHolds') /\ (DialogsHold => DialogsHold')
BY DEF OneCopy, CopyHolds, DialogsHold

(* The program ends. *)
LEMMA EndSaves ==
  ASSUME SaveHolds, phase' \in Over, jobs' = <<>>, temporary_file' => temporary_file,
         UNCHANGED <<shot, child, pipe, died, dest>>, file' \in {file, NoFile}
  PROVE  SaveHolds'
<1>1. SaveTypes'
  BY FirstIs DEF SaveHolds, SaveTypes, Files
<1>2. ChildrenHold'
  BY DEF SaveHolds, ChildrenHold
<1>3. Undisturbed' => FileHolds'
  BY DEF SaveHolds, Undisturbed, FileHolds
<1>4. OneCopy' /\ CopyHolds' /\ DialogsHold'
  BY DEF OneCopy, CopyHolds, DialogsHold
<1> QED BY <1>1, <1>2, <1>3, <1>4 DEF SaveHolds

LEMMA QuitSaves ==
  ASSUME Quit
  PROVE  phase' \in Over /\ jobs' = <<>> /\ (temporary_file' => temporary_file)
<1>1. CASE Exit
  BY <1>1 DEF Exit, Over
<1>2. CASE ~Exit
  <2>1. phase' = "closing" /\ jobs' = <<>> /\ temporary_file' = temporary_file
    BY <1>2 DEF Quit, flags
  <2> QED BY <2>1 DEF Over
<1> QED BY <1>1, <1>2

(* One copy takes a step. *)
LEMMA JobStep ==
  ASSUME SaveHolds, NEW j \in DOMAIN jobs, NEW k \in Job, jobs' = [jobs EXCEPT ![j] = k],
         UNCHANGED <<phase, temporary_file, shot, child, pipe, died, file>>,
         Undisturbed => jobs[j].state # "done" /\ (k.state # "done" => busy' = busy),
         modal' \in Seq(Dialog),
         Undisturbed =>
           /\ k.state = "writing" => k.from = First
           /\ k.result = "ok" => k.state = "finished" /\ dest' = First
           /\ (UNCHANGED modal /\ jobs[j].state # "asking") \/ DialogsHold'
  PROVE  SaveHolds'
<1>1. jobs \in Seq(Job) /\ jobs' \in Seq(Job) /\ jobs # <<>>
      /\ DOMAIN jobs' = DOMAIN jobs /\ Len(jobs') = Len(jobs)
      /\ jobs'[j] = k /\ \A i \in DOMAIN jobs : i # j => jobs'[i] = jobs[i]
  BY DEF SaveHolds, SaveTypes
<1>2. SaveTypes'
  BY <1>1 DEF SaveHolds, SaveTypes
<1>3. ChildrenHold'
  BY DEF SaveHolds, ChildrenHold
<1>4. ASSUME Undisturbed'
      PROVE  FileHolds' /\ OneCopy' /\ CopyHolds' /\ DialogsHold'
  <2>1. Undisturbed /\ FileHolds /\ OneCopy /\ CopyHolds /\ DialogsHold
    BY <1>4 DEF SaveHolds, Undisturbed
  <2>2. j = Len(jobs) /\ busy /\ temporary_file
    BY <1>1, <2>1 DEF OneCopy
  <2>3. \A i \in DOMAIN jobs : i # j => jobs[i].state = "done"
    BY <1>1, <2>1, <2>2 DEF OneCopy
  <2>4. FileHolds'
    BY <2>1 DEF FileHolds
  <2>5. k.state # "done" => busy'
    <3>1. k.state # "done" => busy' = busy
      BY <2>1
    <3> QED BY <2>2, <3>1, Zenon
  <2>6. jobs' # <<>> => temporary_file'
    BY <2>2, Zenon
  <2>7. OneCopy'
    BY <1>1, <2>2, <2>3, <2>5, <2>6 DEF OneCopy
  <2>8. CopyHolds'
    BY <1>1, <2>1, <2>3 DEF CopyHolds
  <2>9. DialogsHold'
    <3>1. CASE UNCHANGED modal /\ jobs[j].state # "asking"
      BY <1>1, <2>1, <3>1 DEF DialogsHold
    <3> QED BY <2>1, <3>1
  <2> QED BY <2>4, <2>7, <2>8, <2>9
<1> QED BY <1>2, <1>3, <1>4 DEF SaveHolds

(* The user asks for a copy of a file that is saved, and none goes on.     *)
LEMMA JobAdded ==
  ASSUME SaveHolds, phase \notin Over, jobs' = Append(jobs, NewJob), busy' = TRUE,
         temporary_file', Undisturbed => \A j \in DOMAIN jobs : jobs[j].state = "done",
         UNCHANGED <<phase, modal, shot, child, died, file, dest>>,
         pipe' \in [Shots -> {"open", "message", "hup", "read"}],
         ChildrenHold', Undisturbed => FileHolds'
  PROVE  SaveHolds'
<1>1. /\ jobs \in Seq(Job) /\ jobs' \in Seq(Job) /\ Len(jobs') = Len(jobs) + 1
      /\ Len(jobs) \in Nat /\ DOMAIN jobs = 1..Len(jobs) /\ DOMAIN jobs' = 1..Len(jobs')
      /\ jobs'[Len(jobs) + 1] = NewJob /\ \A i \in DOMAIN jobs : jobs'[i] = jobs[i]
  BY FirstIs DEF SaveHolds, SaveTypes
<1>2. SaveTypes'
  BY <1>1 DEF SaveHolds, SaveTypes
<1>3. ASSUME Undisturbed'
      PROVE  FileHolds' /\ OneCopy' /\ CopyHolds' /\ DialogsHold'
  <2>1. Undisturbed /\ FileHolds' /\ CopyHolds /\ DialogsHold
        /\ \A j \in DOMAIN jobs : jobs[j].state = "done"
    BY <1>3 DEF SaveHolds, Undisturbed
  <2>2. busy'
    BY SMT
  <2>3. OneCopy'
    <3>1. \A j \in DOMAIN jobs' : j < Len(jobs') => j \in DOMAIN jobs
      BY <1>1
    <3> QED BY <1>1, <2>1, <2>2, <3>1 DEF OneCopy
  <2>4. CopyHolds'
    <3>1. NewJob.state # "writing" /\ NewJob.result # "ok"
      BY DEF NewJob
    <3>2. \A j \in DOMAIN jobs' : j \in DOMAIN jobs \/ jobs'[j] = NewJob
      BY <1>1
    <3> QED BY <1>1, <2>1, <3>1, <3>2 DEF CopyHolds
  <2>5. DialogsHold'
    BY <1>1, <2>1 DEF DialogsHold
  <2> QED BY <2>1, <2>3, <2>4, <2>5
<1> QED BY <1>2, <1>3 DEF SaveHolds

(* A message is no confirmation. *)
LEMMA MessageAdded ==
  ASSUME SaveHolds, phase \notin Over, UNCHANGED <<phase, jobs, busy, temporary_file, shot, died, file, dest>>,
         NEW kind \in Messages, NEW c \in Shots, modal' = Append(modal, [kind |-> kind, of |-> c]),
         child' \in [Shots -> Saving \cup {"waiting", "done", "killed", "noticed"}],
         pipe' \in [Shots -> {"open", "message", "hup", "read"}],
         ChildrenHold', Undisturbed => FileHolds'
  PROVE  SaveHolds'
<1> DEFINE m == [kind |-> kind, of |-> c]
<1>1. /\ m \in Dialog /\ m.kind # "confirm"
  BY DEF Messages, Dialog, Shots
<1>2. /\ modal \in Seq(Dialog) /\ modal' = Append(modal, m)
  BY DEF SaveHolds, SaveTypes
<1> HIDE DEF m
<1>3. /\ modal' \in Seq(Dialog)
      /\ \A i \in DOMAIN modal' : modal'[i].kind = "confirm" => i \in DOMAIN modal /\ modal'[i] = modal[i]
  BY <1>1, <1>2
<1>4. SaveTypes'
  BY <1>3 DEF SaveHolds, SaveTypes
<1>5. ASSUME Undisturbed'
      PROVE  FileHolds' /\ OneCopy' /\ CopyHolds' /\ DialogsHold'
  <2>1. Undisturbed /\ FileHolds' /\ OneCopy /\ CopyHolds /\ DialogsHold
    BY <1>5 DEF SaveHolds, Undisturbed
  <2>2. OneCopy' /\ CopyHolds'
    BY <2>1 DEF OneCopy, CopyHolds
  <2>3. DialogsHold'
    <3>1. /\ \A i \in DOMAIN modal :
               modal[i].kind = "confirm" =>
                 modal[i].of \in DOMAIN jobs /\ jobs[modal[i].of].state = "asking"
          /\ \A i, k \in DOMAIN modal :
               modal[i].kind = "confirm" /\ modal[i] = modal[k] => i = k
      BY <2>1 DEF DialogsHold
    <3>2. \A i, k \in DOMAIN modal' :
            modal'[i].kind = "confirm" /\ modal'[i] = modal'[k] => i = k
      <4> SUFFICES ASSUME NEW i \in DOMAIN modal', NEW k \in DOMAIN modal',
                          modal'[i].kind = "confirm", modal'[i] = modal'[k]
                   PROVE  i = k
        OBVIOUS
      <4>1. /\ i \in DOMAIN modal /\ modal'[i] = modal[i]
            /\ k \in DOMAIN modal /\ modal'[k] = modal[k]
        BY <1>3
      <4> QED BY <3>1, <4>1
    <3>3. \A i \in DOMAIN modal' :
            modal'[i].kind = "confirm" =>
              modal'[i].of \in DOMAIN jobs /\ jobs[modal'[i].of].state = "asking"
      BY <1>3, <3>1
    <3> QED BY <3>2, <3>3 DEF DialogsHold
  <2> QED BY <2>1, <2>2, <2>3
<1> QED BY <1>4, <1>5 DEF SaveHolds

saving == <<jobs, modal, busy, temporary_file, shot, child, pipe, died, file, dest>>

(* The parent goes on to something else. *)
LEMMA Moves ==
  ASSUME SaveHolds, phase \notin Over \/ UNCHANGED phase, phase' \notin Over \/ UNCHANGED phase,
         UNCHANGED saving
  PROVE  SaveHolds'
<1>1. SaveTypes'
  BY DEF SaveHolds, SaveTypes, saving
<1>2. ChildrenHold'
  BY DEF SaveHolds, ChildrenHold, saving
<1>3. ASSUME Undisturbed'
      PROVE  FileHolds' /\ OneCopy' /\ CopyHolds' /\ DialogsHold'
  <2>1. Undisturbed /\ FileHolds /\ OneCopy /\ CopyHolds /\ DialogsHold
    BY <1>3 DEF SaveHolds, Undisturbed, saving
  <2>2. FileHolds' /\ OneCopy' /\ CopyHolds'
    BY <2>1 DEF FileHolds, OneCopy, CopyHolds, saving
  <2>3. DialogsHold'
    BY <2>1 DEF DialogsHold, saving
  <2> QED BY <2>2, <2>3
<1> QED BY <1>1, <1>2, <1>3 DEF SaveHolds

LEMMA PushSaves ==
  ASSUME SaveHolds, PushCheckFileJob, phase \notin Over,
         UNCHANGED <<shot, children, temp, dest>>
  PROVE  SaveHolds'
<1>1. CASE Exit
  BY <1>1, EndSaves DEF Exit, Over, children, temp
<1>2. CASE Quit
  BY <1>2, QuitSaves, EndSaves DEF children, temp
<1>3. CASE phase' = "check" /\ UNCHANGED shown
  BY <1>3, Moves DEF Over, saving, shown, flags, children, temp
<1> QED BY <1>1, <1>2, <1>3 DEF PushCheckFileJob

(* The first shot finds no copy, and a later one is not the only one.      *)
LEMMA FinishPrepareSaves ==
  ASSUME SaveHolds, FinishPrepareScreenshot
  PROVE  SaveHolds'
<1>1. phase = "check" /\ UNCHANGED <<pipe, died, file>>
  BY DEF FinishPrepareScreenshot
<1>2. CASE Exit /\ UNCHANGED <<shot, child, dest>>
  BY <1>1, <1>2, EndSaves DEF Exit, Over
<1>3. CASE Quit /\ UNCHANGED <<shot, child, dest>>
  BY <1>1, <1>3, QuitSaves, EndSaves
<1>4. CASE SaveStart /\ phase' = "dialog" /\ dest' = NoFile /\ UNCHANGED shown
  <2>1. /\ shot' = shot + 1 /\ shot \in Nat /\ 1 \in Shots
        /\ child' = [child EXCEPT ![shot + 1] = "opening"] \/ child' = child
        /\ UNCHANGED <<busy, modal, temporary_file, jobs>>
    BY <1>4, BoundsAssumption DEF SaveStart, shown, flags, SaveHolds, SaveTypes, Shots
  <2>2. SaveTypes'
    BY <1>1, <1>4, <2>1, FirstIs DEF SaveHolds, SaveTypes, Over, Saving
  <2>3. ChildrenHold'
    <3> SUFFICES ASSUME NEW c \in Shots
                 PROVE  /\ c > shot' => child'[c] = "none"
                        /\ child'[c] \in Saving <=> pipe'[c] = "open"
      BY DEF ChildrenHold
    <3>1. /\ c > shot => child[c] = "none"
          /\ child[c] \in Saving <=> pipe[c] = "open"
          /\ child \in [Shots -> Saving \cup {"waiting", "done", "killed", "noticed"}]
      BY DEF SaveHolds, SaveTypes, ChildrenHold
    <3>2. c > shot' => c > shot /\ c # shot + 1
      BY <2>1 DEF Shots
    <3>3. c = shot + 1 => child[c] = "none"
      BY <2>1, <3>1 DEF Shots
    <3>4. c # shot + 1 => child'[c] = child[c]
      BY <2>1, <3>1
    <3>5. c = shot + 1 => child'[c] = "opening" \/ child'[c] = child[c]
      BY <2>1, <3>1
    <3>6. pipe'[c] = pipe[c]
      BY <1>1
    <3> QED BY <3>1, <3>2, <3>3, <3>4, <3>5, <3>6 DEF Saving
  <2>4. ASSUME Undisturbed'
        PROVE  FileHolds' /\ OneCopy' /\ CopyHolds' /\ DialogsHold'
    <3>1. shot = 0 /\ Undisturbed
      BY <1>1, <2>1, <2>4 DEF Undisturbed
    <3>2. child[1] = "none" /\ pipe[1] = "open"
      BY <2>1, <3>1 DEF SaveHolds, ChildrenHold, Saving
    <3>3. ~temporary_file
      BY <3>1, <3>2 DEF SaveHolds, FileHolds
    <3>4. jobs = <<>>
      BY <3>1, <3>3 DEF SaveHolds, OneCopy
    <3>5. child'[1] # "writing"
      BY <2>1, <3>2 DEF SaveHolds, SaveTypes
    <3>6. ~temporary_file'
      BY ONLY <2>1, <3>3, SMT
    <3>7. FileHolds'
      BY <1>1, <3>2, <3>5, <3>6 DEF FileHolds
    <3>8. OneCopy' /\ CopyHolds'
      BY <2>1, <3>4 DEF OneCopy, CopyHolds
    <3>9. DialogsHold'
      BY <1>1, <2>1, <3>1 DEF SaveHolds, DialogsHold, Over
    <3> QED BY <3>7, <3>8, <3>9
  <2> QED BY <2>2, <2>3, <2>4 DEF SaveHolds
<1> QED BY <1>2, <1>3, <1>4 DEF FinishPrepareScreenshot

(* The response OK, and what comes of it. *)
LEMMA SaveSaves ==
  ASSUME SaveHolds, Save
  PROVE  SaveHolds'
<1>1. /\ phase = "dialog" /\ ~busy
      /\ UNCHANGED <<phase, modal, shot, child, pipe, died, file, dest>>
  BY DEF Save, CanUse, CanClose, children, temp
<1>2. CASE temporary_file
  <2>1. busy' = TRUE /\ jobs' = Append(jobs, NewJob) /\ UNCHANGED temporary_file
    BY <1>2 DEF Save, RespondOk, flags
  <2>2. temporary_file'
    BY ONLY <1>2, <2>1, SMT
  <2>3. Undisturbed => \A j \in DOMAIN jobs : jobs[j].state = "done"
    BY <1>1 DEF SaveHolds, OneCopy
  <2>4. ChildrenHold' /\ (Undisturbed => FileHolds') /\ pipe' \in [Shots -> {"open", "message", "hup", "read"}]
    BY <1>1, <2>1 DEF SaveHolds, ChildrenHold, FileHolds, SaveTypes
  <2>5. phase \notin Over
    BY <1>1 DEF Over
  <2> QED BY <1>1, <2>1, <2>2, <2>3, <2>4, <2>5, JobAdded
<1>3. CASE ~temporary_file
  <2>1. UNCHANGED <<temporary_file, jobs>>
    BY <1>3 DEF Save, RespondOk
  <2>2. SaveTypes' /\ ChildrenHold'
    BY <1>1, <2>1 DEF SaveHolds, SaveTypes, ChildrenHold
  <2>3. ASSUME Undisturbed'
        PROVE  FileHolds' /\ OneCopy' /\ CopyHolds' /\ DialogsHold'
    <3>1. Undisturbed /\ FileHolds /\ OneCopy /\ CopyHolds /\ DialogsHold
      BY <1>1, <2>3 DEF SaveHolds, Undisturbed
    <3>2. jobs = <<>>
      BY <1>3, <3>1 DEF OneCopy
    <3> QED BY <1>1, <2>1, <3>1, <3>2 DEF FileHolds, OneCopy, CopyHolds, DialogsHold
  <2> QED BY <2>2, <2>3 DEF SaveHolds
<1> QED BY <1>2, <1>3

LEMMA NameSaves ==
  ASSUME SaveHolds, NameIsTaken
  PROVE  SaveHolds'
<1>1. /\ dest = NoFile /\ dest' = Bytes(Old, TRUE)
      /\ UNCHANGED <<phase, jobs, modal, busy, temporary_file, shot, child, pipe, died, file>>
  BY DEF NameIsTaken, process, shown, flags, children, temp
<1>3. SaveTypes' /\ ChildrenHold'
  BY <1>1 DEF SaveHolds, SaveTypes, ChildrenHold
<1>4. ASSUME Undisturbed'
      PROVE  FileHolds' /\ OneCopy' /\ CopyHolds' /\ DialogsHold'
  <2>1. Undisturbed /\ FileHolds /\ OneCopy /\ CopyHolds /\ DialogsHold
    BY <1>1, <1>4 DEF SaveHolds, Undisturbed
  <2>2. CopyHolds'
    BY <1>1, <2>1, FirstIs DEF CopyHolds
  <2> QED BY <1>1, <2>1, <2>2 DEF FileHolds, OneCopy, DialogsHold
<1> QED BY <1>3, <1>4 DEF SaveHolds

-----------------------------------------------------------------------------
(* The children.                                                           *)

(* Only the first child does anything while there is one shot. *)
LEMMA OnlyFirst ==
  ASSUME SaveHolds, Undisturbed, NEW c \in Shots, child[c] # "none" \/ pipe[c] # "open"
  PROVE  c = 1
BY BoundsAssumption DEF SaveHolds, SaveTypes, ChildrenHold, Undisturbed, Shots, Saving

(* What a child does leaves the parent alone. *)
LEMMA ChildStep ==
  ASSUME SaveHolds, NEW c \in Shots, child[c] # "none",
         UNCHANGED <<phase, jobs, modal, busy, temporary_file, shot, dest>>,
         child' = [child EXCEPT ![c] = child'[c]], pipe' = [pipe EXCEPT ![c] = pipe'[c]],
         child'[c] \in {"opening", "writing", "waiting", "done", "killed", "noticed"},
         pipe'[c] \in {"open", "message", "hup", "read"},
         child'[c] \in Saving <=> pipe'[c] = "open",
         file' \in Files, "saving" \in died => "saving" \in died',
         Undisturbed' => FileHolds'
  PROVE  SaveHolds'
<1>1. /\ child \in [Shots -> Saving \cup {"waiting", "done", "killed", "noticed"}]
      /\ pipe \in [Shots -> {"open", "message", "hup", "read"}]
  BY DEF SaveHolds, SaveTypes
<1>2. SaveTypes'
  <2>1. /\ child' \in [Shots -> Saving \cup {"waiting", "done", "killed", "noticed"}]
        /\ pipe' \in [Shots -> {"open", "message", "hup", "read"}]
    BY <1>1 DEF Saving
  <2> QED BY <2>1 DEF SaveHolds, SaveTypes
<1>3. ChildrenHold'
  <2> SUFFICES ASSUME NEW d \in Shots
               PROVE  /\ d > shot => child'[d] = "none"
                      /\ child'[d] \in Saving <=> pipe'[d] = "open"
    BY DEF ChildrenHold
  <2>1. /\ d > shot => child[d] = "none"
        /\ child[d] \in Saving <=> pipe[d] = "open"
    BY DEF SaveHolds, ChildrenHold
  <2>2. CASE d = c
    BY <1>1, <2>1, <2>2
  <2>3. CASE d # c
    BY <1>1, <2>1, <2>3
  <2> QED BY <2>2, <2>3
<1>4. ASSUME Undisturbed'
      PROVE  FileHolds' /\ OneCopy' /\ CopyHolds' /\ DialogsHold'
  <2>1. Undisturbed /\ OneCopy /\ CopyHolds /\ DialogsHold
    BY <1>4 DEF SaveHolds, Undisturbed
  <2> QED BY <1>4, <2>1, KeepsJobs
<1> QED BY <1>2, <1>3, <1>4 DEF SaveHolds

(* The child opens the file, writes it, says so, and ends or dies.         *)
LEMMA ChildSaving ==
  ASSUME SaveHolds, NEW c \in Shots, Child(c) \/ ChildDies(c)
  PROVE  SaveHolds'
<1>1. /\ child \in [Shots -> Saving \cup {"waiting", "done", "killed", "noticed"}]
      /\ pipe \in [Shots -> {"open", "message", "hup", "read"}]
      /\ child[c] \in Saving <=> pipe[c] = "open"
      /\ pipe = [pipe EXCEPT ![c] = pipe[c]]
      /\ file \in Files /\ shot \in Nat
  BY DEF SaveHolds, SaveTypes, ChildrenHold
<1>2. UNCHANGED <<phase, jobs, modal, busy, temporary_file, shot, dest>> /\ child[c] # "none"
  BY DEF Child, ChildOpens, ChildSaves, ChildFails, ChildEnds, ChildDies, ChildUnchanged, Alive,
         process, shown, flags
<1>3. ASSUME Undisturbed', "saving" \in died => "saving" \in died'
      PROVE  Undisturbed /\ FileHolds /\ c = 1 /\ \A d \in Shots : d # c => child[d] = "none"
  <2>1. Undisturbed
    BY <1>2, <1>3 DEF Undisturbed
  <2> QED BY <1>2, <2>1, OnlyFirst DEF SaveHolds
<1>4. CASE ChildOpens(c)
  <2>1. /\ child[c] = "opening" /\ child' = [child EXCEPT ![c] = "writing"]
        /\ pipe' = [pipe EXCEPT ![c] = pipe[c]] /\ died' = died
        /\ file' = Bytes(IF \E d \in Shots : child[d] = "writing" THEN Mixed ELSE c, FALSE)
    BY <1>1, <1>4 DEF ChildOpens
  <2>2. file' \in Files
    BY <2>1 DEF Files, Bytes, Mixed, Shots
  <2>3. ASSUME Undisturbed' PROVE FileHolds'
    <3>1. Undisturbed /\ FileHolds /\ c = 1 /\ \A d \in Shots : child[d] # "writing"
      BY <1>3, <2>1, <2>3
    <3>2. file' = Bytes(1, FALSE) /\ pipe[1] = "open" /\ pipe' = pipe
      BY <1>1, <2>1, <3>1 DEF Saving
    <3> QED BY <1>2, <3>1, <3>2 DEF FileHolds
  <2>9. /\ child' = [child EXCEPT ![c] = child'[c]] /\ child'[c] = "writing"
        /\ pipe' = [pipe EXCEPT ![c] = pipe'[c]] /\ pipe'[c] = "open"
    BY <1>1, <2>1 DEF Saving
  <2> QED BY <1>1, <1>2, <2>1, <2>2, <2>3, <2>9, ChildStep DEF Saving
<1>5. CASE ChildSaves(c)
  <2>1. /\ child[c] = "writing" /\ child' = [child EXCEPT ![c] = "waiting"]
        /\ pipe' = [pipe EXCEPT ![c] = "hup"] /\ died' = died
        /\ file' = IF file = Bytes(c, FALSE) THEN Bytes(c, TRUE) ELSE file
    BY <1>5 DEF ChildSaves
  <2>2. file' \in Files
    <3>1. Bytes(c, TRUE) \in Files
      BY DEF Files, Bytes, Shots
    <3> QED BY <1>1, <2>1, <3>1
  <2>3. ASSUME Undisturbed' PROVE FileHolds'
    <3>1. Undisturbed /\ FileHolds /\ c = 1
      BY <1>3, <2>1, <2>3
    <3>2. pipe[1] = "open"
      BY <1>1, <2>1, <3>1 DEF Saving
    <3>3. ~temporary_file /\ file \in {NoFile, Bytes(1, FALSE)}
      BY <2>1, <3>1, <3>2 DEF FileHolds
    <3>4. file' \in {NoFile, First}
      BY <2>1, <3>1, <3>3 DEF First
    <3>5. child'[1] = "waiting"
      BY <1>1, <2>1, <3>1
    <3>6. ~temporary_file'
      BY <1>2, <3>3
    <3> QED BY <3>4, <3>5, <3>6 DEF FileHolds
  <2>9. /\ child' = [child EXCEPT ![c] = child'[c]] /\ child'[c] = "waiting"
        /\ pipe' = [pipe EXCEPT ![c] = pipe'[c]] /\ pipe'[c] = "hup"
    BY <1>1, <2>1 DEF Saving
  <2> QED BY <1>1, <1>2, <2>1, <2>2, <2>3, <2>9, ChildStep DEF Saving
<1>6. CASE ChildFails(c)
  <2>1. /\ child[c] \in {"opening", "writing"} /\ child' = [child EXCEPT ![c] = "waiting"]
        /\ pipe' = [pipe EXCEPT ![c] = "message"] /\ died' = died
        /\ file' \in {file, NoFile}
    BY <1>6 DEF ChildFails
  <2>2. file' \in Files
    BY <1>1, <2>1, FirstIs
  <2>3. ASSUME Undisturbed' PROVE FileHolds'
    <3>1. Undisturbed /\ FileHolds /\ c = 1
      BY <1>3, <2>1, <2>3
    <3>2. pipe[1] = "open"
      BY <1>1, <2>1, <3>1 DEF Saving
    <3>3. ~temporary_file
      BY <3>1, <3>2 DEF FileHolds
    <3>4. child'[1] = "waiting" /\ pipe'[1] = "message"
      BY <1>1, <2>1, <3>1
    <3>5. ~temporary_file'
      BY <1>2, <3>3
    <3> QED BY <3>4, <3>5 DEF FileHolds
  <2>9. /\ child' = [child EXCEPT ![c] = child'[c]] /\ child'[c] = "waiting"
        /\ pipe' = [pipe EXCEPT ![c] = pipe'[c]] /\ pipe'[c] = "message"
    BY <1>1, <2>1 DEF Saving
  <2> QED BY <1>1, <1>2, <2>1, <2>2, <2>3, <2>9, ChildStep DEF Saving
<1>7. CASE ChildEnds(c)
  <2>1. /\ child[c] = "waiting" /\ child' = [child EXCEPT ![c] = "done"]
        /\ pipe' = [pipe EXCEPT ![c] = pipe[c]] /\ died' = died /\ pipe' = pipe
        /\ file' = NoFile
    BY <1>1, <1>7 DEF ChildEnds, CleanUpTemporaryDir
  <2>2. ASSUME Undisturbed' PROVE FileHolds'
    <3>1. Undisturbed /\ FileHolds /\ c = 1
      BY <1>3, <2>1, <2>2
    <3>2. child'[1] = "done"
      BY <1>1, <2>1, <3>1
    <3> QED BY <1>2, <2>1, <3>1, <3>2 DEF FileHolds
  <2>9. /\ child' = [child EXCEPT ![c] = child'[c]] /\ child'[c] = "done"
        /\ pipe' = [pipe EXCEPT ![c] = pipe'[c]] /\ pipe'[c] \in {"message", "hup", "read"}
    BY <1>1, <2>1 DEF Saving
  <2> QED BY <1>1, <1>2, <2>1, <2>2, FirstIs, <2>9, ChildStep DEF Saving
<1>8. CASE ChildDies(c)
  <2> DEFINE says == IF pipe[c] = "open" THEN "hup" ELSE pipe[c]
  <2>1. /\ Alive(c) /\ child' = [child EXCEPT ![c] = "killed"]
        /\ pipe' = [pipe EXCEPT ![c] = says]
        /\ died' = died \cup {IF child[c] = "waiting" THEN "waiting" ELSE "saving"}
        /\ file' \in {file, NoFile}
    BY <1>1, <1>8 DEF ChildDies, CleanUpTemporaryDir
  <2>2. file' \in Files
    BY <1>1, <2>1, FirstIs
  <2>3. says \in {"open", "message", "hup", "read"}
    BY <1>1
  <2> HIDE DEF says
  <2>4. ASSUME Undisturbed' PROVE FileHolds'
    <3>1. Undisturbed /\ FileHolds /\ c = 1
      BY <1>3, <2>1, <2>4
    <3>2. child[1] = "waiting"
      BY <2>1, <2>4, <3>1 DEF Undisturbed, Alive
    <3>3. child'[1] = "killed"
      BY <1>1, <2>1, <3>1
    <3>4. pipe[1] # "open"
      BY <1>1, <3>1, <3>2 DEF Saving
    <3>5. pipe'[1] = pipe[1]
      BY <1>1, <2>1, <3>1, <3>4 DEF says
    <3> QED BY <1>2, <2>1, <3>1, <3>3, <3>5 DEF FileHolds
  <2>9. /\ child' = [child EXCEPT ![c] = child'[c]] /\ child'[c] = "killed"
        /\ pipe' = [pipe EXCEPT ![c] = pipe'[c]] /\ pipe'[c] \in {"message", "hup", "read"}
    BY <1>1, <2>1 DEF Alive, Saving, says
  <2> QED BY <1>1, <1>2, <2>1, <2>2, <2>3, <2>4, <2>9, ChildStep DEF Saving
<1> QED BY <1>4, <1>5, <1>6, <1>7, <1>8 DEF Child

(* The parent hears of it. *)
LEMMA PipeRead ==
  ASSUME SaveHolds, NEW c \in Shots, ReadPipe(c)
  PROVE  SaveHolds'
<1>1. /\ phase \notin Over /\ pipe[c] \in {"message", "hup"} /\ pipe' = [pipe EXCEPT ![c] = "read"]
      /\ UNCHANGED <<phase, shot, child, died, file, dest>>
  BY DEF ReadPipe, temp, Over
<1>2. /\ child' \in [Shots -> Saving \cup {"waiting", "done", "killed", "noticed"}]
      /\ pipe' \in [Shots -> {"open", "message", "hup", "read"}]
      /\ pipe'[c] = "read" /\ \A d \in Shots : d # c => pipe'[d] = pipe[d]
  BY <1>1 DEF SaveHolds, SaveTypes
<1>3. ChildrenHold'
  BY <1>1, <1>2 DEF SaveHolds, ChildrenHold
<1>4. ASSUME Undisturbed
      PROVE  c = 1 /\ FileHolds /\ ~temporary_file /\ jobs = <<>>
  <2>1. c = 1
    BY <1>1, <1>4, OnlyFirst
  <2>2. FileHolds /\ ~temporary_file
    BY <1>1, <1>4, <2>1 DEF SaveHolds, FileHolds
  <2> QED BY <1>4, <2>1, <2>2 DEF SaveHolds, OneCopy
<1>5. CASE /\ pipe[c] = "message" /\ modal' = Append(modal, [kind |-> "save_failed", of |-> c])
           /\ UNCHANGED <<busy, flags, jobs>>
  <2>1. Undisturbed => FileHolds'
    <3> SUFFICES ASSUME Undisturbed PROVE FileHolds'
      OBVIOUS
    <3>1. ~temporary_file' /\ pipe'[1] = "read"
      BY <1>2, <1>4, <1>5 DEF flags
    <3> QED BY <1>1, <1>4, <3>1 DEF FileHolds
  <2>2. "save_failed" \in Messages /\ UNCHANGED temporary_file
    BY <1>5 DEF Messages, flags
  <2> QED BY <1>1, <1>2, <1>3, <1>5, <2>1, <2>2, MessageAdded
<1>6. CASE pipe[c] = "hup" /\ SaveDone /\ UNCHANGED modal
  <2>1. temporary_file'
    BY <1>6, SMT DEF SaveDone
  <2>2. Undisturbed => FileHolds'
    <3> SUFFICES ASSUME Undisturbed PROVE FileHolds'
      OBVIOUS
    <3>1. c = 1 /\ FileHolds /\ pipe'[1] = "read"
      BY <1>2, <1>4
    <3> QED BY <1>1, <1>6, <3>1 DEF FileHolds
  <2>3. CASE busy' = TRUE /\ jobs' = Append(jobs, NewJob)
    <3>1. Undisturbed => \A j \in DOMAIN jobs : jobs[j].state = "done"
      BY <1>4
    <3> QED BY <1>1, <1>2, <1>3, <1>6, <2>1, <2>2, <2>3, <3>1, JobAdded
  <2>4. CASE UNCHANGED <<busy, jobs>>
    <3>1. SaveTypes'
      BY <1>1, <1>2, <1>6, <2>4 DEF SaveHolds, SaveTypes
    <3>2. ASSUME Undisturbed' PROVE FileHolds' /\ OneCopy' /\ CopyHolds' /\ DialogsHold'
      <4>1. Undisturbed
        BY <1>1, <3>2 DEF Undisturbed
      <4>2. jobs' = <<>> /\ DialogsHold /\ FileHolds'
        BY <1>4, <2>2, <2>4, <4>1 DEF SaveHolds
      <4> QED BY <1>1, <1>6, <2>4, <4>2 DEF OneCopy, CopyHolds, DialogsHold
    <3> QED BY <1>3, <3>1, <3>2 DEF SaveHolds
  <2> QED BY <1>6, <2>3, <2>4 DEF SaveDone
<1> QED BY <1>5, <1>6 DEF ReadPipe

LEMMA DeathNoticed ==
  ASSUME SaveHolds, NEW c \in Shots, ChildDone(c)
  PROVE  SaveHolds'
<1>1. /\ phase \notin Over /\ child[c] = "killed" /\ child' = [child EXCEPT ![c] = "noticed"]
      /\ UNCHANGED <<phase, shot, pipe, died, file, dest, busy, temporary_file, jobs>>
      /\ modal' = Append(modal, [kind |-> "child_died", of |-> c])
  BY DEF ChildDone, temp, flags, Over
<1>2. /\ child \in [Shots -> Saving \cup {"waiting", "done", "killed", "noticed"}]
      /\ pipe \in [Shots -> {"open", "message", "hup", "read"}]
  BY DEF SaveHolds, SaveTypes
<1>3. /\ child' \in [Shots -> Saving \cup {"waiting", "done", "killed", "noticed"}]
      /\ child'[c] = "noticed" /\ \A d \in Shots : d # c => child'[d] = child[d]
      /\ pipe' \in [Shots -> {"open", "message", "hup", "read"}]
  BY <1>1, <1>2
<1>4. ChildrenHold'
  <2> SUFFICES ASSUME NEW d \in Shots
               PROVE  /\ d > shot => child'[d] = "none"
                      /\ child'[d] \in Saving <=> pipe[d] = "open"
    BY <1>1 DEF ChildrenHold
  <2>1. /\ d > shot => child[d] = "none"
        /\ child[d] \in Saving <=> pipe[d] = "open"
    BY DEF SaveHolds, ChildrenHold
  <2> QED BY <1>1, <1>3, <2>1 DEF Saving
<1>5. Undisturbed => FileHolds'
  <2> SUFFICES ASSUME Undisturbed PROVE FileHolds'
    OBVIOUS
  <2>1. FileHolds /\ c = 1
    BY <1>1, OnlyFirst DEF SaveHolds
  <2> QED BY <1>1, <1>3, <2>1 DEF FileHolds
<1>6. "child_died" \in Messages
  BY DEF Messages
<1> QED BY <1>1, <1>3, <1>4, <1>5, <1>6, MessageAdded

-----------------------------------------------------------------------------
(* The copies.                                                             *)

LEMMA Jobs ==
  ASSUME SaveHolds, NEW j \in DOMAIN jobs
  PROVE  /\ jobs \in Seq(Job) /\ jobs[j] \in Job /\ phase \notin Over /\ modal \in Seq(Dialog)
         /\ file \in Files /\ j \in Nat
         /\ Undisturbed => /\ file \in {NoFile, First}
                           /\ jobs[j].state = "writing" => jobs[j].from = First
                           /\ jobs[j].result = "ok" => jobs[j].state = "finished" /\ dest = First
<1>1. jobs \in Seq(Job) /\ jobs # <<>> /\ file \in Files
  BY DEF SaveHolds, SaveTypes
<1>2. jobs[j] \in Job /\ j \in Nat
  BY <1>1
<1>3. phase \notin Over /\ modal \in Seq(Dialog)
  BY <1>1 DEF SaveHolds, SaveTypes
<1>4. Undisturbed => file \in {NoFile, First}
  BY <1>1 DEF SaveHolds, OneCopy, FileHolds
<1>5. Undisturbed => /\ jobs[j].state = "writing" => jobs[j].from = First
                     /\ jobs[j].result = "ok" => jobs[j].state = "finished" /\ dest = First
  BY DEF SaveHolds, CopyHolds
<1> QED BY <1>1, <1>2, <1>3, <1>4, <1>5

jobKept == <<phase, temporary_file, shot, child, pipe, died, file>>

LEMMA Keeps ==
  ASSUME JobUnchanged
  PROVE  UNCHANGED jobKept
BY DEF JobUnchanged, jobKept, flags, children, temp

(* What finishes a copy, with or without the file. *)
LEMMA Finishes ==
  ASSUME SaveHolds, NEW j, Running(j), NEW how \in {"ok", "error", "overwrite", "cancelled"}, Finish(j, how),
         jobs[j].state \in {"queued", "copying", "writing"}, UNCHANGED <<busy, modal>>, JobUnchanged,
         how = "ok" /\ Undisturbed => dest' = First
  PROVE  SaveHolds'
<1> DEFINE k == [jobs[j] EXCEPT !.state = "finished", !.result = how]
<1>1. j \in DOMAIN jobs
  BY DEF Running
<1>2. jobs' = [jobs EXCEPT ![j] = k]
  BY DEF Finish
<1>3. k \in Job /\ k.state = "finished" /\ k.result = how
  BY <1>1, Jobs DEF Job
<1>4. UNCHANGED jobKept
  BY Keeps
<1>5. modal' \in Seq(Dialog)
  BY <1>1, Jobs
<1> HIDE DEF k
<1> QED BY <1>1, <1>2, <1>3, <1>4, <1>5, JobStep DEF jobKept

LEMMA Copies ==
  ASSUME SaveHolds, NEW j \in 1..MaxTransfers, Copy(j)
  PROVE  SaveHolds'
<1>1. j \in DOMAIN jobs /\ Running(j) /\ UNCHANGED jobKept
  BY Keeps DEF Copy, JobStarts, CopyOpens, CopyFindsFile, CopyEnds, CopyFails, Running
<1>2. /\ jobs \in Seq(Job) /\ jobs[j] \in Job /\ phase \notin Over /\ modal \in Seq(Dialog)
      /\ file \in Files /\ j \in Nat
      /\ Undisturbed => /\ file \in {NoFile, First}
                        /\ jobs[j].state = "writing" => jobs[j].from = First
                        /\ jobs[j].result = "ok" => jobs[j].state = "finished" /\ dest = First
  BY <1>1, Jobs
<1>3. CASE JobStarts(j)
  <2>1. CASE Finish(j, "error")
    BY <1>1, <1>2, <1>3, <2>1, Finishes DEF JobStarts
  <2>2. CASE jobs' = [jobs EXCEPT ![j].state = "copying"]
    <3> DEFINE k == [jobs[j] EXCEPT !.state = "copying"]
    <3>1. jobs' = [jobs EXCEPT ![j] = k] /\ k \in Job /\ k.state = "copying" /\ k.result = jobs[j].result
      BY <1>2, <2>2 DEF Job
    <3>2. jobs[j].state = "queued" /\ UNCHANGED <<busy, modal, dest>>
      BY <1>3 DEF JobStarts
    <3> HIDE DEF k
    <3> QED BY <1>1, <1>2, <3>1, <3>2, JobStep DEF jobKept
  <2> QED BY <1>3, <2>1, <2>2 DEF JobStarts
<1>4. CASE CopyOpens(j)
  <2> DEFINE k == [jobs[j] EXCEPT !.state = "writing", !.from = file]
  <2>1. /\ jobs[j].state = "copying" /\ file # NoFile /\ UNCHANGED <<busy, modal>>
        /\ dest' = IF dest = NoFile THEN Bytes(file.shot, FALSE) ELSE dest
        /\ jobs' = [jobs EXCEPT ![j] = k]
    BY <1>2, <1>4 DEF CopyOpens, Job
  <2>2. k \in Job /\ k.state = "writing" /\ k.from = file /\ k.result = jobs[j].result
    BY <1>2 DEF Job
  <2> HIDE DEF k
  <2> QED BY <1>1, <1>2, <2>1, <2>2, JobStep DEF jobKept
<1>5. CASE CopyFindsFile(j)
  <2> DEFINE k == [jobs[j] EXCEPT !.state = "asking"]
             m == [kind |-> "confirm", of |-> j]
  <2>1. /\ jobs[j].state = "copying" /\ UNCHANGED <<busy, dest>>
        /\ modal' = Append(modal, m) /\ jobs' = [jobs EXCEPT ![j] = k]
    BY <1>2, <1>5 DEF CopyFindsFile, Job
  <2>2. k \in Job /\ k.state = "asking" /\ k.result = jobs[j].result
    BY <1>2 DEF Job
  <2>3. m \in Dialog /\ m.kind = "confirm" /\ m.of = j
    BY <1>2 DEF Dialog
  <2> HIDE DEF k, m
  <2>4. /\ modal' \in Seq(Dialog)
        /\ \A i \in DOMAIN modal' :
             /\ i \in DOMAIN modal => modal'[i] = modal[i]
             /\ i \notin DOMAIN modal => modal'[i] = m /\ i = Len(modal')
    BY <1>2, <2>1, <2>3
  <2>5. Undisturbed => DialogsHold'
    <3> SUFFICES ASSUME Undisturbed PROVE DialogsHold'
      OBVIOUS
    <3>1. /\ \A i \in DOMAIN modal :
               modal[i].kind = "confirm" =>
                 modal[i].of \in DOMAIN jobs /\ jobs[modal[i].of].state = "asking"
          /\ \A i, l \in DOMAIN modal :
               modal[i].kind = "confirm" /\ modal[i] = modal[l] => i = l
      BY <1>2 DEF SaveHolds, DialogsHold
    <3>2. /\ DOMAIN jobs' = DOMAIN jobs /\ jobs'[j].state = "asking"
          /\ \A i \in DOMAIN jobs : i # j => jobs'[i] = jobs[i]
      BY <1>1, <1>2, <2>1, <2>2
    <3>3. \A i \in DOMAIN modal : modal[i] # m
      BY <2>1, <2>3, <3>1
    <3>4. \A i \in DOMAIN modal' :
            modal'[i].kind = "confirm" =>
              modal'[i].of \in DOMAIN jobs' /\ jobs'[modal'[i].of].state = "asking"
      BY <1>1, <2>3, <2>4, <3>1, <3>2
    <3>5. \A i, l \in DOMAIN modal' :
            modal'[i].kind = "confirm" /\ modal'[i] = modal'[l] => i = l
      <4> SUFFICES ASSUME NEW i \in DOMAIN modal', NEW l \in DOMAIN modal',
                          modal'[i].kind = "confirm", modal'[i] = modal'[l]
                   PROVE  i = l
        OBVIOUS
      <4>1. CASE modal'[i] = m
        BY <2>4, <3>3, <4>1
      <4>2. CASE modal'[i] # m
        BY <2>4, <3>1, <4>2
      <4> QED BY <4>1, <4>2
    <3> QED BY <3>4, <3>5 DEF DialogsHold
  <2> QED BY <1>1, <1>2, <2>1, <2>2, <2>4, <2>5, JobStep DEF jobKept
<1>6. CASE CopyEnds(j)
  <2>1. jobs[j].state = "writing" /\ dest' = Copied(j) /\ Finish(j, "ok") /\ UNCHANGED <<busy, modal>>
        /\ JobUnchanged
    BY <1>6 DEF CopyEnds
  <2>2. Undisturbed => dest' = First
    <3> SUFFICES ASSUME Undisturbed PROVE dest' = First
      OBVIOUS
    <3>1. jobs[j].from = First /\ file \in {NoFile, First}
      BY <1>2, <2>1
    <3>2. First.shot = 1 /\ First.whole = TRUE
      BY DEF First, Bytes
    <3>3. Copied(j) = Bytes(1, TRUE)
      BY <3>1, <3>2, FirstIs DEF Copied
    <3> QED BY <2>1, <3>3 DEF First
  <2> QED BY <1>1, <1>2, <2>1, <2>2, Finishes
<1>7. CASE CopyFails(j)
  <2>1. /\ jobs[j].state \in {"copying", "writing"} /\ UNCHANGED <<busy, modal>> /\ JobUnchanged
        /\ Finish(j, "cancelled") \/ Finish(j, "error")
    <3>1. CASE jobs[j].cancelled
      BY <1>7, <3>1 DEF CopyFails
    <3>2. CASE ~jobs[j].cancelled
      BY <1>7, <3>2 DEF CopyFails
    <3> QED BY <3>1, <3>2
  <2> QED BY <1>1, <2>1, Finishes
<1> QED BY <1>3, <1>4, <1>5, <1>6, <1>7 DEF Copy

LEMMA Cancels ==
  ASSUME SaveHolds, NEW j \in 1..MaxTransfers, CancelTransfer(j)
  PROVE  SaveHolds'
<1> DEFINE k == [jobs[j] EXCEPT !.cancelled = TRUE]
<1>1. /\ j \in DOMAIN jobs /\ UNCHANGED jobKept /\ UNCHANGED <<busy, modal, dest>>
      /\ jobs[j].state \in {"copying", "writing"}
  BY Keeps DEF CancelTransfer, Running
<1>2. jobs' = [jobs EXCEPT ![j] = k]
  BY DEF CancelTransfer
<1>3. /\ jobs[j] \in Job /\ modal \in Seq(Dialog)
      /\ Undisturbed => /\ jobs[j].state = "writing" => jobs[j].from = First
                        /\ jobs[j].result = "ok" => jobs[j].state = "finished" /\ dest = First
  BY <1>1, Jobs
<1>4. k \in Job /\ k.state = jobs[j].state /\ k.result = jobs[j].result /\ k.from = jobs[j].from
  BY <1>3 DEF Job
<1> HIDE DEF k
<1> QED BY <1>1, <1>2, <1>3, <1>4, JobStep DEF jobKept

(* The copy is over: so is the program, or the dialog can be used again.   *)
LEMMA TransferSaves ==
  ASSUME SaveHolds, NEW j \in 1..MaxTransfers, TransferDone(j)
  PROVE  SaveHolds'
<1>1. /\ j \in DOMAIN jobs /\ jobs[j].state = "finished"
      /\ UNCHANGED <<shot, child, pipe, died, file, dest>>
  BY DEF TransferDone, Running, children, temp
<1>2. CASE Quit
  BY <1>1, <1>2, QuitSaves, EndSaves
<1>3. CASE ~Quit
  <2> DEFINE k == [NewJob EXCEPT !.state = "done"]
  <2>1. jobs' = [jobs EXCEPT ![j] = k] /\ UNCHANGED <<phase, modal, temporary_file>>
    BY <1>3 DEF TransferDone, flags
  <2>2. k \in Job /\ k.state = "done" /\ k.result = "none"
    BY FirstIs DEF NewJob, Job
  <2>3. modal \in Seq(Dialog)
    BY <1>1, Jobs
  <2> HIDE DEF k
  <2> QED BY <1>1, <2>1, <2>2, <2>3, JobStep
<1> QED BY <1>2, <1>3

(* The answer of the user is about the copy that waits for it.             *)
LEMMA AnswerSaves ==
  ASSUME SaveHolds, Answer
  PROVE  SaveHolds'
<1> DEFINE last == Len(modal)
           j == modal[last].of
           yes == [jobs[j] EXCEPT !.state = "copying", !.overwrite = TRUE, !.agreed = TRUE]
           no  == [jobs[j] EXCEPT !.state = "finished", !.result = "overwrite", !.cancelled = TRUE]
<1>1. /\ modal # <<>> /\ modal[last].kind = "confirm" /\ modal' = SubSeq(modal, 1, last - 1)
      /\ UNCHANGED jobKept /\ UNCHANGED <<busy, dest>>
      /\ jobs' = [jobs EXCEPT ![j] = yes] \/ jobs' = [jobs EXCEPT ![j] = no]
  BY Keeps DEF Answer, Last, Front
<1>2. CASE phase \in Over
  <2>1. jobs' = <<>>
    BY <1>1, <1>2 DEF SaveHolds, SaveTypes
  <2> HIDE DEF yes, no
  <2> QED BY <1>1, <1>2, <2>1, EndSaves DEF jobKept
<1>3. CASE phase \notin Over
  <2>1. modal \in Seq(Dialog) /\ jobs \in Seq(Job)
    BY <1>3 DEF SaveHolds, SaveTypes
  <2>2. /\ modal' \in Seq(Dialog) /\ last \in DOMAIN modal
        /\ \A i \in DOMAIN modal' : i \in DOMAIN modal /\ modal'[i] = modal[i] /\ i # last
    BY <1>1, <2>1
  <2>3. CASE j \notin DOMAIN jobs
    <3>1. jobs' = jobs
      BY <1>1, <2>1, <2>3
    <3>2. SaveTypes' /\ ChildrenHold'
      BY <1>1, <1>3, <2>2, <3>1 DEF SaveHolds, SaveTypes, ChildrenHold, jobKept
    <3>3. ~Undisturbed
      BY <1>1, <1>3, <2>2, <2>3 DEF SaveHolds, DialogsHold
    <3> QED BY <1>1, <3>2, <3>3 DEF SaveHolds, Undisturbed, jobKept
  <2>4. CASE j \in DOMAIN jobs
    <3>1. Undisturbed => /\ DialogsHold /\ jobs[j].state = "asking"
                         /\ \A i \in DOMAIN modal' : modal'[i].kind = "confirm" => modal'[i].of # j
      <4> SUFFICES ASSUME Undisturbed
                   PROVE  /\ DialogsHold /\ jobs[j].state = "asking"
                          /\ \A i \in DOMAIN modal' : modal'[i].kind = "confirm" => modal'[i].of # j
        OBVIOUS
      <4>1. /\ DialogsHold /\ jobs[j].state = "asking"
            /\ \A i, l \in DOMAIN modal :
                 modal[i].kind = "confirm" /\ modal[i] = modal[l] => i = l
        BY <1>1, <1>3, <2>2 DEF SaveHolds, DialogsHold
      <4>2. ASSUME NEW i \in DOMAIN modal', modal'[i].kind = "confirm", modal'[i].of = j
            PROVE  FALSE
        <5>1. i \in DOMAIN modal /\ modal[i] \in Dialog /\ modal[last] \in Dialog /\ i # last
              /\ modal[i].kind = "confirm" /\ modal[i].of = j
          BY <2>1, <2>2, <4>2
        <5>2. modal[i] = modal[last]
          BY <1>1, <5>1 DEF Dialog
        <5> QED BY <2>2, <4>1, <5>1, <5>2
      <4> QED BY <4>1, <4>2
    <3>2. \A k : jobs' = [jobs EXCEPT ![j] = k] => (Undisturbed => DialogsHold')
      <4> SUFFICES ASSUME NEW k, jobs' = [jobs EXCEPT ![j] = k], Undisturbed
                   PROVE  DialogsHold'
        OBVIOUS
      <4>1. DOMAIN jobs' = DOMAIN jobs /\ \A i \in DOMAIN jobs : i # j => jobs'[i] = jobs[i]
        BY <2>1, <2>4
      <4> HIDE DEF j, last
      <4> QED BY <1>3, <2>2, <3>1, <4>1 DEF DialogsHold
    <3>3. /\ yes \in Job /\ yes.state = "copying" /\ yes.result = jobs[j].result
          /\ no \in Job /\ no.state = "finished" /\ no.result = "overwrite"
      <4>1. jobs[j] \in Job
        BY <2>1, <2>4
      <4>2. yes \in Job /\ yes.state = "copying" /\ yes.result = jobs[j].result
        BY <4>1 DEF Job
      <4>3. no \in Job /\ no.state = "finished" /\ no.result = "overwrite"
        BY <4>1 DEF Job
      <4> QED BY <4>2, <4>3
    <3>4. Undisturbed => (jobs[j].result = "ok" => jobs[j].state = "finished")
      BY <2>4 DEF SaveHolds, CopyHolds
    <3> HIDE DEF yes, no, j, last
    <3>5. CASE jobs' = [jobs EXCEPT ![j] = yes]
      <4>1. Undisturbed => DialogsHold'
        BY <3>2, <3>5
      <4> QED BY <4>1, <1>1, <2>2, <2>4, <3>1, <3>2, <3>3, <3>4, <3>5, JobStep DEF jobKept
    <3>6. CASE jobs' = [jobs EXCEPT ![j] = no]
      <4>1. Undisturbed => DialogsHold'
        BY <3>2, <3>6
      <4> QED BY <4>1, <1>1, <2>2, <2>4, <3>1, <3>2, <3>3, <3>6, JobStep DEF jobKept
    <3> QED BY <1>1, <3>5, <3>6
  <2> QED BY <2>3, <2>4
<1> QED BY <1>2, <1>3

-----------------------------------------------------------------------------
(* While there is one shot whose child was not killed at its work, the file *)
(* and the copies are as they should be: one step per action.               *)
THEOREM SaveInvariant == Spec => []SaveHolds
<1>1. Init => SaveHolds
  <2> SUFFICES ASSUME Init PROVE SaveHolds
    OBVIOUS
  <2>1. /\ shot = 0 /\ jobs = <<>> /\ modal = <<>> /\ file = NoFile /\ ~temporary_file
        /\ child = [c \in Shots |-> "none"] /\ pipe = [c \in Shots |-> "open"]
    BY DEF Init
  <2>2. SaveTypes
    BY <2>1, FirstIs DEF SaveTypes, Saving
  <2>3. ChildrenHold
    BY <2>1 DEF ChildrenHold, Saving
  <2>4. FileHolds
    BY <2>1, BoundsAssumption DEF FileHolds, Shots
  <2>5. OneCopy /\ CopyHolds /\ DialogsHold
    BY <2>1 DEF OneCopy, CopyHolds, DialogsHold
  <2> QED BY <2>2, <2>3, <2>4, <2>5 DEF SaveHolds
<1>2. SaveHolds /\ [Next]_vars => SaveHolds'
  <2> SUFFICES ASSUME SaveHolds, [Next]_vars PROVE SaveHolds'
    OBVIOUS
  <2>1. CASE OptionsOk \/ New
    <3>1. phase \notin Over /\ phase' \notin Over /\ UNCHANGED saving
      BY <2>1 DEF OptionsOk, New, CanUse, CanClose, Over, saving, shown, flags, children, temp
    <3> QED BY <3>1, Moves
  <2>2. CASE Select
    <3>1. phase \notin Over /\ phase' \notin Over /\ UNCHANGED saving
      BY <2>2 DEF Select, AreaPress, AreaMotion, AreaRelease, AreaEscape, Selecting, Over,
                  saving, shown, flags, children, temp
    <3> QED BY <3>1, Moves
  <2>3. CASE OptionsCancel \/ Close
    BY <2>3, QuitSaves, EndSaves DEF OptionsCancel, Close, children, temp
  <2>4. CASE Prepare
    <3>1. CASE take_area_shot
      <4>1. phase \notin Over /\ phase' \notin Over /\ UNCHANGED saving
        BY <2>4, <3>1 DEF Prepare, Over, saving, shown, flags, children, temp
      <4> QED BY <4>1, Moves
    <3>2. CASE ~take_area_shot
      BY <2>4, <3>2, PushSaves DEF Prepare, Over
    <3> QED BY <3>1, <3>2
  <2>5. CASE RectangleFound
    BY <2>5, PushSaves DEF RectangleFound, Over
  <2>6. CASE FinishPrepareScreenshot
    BY <2>6, FinishPrepareSaves
  <2>7. CASE Save
    BY <2>7, SaveSaves
  <2>8. CASE NameIsTaken
    BY <2>8, NameSaves
  <2>9. CASE Dismiss
    <3>1. /\ phase' \in Over /\ jobs' = <<>> /\ ~temporary_file' /\ file' \in {file, NoFile}
          /\ UNCHANGED <<shot, child, pipe, died, dest>>
      BY <2>9 DEF Dismiss, Exit, Over, CleanUpTemporaryDir, children
    <3> QED BY <3>1, EndSaves
  <2>10. CASE Crash
    <3>1. /\ phase' \in Over /\ jobs' = <<>> /\ ~temporary_file'
          /\ UNCHANGED <<shot, child, pipe, died, file, dest>>
      BY <2>10 DEF Crash, Exit, Over, children, temp
    <3> QED BY <3>1, EndSaves
  <2>11. CASE Answer
    BY <2>11, AnswerSaves
  <2>12. ASSUME NEW c \in Shots, ReadPipe(c) \/ ChildDone(c) \/ Child(c) \/ ChildDies(c)
         PROVE  SaveHolds'
    BY <2>12, PipeRead, DeathNoticed, ChildSaving
  <2>13. ASSUME NEW j \in 1..MaxTransfers, Copy(j) \/ CancelTransfer(j) \/ TransferDone(j)
         PROVE  SaveHolds'
    BY <2>13, Copies, Cancels, TransferSaves
  <2>14. CASE UNCHANGED vars
    BY <2>14, Moves DEF vars, process, shown, flags, children, temp, saving
  <2> QED BY <2>1, <2>2, <2>3, <2>4, <2>5, <2>6, <2>7, <2>8, <2>9, <2>10, <2>11, <2>12, <2>13,
             <2>14 DEF Next, User
<1> QED BY <1>1, <1>2, PTL DEF Spec

(* A save that succeeded left all of the first shot where the user asked    *)
(* for it, however many copies are tried and children die after it.         *)
THEOREM WholeShotIsSaved == Spec => []SavedIsWhole
<1>1. SaveHolds => SavedIsWhole
  <2> SUFFICES ASSUME SaveHolds, NEW j \in DOMAIN jobs, jobs[j].result = "ok", shot = 1, "saving" \notin died
               PROVE  dest = Bytes(1, TRUE)
    BY DEF SavedIsWhole
  <2>1. Undisturbed
    BY DEF Undisturbed
  <2>2. CopyHolds
    BY <2>1 DEF SaveHolds
  <2> QED BY <2>2 DEF CopyHolds, First
<1> QED BY <1>1, SaveInvariant, PTL
=============================================================================
