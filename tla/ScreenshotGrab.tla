--------------------------- MODULE ScreenshotGrab ---------------------------
(***************************************************************************)
(* Which part of the screen a shot is of: the area the user drags, the     *)
(* window that is active, and the picture that is read from the root       *)
(* window and trimmed (screenshot-utils.c).  A picture is the set of the   *)
(* screen's pixels that can be seen in it.  Pixels are not scaled, and the *)
(* pointer is left out of the picture.                                     *)
(***************************************************************************)
EXTENDS Integers, Sequences, FiniteSets

CONSTANTS
  Width, Height,   (* the root window                                      *)
  Monitors,        (* rectangles: what the monitors show of it             *)
  Points,          (* where the user presses, drags to and releases        *)
  Windows          (* where the active window may be, and its shape: the   *)
                   (* rectangles of it, or none                            *)

Rect(x, y, w, h) == [x |-> x, y |-> y, width |-> w, height |-> h]

ASSUME ScreenAssumption ==
  /\ Width \in Nat \ {0} /\ Height \in Nat \ {0}
  /\ Points \subseteq (0..Width - 1) \X (0..Height - 1)

Screen == Rect(0, 0, Width, Height)
Empty  == Rect(0, 0, 0, 0)
Root   == [x |-> 0, y |-> 0, width |-> Width, height |-> Height, shape |-> {}]

Pixels(r) == (r.x .. r.x + r.width - 1) \X (r.y .. r.y + r.height - 1)

(* The monitors are parts of the root window, and so are the rectangles of *)
(* a shape of its window: the code counts its pixels from there.           *)
ASSUME MonitorsAssumption == \A m \in Monitors : Pixels(m) \subseteq Pixels(Screen)
ASSUME WindowsAssumption ==
  \A w \in Windows :
    /\ w.x \in Int /\ w.y \in Int /\ w.width \in Nat /\ w.height \in Nat
    /\ \A r \in w.shape :
         r.x \in Nat /\ r.y \in Nat /\ r.width \in Nat /\ r.height \in Nat

Smaller(a, b) == IF a <= b THEN a ELSE b
Larger(a, b)  == IF a >= b THEN a ELSE b
Distance(a, b) == Larger(a, b) - Smaller(a, b)

-----------------------------------------------------------------------------
(* The selection.                                                          *)

(* The rectangle between where the button was pressed and where it is. *)
Dragged(from, to) ==
  Rect(Smaller(from[1], to[1]), Smaller(from[2], to[2]),
       Distance(from[1], to[1]), Distance(from[2], to[2]))

(* screenshot_select_area_async: the rubber band is out of sight. *)
Hidden == Rect(-100, -100, 10, 10)

NoSelection == [pressed |-> FALSE, from |-> <<0, 0>>, to |-> <<0, 0>>, band |-> Hidden, rect |-> Empty]

(* select_area_button_press. *)
Press(sel, p) == IF sel.pressed THEN sel ELSE [sel EXCEPT !.pressed = TRUE, !.from = p]

(* select_area_motion_notify. *)
Motion(sel, p) ==
  IF ~sel.pressed THEN sel
  ELSE LET r == Dragged(sel.from, p)
       IN  [sel EXCEPT !.band = IF r.width <= 0 \/ r.height <= 0 THEN Hidden ELSE r]

(* select_area_button_release, which ends the selection if it has begun.   *)
Release(sel, p) ==
  [NoSelection EXCEPT !.from = sel.from, !.to = p, !.rect = Dragged(sel.from, p)]

-----------------------------------------------------------------------------
(* The picture.                                                            *)

(* Mutant: what is left of the screen is not taken off the width. *)
ClipRightOnly(orig, length, screen) ==
  LET begin == Larger(orig, 0)
  IN  [begin |-> begin, length |-> IF begin + length > screen THEN screen - begin ELSE length]

(* A window, in one direction, without what is off the screen. *)
Clip(orig, length, screen) ==
  LET begin == Larger(orig, 0)
      rest  == IF orig < 0 THEN length + orig ELSE length
  IN  [begin |-> begin, length |-> IF begin + rest > screen THEN screen - begin ELSE rest]

(* Where to read from the root window: an area is given in its coordinates *)
(* and the window is the root window then.                                 *)
Source(window, rectangle) ==
  LET across == Clip(window.x, window.width, Width)
      down   == Clip(window.y, window.height, Height)
  IN  IF rectangle # Empty
      THEN Rect(rectangle.x - across.begin, rectangle.y - down.begin, rectangle.width, rectangle.height)
      ELSE Rect(across.begin, down.begin, across.length, down.length)

(* mask_monitors: what no monitor shows is made black. *)
Masked(seen) == seen \cap UNION {Pixels(m) : m \in Monitors}

(* One rectangle of the shape, in one direction, moved like the window.    *)
Shaped(from, length, real, orig, screen) ==
  LET begin == IF real < 0 THEN Larger(from + real, 0) ELSE from
      rest  == IF real < 0 THEN length + real ELSE length
  IN  [begin |-> begin, length |-> IF orig + begin + rest > screen THEN screen - orig - begin ELSE rest]

(* Only what is in a rectangle of the shape is copied; all is transparent  *)
(* that is not.                                                            *)
ShapedPixels(window, source) ==
  UNION {LET across == Shaped(r.x, r.width, window.x, source.x, Width)
             down   == Shaped(r.y, r.height, window.y, source.y, Height)
         IN  Pixels(Rect(source.x + across.begin, source.y + down.begin, across.length, down.length)) :
           r \in window.shape}

(* screenshot_get_pixbuf.  Nothing is seen, and there is no picture, when  *)
(* there is nothing to read.                                               *)
GetPixbuf(window, rectangle, include_border, include_mask) ==
  LET source == Source(window, rectangle)
      seen   == Pixels(source) \cap Pixels(Screen)
      masked == IF include_mask THEN Masked(seen) ELSE seen
  IN  IF include_border /\ window.shape # {} THEN masked \cap ShapedPixels(window, source)
      ELSE masked

HasPicture(window, rectangle) ==
  LET source == Source(window, rectangle) IN source.width > 0 /\ source.height > 0

-----------------------------------------------------------------------------
(* What should be seen: of an area, what is between its corners; of a      *)
(* window, what of it is on the screen, without what is not of its shape   *)
(* if that is looked at.                                                   *)
Between(n, a, b) == Smaller(a, b) <= n /\ n < Larger(a, b)

WindowPixels(window, shaped) ==
  Pixels(Screen) \cap Pixels(window)
    \cap IF ~shaped \/ window.shape = {} THEN Pixels(window)
         ELSE UNION {Pixels(Rect(window.x + r.x, window.y + r.y, r.width, r.height)) : r \in window.shape}
=============================================================================
