---------------------------- MODULE MCScreenshot ----------------------------
(* Instances for Screenshot: a screen of four by three pixels, of which two *)
(* monitors show an L; three points to drag between, in every direction;   *)
(* and windows inside, over the left edge, over the corner below and off   *)
(* the screen.                                                             *)
EXTENDS Screenshot

MCMonitors == {Rect(0, 0, 2, 3), Rect(2, 0, 2, 2)}
MCPoints   == {<<0, 2>>, <<1, 0>>, <<3, 1>>}

Window(x, y, w, h, shape) ==
  [x |-> x, y |-> y, width |-> w, height |-> h, shape |-> shape]

MCWindows ==
  {Window(1, 1, 2, 1, {}),
   Window(1, 0, 2, 3, {Rect(0, 1, 2, 2), Rect(1, 0, 1, 1)}),
   Window(-1, 0, 3, 2, {Rect(0, 1, 3, 1), Rect(1, 0, 2, 1)}),
   Window(3, 2, 3, 3, {Rect(0, 0, 3, 3)}),
   Window(5, 1, 1, 1, {})}
=============================================================================
