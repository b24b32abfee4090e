CONSTANTS
  Windows = {w1, w2}
  Applet = applet
  Names = {Default, other}
  Default = Default
  Keys = {"database"}
  Values = {a, b}
  None = None
  Stale = Stale
  MaxAsked = 5
SPECIFICATION Spec
SYMMETRY Symmetry
INVARIANTS
  NamesAreAlive
  WindowsAgree
  EditIsUsed
CHECK_DEADLOCK FALSE
