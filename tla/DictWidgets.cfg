SPECIFICATION Spec
CONSTANTS
  Ctxs = {1, 2, 3, 4}
  Words = {w1, w2}
  None = None
  Stale = Stale
  Choosers = {"databases", "strategies"}
  MaxFound = 2
  MaxQueue = 2
  MaxNested = 1
  MaxAsked = 3
INVARIANTS BusyIsPending OneLookupShown GoesToDefinitions
