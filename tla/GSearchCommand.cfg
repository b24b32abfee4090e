CONSTANTS
  Files = {f1}
  MaxSearches = 2
  MaxPipe = 1
  Env = {"convert", "spawn", "respawn", "deleted", "trashed"}
SPECIFICATION FairGSpec
INVARIANTS
  OneChild
  NoDuplicateRows
  StringsAlive
PROPERTIES
  StopEnds
CHECK_DEADLOCK FALSE
