SPECIFICATION Spec
CONSTANTS
  Width = 4
  Height = 3
  Monitors <- MCMonitors
  Points <- MCPoints
  Windows <- MCWindows
  MaxShots = 2
  MaxTransfers = 2
  MaxDeaths = 1
  NoFile = NoFile
CHECK_DEADLOCK FALSE
INVARIANTS SavedIsWhole ShotShowsWhatWasAsked
PROPERTIES  TempDirGoes BusyEnds
