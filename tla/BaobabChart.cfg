SPECIFICATION Spec
CONSTANTS
  usr = usr large = large small = small inner = inner
  Folders <- ChartFolders
  First = usr
  Above <- ChartAbove
  Narrow = {small}
  NoRow = NoRow
  MaxDepth = 2
  MaxScans = 1
  MaxActs = 3
INVARIANTS StaleItemsAreMarked ShowsTheTree
CHECK_DEADLOCK FALSE
