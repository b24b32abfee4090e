SPECIFICATION ScanSpec
CONSTANTS
  root = root home = home deep = deep deeper = deeper wide = wide empty = empty side = side
  locked = locked proc = proc f1 = f1 f2 = f2 f3 = f3 symlink = symlink
  Dirs <- TreeDirs
  Files <- TreeFiles
  Kids <- TreeKids
  Size <- TreeSize
  Inode <- TreeInode
  Linked <- TreeLinked
  Virtual = {proc}
  Excludable = {root, home, wide}
  InHome = {deep, deeper, wide, empty}
  RootDir = root
  Unreadable = {locked}
  Locations <- TreeLocations
  NoDir = NoDir
  Capacity = Capacity
  Usage = Usage
  MaxUpsets = 4
INVARIANTS TreeIsWhole ShownChartFollows
PROPERTIES  ScanEnds
CHECK_DEADLOCK FALSE
