SPECIFICATION Spec
CONSTANTS
  Constraints <- MCConstraints
  Kind <- MCKind
  Texts <- MCTexts
  Numbers <- MCNumbers
  Folders <- MCFolders
  Home = "home"
  Links = {"link"}
  QuickExcluded <- MCQuickExcluded
  ScanExcluded <- MCScanExcluded
  MaxSaves = 2
  MaxEdits = 2
  MaxEnds = 1
  MaxRestarts = 1
INVARIANT ConversationHolds
PROPERTIES SessionRestored SaveIsAnswered  EndSessionReturns
CHECK_DEADLOCK FALSE
