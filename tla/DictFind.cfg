SPECIFICATION BoxSpec
CONSTANTS
  accent = accent
  Accent = accent
  Folded <- FindFolded
  Title <- FindTitle
  Bodies <- FindBodies
  Patterns <- FindPatterns
  MaxLookups = 2
  MaxFound = 2
  MaxActs = 3
INVARIANTS DefinitionsBeginThere
PROPERTIES FindsTheNearest
CHECK_DEADLOCK FALSE
