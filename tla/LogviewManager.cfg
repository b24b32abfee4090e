CONSTANTS
  Characters = {"a", "b", "i", "x", "0", "1", "r", ":"}
  Typed <- MCTyped
  Regexes <- MCRegexes
  Looks <- MCLooks
  Loaded <- MCLoaded
  BuiltIn <- MCBuiltIn
  InvisibleFilter <- MCInvisibleFilter
  MaxAsked = 3
  Files = {1, 2}
  CommandLines <- MCCommandLines
  None = None
SPECIFICATION Spec
INVARIANTS  FiltersInStep RowsAreTheManagers NextStartOpensThese
CHECK_DEADLOCK FALSE
