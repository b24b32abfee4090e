CONSTANTS
  MaxRequests = 3
  MaxWire = 1
  Faults = {"nohost", "lookup", "socket", "flags", "refused", "timeout", "ioerr", "readerr", "write"}
SPECIFICATION Spec
INVARIANTS
  EveryLookupAccounted
  ServedInOrder
  SourcesOwned
PROPERTIES
  ImplementsLookupQueue
CHECK_DEADLOCK FALSE
