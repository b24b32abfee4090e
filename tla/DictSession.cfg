CONSTANTS
  MaxRequests = 3
  MaxWire = 2
  Faults = {"nohost", "lookup", "socket", "flags", "refused", "timeout", "ioerr", "readerr", "write"}
  ServerFaults = {"down", "crash"}
  MaxItems = 2
  MaxDefs = 2
  MaxText = 2
  FirstCodes = {0, 552}
  RestCodes = {0}
SPECIFICATION FairSession
PROPERTIES
  RepliesIntact
  OnlyQuitLoses
  EveryLookupLeaves
CHECK_DEADLOCK FALSE
