CONSTANTS
  Unset = Unset
  IntRange = 8
  LongRange = 16
  VlongRange = 32
  Chars = {"a", "b", "c"}
  Items <- MCItems
  Rooms = {1, 6, 9, 20}
  MaxItems = 2
  Components <- MCComponents
  MaxName = 5
  Hosts <- MCHosts
SPECIFICATION Spec
INVARIANTS
  PrintExact
  LookupExact
CHECK_DEADLOCK FALSE
