CONSTANTS
  Calls <- MCLists
  Resends = 5
  Faults = {}
  MaxAsks = 4
SPECIFICATION Spec
INVARIANTS
  WritesOnce
