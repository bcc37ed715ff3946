CONSTANTS
  Packets <- MCPackets
  Vendor <- MCVendor
  Room = 16
  Name = 5
SPECIFICATION Spec
INVARIANTS
  BatchRunsItsCommands
  HalvesCombine
