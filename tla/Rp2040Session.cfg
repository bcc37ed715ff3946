CONSTANTS
  NSectors = 3
  EraseBlock = 2
  Staging = 2
  Options <- MCOptions
  MaxFaults = 1
  Cores = {core0}
  Port = rescue
  None = None
SPECIFICATION FairSpec
INVARIANTS
  ReadsAreFlash
  BootsAfter
  ResetDone
  BatchesWordSized
  WireOwned
PROPERTIES
  SparesRight
  OpenLetsGo
  CallsReturn
