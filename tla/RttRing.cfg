CONSTANTS
  IdLen = 2
  HeaderLen = 3
  SearchSize = 7
  BlockSize = 3
  Top = 8
  None = None
  Size = 3
  MaxUp = 4
  MaxDown = 4
  MaxFaults = 2
  Memories <- MCMemories
SPECIFICATION FairSpec
INVARIANTS
  UpOnceInOrder
  DownOnceInOrder
  ScanFindsFirst
PROPERTIES
  RingsAreQueues
  BytesMove
CHECK_DEADLOCK FALSE
