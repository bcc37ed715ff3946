CONSTANTS
  Regions = 2
  RegionWords = 3
  MaxRun = 4
  Late = {"CSW", "TAR"}
  Unknown = Unknown
SPECIFICATION FairSpec
INVARIANTS
  TypeOK
  ShadowTrue
  AccessesLand
PROPERTIES
  MemReturns
