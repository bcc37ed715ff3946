CONSTANTS
  Regions = 2
  RegionWords = 3
  MaxRun = 4
  Late = {"SELECT"}
  Unknown = Unknown
SPECIFICATION Spec
INVARIANTS
  SelectTrue
