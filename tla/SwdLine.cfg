CONSTANTS
  Boards <- MCBoards
  Turnarounds = {1, 2}
  SeqRuns <- MCSeqRuns
  RequestBits = 2
  DataBits = 3
  MaxFaults = 1
SPECIFICATION Spec
INVARIANTS
  NeverBothDrive
  EndsInStep
  HostHasLine
CHECK_DEADLOCK FALSE
