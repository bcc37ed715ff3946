CONSTANTS
  WaitRetry = 1
  MatchRetry = 1
  MaxBlock = 3
  MaxList = 3
  Calls <- MCCalls
SPECIFICATION FairSpec
INVARIANTS
  TypeOK
  RunsOnceInOrder
  WordsInOrder
  MatchComparesOwnRead
  WritesConfirmed
PROPERTIES
  CallReturns
  OrderedSpec
