CONSTANTS
  WaitRetry = 1
  MatchRetry = 1
  MaxBlock = 3
  MaxList = 3
  Calls <- MCCalls
SPECIFICATION Spec
INVARIANT StampsReturned
