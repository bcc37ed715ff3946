CONSTANTS
  Calls <- MCCalls
  Resends = 2
  Faults = {"deadline", "loss"}
  MaxAsks = 3
SPECIFICATION FairSpec
INVARIANTS
  TypeOK
  OwnReply
  Delivered
  RunsAtMost
PROPERTIES
  LinkReturns
  RemoteOrdered
