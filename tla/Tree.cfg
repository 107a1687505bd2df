SPECIFICATION FairSpec
CONSTANTS
  Depth = 1
  MaxAttempt = 1
  Requests = {"retry", "resume", "restart"}
  MaxRequests = 2
  MaxCrashes = 0
INVARIANTS NoOpenTaskAfterEnd NeverIdle EndsAgree
PROPERTIES TreeEnds
CHECK_DEADLOCK FALSE
