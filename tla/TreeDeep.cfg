SPECIFICATION Spec
CONSTANTS
  Depth = 2
  MaxAttempt = 1
  Requests = {"terminate"}
  MaxRequests = 3
  MaxCrashes = 2
INVARIANTS TypeOK CompletedByChild
CHECK_DEADLOCK FALSE
