SPECIFICATION Spec
CHECK_DEADLOCK FALSE
CONSTANTS
  N = 2
  MaxAttempt = 2
  RetryLimit <- RetryOnce
  Optional = {2}
  Permissive = {1}
  TimeoutPolicy <- TimeOutWf
  Results = {"IN_PROGRESS", "COMPLETED", "FAILED"}
  Admin = {"terminate", "pause", "skip", "retry"}
  WorkflowTimeout = TRUE
  MaxPolls = 1
  MaxCrashes = 0
INVARIANTS CompletedMeansDone NeverStuck TasksAreDelivered EndedIsUnqueued PendingIsOpen
PROPERTIES ResultsAreFinal
