SPECIFICATION FairSpec
CONSTANTS
  N = 3
  MaxAttempt = 1
  RetryLimit <- RetryOnce
  Optional = {2}
  Permissive = {1, 2}
  TimeoutPolicy <- AlertOnly
  Results = {"IN_PROGRESS", "COMPLETED", "FAILED", "FAILED_WITH_TERMINAL_ERROR"}
  Admin = {}
  WorkflowTimeout = FALSE
  MaxPolls = 1
  MaxCrashes = 0
PROPERTIES Terminates
