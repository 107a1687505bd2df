SPECIFICATION ServerSpec
CHECK_DEADLOCK FALSE
CONSTANTS
  N = 2
  MaxAttempt = 1
  RetryLimit <- RetryOnce
  Optional = {}
  Permissive = {}
  TimeoutPolicy <- AlertOnly
  Results = {"COMPLETED", "FAILED"}
  Admin = {}
  WorkflowTimeout = FALSE
  MaxPolls = 1
  MaxCrashes = 0
PROPERTY Redelivered
