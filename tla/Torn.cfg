SPECIFICATION Spec
CHECK_DEADLOCK FALSE
CONSTANTS
  N = 2
  MaxAttempt = 1
  RetryLimit <- FirstRetriesOnce
  Optional = {2}
  Permissive = {}
  TimeoutPolicy <- FirstRetriesThenFails
  Results = {"COMPLETED", "FAILED"}
  Admin = {"skip", "rerun", "restart", "retry"}
  WorkflowTimeout = FALSE
  MaxPolls = 2
  MaxCrashes = 1
INVARIANTS TypeOK ReplacedIsTerminal
