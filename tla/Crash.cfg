SPECIFICATION Spec
CHECK_DEADLOCK FALSE
CONSTANTS
  N = 3
  MaxAttempt = 2
  RetryLimit <- RetryOnce
  Optional = {2}
  Permissive = {}
  TimeoutPolicy <- AlertOnly
  Results = {"IN_PROGRESS", "COMPLETED", "FAILED", "FAILED_WITH_TERMINAL_ERROR"}
  Admin = {}
  WorkflowTimeout = FALSE
  MaxPolls = 1
  MaxCrashes = 2
INVARIANTS OneTaskAtATime InOrder RetryBudget EndedHasNoLiveTask ProcessedIsTerminal
PROPERTIES EndIsFinal SequentialSpec
