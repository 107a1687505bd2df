SPECIFICATION FairSpec
CONSTANTS
  Top <- FlowTop
  Kind <- FlowKind
  Branches <- FlowBranches
  TerminateAs = "FAILED"
  MaxCrashes = 1
INVARIANTS TypeOK NeverStuck CompletedMeansDone
PROPERTIES TerminalOnce Terminates
CHECK_DEADLOCK FALSE
