SPECIFICATION ServerSpec
CONSTANTS
  Top <- ForkTop
  Kind <- ForkKind
  Branches <- ForkBranches
  TerminateAs = "COMPLETED"
  MaxCrashes = 1
INVARIANTS InSequence EndedIsUnqueued
PROPERTIES WaitsArePolled
CHECK_DEADLOCK FALSE
