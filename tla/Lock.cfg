SPECIFICATION FairSpec
CHECK_DEADLOCK FALSE
CONSTANTS
  Call = {"c1", "c2", "c3", "c4"}
  KeyOf <- FourKeys
  ServerOf <- FourServers
  Shared = TRUE
  Failures = TRUE
INVARIANTS TypeOK MutualExclusion
PROPERTIES ForeignReleaseIsNoop EveryKeyIsServed
