SPECIFICATION Spec
CONSTANTS
  Fact = {"a", "b", "c", "d"}
  Request = {p, q}
  Value <- Values
  From <- Dates
  Now = 3
  Authority <- Authorities
  Resent = {"a"}
  MaxRequests = 3
  MaxRebuilds = 1
  MaxFailures = 1
INVARIANTS EdgesAreGrounded LoggedIsApplied CurrentIsFindable
PROPERTIES NeverRevived
SYMMETRY RequestSymmetry
CHECK_DEADLOCK FALSE
