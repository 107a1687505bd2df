SPECIFICATION FairSpec
CONSTANTS
  Msg = {"m", "n"}
  Producer = {"p1"}
  Consumer = {"c1", "c2"}
  Prio <- LowIsSteady
  Count = 1
  Steady = {"m"}
  Amqp = TRUE
  MaxReturns = 2
INVARIANTS SharedOnlyIfRearmed
PROPERTIES NoStarvation
