---------------------------- MODULE MCMessageQueue ----------------------------
(* Priorities for model checking MessageQueue: what waits has the lowest one.    *)
EXTENDS MessageQueue

LowIsSteady == [x \in Msg |-> IF x \in Steady THEN 0 ELSE 1]
===============================================================================
