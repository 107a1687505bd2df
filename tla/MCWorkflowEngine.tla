--------------------------- MODULE MCWorkflowEngine ---------------------------
(* Values of the definition's constants for model checking WorkflowEngine.    *)
EXTENDS WorkflowEngine

RetryOnce == [r \in Ref |-> 1]
FirstRetriesOnce == [r \in Ref |-> IF r = 1 THEN 1 ELSE 0]
AlertOnly == [r \in Ref |-> "ALERT_ONLY"]
TimeOutWf == [r \in Ref |-> "TIME_OUT_WF"]
FirstRetriesThenFails == [r \in Ref |-> IF r = 1 THEN "RETRY" ELSE "TIME_OUT_WF"]
==============================================================================
