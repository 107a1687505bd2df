----------------------------- MODULE TaskStatus -----------------------------
(***************************************************************************)
(* The task and workflow statuses of the engine and the flags every other  *)
(* part of it branches on (src/common/src/enums.ts).                       *)
(***************************************************************************)

TaskStatuses == {"IN_PROGRESS", "CANCELED", "FAILED", "FAILED_WITH_TERMINAL_ERROR",
                 "COMPLETED", "COMPLETED_WITH_ERRORS", "SCHEDULED", "TIMED_OUT", "SKIPPED"}

TerminalTask   == TaskStatuses \ {"IN_PROGRESS", "SCHEDULED"}
SuccessfulTask == {"IN_PROGRESS", "SCHEDULED", "COMPLETED", "COMPLETED_WITH_ERRORS", "SKIPPED"}
RetriableTask  == TaskStatuses \ {"CANCELED", "FAILED_WITH_TERMINAL_ERROR", "SKIPPED"}

(* Terminal and not successful: what the decider retries, tolerates or     *)
(* answers by ending the workflow.                                         *)
UnsuccessfulTask == TerminalTask \ SuccessfulTask

WorkflowStatuses   == {"RUNNING", "COMPLETED", "FAILED", "TIMED_OUT", "TERMINATED", "PAUSED"}
TerminalWorkflow   == WorkflowStatuses \ {"RUNNING", "PAUSED"}
SuccessfulWorkflow == {"COMPLETED", "PAUSED"}
=============================================================================
