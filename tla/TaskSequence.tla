----------------------------- MODULE TaskSequence -----------------------------
(***************************************************************************)
(* What the engine promises of a workflow whose definition is a list of      *)
(* tasks: they run one after another, the next only after one that succeeded *)
(* or is optional, each is attempted again at most RetryLimit times and only  *)
(* after a failure, only the failure of a task that is not optional fails the *)
(* workflow, and it completes when the last task succeeded or is optional.    *)
(* Nothing is said of rows, queues, sweeps or crashes, but for Losses: where   *)
(* there are crashes, the retry of a failed task may be lost, and a workflow   *)
(* whose last task lost its retry completes over the failure.                 *)
(***************************************************************************)
EXTENDS Integers

CONSTANTS N, RetryLimit, Optional,
          Losses       \* a retry may be lost

VARIABLES step,      \* the task that was begun last, 0 before the first
          attempt,   \* its latest attempt
          result,    \* how the latest attempt of every task stands
          outcome    \* how the workflow stands

seqVars == <<step, attempt, result, outcome>>

SeqInit ==
  /\ step = 0 /\ attempt = 0 /\ outcome = "running"
  /\ result = [r \in 0..N |-> IF r = 0 THEN "passed" ELSE "none"]

(* Where a retry is due it may be lost.                                       *)
Lost == IF Losses /\ attempt < RetryLimit[step] THEN {"lost"} ELSE {}

(* How the current attempt has ended, or may end in the very step that it      *)
(* calls for.                                                                *)
Ends ==
  CASE result[step] = "open"                  -> {"passed", "failed"} \cup Lost
    [] result[step] = "failed"                -> {"failed"} \cup Lost
    [] result[step] \notin {"open", "failed"} -> {result[step]}

(* The workflow may go on after the current task.                             *)
Enough(e) == e = "passed" \/ (e = "failed" /\ step \in Optional)

(* The current attempt ends; what it calls for has yet to come, or is lost.     *)
Conclude ==
  /\ outcome = "running"
  /\ \E e \in Ends : result' = [result EXCEPT ![step] = e]
  /\ UNCHANGED <<step, attempt, outcome>>

(* The next task begins: the first one, or the one after a task that          *)
(* succeeded or was allowed to fail.                                         *)
BeginTask ==
  /\ outcome = "running"
  /\ step < N
  /\ step' = step + 1
  /\ attempt' = 0
  /\ \E e \in Ends : /\ Enough(e)
                     /\ result' = [result EXCEPT ![step] = e, ![step + 1] = "open"]
  /\ UNCHANGED outcome

(* A failed task is attempted again.                                          *)
TryAgain ==
  /\ outcome = "running"
  /\ "failed" \in Ends
  /\ attempt < RetryLimit[step]
  /\ attempt' = attempt + 1
  /\ result' = [result EXCEPT ![step] = "open"]
  /\ UNCHANGED <<step, outcome>>

(* The last task succeeded, was allowed to fail or lost its retry.             *)
Finish ==
  /\ outcome = "running"
  /\ step = N
  /\ \E e \in Ends : /\ Enough(e) \/ e = "lost"
                     /\ result' = [result EXCEPT ![step] = e]
  /\ outcome' = "completed"
  /\ UNCHANGED <<step, attempt>>

(* Only a task that is not optional ends the workflow, and only by failing.    *)
GiveUp ==
  /\ outcome = "running"
  /\ "failed" \in Ends
  /\ step \notin Optional
  /\ result' = [result EXCEPT ![step] = "failed"]
  /\ outcome' = "failed"
  /\ UNCHANGED <<step, attempt>>

SeqNext == Conclude \/ BeginTask \/ TryAgain \/ Finish \/ GiveUp

SeqSpec == SeqInit /\ [][SeqNext]_seqVars
=============================================================================
