------------------------------- MODULE Decider -------------------------------
(***************************************************************************)
(* DeciderService.decide: what a workflow's rows call for.  A pure function *)
(* of the database d and of late, the live rows whose timeoutSeconds or     *)
(* pollTimeoutSeconds has elapsed when the decider looks.                    *)
(*                                                                         *)
(* Tasks are worker tasks, so an IN_PROGRESS report is stored as SCHEDULED   *)
(* and responseTimeoutSeconds, which only looks at IN_PROGRESS rows, never   *)
(* applies.  totalTimeoutSeconds is 0.                                       *)
(***************************************************************************)
EXTENDS WorkflowStore

CONSTANTS RetryLimit,     \* retryCount of each task definition
          Optional,       \* references whose failure is tolerated and rewritten
          Permissive,     \* references whose failure is judged at the end
          TimeoutPolicy   \* timeoutPolicy of each task definition

ASSUME DefinitionAssumption ==
  /\ RetryLimit \in [Ref -> 0..MaxAttempt]
  /\ Optional \subseteq Ref
  /\ Permissive \subseteq Ref
  /\ TimeoutPolicy \in [Ref -> {"ALERT_ONLY", "RETRY", "TIME_OUT_WF"}]

IsPending(d, t) ==
  t \notin d.executed /\ t \notin d.retried /\ d.status[t] \notin {None, "SKIPPED"}

Pending(d) == {t \in TaskId : IsPending(d, t)}

(* timeoutTaskWithTimeoutPolicy acts on pending rows that are not terminal.   *)
IsLate(d, late, t, policy) ==
  /\ t \in late
  /\ TimeoutPolicy[t[1]] = policy
  /\ IsPending(d, t)
  /\ d.status[t] \notin TerminalTask

(* With RETRY the row is TIMED_OUT in memory ...                              *)
TimedOut(d, late) == {t \in TaskId : IsLate(d, late, t, "RETRY")}

(* ... and with TIME_OUT_WF the decider throws, naming the task.              *)
Overdue(d, late) == {t \in TaskId : IsLate(d, late, t, "TIME_OUT_WF")}

StatusNow(d, late, t) == IF IsLate(d, late, t, "RETRY") THEN "TIMED_OUT" ELSE d.status[t]

Unsuccessful(d, late) == {t \in Pending(d) : StatusNow(d, late, t) \in UnsuccessfulTask}

(* A variant of Retryable that allows one attempt too many.                   *)
RetryableOnceMore(d, late) ==
  {t \in Unsuccessful(d, late) : /\ StatusNow(d, late, t) \in RetriableTask
                                 /\ t[2] <= RetryLimit[t[1]]}

(* retry: a new attempt while the task definition allows one ...             *)
Retryable(d, late) ==
  {t \in Unsuccessful(d, late) : /\ StatusNow(d, late, t) \in RetriableTask
                                 /\ t[2] < RetryLimit[t[1]]}

(* A variant of Tolerated that lets every task fail.                          *)
ToleratedAll(d, late) == Unsuccessful(d, late) \ Retryable(d, late)

(* ... nothing for an optional or permissive task, and otherwise the end.    *)
Tolerated(d, late) ==
  {t \in Unsuccessful(d, late) \ Retryable(d, late) : t[1] \in Optional \cup Permissive}

Halting(d, late) ==
  Overdue(d, late)
    \cup (Unsuccessful(d, late) \ (Retryable(d, late) \cup Tolerated(d, late)))

(* The rows are visited by seq; the first that throws ends the visit.        *)
FirstHalting(d, late) ==
  CHOOSE t \in Halting(d, late) : \A u \in Halting(d, late) \ {t} : <<t, u>> \in d.older

(* A variant of HaltStatus that takes over the task's status.                 *)
TaskStatusKept(d, t) == d.status[t]

(* The workflow's status after the task t that threw.                         *)
HaltStatus(d, t) ==
  CASE d.status[t] = "CANCELED"       -> "TERMINATED"
    [] d.status[t] \in TerminalTask \ {"CANCELED", "TIMED_OUT"} -> "FAILED"
    [] OTHER                          -> "TIMED_OUT"

(* What the visit has marked TIMED_OUT in memory by the time it throws.      *)
VisitedTimedOut(d, late) ==
  {t \in TimedOut(d, late) :
     t = FirstHalting(d, late) \/ <<t, FirstHalting(d, late)>> \in d.older}

(* A tolerated failure becomes COMPLETED_WITH_ERRORS, unless the task is      *)
(* permissive and not optional.                                              *)
Rewritten(d, late) ==
  {t \in Tolerated(d, late) : t[1] \in Optional}

StatusAfter(d, late, t) ==
  IF t \in Rewritten(d, late) THEN "COMPLETED_WITH_ERRORS" ELSE StatusNow(d, late, t)

(* Variants of Done: rows still open; retried rows too.                       *)
DoneUnfinished(d, late) == Pending(d) \ Retryable(d, late)

DoneOrRetried(d, late) == {t \in Pending(d) : StatusNow(d, late, t) \in TerminalTask}

(* The rows the decider is finished with: terminal and not retried.          *)
Done(d, late) ==
  {t \in Pending(d) : StatusNow(d, late, t) \in TerminalTask} \ Retryable(d, late)

IsSkipped(d, r) == \E t \in RowsOf(d, r) : d.status[t] = "SKIPPED"

(* A variant of NextRef that does not stop at the first.                      *)
EveryLaterRef(d, r) == {q \in Ref : r < q /\ ~ IsSkipped(d, q)}

(* The next reference after r that is not skipped: none or one.  r = 0 asks  *)
(* for the first one (startWorkflow).                                        *)
NextRef(d, r) ==
  {q \in Ref : /\ r < q /\ ~ IsSkipped(d, q)
               /\ \A p \in Ref : r < p /\ p < q => IsSkipped(d, p)}

(* getTasksToBeScheduled: attempt 0, unless the reference has a terminal row   *)
(* or, which decide filters in the end, an executed one.                      *)
FirstAttempts(d, r) ==
  {<<q, 0>> : q \in {p \in NextRef(d, r) : RowsOf(d, p) \subseteq Live(d) \ d.executed}}

(* decide: a workflow whose rows are all executed is (re)started from the    *)
(* first task.                                                               *)
StartProposals(d) ==
  {t \in FirstAttempts(d, 0) :
     \A u \in Rows(d) : d.status[u] = "SKIPPED" \/ u \in d.executed}

NextAttempts(d, late) ==
  {u \in TaskId : \E t \in Retryable(d, late) : u = <<t[1], t[2] + 1>>}

Proposals(d, late) ==
  StartProposals(d) \cup NextAttempts(d, late)
    \cup UNION {FirstAttempts(d, t[1]) : t \in Done(d, late)}

(* dedupAndAddTasks: the proposals that have no row yet.                     *)
New(d, late) == Proposals(d, late) \ Rows(d)

(* Variants of Complete: rows must have succeeded; rows need not be terminal. *)
CompleteStrictly(d, late) ==
  /\ Proposals(d, late) = {}
  /\ \A t \in Rows(d) : StatusAfter(d, late, t) \in TerminalTask \cap SuccessfulTask
  /\ \A r \in Ref : RowsOf(d, r) # {}

CompleteByRows(d, late) ==
  /\ Proposals(d, late) = {}
  /\ \A r \in Ref : RowsOf(d, r) # {}

(* checkForWorkflowCompletion, asked only when nothing is proposed.          *)
Complete(d, late) ==
  /\ Proposals(d, late) = {}
  /\ \A t \in Rows(d) : StatusAfter(d, late, t) \in TerminalTask
  /\ \A r \in Ref : RowsOf(d, r) # {}

(* A permissive task whose last attempt failed fails the workflow in the end. *)
FailedPermissively(d, late) ==
  \E r \in Permissive \ Optional : \E t \in LatestOf(d, r) :
     StatusAfter(d, late, t) \in UnsuccessfulTask
=============================================================================
