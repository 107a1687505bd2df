---------------------------- MODULE WorkflowEngine ----------------------------
(***************************************************************************)
(* The engine that runs one workflow: WorkflowExecutorOps, the sweeper that  *)
(* pops the decider queue, the workers that poll and report, the operator's  *)
(* requests, and the server process that may crash and boot again.           *)
(*                                                                         *)
(* Node runs an engine operation to its end before anything else, so         *)
(* operations do not interleave; but each of their writes is its own commit.  *)
(* An operation is therefore a sequence of database states, the ones it       *)
(* passes through in the order of its writes, and the step that performs it   *)
(* ends in the last one, or in an earlier one with the process down.          *)
(***************************************************************************)
EXTENDS Decider, FiniteSets

CONSTANTS Results,          \* statuses a worker reports
          Admin,            \* operator requests that are made
          WorkflowTimeout,  \* the definition has timeoutSeconds and TIME_OUT_WF
          MaxPolls,         \* bound: polls under way at the same time
          MaxCrashes        \* bound: how often the process dies

AdminOperations == {"terminate", "pause", "skip", "retry", "rerun", "restart"}

ASSUME EngineAssumption ==
  /\ Results \subseteq {"IN_PROGRESS", "COMPLETED", "FAILED", "FAILED_WITH_TERMINAL_ERROR"}
  /\ Admin \subseteq AdminOperations
  /\ WorkflowTimeout \in BOOLEAN
  /\ MaxPolls \in Nat
  /\ MaxCrashes \in Nat

VARIABLES db,       \* the tables of the workflow
          taken,    \* tasks whose message a poll has popped, its row still unread
          held,     \* tasks a worker has been handed
          up,       \* the server process is running
          crashes   \* how often it died

vars == <<db, taken, held, up, crashes>>

Final(steps) == steps[Len(steps)]

(***************************************************************************)
(* The engine's operations, as the states of the database they go through.   *)
(***************************************************************************)

(* terminate, terminateWorkflowWithFailure: the task named by the error is    *)
(* saved, the rows that are live in memory (not the spared ones, which the    *)
(* decider had marked TIMED_OUT) are CANCELED, the workflow leaves the        *)
(* decider queue, its status is saved, the messages of its tasks go.          *)
Terminate(d, own, spared, s) ==
  LET saved    == SetStatus(d, own, "TIMED_OUT")
      canceled == SetStatus(saved, Live(saved) \ spared, "CANCELED")
      unqueued == SetDecider(canceled, "absent")
      ended    == SetWorkflow(unqueued, s)
      settled  == SetPending(ended)
      removed  == Remove(settled, Rows(settled))
  IN <<saved, canceled, unqueued, ended, settled, removed, RemovePending(removed)>>

(* endExecution, completeWorkflow: what decide had to update is not saved.    *)
CompleteWorkflow(d) ==
  LET ended   == SetWorkflow(d, "COMPLETED")
      settled == SetPending(ended)
  IN <<ended, settled, SetDecider(settled, "absent")>>

(* scheduleTask, updateTasks, updateWorkflow.                                 *)
Advance(d, late) ==
  LET new       == New(d, late)
      finished  == Done(d, late) \cup Retryable(d, late)
      keyed     == InsertKeys(d, new)
      inserted  == InsertRows(keyed, new \ d.keys)
      pushed    == Push(inserted, new)
      settled   == SetStatus(SetStatus(pushed, TimedOut(d, late), "TIMED_OUT"),
                             Rewritten(d, late), "COMPLETED_WITH_ERRORS")
      processed == [settled EXCEPT !.executed = d.executed \cup Done(d, late),
                                   !.retried  = d.retried \cup Retryable(d, late)]
  IN IF new \cup finished = {}
     THEN <<d>>
     ELSE <<keyed, inserted, pushed, processed, SetPending(processed)>>

(* decide of a workflow that is not terminal, PAUSED or timed out.            *)
Evaluate(d, late) ==
  CASE Halting(d, late) # {} ->
         Terminate(d, Overdue(d, late) \cap {FirstHalting(d, late)},
                   VisitedTimedOut(d, late), HaltStatus(d, FirstHalting(d, late)))
    [] Halting(d, late) = {} /\ Complete(d, late) /\ FailedPermissively(d, late) ->
         Terminate(d, {}, TimedOut(d, late), "FAILED")
    [] Halting(d, late) = {} /\ Complete(d, late) /\ ~ FailedPermissively(d, late) ->
         CompleteWorkflow(d)
    [] OTHER -> Advance(d, late)

(* decide.  expired: the workflow's own timeout has elapsed.                  *)
Decide(d, late, expired) ==
  CASE d.wf \in TerminalWorkflow \ SuccessfulWorkflow ->
         LET canceled == SetStatus(d, Live(d), "CANCELED")
         IN <<canceled, SetDecider(canceled, "absent")>>
    [] d.wf \in {"RUNNING", "PAUSED"} /\ expired -> Terminate(d, {}, {}, "TIMED_OUT")
    [] d.wf = "RUNNING" /\ ~ expired -> Evaluate(d, late)
    [] OTHER -> <<d>>

(* startWorkflow, createAndEvaluate *)
StartWorkflow(d) ==
  LET created == SetWorkflow(d, "RUNNING")
      listed  == SetPending(created)
  IN <<created, listed>> \o Decide(listed, {}, FALSE)

(* A variant of UpdateTask that does not look at the row's status.            *)
UpdateTaskAlways(d, t, result, late, expired) ==
  LET updated == SetStatus(Remove(d, {t}), {t}, result)
  IN <<updated>> \o Decide(updated, late, expired)

(* updateTask: a result is dropped, with the task's message, when the task or *)
(* the workflow is terminal.                                                 *)
UpdateTask(d, t, result, late, expired) ==
  LET s       == IF result = "IN_PROGRESS" THEN "SCHEDULED" ELSE result
      queued  == IF s = "SCHEDULED" THEN Postpone(d, t) ELSE Remove(d, {t})
      updated == SetStatus(queued, {t}, s)
  IN IF d.status[t] \in TerminalTask \/ d.wf \in TerminalWorkflow
     THEN <<Remove(d, {t})>>
     ELSE <<queued, updated>> \o Decide(updated, late, expired)

(* A variant of Repair that does not look at the rows' statuses.               *)
RepairAll(d) == Push(d, {t \in Rows(d) : d.msg[t] # "ready"})

(* Sweep, the part after a decide that changed no row: every SCHEDULED row    *)
(* without a ready message gets one.                                          *)
Repair(d) == Push(d, {t \in Live(d) : d.msg[t] # "ready"})

(* forceSetLastTaskAsNotExecuted *)
ForceLast(d) ==
  [d EXCEPT !.executed = d.executed \ {t \in Rows(d) : \A u \in Rows(d) : <<t, u>> \notin d.older}]

Unchanged(d, late) ==
  d.wf = "PAUSED" \/ New(d, late) \cup TimedOut(d, late) \cup Rewritten(d, late) = {}

(* sweep *)
Sweep(d, late, expired) ==
  LET popped   == SetDecider(d, "popped")
      decided  == Decide(popped, late, expired)
      after    == Final(decided)
      repaired == IF Unchanged(popped, late) THEN Repair(after) ELSE after
      created  == IF popped.wf = "RUNNING" THEN New(popped, late) ELSE {}
      forced   == ForceLast(repaired)
      listed   == SetPending(forced)
  IN CASE popped.wf \notin {"RUNNING", "PAUSED"} ->
            <<popped, SetDecider(popped, "absent")>>
       [] popped.wf \in {"RUNNING", "PAUSED"} /\ after.wf \in TerminalWorkflow ->
            <<popped>> \o decided \o <<SetDecider(after, "absent")>>
       [] /\ popped.wf \in {"RUNNING", "PAUSED"} /\ after.wf \notin TerminalWorkflow
          /\ Live(after) \cup created # {} ->
            <<popped>> \o decided \o <<repaired>>
       [] OTHER ->
            <<popped>> \o decided \o <<repaired, forced, listed>> \o Decide(listed, {}, FALSE)

(* pauseWorkflow *)
PauseWorkflow(d) ==
  LET paused == SetWorkflow(d, "PAUSED")
  IN <<paused, SetPending(paused), SetDecider(SetPending(paused), "absent")>>

(* A variant of Reopen that does not queue the workflow for a sweep.          *)
ReopenUnqueued(d) == <<SetWorkflow(d, "RUNNING"), SetPending(SetWorkflow(d, "RUNNING"))>>

(* What resumeWorkflow, retry and rerun begin with.                           *)
Reopen(d) ==
  LET queued == SetDecider(d, "ready")
      opened == SetWorkflow(queued, "RUNNING")
  IN <<queued, opened, SetPending(opened)>>

(* resumeWorkflow *)
ResumeWorkflow(d, late) == Reopen(d) \o Decide(Final(Reopen(d)), late, FALSE)

(* skipTaskFromWorkflow *)
SkipTask(d, r, late, expired) ==
  LET keyed   == InsertKeys(d, {<<r, 0>>})
      skipped == InsertSkipped(keyed, {<<r, 0>>} \ d.keys)
  IN <<keyed, skipped>> \o Decide(skipped, late, expired)

(* retryInternal: the newest row of each reference when it failed.            *)
RetriableRows(d) ==
  {t \in Rows(d) : /\ t \in LatestOf(d, t[1])
                   /\ d.status[t] \in {"FAILED", "FAILED_WITH_TERMINAL_ERROR",
                                       "TIMED_OUT", "CANCELED"}}

(* The old rows are saved as retried and executed before the new ones exist.  *)
(* A new row is a copy of the old one and inherits its executed flag, which is *)
(* set where the decider had tolerated the failure.                           *)
RetryWorkflow(d) ==
  LET failed    == RetriableRows(d)
      new       == {u \in TaskId : \E t \in failed : u = <<t[1], t[2] + 1>>}
      fresh     == new \ d.keys
      inherited == {u \in fresh : \E t \in failed \cap d.executed : u = <<t[1], t[2] + 1>>}
      opened    == Final(Reopen(d))
      replaced  == [opened EXCEPT !.executed = d.executed \cup failed,
                                  !.retried  = d.retried \cup failed]
      keyed     == InsertKeys(replaced, new)
      inserted  == [InsertRows(keyed, fresh) EXCEPT !.executed = keyed.executed \cup inherited]
  IN Reopen(d) \o <<replaced, keyed, inserted, Push(inserted, new)>>

(* rerunWF without a task: every row is removed first; the workflow's timer    *)
(* goes on.                                                                  *)
RerunWorkflow(d, expired) ==
  LET opening == Reopen(RemoveRows(d, Rows(d)))
  IN <<RemoveRows(d, Rows(d))>> \o opening \o Decide(Final(opening), {}, expired)

(* rerunWF from a task: the rows after it are removed and it is queued anew.  *)
RerunFrom(d, t, late, expired) ==
  LET opened    == Final(Reopen(d))
      truncated == RemoveRows(opened, {u \in Rows(d) : <<t, u>> \in d.older})
      pushed    == Push(truncated, {t})
      revived   == [pushed EXCEPT !.status[t] = "SCHEDULED",
                                  !.executed  = pushed.executed \ {t},
                                  !.retried   = pushed.retried \ {t}]
  IN Reopen(d) \o <<truncated, pushed, revived>> \o Decide(revived, late, expired)

(* restart: resetWorkflow does nothing and the row of the workflow, which is  *)
(* still there, is not overwritten; only workflow_pending gets its row.       *)
RestartWorkflow(d) ==
  LET listed == [d EXCEPT !.pending = TRUE]
  IN <<listed>> \o Decide(listed, {}, FALSE)

(***************************************************************************)
(* Steps.                                                                  *)
(***************************************************************************)

(* The operation's writes are all made, or some and the process dies, and the  *)
(* polls under way with it.                                                  *)
Commit(steps) ==
  /\ up
  /\ \/ /\ db' = Final(steps)
        /\ UNCHANGED <<taken, up, crashes>>
     \/ /\ crashes < MaxCrashes
        /\ \E i \in 1..(Len(steps) - 1) : db' = steps[i]
        /\ taken' = {}
        /\ up' = FALSE
        /\ crashes' = crashes + 1

(* Time, where the decider looks at it: which live rows are late, and whether *)
(* the workflow has expired.                                                  *)
CanBeLate  == SUBSET {t \in Live(db) : TimeoutPolicy[t[1]] # "ALERT_ONLY"}
CanExpire  == IF WorkflowTimeout THEN BOOLEAN ELSE {FALSE}

Start ==
  /\ db.wf = None
  /\ Commit(StartWorkflow(db))
  /\ UNCHANGED held

(* poll, pollBatch: the message is popped; a batch then waits for more ...     *)
Pop(t) ==
  /\ up
  /\ db.msg[t] = "ready"
  /\ Cardinality(taken) < MaxPolls
  /\ db' = [db EXCEPT !.msg[t] = "popped"]
  /\ taken' = taken \cup {t}
  /\ UNCHANGED <<held, up, crashes>>

(* ... and later the row is read and handed out, whatever its status is by     *)
(* then, if there still is one.                                              *)
HandOut(t) ==
  /\ up
  /\ t \in taken
  /\ taken' = taken \ {t}
  /\ held' = held \cup ({t} \cap Rows(db))
  /\ UNCHANGED <<db, up, crashes>>

(* A worker may report more than once, and the report is for the row by id:   *)
(* it throws when the row is gone.                                            *)
Report(t, result) ==
  /\ t \in held
  /\ t \in Rows(db)
  /\ \E late \in CanBeLate, expired \in CanExpire :
       Commit(UpdateTask(db, t, result, late, expired))
  /\ UNCHANGED held

(* sweeperLoop *)
SweepStep ==
  /\ db.decider = "ready"
  /\ \E late \in CanBeLate, expired \in CanExpire : Commit(Sweep(db, late, expired))
  /\ UNCHANGED held

TerminateRequest ==
  /\ "terminate" \in Admin
  /\ db.wf \notin {None, "COMPLETED", "TERMINATED"}
  /\ Commit(Terminate(db, {}, {}, "TERMINATED"))
  /\ UNCHANGED held

PauseRequest ==
  /\ "pause" \in Admin
  /\ db.wf = "RUNNING"
  /\ Commit(PauseWorkflow(db))
  /\ UNCHANGED held

ResumeRequest ==
  /\ "pause" \in Admin
  /\ db.wf = "PAUSED"
  /\ \E late \in CanBeLate : Commit(ResumeWorkflow(db, late))
  /\ UNCHANGED held

SkipRequest(r) ==
  /\ "skip" \in Admin
  /\ db.wf = "RUNNING"
  /\ RowsOf(db, r) = {}
  /\ \E late \in CanBeLate, expired \in CanExpire :
       Commit(SkipTask(db, r, late, expired))
  /\ UNCHANGED held

(* MaxAttempt bounds how often a workflow is retried.                         *)
RetryRequest ==
  /\ "retry" \in Admin
  /\ db.wf \in TerminalWorkflow
  /\ Rows(db) # {}
  /\ RetriableRows(db) # {} \/ db.wf = "TIMED_OUT"
  /\ \A t \in RetriableRows(db) : t[2] < MaxAttempt
  /\ Commit(RetryWorkflow(db))
  /\ UNCHANGED held

RerunRequest ==
  /\ "rerun" \in Admin
  /\ db.wf \in TerminalWorkflow
  /\ \/ \E expired \in CanExpire : Commit(RerunWorkflow(db, expired))
     \/ \E t \in Rows(db), late \in CanBeLate, expired \in CanExpire :
          Commit(RerunFrom(db, t, late \ {t}, expired))
  /\ UNCHANGED held

RestartRequest ==
  /\ "restart" \in Admin
  /\ db.wf \in TerminalWorkflow
  /\ Commit(RestartWorkflow(db))
  /\ UNCHANGED held

(* The process dies between two operations.                                   *)
Crash ==
  /\ up
  /\ crashes < MaxCrashes
  /\ up' = FALSE
  /\ crashes' = crashes + 1
  /\ taken' = {}
  /\ UNCHANGED <<db, held>>

(* A variant of Bootstrap that resumes what workflow_pending lists.           *)
BootstrapResuming ==
  /\ ~ up
  /\ up' = TRUE
  /\ db' = IF db.pending THEN SetDecider(SetWorkflow(db, "RUNNING"), "ready") ELSE db
  /\ UNCHANGED <<taken, held, crashes>>

(* bootstrapServer: every workflow_pending row is pushed to the decider queue. *)
Bootstrap ==
  /\ ~ up
  /\ up' = TRUE
  /\ db' = IF db.pending THEN SetDecider(db, "ready") ELSE db
  /\ UNCHANGED <<taken, held, crashes>>

Init ==
  /\ db = EmptyDatabase
  /\ taken = {}
  /\ held = {}
  /\ up = TRUE
  /\ crashes = 0

AdminRequest ==
  \/ TerminateRequest \/ PauseRequest \/ ResumeRequest
  \/ RetryRequest \/ RerunRequest \/ RestartRequest
  \/ \E r \in Ref : SkipRequest(r)

Next ==
  \/ Start
  \/ \E t \in TaskId : Pop(t) \/ HandOut(t)
  \/ \E t \in TaskId, result \in Results : Report(t, result)
  \/ SweepStep
  \/ AdminRequest
  \/ Crash
  \/ Bootstrap

Spec == Init /\ [][Next]_vars

(* Time passes for the sweeper and the workers: the sweeper's loop runs as     *)
(* long as the process does, the process is started again, a queued task is    *)
(* polled, a poll is answered, and a worker that has a task reports a final     *)
(* result.                                                                   *)
FinalReport(t) == \E result \in Results \ {"IN_PROGRESS"} : Report(t, result)

ServerFairness == WF_vars(Start) /\ WF_vars(SweepStep) /\ WF_vars(Bootstrap)
PollFairness   == WF_vars(\E t \in TaskId : Pop(t)) /\ WF_vars(\E t \in TaskId : HandOut(t))
WorkerFairness == \A t \in TaskId : WF_vars(FinalReport(t))

ServerSpec == Spec /\ ServerFairness /\ PollFairness
FairSpec   == ServerSpec /\ WorkerFairness

(***************************************************************************)
(* Properties.                                                             *)
(***************************************************************************)

(* Every table has its type, whatever prefix of its writes an operation made. *)
TypeOK ==
  /\ db \in Database
  /\ taken \subseteq TaskId
  /\ held \subseteq TaskId
  /\ up \in BOOLEAN
  /\ crashes \in 0..MaxCrashes

(* A row that another attempt replaced (retried) exists and is terminal,       *)
(* whatever was removed, rerun or cut short since: no two attempts of a task   *)
(* can both still be completed.                                               *)
ReplacedIsTerminal == \A t \in db.retried : db.status[t] \in TerminalTask

(* A row the decider has passed (executed) or replaced exists and is terminal: *)
(* the engine never moves on from a task that a worker may still complete.     *)
(* A retry by hand breaks this: its copy of a tolerated failure is executed    *)
(* from birth, so the decider never looks at its timers or its result.         *)
ProcessedIsTerminal ==
  \A t \in db.executed \cup db.retried : db.status[t] \in TerminalTask

(* Every row was inserted under its task_scheduled key, so the key guards it   *)
(* against a second insertion for ever.                                        *)
RowHasKey == Rows(db) \subseteq db.keys

(* One task of a definition without permissive tasks is open at a time: a      *)
(* crash between the inserts and updates of a decide never leaves two.         *)
OneTaskAtATime == \A t, u \in Live(db) : t = u

(* A row is preceded by a settled row of every earlier reference: one that     *)
(* succeeded, was skipped, or is optional.  The decider never runs ahead.      *)
InOrder ==
  \A t \in Rows(db) : \A p \in Ref :
    p < t[1] /\ db.status[t] # "SKIPPED" =>
      /\ RowsOf(db, p) # {}
      /\ \A u \in LatestOf(db, p) : /\ db.status[u] \in TerminalTask
                                    /\ db.status[u] \in SuccessfulTask \/ p \in Optional \cup Permissive

(* A task is attempted at most retryCount + 1 times while nobody retries the   *)
(* workflow by hand, however sweeps, reports and crashes repeat the decision.  *)
RetryBudget == \A t \in Rows(db) : t[2] <= RetryLimit[t[1]]

(* A worker can poll the task, or has it, or a poll is about to hand it out.    *)
Delivered(t) == db.msg[t] = "ready" \/ (db.msg[t] = "popped" /\ t \in taken \cup held)

(* A RUNNING workflow has an open task that a worker holds or can poll, or the *)
(* sweeper is about to look at it: it is never left waiting for nothing.       *)
NeverStuck ==
  up /\ db.wf = "RUNNING" => db.decider = "ready" \/ \E t \in Live(db) : Delivered(t)

(* No open task waits for a worker that cannot come, and no message waits to    *)
(* be polled for a task that has ended: the messages follow the rows through     *)
(* late, repeated and timed out attempts, requests by hand, and the sweeps that  *)
(* make again the messages polls have popped.                                  *)
TasksAreDelivered ==
  up => \A t \in TaskId : /\ t \in Live(db) => Delivered(t)
                         /\ db.msg[t] = "ready" => t \in Live(db)

(* A workflow that has ended has no open task: rows are settled or canceled    *)
(* before the workflow's status is written.                                    *)
EndedHasNoLiveTask == db.wf \in TerminalWorkflow => Live(db) = {}

(* ... and none of its messages is left for a worker to poll.                  *)
EndedIsUnqueued ==
  up /\ db.wf \in TerminalWorkflow => \A t \in TaskId : db.msg[t] = "absent"

(* COMPLETED means that every task of the definition ran to an end, and that   *)
(* the last attempt of each succeeded, was skipped or is optional.             *)
CompletedMeansDone ==
  db.wf = "COMPLETED" =>
    \A r \in Ref : /\ RowsOf(db, r) # {}
                   /\ \A t \in LatestOf(db, r) :
                        /\ db.status[t] \in TerminalTask
                        /\ db.status[t] \in SuccessfulTask \/ r \in Optional

(* workflow_pending, which a restart recovers from, lists exactly the          *)
(* workflows that have not ended.                                              *)
PendingIsOpen == db.pending <=> db.wf \in {"RUNNING", "PAUSED"}

(* A task's outcome, once written, stays: a late, repeated or stale report     *)
(* changes nothing, and only an optional task's failure is rewritten.          *)
ResultsAreFinal ==
  [][\A t \in TaskId :
       db.status[t] \in TerminalTask =>
         \/ db'.status[t] = db.status[t]
         \/ /\ db'.status[t] = "COMPLETED_WITH_ERRORS"
            /\ db.status[t] \in UnsuccessfulTask
            /\ t[1] \in Optional]_vars

(* A workflow that ended stays as it ended while no operator asks otherwise:   *)
(* not even a sweep of a message left behind by a crash reopens it.            *)
EndIsFinal == [][db.wf \in TerminalWorkflow => db'.wf = db.wf]_vars

(* When workers answer, every workflow that is started ends.                   *)
Terminates == <>(db.wf \in TerminalWorkflow)

(* A task whose worker polled it and went silent becomes available again.      *)
Redelivered ==
  \A t \in TaskId :
    (t \in Live(db) /\ db.msg[t] = "popped") ~> (t \notin Live(db) \/ db.msg[t] = "ready")

(***************************************************************************)
(* The engine implements TaskSequence: the newest row of a task is its latest *)
(* attempt.  A retry is lost when the decider has marked the failed row as     *)
(* retried and there is no newer one: a crash between the insertion of its     *)
(* task_scheduled key and its own left the key behind.                        *)
(***************************************************************************)
CurrentStep == CHOOSE r \in 0..N : /\ r = 0 \/ RowsOf(db, r) # {}
                                   /\ \A q \in Ref : RowsOf(db, q) # {} => q <= r

CurrentAttempt == CHOOSE a \in 0..MaxAttempt :
                    IF CurrentStep = 0 THEN a = 0
                                       ELSE <<CurrentStep, a>> \in LatestOf(db, CurrentStep)

Verdict(d, t) ==
  CASE d.status[t] \notin TerminalTask                              -> "open"
    [] d.status[t] \in {"COMPLETED", "SKIPPED"}                     -> "passed"
    [] d.status[t] \in UnsuccessfulTask /\ t \in d.retried          -> "lost"
    [] OTHER                                                        -> "failed"

ResultOf(d, r) ==
  CASE r = 0                         -> "passed"
    [] r # 0 /\ RowsOf(d, r) = {}    -> "none"
    [] OTHER                         -> Verdict(d, CHOOSE t \in LatestOf(d, r) : TRUE)

CurrentResult == [r \in 0..N |-> ResultOf(db, r)]

Outcome == CASE db.wf = "COMPLETED" -> "completed"
             [] db.wf \in TerminalWorkflow \ {"COMPLETED"} -> "failed"
             [] OTHER -> "running"

Sequential == INSTANCE TaskSequence
                WITH step <- CurrentStep, attempt <- CurrentAttempt,
                     result <- CurrentResult, outcome <- Outcome,
                     Losses <- MaxCrashes > 0

SequentialSpec == Sequential!SeqSpec
=============================================================================
