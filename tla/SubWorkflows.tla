----------------------------- MODULE SubWorkflows ----------------------------
(***************************************************************************)
(* A tree of workflows: SUB_WORKFLOW tasks, the workflows they start, and    *)
(* what a start, an end, a retry, a restart or a termination of one means    *)
(* for the others (WorkflowExecutorOps, tasks/SubWorkflow, WorkflowSweeper). *)
(*                                                                         *)
(* A workflow is named by the attempts that lead to it, the root by <<>>:     *)
(* startWorkflowIdempotent names a child after its task's id and retry count. *)
(* A workflow of less than full depth has one SUB_WORKFLOW task, whose        *)
(* attempt a of workflow w is the row w \o <<a>> and starts the workflow of   *)
(* that name; the others have one worker task.  Worker polls are left to      *)
(* WorkflowEngine: a worker may report any open task.                        *)
(***************************************************************************)
EXTENDS Integers, SequencesExt, TaskStatus

CONSTANTS Depth,       \* how deep workflows nest
          MaxAttempt,  \* bound: the retries of a task, all made by requests
          Requests,    \* the requests made: of terminate, retry, resume, restart
          MaxRequests, \* bound: how many of them
          MaxCrashes   \* bound: how often the server dies

ASSUME TreeAssumption ==
  /\ {Depth, MaxAttempt, MaxRequests, MaxCrashes} \subseteq Nat
  /\ Requests \subseteq {"terminate", "retry", "resume", "restart"}

None    == "NONE"
Attempt == 0..MaxAttempt
Rows    == SeqOf(Attempt, Depth + 1) \ {<<>>}
Ids     == SeqOf(Attempt, Depth)
Queue   == {"absent", "ready", "popped"}

VARIABLES db, requests, crashes
vars == <<db, requests, crashes>>

Database ==
  [wf      : [Ids -> WorkflowStatuses \cup {None}],
   row     : [Rows -> TaskStatuses \cup {None}],
   known   : SUBSET Rows,               \* the row holds its subWorkflowId
   executed: SUBSET Rows,
   retried : SUBSET Rows,
   queue   : [Rows -> Queue],           \* the queue of SUB_WORKFLOW tasks
   decider : [Ids -> Queue]]

HasChild(r) == Len(r) <= Depth
Child(w, a)  == w \o <<a>>
RowsOf(d, w) == {r \in {Child(w, a) : a \in Attempt} : d.row[r] # None}
Live(d, w)   == {r \in RowsOf(d, w) : d.row[r] \notin TerminalTask}
LatestOf(R)  == CHOOSE r \in R : \A q \in R : Last(q) <= Last(r)
The(S)       == CHOOSE x \in S : TRUE
Over(d, w)   == d.wf[w] \in TerminalWorkflow
Failed(d, r) == d.row[r] \in UnsuccessfulTask

(* The writes: one statement each, or one loop of the same statement.           *)
SetTask(d, r, s)     == [d EXCEPT !.row[r] = s]
SetWorkflow(d, w, s) == [d EXCEPT !.wf[w] = s]
SetDecider(d, w, q)  == [d EXCEPT !.decider[w] = q]
SetQueue(d, R, q)    == [d EXCEPT !.queue = [r \in Rows |-> IF r \in R THEN q ELSE @[r]]]
Know(d, r)           == [d EXCEPT !.known = @ \cup {r}]

(* A variant of TaskStatusOf that gives the task the status of the workflow.      *)
TaskStatusAsIs(s) == s

(* SubWorkflow.updateTaskStatus and the same switch in start and in the sweeper. *)
TaskStatusOf(s) ==
  CASE s = "TERMINATED" -> "CANCELED"
    [] s \in {"RUNNING", "PAUSED"} -> "IN_PROGRESS"
    [] OTHER -> s

(* A variant of SubWorkflowExecute that trusts only rows with a subWorkflowId.  *)
SubWorkflowExecuteKnown(d, r) ==
  IF r \in d.known /\ Over(d, r) THEN SetTask(d, r, TaskStatusOf(d.wf[r])) ELSE d

(* A variant of SubWorkflowExecute that completes the task whatever the end.    *)
SubWorkflowExecuteDone(d, r) ==
  IF Over(d, r) THEN Know(SetTask(d, r, "COMPLETED"), r) ELSE d

(* SubWorkflow.execute on the row of a workflow that ended: a row that does not  *)
(* know its child starts it again, which finds the child by its name.           *)
SubWorkflowExecute(d, r) ==
  IF r \in d.known
  THEN IF Over(d, r) THEN SetTask(d, r, TaskStatusOf(d.wf[r])) ELSE d
  ELSE IF d.row[r] = "SCHEDULED"
       THEN Know(SetTask(d, r, TaskStatusOf(d.wf[r])), r)
       ELSE d

(* A variant of TellParent that does not ask for a decision of the parent.        *)
TellParentQuietly(d, w) == IF w = <<>> THEN <<>> ELSE <<SubWorkflowExecute(d, w)>>

(* updateParentWorkflowTask, expediteLazyWorkflowEvaluation: two writes.         *)
TellParent(d, w) ==
  IF w = <<>> THEN <<>>
  ELSE LET told == SubWorkflowExecute(d, w)
       IN <<told, SetDecider(told, Front(w), "ready")>>

(* Operations give the databases they pass through, one per write.  kill is what  *)
(* a termination of a workflow one level below does to a database.               *)

(* cancel: terminates the child of a row that holds a subWorkflowId, throws when  *)
(* the child is COMPLETED, and lets the row be written as CANCELED.             *)
Cancels(d, r) == HasChild(r) /\ r \in d.known /\ d.wf[r] \notin {None, "TERMINATED"}
CancelChild(kill, d, r) ==
  IF Cancels(d, r) /\ d.wf[r] # "COMPLETED" THEN kill[d][r] ELSE <<>>
CancelTask(kill, steps, r) ==
  The({Append(all, SetTask(Last(all), r, "CANCELED")) :
         all \in {ss \o CancelChild(kill, Last(ss), r) : ss \in {steps}}})

(* cancelNonTerminalTasks, in the order of the attempts                           *)
CancelTasks(kill, d, w) ==
  LET canceled[n \in 0..(MaxAttempt + 1)] ==
        IF n = 0 THEN <<d>>
        ELSE IF Child(w, n - 1) \in Live(d, w)
        THEN CancelTask(kill, canceled[n - 1], Child(w, n - 1))
        ELSE canceled[n - 1]
  IN canceled[MaxAttempt + 1]
CancelFails(d, e, w) == \E r \in Live(d, w) : Cancels(d, r) /\ e.wf[r] # "TERMINATED"

(* terminateWorkflowWithFailure: tasks, decider message, status, task messages,   *)
(* the parent's row and decision.                                               *)
EndSteps(d, w, s) ==
  LET a == SetDecider(d, w, "absent")
      b == SetWorkflow(a, w, s)
      c == SetQueue(b, RowsOf(b, w), "absent")
  IN <<a, b, c>> \o The({TellParent(e, w) : e \in {c}})
TerminateBy(kill, d, w, s) ==
  The({IF CancelFails(d, Last(all), w) THEN all ELSE all \o EndSteps(Last(all), w, s) :
         all \in {CancelTasks(kill, d, w)}})

(* A termination that reaches n levels down; the tree has Depth levels.            *)
Killed[n \in 0..Depth] ==
  [d \in Database |-> [w \in Ids |->
     IF n = 0 THEN <<>> ELSE TerminateBy(Killed[n - 1], d, w, "TERMINATED")]]
CancelAll(d, w)         == CancelTasks(Killed[Depth], d, w)
TerminateSteps(d, w, s) == TerminateBy(Killed[Depth], d, w, s)

(* completeWorkflow, then cancelNonTerminalTasks, which removes the message.      *)
CompleteSteps(d, w) ==
  The({Append(told, SetDecider(Last(told), w, "absent")) :
         told \in {<<e>> \o TellParent(e, w) : e \in {SetWorkflow(d, w, "COMPLETED")}}})

Schedule(d, r) ==
  LET inserted == SetTask(d, r, "SCHEDULED")
  IN <<inserted>> \o (IF HasChild(r) THEN <<SetQueue(inserted, {r}, "ready")>> ELSE <<>>)

(* decide of a workflow of one task: no attempt is made automatically, since     *)
(* SUB_WORKFLOW is a built-in task (and the worker task has no retries).          *)
Pending(d, w) == RowsOf(d, w) \ (d.executed \cup d.retried)
DecideSteps(d, w) ==
  LET failed == {r \in Pending(d, w) : Failed(d, r)}
      end(r) == CASE d.row[r] = "CANCELED" -> "TERMINATED" [] OTHER -> "FAILED"
  IN CASE d.wf[w] = "PAUSED" \/ d.wf[w] = "COMPLETED" -> <<d>>
       [] d.wf[w] \in TerminalWorkflow \ {"COMPLETED"} ->
            The({IF CancelFails(d, Last(canceled), w) THEN canceled
                 ELSE Append(canceled, SetDecider(Last(canceled), w, "absent")) :
                   canceled \in {CancelAll(d, w)}})
       [] d.wf[w] = "RUNNING" /\ failed # {} ->
            TerminateSteps(d, w, end(CHOOSE r \in failed : \A q \in failed : Last(r) <= Last(q)))
       [] d.wf[w] = "RUNNING" /\ failed = {} /\ RowsOf(d, w) = {} -> Schedule(d, Child(w, 0))
       [] d.wf[w] = "RUNNING" /\ failed = {} /\ RowsOf(d, w) # {} /\ Live(d, w) = {} ->
            CompleteSteps(d, w)
       [] OTHER -> <<[d EXCEPT !.executed = @ \cup (Pending(d, w) \ Live(d, w))]>>

(* op of the database the steps lead to, after them                              *)
Then(steps, op(_)) ==
  The({ss \o The({op(d) : d \in {Last(ss)}}) : ss \in {steps}})

(* retryInternal: a new attempt of the task if its last one ended badly.          *)
Retriable(d, w) == RowsOf(d, w) # {} /\ Failed(d, LatestOf(RowsOf(d, w)))
RetrySteps(d, w) ==
  LET r    == LatestOf(RowsOf(d, w))
      next == Child(w, Last(r) + 1)
      a == SetDecider(d, w, "ready")
      b == SetWorkflow(a, w, "RUNNING")
      c == [b EXCEPT !.retried = @ \cup {r}, !.executed = @ \cup {r}]
  IN <<a, b, c>> \o Schedule(c, next)

(* A variant of UpdateParents that reopens the task and not its workflow.          *)
UpdateParentsRowOnly(d, w) ==
  IF w = <<>> THEN <<d>> ELSE <<SetTask(d, w, "IN_PROGRESS")>>

(* updateAndPushParents: every ancestor runs again, whatever had become of it.    *)
ParentSteps(steps, w) ==
  LET a == SetTask(Last(steps), w, "IN_PROGRESS")
      b == SetWorkflow(a, Front(w), "RUNNING")
      c == SetDecider(b, Front(w), "ready")
  IN steps \o <<a, b, c>>
UpdateParents(d, w) ==
  LET reopened[n \in 0..Len(w)] ==
        IF n = 0 THEN <<d>>
        ELSE The({ParentSteps(ss, SubSeq(w, 1, Len(w) - n + 1)) : ss \in {reopened[n - 1]}})
  IN reopened[Len(w)]

(* findLastFailedSubWorkflowIfAny: down the first failed row of every workflow.   *)
FailedRows(d, w) == {r \in RowsOf(d, w) : Failed(d, r)}
FirstFailed(d, w) == CHOOSE r \in FailedRows(d, w) : \A q \in FailedRows(d, w) : Last(r) <= Last(q)
LastFailed(d, w) ==
  LET found[n \in 0..Depth] ==
        IF n = 0 THEN w
        ELSE The({LET r == FirstFailed(d, v)
                  IN IF HasChild(r) /\ r \in d.known /\ FailedRows(d, r) # {} THEN r ELSE v :
                    v \in {found[n - 1]}})
  IN found[Depth]
-----------------------------------------------------------------------------
(* An operation ends, or the server dies after some of its writes.                *)
Rebooted(d) ==
  [d EXCEPT !.decider = [w \in Ids |-> IF d.wf[w] # None /\ ~ Over(d, w) THEN "ready" ELSE @[w]]]
Commit(steps) ==
  \E all \in {steps} :
    \/ db' = Last(all) /\ UNCHANGED crashes
    \/ /\ crashes < MaxCrashes /\ crashes' = crashes + 1
       /\ \E n \in 0..(Len(all) - 1) : db' = Rebooted(IF n = 0 THEN db ELSE all[n])

Init ==
  /\ \E d \in {[wf |-> [w \in Ids |-> IF w = <<>> THEN "RUNNING" ELSE None],
                row |-> [r \in Rows |-> None], known |-> {}, executed |-> {}, retried |-> {},
                queue |-> [r \in Rows |-> "absent"], decider |-> [w \in Ids |-> "absent"]]} :
       db = Last(DecideSteps(d, <<>>))
  /\ requests = 0 /\ crashes = 0

(* SystemTaskWorker on a SUB_WORKFLOW row.  isAsyncComplete keeps it from writing  *)
(* the row: neither IN_PROGRESS nor the subWorkflowId is stored.                  *)
Execute(r) ==
  /\ HasChild(r) /\ db.queue[r] = "ready"
  /\ LET popped  == SetQueue(db, {r}, "popped")
         created == SetWorkflow(popped, r, "RUNNING")
     IN Commit(CASE db.row[r] \in TerminalTask -> <<popped, SetQueue(db, {r}, "absent")>>
                 [] db.row[r] = "SCHEDULED" /\ db.wf[r] = None ->
                      <<popped, created, SetDecider(created, r, "ready")>>
                 [] OTHER -> <<popped>>)
  /\ UNCHANGED requests

(* The result of a worker task.                                                   *)
Report(r) ==
  /\ ~ HasChild(r) /\ r \in Live(db, Front(r)) /\ ~ Over(db, Front(r))
  /\ \E s \in {"COMPLETED", "FAILED"} :
       Commit(Then(<<SetTask(db, r, s)>>, LAMBDA d : DecideSteps(d, Front(r))))
  /\ UNCHANGED requests

(* isTaskRepairable, repairSubWorkflowTask                                         *)
Unhanded(d, w) == {r \in Live(d, w) : HasChild(r) /\ d.row[r] = "SCHEDULED" /\ d.queue[r] # "ready"}
Outlived(d, w) ==
  {r \in Live(d, w) : HasChild(r) /\ d.row[r] = "IN_PROGRESS" /\ r \in d.known /\ Over(d, r)}
Repair(d, w) ==
  [SetQueue(d, Unhanded(d, w), "ready") EXCEPT
     !.row = [r \in Rows |-> IF r \in Outlived(d, w) THEN TaskStatusOf(d.wf[r]) ELSE @[r]]]

(* forceSetLastTaskAsNotExecuted and a decision, when no task is open.             *)
ForceLast(d, w) ==
  IF Live(d, w) # {} \/ RowsOf(d, w) = {} THEN <<d>>
  ELSE DecideSteps([d EXCEPT !.executed = @ \ {LatestOf(RowsOf(d, w))}], w)

EnsureParent(d, w) ==
  IF w = <<>> \/ d.decider[Front(w)] = "ready" THEN <<d>>
  ELSE <<SetDecider(d, Front(w), "ready")>>

(* sweep                                                                           *)
Gone(d, w) == <<SetDecider(d, w, "absent")>>

(* ... after the repair of e; and after the first decision on d, which led to e.      *)
RepairSteps(e, w) ==
  IF Outlived(e, w) = {} THEN <<Repair(e, w)>>
  ELSE Then(<<Repair(e, w)>>, LAMBDA f : DecideSteps(f, w))
Settle(e, w) ==
  IF Over(e, w) THEN Gone(e, w)
  ELSE Then(ForceLast(e, w), LAMBDA f : EnsureParent(f, w))
AfterDecide(d, e, w) ==
  IF Over(e, w) THEN Gone(e, w)
  ELSE IF \E r \in Pending(d, w) : Failed(d, r) THEN <<e>>      \* the decision threw
  ELSE IF RowsOf(d, w) = RowsOf(e, w) /\ \A r \in RowsOf(d, w) : d.row[r] = e.row[r]
  THEN Then(RepairSteps(e, w), LAMBDA f : Settle(f, w))
  ELSE Settle(e, w)
SweepSteps(d, w) ==
  IF Over(d, w) THEN Gone(d, w)
  ELSE Then(DecideSteps(d, w), LAMBDA e : AfterDecide(d, e, w))

Sweep(w) ==
  /\ db.decider[w] = "ready" /\ db.wf[w] # None
  /\ Commit(Then(<<SetDecider(db, w, "popped")>>, LAMBDA d : SweepSteps(d, w)))
  /\ UNCHANGED requests

Request(kind, w) ==
  /\ kind \in Requests /\ db.wf[w] # None
  /\ requests < MaxRequests /\ requests' = requests + 1

(* terminateWorkflow                                                               *)
Terminate(w) ==
  /\ Request("terminate", w) /\ db.wf[w] \notin {"COMPLETED", "TERMINATED"}
  /\ Commit(TerminateSteps(db, w, "TERMINATED"))

(* retry, of the workflow itself or of the last failed workflow below it.           *)
Retry(w, resume) ==
  /\ Request(IF resume THEN "resume" ELSE "retry", w) /\ Over(db, w) /\ RowsOf(db, w) # {}
  /\ resume => FailedRows(db, w) # {}
  /\ LET target == IF resume THEN LastFailed(db, w) ELSE w
     IN /\ Retriable(db, target)
        /\ Last(LatestOf(RowsOf(db, target))) < MaxAttempt
        /\ Commit(Then(RetrySteps(db, target), LAMBDA d : UpdateParents(d, target)))

(* restart: the reset and the insert have no effect, the parents are told.           *)
Restart(w) ==
  /\ Request("restart", w) /\ Over(db, w)
  /\ Commit(Then(DecideSteps(db, w), LAMBDA d : UpdateParents(d, w)))

Next ==
  \/ \E r \in Rows : Execute(r) \/ Report(r)
  \/ \E w \in Ids  : Sweep(w) \/ Terminate(w) \/ Restart(w)
  \/ \E w \in Ids, resume \in BOOLEAN : Retry(w, resume)

(* Workers report; the pollers and the sweeper run.                                  *)
Fairness ==
  /\ \A r \in Rows : WF_vars(Execute(r)) /\ WF_vars(Report(r))
  /\ \A w \in Ids : WF_vars(Sweep(w))

Spec == Init /\ [][Next]_vars
FairSpec == Spec /\ Fairness
-----------------------------------------------------------------------------
(* The variables keep their types.                                                   *)
TypeOK ==
  /\ db \in Database
  /\ requests \in 0..MaxRequests
  /\ crashes \in 0..MaxCrashes

(* A SUB_WORKFLOW task is COMPLETED only when the workflow it started is, wherever a    *)
(* crash cuts a termination or a late end of it (SubWorkflow.execute,                  *)
(* terminateWorkflow).                                                               *)
CompletedByChild ==
  \A r \in Rows : HasChild(r) /\ db.row[r] = "COMPLETED" => db.wf[r] = "COMPLETED"

(* Whenever a child and the task that started it have both ended, they agree on how,   *)
(* whichever end came first (updateParentWorkflowTask, cancel).                        *)
EndsAgree ==
  \A r \in db.known :
    db.row[r] \in TerminalTask /\ Over(db, r) => db.row[r] = TaskStatusOf(db.wf[r])

(* A workflow that ended has no open task, also after a workflow above or below it was  *)
(* retried, restarted or terminated (updateAndPushParents, cancelNonTerminalTasks).     *)
NoOpenTaskAfterEnd == \A w \in Ids : Over(db, w) => Live(db, w) = {}

(* A running workflow has an open task or a decision to come, also when a workflow      *)
(* below it made it run again.                                                         *)
NeverIdle ==
  \A w \in Ids : db.wf[w] = "RUNNING" => Live(db, w) # {} \/ db.decider[w] = "ready"

(* Every workflow of the tree ends in the end.                                          *)
TreeEnds == <>[](\A w \in Ids : db.wf[w] # None => Over(db, w))

==============================================================================
