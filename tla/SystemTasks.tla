----------------------------- MODULE SystemTasks -----------------------------
(***************************************************************************)
(* The operators of a workflow definition (FORK_JOIN, JOIN, SWITCH,          *)
(* TERMINATE, WAIT, HUMAN, EVENT, tasks like HTTP) and SystemTaskWorker,     *)
(* which polls the asynchronous ones.  One workflow of one attempt per task: *)
(* retries and crashes inside an operation are the matter of WorkflowEngine. *)
(*                                                                         *)
(* Kinds: SIMPLE a worker's task; START a task whose start() does the work    *)
(* and sets the final status (HTTP, START_WORKFLOW); WAIT a wait for a       *)
(* signal; TIMED a wait with a duration; PROMISE a task the engine starts by  *)
(* itself and whose start() returns a promise (JSON_JQ_TRANSFORM).           *)
(***************************************************************************)
EXTENDS Integers, Sequences, TaskStatus

CONSTANTS Top,         \* the references of the definition's tasks, in order
          Kind,        \* the kind of every reference
          Branches,    \* forkTasks or decisionCases: lists of references
          TerminateAs, \* terminationStatus of the TERMINATE tasks
          MaxCrashes   \* bound: how often the server dies

Ref   == DOMAIN Kind
None  == "NONE"
Async == {"START", "WAIT", "TIMED", "JOIN"}           \* isAsync()
Queue == {"absent", "ready", "popped"}
TopRef == {Top[i] : i \in DOMAIN Top}

(* Forks and switches are top-level tasks; nested ones are left out.           *)
ASSUME ShapeAssumption ==
  /\ Top \in Seq(Ref) \ {<<>>}
  /\ MaxCrashes \in Nat
  /\ \A r \in Ref : Kind[r] \in {"FORK", "SWITCH"} =>
       r \in TopRef /\ Branches[r] \subseteq Seq(Ref)
  /\ \A r \in Ref : Kind[r] = "FORK" =>
       \E i \in DOMAIN Top : Top[i] = r /\ i < Len(Top) /\ Kind[Top[i + 1]] = "JOIN"

VARIABLES db,       \* the workflow in the database
          chosen,   \* the case each SWITCH evaluates to, <<>> for none
          writing,  \* tasks an invocation of SystemTaskWorker will write back
          held,     \* SIMPLE tasks a worker has polled and not reported
          crashes
vars == <<db, chosen, writing, held, crashes>>

Database ==
  [wf       : WorkflowStatuses,
   status   : [Ref -> TaskStatuses \cup {None}],
   executed : SUBSET Ref,
   last     : Ref \cup {None},           \* the row with the highest seq
   queue    : [Ref -> Queue],
   decider  : Queue,
   promised : SUBSET Ref]                \* promises of scheduleTask, lost by a crash

Rows(d) == {r \in Ref : d.status[r] # None}
Live(d) == {r \in Rows(d) : d.status[r] \notin TerminalTask}
Ended(d) == d.wf \in TerminalWorkflow

(* ExecutorUtils.getNextTask looks among the top-level tasks only: a task of  *)
(* a branch or of a case has no next task.                                   *)
Successor(r) == {Top[i + 1] : i \in {j \in DOMAIN Top : Top[j] = r /\ j < Len(Top)}}

(* A variant of NextTask that never goes on after a switch.                      *)
NextNoSwitch(c, r) == IF Kind[r] = "SWITCH" THEN {} ELSE Successor(r)

NextTask(c, r) == IF Kind[r] = "SWITCH" /\ c[r] # <<>> THEN {} ELSE Successor(r)

(* The mappers: a switch brings the first task of its case, a fork the first  *)
(* task of every branch and the join.                                        *)
Mapped(c, r) ==
  {r} \cup (CASE Kind[r] = "SWITCH" -> {b[1] : b \in {c[r]} \ {<<>>}}
              [] Kind[r] = "FORK"   -> {b[1] : b \in Branches[r] \ {<<>>}} \cup Successor(r)
              [] OTHER              -> {})

(* The status after the loop of decideInternal that schedules the task: what  *)
(* start and execute of the tasks that are not asynchronous made of it.       *)
StatusOf(k) ==
  CASE k \in {"FORK", "SWITCH", "EVENT", "TERMINATE"} -> "COMPLETED"
    [] k \in {"JOIN", "HUMAN"}                        -> "IN_PROGRESS"
    [] OTHER                                          -> "SCHEDULED"

(* The last of the tasks scheduled together: a join, or a nested task.        *)
LastOf(R) ==
  CHOOSE r \in R : \/ Kind[r] = "JOIN"
                   \/ /\ \A q \in R : Kind[q] # "JOIN"
                      /\ r \in TopRef => R \subseteq TopRef

(* dedupAndAddTasks, createTasks, scheduleTask *)
Schedule(d, R) ==
  IF R = {} THEN d ELSE
  [d EXCEPT !.status   = [r \in Ref |-> IF r \in R THEN StatusOf(Kind[r]) ELSE @[r]],
            !.queue    = [r \in Ref |-> IF r \in R /\ Kind[r] \in Async \cup {"SIMPLE"}
                                        THEN "ready" ELSE @[r]],
            !.promised = @ \cup {r \in R : Kind[r] = "PROMISE"},
            !.last     = LastOf(R)]

Canceled(d) ==
  [d EXCEPT !.status = [r \in Ref |-> IF r \in Live(d) THEN "CANCELED" ELSE @[r]],
            !.decider = "absent"]

(* Variants of Terminated: one keeps the messages, one writes a task's status.  *)
TerminatedQueued(d, s) == [Canceled(d) EXCEPT !.wf = s]
TerminatedAsTask(d, s) ==
  [Canceled(d) EXCEPT !.wf = "CANCELED",
                      !.queue = [r \in Ref |-> IF r \in Rows(d) THEN "absent" ELSE @[r]]]

(* terminateWorkflowWithFailure: cancelNonTerminalTasks, then every message   *)
Terminated(d, s) ==
  [Canceled(d) EXCEPT !.wf = s,
                      !.queue = [r \in Ref |-> IF r \in Rows(d) THEN "absent" ELSE @[r]]]

(* completeWorkflow, cancelNonTerminalTasks *)
Completed(d) == [Canceled(d) EXCEPT !.wf = "COMPLETED"]

(* endExecution *)
EndExecution(d, byTask) ==
  IF byTask /\ TerminateAs \in {"FAILED", "TERMINATED"}
  THEN Terminated(d, TerminateAs) ELSE Completed(d)

(* A variant of Done that takes a started task for a finished one.           *)
DoneEarly(d) == {r \in Rows(d) \ d.executed : d.status[r] # "SCHEDULED"}

Done(d) == {r \in Rows(d) \ d.executed : d.status[r] \in TerminalTask}

Following(d, c) == UNION {NextTask(c, r) : r \in Done(d)}

Proposals(d, c) ==
  (IF Rows(d) = {} THEN Mapped(c, Top[1])
   ELSE UNION {Mapped(c, q) : q \in Following(d, c)}) \ Rows(d)

(* What the switches may evaluate to: a case, or nothing (<<>>).              *)
Choices ==
  LET switches == {r \in Ref : Kind[r] = "SWITCH"}
  IN {c \in [switches -> UNION {Branches[r] : r \in switches}] :
        \A r \in switches : c[r] \in Branches[r]}

(* A variant of AllDone that asks for the top-level tasks to be there only.      *)
AllThere(d, R) == R = {} /\ TopRef \subseteq Rows(d)

(* checkForWorkflowCompletion: nothing to schedule, no task open, no top-level   *)
(* task without a row.                                                         *)
AllDone(d, R) == R = {} /\ Live(d) = {} /\ TopRef \subseteq Rows(d)

(* One turn of decideInternal's loop, R being what is to be scheduled.         *)
Turn(d, R) ==
  LET byTask == \E r \in Rows(d) : Kind[r] = "TERMINATE" /\ d.status[r] = "COMPLETED"
  IN IF Ended(d) THEN d
     ELSE IF \E r \in Done(d) : d.status[r] \in UnsuccessfulTask THEN Terminated(d, "FAILED")
     ELSE IF byTask \/ AllDone(d, R) THEN EndExecution(d, byTask)
     ELSE [Schedule(d, R) EXCEPT !.executed = @ \cup Done(d)]

(* A pending promise keeps the loop busy until its time is up and makes it     *)
(* push the workflow again.                                                  *)
Pushed(t) ==
  [t EXCEPT !.decider = IF ~ Ended(t) /\ \E r \in Live(t) : Kind[r] = "PROMISE"
                        THEN "ready" ELSE @]

(* decideInternal: turns until nothing changes.                               *)
Decide(d, c) ==
  LET turns[n \in 0..(Len(Top) + 1)] ==
        IF n = 0 THEN {d} ELSE {Turn(e, Proposals(e, c)) : e \in turns[n - 1]}
  IN CHOOSE e \in {Pushed(t) : t \in turns[Len(Top) + 1]} : TRUE

(* A variant of UpdateTask that stores late results too.                      *)
UpdateTaskAlways(d, c, r, s) ==
  Decide([d EXCEPT !.status[r] = s,
                   !.queue[r] = IF s \in TerminalTask \/ @ = "absent" THEN "absent"
                                ELSE "ready"], c)

(* WorkflowExecutorOps.updateTask: a result for a terminal task or workflow   *)
(* only removes the message; IN_PROGRESS makes the message ready again.       *)
UpdateTask(d, c, r, s) ==
  IF d.status[r] \in TerminalTask \/ Ended(d) THEN [d EXCEPT !.queue[r] = "absent"]
  ELSE Decide([d EXCEPT !.status[r] = s,
                        !.queue[r] = IF s \in TerminalTask \/ @ = "absent" THEN "absent"
                                     ELSE "ready"], c)


(* isTaskRepairable, and containsMessage sees only messages not popped.       *)
Repairable(d, r) ==
  /\ r \in Live(d)
  /\ d.queue[r] # "ready"
  /\ \/ Kind[r] \in Async
     \/ Kind[r] = "SIMPLE" /\ d.status[r] = "SCHEDULED"

(* sweep of d, e being d decided: what has no message is pushed when nothing    *)
(* changed, and the last task is decided once more when no task is open.       *)
SweepOf(d, e, c) ==
  IF Ended(e) THEN [e EXCEPT !.decider = "absent"]
  ELSE IF Live(e) = {} THEN Decide([e EXCEPT !.executed = @ \ {e.last}], c)
  ELSE IF e.status = d.status
  THEN [e EXCEPT !.queue = [r \in Ref |-> IF Repairable(e, r) THEN "ready" ELSE @[r]]]
  ELSE e

(* Join.execute over the rows the worker has read.                            *)
JoinOutcome(d, r) ==
  LET fork == CHOOSE q \in Ref : Kind[q] = "FORK" /\ r \in Successor(q)
      joinOn == UNION {{b[i] : i \in DOMAIN b} : b \in Branches[fork]}
  IN IF \E q \in joinOn : d.status[q] \in UnsuccessfulTask THEN "FAILED"
     ELSE IF joinOn \subseteq Rows(d) \ Live(d) THEN "COMPLETED" ELSE "IN_PROGRESS"

(* What start (for a SCHEDULED task) or execute leaves in the worker's copy.   *)
Outcomes(d, r) ==
  CASE Kind[r] = "JOIN"  -> {JoinOutcome(d, r)}
    [] Kind[r] = "START" -> {"COMPLETED", "FAILED"}
    [] Kind[r] = "TIMED" /\ d.status[r] = "IN_PROGRESS" -> {"IN_PROGRESS", "COMPLETED"}
    [] OTHER             -> {"IN_PROGRESS"}
-----------------------------------------------------------------------------
Init ==
  /\ chosen \in Choices
  /\ db = Decide([wf |-> "RUNNING", status |-> [r \in Ref |-> None], executed |-> {},
                  last |-> None, queue |-> [r \in Ref |-> "absent"],
                  decider |-> "absent", promised |-> {}], chosen)
  /\ writing = {} /\ held = {} /\ crashes = 0

(* TaskService.poll by a worker, and its report.                              *)
Work(r) ==
  /\ Kind[r] = "SIMPLE" /\ db.queue[r] = "ready"
  /\ db' = [db EXCEPT !.queue[r] = "popped"]
  /\ held' = held \cup {r}
  /\ UNCHANGED <<chosen, writing, crashes>>

Report(r) ==
  /\ r \in held
  /\ \E s \in {"COMPLETED", "FAILED"} : db' = UpdateTask(db, chosen, r, s)
  /\ held' = held \ {r}
  /\ UNCHANGED <<chosen, writing, crashes>>

(* A person or another system completes a WAIT or HUMAN task.                  *)
Signal(r) ==
  /\ Kind[r] \in {"WAIT", "HUMAN"} /\ r \in Live(db)
  /\ db' = UpdateTask(db, chosen, r, "COMPLETED")
  /\ UNCHANGED <<chosen, writing, held, crashes>>

(* SystemTaskWorker writes back only what is neither SCHEDULED nor terminal.   *)
WrittenBack(s) == s \notin TerminalTask /\ s # "SCHEDULED"

(* executeSystemTask up to its await: the message is popped, the rows are      *)
(* read, start or execute has run on a copy.                                   *)
Execute(r) ==
  /\ Kind[r] \in Async /\ db.queue[r] = "ready"
  /\ \/ /\ r \notin Live(db)
        /\ db' = [db EXCEPT !.queue[r] = "absent"]
        /\ UNCHANGED writing
     \/ /\ r \in Live(db)
        /\ db' = [db EXCEPT !.queue[r] = "popped"]
        /\ \E s \in Outcomes(db, r) :
             writing' = IF WrittenBack(s) THEN writing \cup {<<r, s>>} ELSE writing
  /\ UNCHANGED <<chosen, held, crashes>>

(* executeSystemTask after its await.                                          *)
WriteBack(w) ==
  /\ db' = UpdateTask(db, chosen, w[1], w[2])
  /\ writing' = writing \ {w}
  /\ UNCHANGED <<chosen, held, crashes>>

(* The promise of scheduleTask: it writes the row it captured when the task     *)
(* was scheduled and pushes the workflow.                                      *)
Resolve(r) ==
  /\ \E s \in {"COMPLETED", "FAILED"} :
       db' = [db EXCEPT !.status[r] = s, !.executed = @ \ {r},
                        !.promised = @ \ {r}, !.decider = "ready"]
  /\ UNCHANGED <<chosen, writing, held, crashes>>

Sweep ==
  /\ db.decider = "ready"
  /\ \E d \in {[db EXCEPT !.decider = "popped"]} : \E e \in {Decide(d, chosen)} :
       db' = SweepOf(d, e, chosen)
  /\ UNCHANGED <<chosen, writing, held, crashes>>

(* terminateWorkflow on a request                                              *)
Terminate ==
  /\ db.wf \notin {"COMPLETED", "TERMINATED"}
  /\ db' = Terminated(db, "TERMINATED")
  /\ UNCHANGED <<chosen, writing, held, crashes>>

(* A variant of Restart that forgets to push what is open.                     *)
RestartIdle ==
  /\ crashes < MaxCrashes
  /\ crashes' = crashes + 1
  /\ writing' = {}
  /\ db' = [db EXCEPT !.promised = {}]
  /\ UNCHANGED <<chosen, held>>

(* The server dies, losing invocations and promises, and pushes every open      *)
(* workflow when it starts again.                                              *)
Restart ==
  /\ crashes < MaxCrashes
  /\ crashes' = crashes + 1
  /\ writing' = {}
  /\ db' = [db EXCEPT !.promised = {}, !.decider = IF Ended(db) THEN @ ELSE "ready"]
  /\ UNCHANGED <<chosen, held>>

Next ==
  \/ \E r \in Ref : Work(r) \/ Report(r) \/ Signal(r) \/ Execute(r)
  \/ \E w \in writing : WriteBack(w)
  \/ \E r \in db.promised : Resolve(r)
  \/ Sweep \/ Terminate \/ Restart

(* The server's loops run and what it started goes on.                          *)
ServerFairness ==
  /\ \A r \in Ref : /\ WF_vars(Execute(r))
                    /\ WF_vars(<<r, "IN_PROGRESS">> \in writing /\ WriteBack(<<r, "IN_PROGRESS">>))
                    /\ WF_vars(r \in db.promised /\ Resolve(r))
  /\ WF_vars(Sweep)

(* Workers answer and people signal.                                           *)
OutsideFairness ==
  \A r \in Ref : WF_vars(Work(r)) /\ WF_vars(Report(r)) /\ WF_vars(Signal(r))

Spec == Init /\ [][Next]_vars
ServerSpec == Spec /\ ServerFairness
FairSpec == ServerSpec /\ OutsideFairness
-----------------------------------------------------------------------------
(* The variables keep their types.                                            *)
TypeOK ==
  /\ db \in Database
  /\ chosen \in Choices
  /\ writing \subseteq Ref \X {"IN_PROGRESS"}
  /\ held \subseteq Ref
  /\ crashes \in 0..MaxCrashes

(* A final status stays: whatever an invocation of SystemTaskWorker, a report,  *)
(* a sweep, a termination or a restart does later with what it read before      *)
(* (SystemTaskWorker.executeSystemTask, updateTask).                            *)
TerminalOnce ==
  [][\A r \in Ref : db.status[r] \in TerminalTask => db'.status[r] = db.status[r]]_vars

(* A top-level task is scheduled only after every task before it succeeded: no  *)
(* wait, signal, join or case is passed early (decideInternal, getNextTask).    *)
InSequence ==
  \A i, j \in DOMAIN Top :
    i < j /\ Top[j] \in Rows(db) =>
      db.status[Top[i]] \in TerminalTask \cap SuccessfulTask

(* A workflow that ended leaves no task message behind, although its tasks were  *)
(* being polled, written back or pushed again when it ended (updateTask, sweep).  *)
EndedIsUnqueued ==
  Ended(db) => \A r \in Ref : db.queue[r] # "ready"

(* A running workflow always has an open task, a promise or a decision to come   *)
(* (decideInternal, getNextTask, sweep).                                         *)
NeverStuck ==
  db.wf = "RUNNING" => Live(db) # {} \/ db.decider = "ready"

(* A workflow that completed, and not through a TERMINATE task, has run every     *)
(* top-level task, every task of every case its switches chose and all else it     *)
(* scheduled to success (checkForWorkflowCompletion, SwitchTaskMapper).            *)
CompletedMeansDone ==
  LET chosenTasks == UNION {{chosen[q][i] : i \in DOMAIN chosen[q]} : q \in DOMAIN chosen}
      required == TopRef \cup chosenTasks \cup Rows(db)
  IN db.wf = "COMPLETED" /\ (\A r \in Rows(db) : Kind[r] # "TERMINATE") =>
       \A r \in required : db.status[r] \in TerminalTask \cap SuccessfulTask

(* A wait whose poll was lost with the server is polled again or ends, although     *)
(* nobody signals (SystemTaskWorker, sweep, the recovery at boot).                 *)
WaitsArePolled ==
  \A r \in Ref : Kind[r] = "WAIT" =>
    (r \in Live(db) /\ db.queue[r] = "popped" ~> r \notin Live(db) \/ db.queue[r] = "ready")

(* Every workflow ends once workers answer and people signal.                     *)
Terminates == <>Ended(db)
=============================================================================
