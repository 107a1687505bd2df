---------------------------- MODULE WorkflowStore ----------------------------
(***************************************************************************)
(* The tables one workflow occupies in the SQLite database and the writes  *)
(* SyncSqliteAdapter makes to them.  Every write below is one SQL statement *)
(* (or one loop of the same statement over a set of rows): there is no      *)
(* transaction around an engine operation, so an operation is the sequence  *)
(* of database states its writes pass through, and a crash leaves any of    *)
(* them behind.                                                             *)
(*                                                                         *)
(* The workflow definition is a list of worker (SIMPLE) tasks 1..N.  A row  *)
(* of the task table is named <<reference, attempt>>: the engine refers to  *)
(* a row by a random id, but task_scheduled has one key per reference and   *)
(* attempt, so at most one row of each name is ever inserted.               *)
(***************************************************************************)
EXTENDS Integers, Sequences, TaskStatus

CONSTANTS N,           \* number of tasks of the workflow definition
          MaxAttempt   \* bound: largest retryCount of a row

ASSUME SizeAssumption == N \in Nat \ {0} /\ MaxAttempt \in Nat

Ref    == 1..N
TaskId == {<<r, a>> : r \in Ref, a \in 0..MaxAttempt}

None == "NONE"
Message == {"absent", "ready", "popped"}

(* wf       workflow.json_data.status, None before the row is inserted      *)
(* pending  there is a workflow_pending row                                 *)
(* status   task.json_data.status, None where there is no row               *)
(* executed, retried   the rows whose flag of that name is set              *)
(* older    the order of the rows by seq, oldest first                      *)
(* keys     the rows of task_scheduled                                      *)
(* msg      the worker queue's message for a task: popped is popped = 1     *)
(* decider  the workflow's message in the decider queue                     *)
Database ==
  [wf       : WorkflowStatuses \cup {None},
   pending  : BOOLEAN,
   status   : [TaskId -> TaskStatuses \cup {None}],
   executed : SUBSET TaskId,
   retried  : SUBSET TaskId,
   older    : SUBSET (TaskId \X TaskId),
   keys     : SUBSET TaskId,
   msg      : [TaskId -> Message],
   decider  : Message]

EmptyDatabase ==
  [wf |-> None, pending |-> FALSE, status |-> [t \in TaskId |-> None],
   executed |-> {}, retried |-> {}, older |-> {}, keys |-> {},
   msg |-> [t \in TaskId |-> "absent"], decider |-> "absent"]

(* f with the value v for every row of T.                                    *)
Put(f, T, v) == [t \in TaskId |-> IF t \in T THEN v ELSE f[t]]

Rows(d) == {t \in TaskId : d.status[t] # None}
Live(d) == {t \in Rows(d) : d.status[t] \notin TerminalTask}
RowsOf(d, r) == {t \in Rows(d) : t[1] = r}

(* The newest row of a reference, as a set: empty when it has none.         *)
LatestOf(d, r) == {t \in RowsOf(d, r) : \A u \in RowsOf(d, r) : u[2] <= t[2]}

(* A variant of SetPending that forgets PAUSED workflows.                   *)
SetPendingRunning(d) == [d EXCEPT !.pending = d.wf = "RUNNING"]

(* updateWorkflow: the row is rewritten, then the workflow is taken out of  *)
(* or put into workflow_pending.                                            *)
SetWorkflow(d, s) == [d EXCEPT !.wf = s]
SetPending(d)     == [d EXCEPT !.pending = d.wf \in {"RUNNING", "PAUSED"}]

(* removeFromPendingWorkflow *)
RemovePending(d) == [d EXCEPT !.pending = FALSE]

(* createTasks: one key per reference and attempt, and the row only when    *)
(* the key was not there yet.  A skipped task has seq 0 and so sorts before *)
(* every other row; a scheduled one gets the next seq.                      *)
InsertKeys(d, T) == [d EXCEPT !.keys = d.keys \cup T]

InsertRows(d, T) ==
  [d EXCEPT !.status = Put(d.status, T, "SCHEDULED"),
            !.older  = d.older \cup (Rows(d) \X T)
                               \cup {p \in T \X T : p[1][1] < p[2][1]}]

InsertSkipped(d, T) ==
  [d EXCEPT !.status = Put(d.status, T, "SKIPPED"),
            !.older  = d.older \cup (T \X {u \in Rows(d) : d.status[u] # "SKIPPED"})]

(* updateTask, updateTasks: the whole row is written back.                  *)
SetStatus(d, T, s) ==
  [d EXCEPT !.status = Put(d.status, T, s)]

(* A variant of RemoveRows that keeps the flags of the row.                    *)
RemoveStatuses(d, T) ==
  [d EXCEPT !.status = Put(d.status, T, None),
            !.older  = {p \in d.older : p[1] \notin T /\ p[2] \notin T}]

(* removeTask: the row goes, its key in task_scheduled stays.               *)
RemoveRows(d, T) ==
  [d EXCEPT !.status   = Put(d.status, T, None),
            !.executed = d.executed \ T,
            !.retried  = d.retried \ T,
            !.older    = {p \in d.older : p[1] \notin T /\ p[2] \notin T}]

(* A variant of Remove that misses the messages put back by a sweep.        *)
RemovePopped(d, T) ==
  [d EXCEPT !.msg = Put(d.msg, {t \in T : d.msg[t] = "popped"}, "absent")]

(* The queue tables: push upserts a message with popped = 0, remove deletes *)
(* it, postpone makes an existing one ready again, popMessage marks it.     *)
Push(d, T) ==
  [d EXCEPT !.msg = Put(d.msg, T, "ready")]

Remove(d, T) ==
  [d EXCEPT !.msg = Put(d.msg, T, "absent")]

Postpone(d, t) ==
  [d EXCEPT !.msg[t] = IF d.msg[t] = "absent" THEN "absent" ELSE "ready"]

SetDecider(d, m) == [d EXCEPT !.decider = m]
=============================================================================
