# A TLA+ model of the AgentMesh workflow engine

AgentMesh (`src/README.md`) is a company-knowledge platform on top of a durable
workflow engine. This directory holds TLA+ modules for the engine, for the
asynchronous queue and the distributed lock around it, and for the facts of the
knowledge graph; TLC configurations that check them on small instances; and TLAPS
proofs of what holds for every definition, every request and any number of
crashes.

    tlc -config Crash.cfg MCWorkflowEngine     model-check one configuration
    tlapm WorkflowEngineProofs.tla             check the engine's proofs

## 1. The system

### Components

| Component | Code | State it keeps | Operations |
|---|---|---|---|
| Status model | `common/src/enums.ts` | none | terminal, successful, retriable flags |
| Storage adapter | `server-lite/src/SyncSqliteAdapter.ts` | tables `workflow`, `workflow_pending`, `task`, `task_scheduled`, `queue_message` | create/update workflow, create/update/remove task, push/pop/postpone/remove |
| Decider | `core/src/execution/DeciderService.ts` | none: a function of the rows and the clock | `decide`, `getTasksToBeScheduled`, `getNextTask` |
| Executor | `core/src/execution/WorkflowExecutorOps.ts` | none outside the store | start, updateTask, decide, terminate, pause, resume, skip, retry, rerun, restart |
| Sweeper, bootstrap | `core/src/execution/WorkflowSweeper.ts`, `server-lite/src/index.ts` | the decider queue | sweeper loop, sweep and repair, recovery at boot |
| Task API | `rest/src/services/TaskService.ts` | none | poll, update task |
| Lock and cron firing | `redis-lock/src/index.ts`, `server-lite/src/index.ts` | one token per key, with a ttl | acquire, release, withLock, `onFire` |
| System tasks and their worker | `core/src/execution/tasks`, `mappers`, `SystemTaskWorker.ts`, `http-task`, `json-jq-task` | the rows of their tasks, promises in memory | start, execute, cancel; poll, execute, write back |
| Sub-workflows | `tasks/SubWorkflow.ts`, parts of the executor and the sweeper | rows that name a child workflow | start and cancel a child, tell and reopen parents, repair |
| Asynchronous queue | `sqlite-persistence/src/SQLiteQueueDAO.ts`, `amqp/src` | table `queue_message` | push, pushIfNotExists, poll, ack, postpone, processUnacks, flush |
| Fact graph | `graph-service/src/services/GraphService.ts`, `jobs/supersession-detection.job.ts`, `search`, `infra` | facts and edges in Neo4j, the search index, the `corrections` table | ingestFact, applyCorrection, reindexSearch |
| Services | `server-lite/src/scheduler`, `rest/src/services`, `workflow-service` | scheduled jobs, approvals, escalations, budgets | create, decide, fire, charge |
| Knowledge, AI, UI, telemetry | `knowledge-os`, `company-knowledge-os`, `ai`, `ui`, `ui-next`, `telemetry` | documents, indexes, views | ingestion, retrieval, rendering |

### How they interact

* A client starts a workflow: the executor inserts it and decides it. A decision
  inserts task rows, and pushes one message per worker task to that task type's
  queue.
* A worker polls a queue: the message is marked popped and, after an await, the row
  is read and handed out. It works, and reports. The report updates the row and
  decides the workflow again, in the same call.
* The sweeper loop pops the decider queue, decides the workflow, and repairs it:
  it pushes scheduled tasks again when nothing is ready for them, and forces a
  second decision when no task is open.
* An operator terminates, pauses, resumes, retries, reruns, restarts, or skips a
  task of a workflow.
* At boot every `workflow_pending` row is pushed to the decider queue.
* A decision starts the system tasks that compute at once, lets a promise finish
  JSON_JQ_TRANSFORM later, and pushes the asynchronous ones to queues that
  `SystemTaskWorker` polls: it reads the row, awaits the task, and reports.
* A SUB_WORKFLOW task's worker starts a child; the child's end runs
  `SubWorkflow.execute` on the parent's row and pushes the parent for a decision.
  A retry or restart of a child reopens every ancestor.
* REST and the metadata services use the asynchronous queue over the same table;
  the AMQP wrapper publishes what its delegate stores.
* Clients of `graph-service` post facts and corrections; each request reads the
  graph once and then makes one awaited write after another, while others do.
* The cron scheduler of each server process wraps the start of a due workflow in
  `withLock`, keyed by the schedule and the poll window.

### What is hard

*Crashes.* The engine and the adapter are synchronous JavaScript over a
synchronous SQLite driver: an engine operation runs to its end before Node does
anything else, so operations do not interleave. But no transaction surrounds
them. `createTasks`, `createWorkflow`, `scheduleTask` and `terminateWorkflow`
make several commits each, and a process that dies leaves any prefix of them.

*State in memory.* The decider changes statuses of the rows it read and may then
throw, or conclude that the workflow is complete; what the executor saves
depends on where it stopped.

*Late, repeated and stale reports*, a sweep that hands a task out again while a
worker still has it, and a poll that answers when its task has ended.

*Timers*, which are looked at only when something else triggers a decision.

*Sequences of requests*: pause, result, resume; end, retry, end; skip before
schedule; rerun over keys that were never removed.

*Trees of workflows*: an end goes up, a termination goes down, a retry below
reopens what is above, and each is a sequence of commits over several workflows.

*Real concurrency* only where something is awaited: the lock, several server
processes on one Redis, a worker's poll between the message and the row, the
worker of the system tasks and the promises of
`scheduleTask`, the asynchronous queue, and the requests of `graph-service`,
which write back copies of facts they read before other requests wrote.

### What makes each component correct

* Store: a row exists only under its key; `workflow_pending` lists exactly the
  open workflows.
* Decider: tasks run in order, one at a time, within the retry count; COMPLETED
  means that every task is done.
* Executor: an end settles every row and queue message and is final; an outcome
  is never overwritten; a pause schedules nothing.
* Sweeper and workers: a running workflow always has something to wait for, every
  open task is with a worker or can be polled and no other can, and the workflow
  ends when workers answer.
* System tasks: a final status stays although the worker writes back what it read
  long before; what follows a fork waits for its join; a lost poll is made again.
* Sub-workflows: a task and its child end alike; a task is not COMPLETED before its
  child; no workflow of a tree waits for nothing.
* Queue: a message is in one consumer's hands unless somebody made it available
  again; none starves behind others of higher priority.
* Fact graph: edges and corrections describe what is stored; a fact that was
  retired stays so; a current fact can be found.
* Lock: exclusion for the ttl, release only by the owner, some caller is served.

## 2. Modules

| Module | Models | Extends |
|---|---|---|
| `TaskStatus` | the statuses and their flags | |
| `WorkflowStore` | the tables of one workflow; one operator per write | `TaskStatus` |
| `Decider` | `decide` as operators on the tables | `WorkflowStore` |
| `WorkflowEngine` | the executor's operations as sequences of writes; workers, sweeper, operator, crash and boot as actions; the properties | `Decider` |
| `TaskSequence` | what the engine promises: a list of tasks tried one after another, each after the success or tolerated failure of the one before | |
| `MCWorkflowEngine` | the values of the definition's constants for TLC | `WorkflowEngine` |
| `WorkflowEngineProofs` | the engine's theorems: types, keys, ends, retry budget | `WorkflowEngine` |
| `EngineOrderProofs` | the order of tasks and the finality of results, with crashes; the steps of `TaskSequence` | `WorkflowEngineProofs` |
| `EngineQuietProofs` | agreement of all tables, progress and COMPLETED, without crashes; the engine implements `TaskSequence` | `EngineOrderProofs` |
| `SystemTasks` | one workflow with FORK_JOIN, JOIN, SWITCH, TERMINATE, WAIT, HUMAN, EVENT, HTTP and JQ tasks, and `SystemTaskWorker` | `TaskStatus` |
| `MCSystemTasks` | two workflow definitions | `SystemTasks` |
| `SystemTasksProofs` | the theorems of the system tasks | `SystemTasks` |
| `SubWorkflows` | a tree of workflows: SUB_WORKFLOW tasks, parents and children | `TaskStatus` |
| `SubWorkflowsProofs` | the tree's theorems | `SubWorkflows` |
| `MessageQueue` | `SqliteQueueDAO`, bare or in `AMQPQueueDAO`, statement by statement | |
| `MCMessageQueue` | priorities | `MessageQueue` |
| `MessageQueueProofs` | the queue's theorems | `MessageQueue` |
| `FactGraph` | the facts of one property: graph, edges, index, corrections, concurrent requests | |
| `MCFactGraph` | four facts with values, dates and authorities | `FactGraph` |
| `FactGraphProofs` | the fact graph's theorems | `FactGraph` |
| `DistributedLock` | `withLock` on Redis or in process, called by many servers | |
| `MCDistributedLock` | keys and servers for TLC | `DistributedLock` |
| `DistributedLockProofs` | the lock's theorems | `DistributedLock` |

### The workflow and its tables

There is one workflow whose definition is the list of worker tasks `1..N`.
`RetryLimit`, `Optional`, `Permissive` and `TimeoutPolicy` are the task
definitions and `WorkflowTimeout` the workflow's own. A row is named
`<<reference, attempt>>`: the engine uses random ids, but `task_scheduled`
admits one row per reference and attempt for the life of the workflow.

| `db` field | Code |
|---|---|
| `wf` | status in `workflow.json_data` |
| `pending` | a `workflow_pending` row |
| `status`, `executed`, `retried` | those fields of `task.json_data` |
| `older` | the order of the rows by `seq` (a skipped row has 0) |
| `keys` | `task_scheduled` |
| `msg` | the worker queues: absent, ready (`popped = 0`) or popped |
| `decider` | the decider queue |

`taken` are the tasks a poll has popped and not yet handed out, `held` those a
worker has been handed, `up` the process, `crashes` its deaths.

### Operations and steps

`Terminate`, `Advance`, `Sweep` and the other operations are sequences of
databases, the ones the code passes through in the order of its writes.
`Commit(steps)` performs one: the database becomes the last of the sequence, or
an earlier one and the process is down. So one definition gives both the whole
handler and every crash inside it. A loop of one statement over a set of rows
(`updateTasks`, the inserts of several tasks) is one write; with a list of worker
tasks each such loop concerns one row in nearly every case.

A poll is two actions, because `TaskService.poll` and `pollBatch` await
`queueDAO.pop` before they read the row, and the asynchronous queue's
`pollMessages` may sleep with messages already popped. `Pop(t)` marks the message
popped, `HandOut(t)` reads the row, whatever has become of it, and gives it to the
worker; any operation may come between, so a worker may be handed a task that has
just ended, and its report then changes nothing (`ResultsAreFinal`). `MaxPolls`
bounds the messages popped and not yet handed out. A crash loses them. In
`SystemTasks` and `SubWorkflows` a worker's poll and its read are one step.

Time enters where the decider looks at it. `late` is the set of open rows whose
`timeoutSeconds` or `pollTimeoutSeconds` has elapsed, any set, chosen when a
decision is made; `expired` says whether the workflow's `timeoutSeconds` has.
Resume resets the workflow's timer, so its own decision is never expired (a rerun
does not, so its decision may be), and the
second decision of a sweep reads the same clock, at which the first found
nothing late.

### System tasks

`SystemTasks` has one workflow of one attempt per task; the definition is a list
`Top` of references with a `Kind` and, for forks and switches, `Branches`. `Turn`
is one turn of `decideInternal`'s loop and `Decide` the loop: what a turn
schedules and completes at once, the next turn sees. `chosen` is the case each
switch evaluates to, any. Forks and switches are top-level tasks. `SystemTaskWorker.executeSystemTask` is two actions,
`Execute` up to its await and `WriteBack` after it, with the result in `writing`
in between; `Resolve` is the promise of `scheduleTask`. A crash (`Restart`) falls
between operations, where it loses invocations and promises; crashes inside one
are the matter of `WorkflowEngine`.

### Sub-workflows

A workflow is named by the attempts that lead to it, the root by `<<>>`, as
`generateSubWorkflowId` names a child after its task and retry count. So one
function per field holds the whole tree. As in `WorkflowEngine` an operation is the
sequence of databases it passes through, here over several workflows, and `Commit`
cuts it anywhere. What goes down or up the tree is a function over the levels:
`Killed[n]` is what a termination that reaches `n` levels down does to a database, and
`UpdateParents` a function of how many ancestors have been reopened. The worker stores neither IN_PROGRESS nor `subWorkflowId` for a
started child (`isAsyncComplete`), which is why `known`, the rows that hold one,
is state of its own.

### The queue

One queue of `queue_message`. An action is one SQL statement: `push` is
`PushUpdate` and `PushInsert`, a poll is `Poll`, any number of `PopMessages` and
`PollEnds`. `deliver_on` counts by its order only: a row is delayed, or due with
an age, and `Tick` ranks the ages again when a second passes. `held`, what a
consumer was handed and has not finished, and `rearmed`, what was made available
while held, belong to the consumers and exist in no table.

### The fact graph

A request reads the graph when it begins and decides from what it read; `todo`
holds the writes it has still to make, each with a rank. Writes of one rank are
awaited together or come from a loop over a list in any order; a rank follows the
one before. So `Step` interleaves all requests write by write, `Fail` is a write
the database refuses and `Crash` the end of the server. A write of a fact is a
copy made when the request began, stale or not. `Verdicts` has several members
when the listed facts disagree about the new one: the last in the list decides.

### Abstractions

Delays and priorities of messages, inputs and outputs, reasons and logs,
`failureWorkflow`, listeners, `totalTimeoutSeconds` and retry delays are left out. `ALERT_ONLY` stands for a task without a timer,
since it changes nothing. An IN_PROGRESS report of a worker task is stored as
SCHEDULED (`TaskService.ts`, `updateTask`), so no row of the model becomes
IN_PROGRESS and `responseTimeoutSeconds` never applies.

The cron scheduler's loop is a package outside the repository; what it does is
taken from its use in `server-lite/src/index.ts`: one call of `onFire` per due
schedule and server.

## 3. What TLC checks

Every property is stated, with a comment, at the end of its module.

| Run | Instance | Question |
|---|---|---|
| `Fair` | 3 tasks, one retry each, permissive and optional ones, fair workers; no request, so no sweep | does every started workflow end, with workers alone? |
| `Crash` | 3 tasks, one retry each, one optional, up to 2 crashes | do order, retry budget, the finality of an end and the abstract specification survive crashes anywhere, sweeps included? |
| `Operator` | 2 tasks, one permissive and one optional, one retry, timers, terminate/pause/skip/retry | do operator requests and timers interleave safely with workers, slow polls and sweeps: can every open task be polled and no other, and does COMPLETED mean done? |
| `Torn` | 2 tasks, both timeout policies, skip/rerun/restart/retry, 1 crash | do the tables stay consistent after every prefix of every operation? |
| `Flow` | HUMAN, EVENT, WAIT, a SWITCH with and without a TERMINATE case, SIMPLE, a last SWITCH; 1 crash, terminate | does a workflow of operators end, does COMPLETED mean the success of every task listed, chosen or scheduled, and do final statuses stay? |
| `ForkPolls` | four branches (SIMPLE, WAIT, timed WAIT, JQ), their JOIN, a task after it; 1 crash | does the worker's stale write-back, or a promise, pass the join or outlive the end, and is a lost poll made again? |
| `Tree` | parent and child, 2 requests of retry, resume, restart | do ends, retries and restarts of either leave the tree consistent and moving? |
| `TreeDeep` | three levels, 3 terminations, 2 crashes | is a task ever COMPLETED before its child, wherever a termination is cut? |
| `Queue` | 2 messages, 1 producer, 2 consumers, AMQP | can two consumers hold one message, and can one starve? |
| `Facts` | 4 facts, 2 requests at a time, 3 in all, 1 rebuild, 1 failure | do concurrent, failing requests leave edges, log, index and statuses in agreement? |
| `Lock` | 4 calls, 2 keys, 2 servers, failures, lost replies | exclusion, ownership and service of the lock |
| `LostTask` | 2 tasks, a silent worker | is a polled task delivered again? (it is not) |

What a step may never do is stated as an action property (`EndIsFinal`,
`ResultsAreFinal`, `TerminalOnce`, `NeverRevived`, `ForeignReleaseIsNoop`),
liveness as `Terminates` (in two modules), `TreeEnds`,
`WaitsArePolled`, `NoStarvation` and `EveryKeyIsServed`. `SequentialSpec` is the
refinement of `TaskSequence`: its current step is the largest reference with a
row, its attempt that reference's newest, its result of a task how the newest row
of it stands, its outcome the workflow's status. `TaskSequence` begins a task only
when the one before succeeded or is optional, tries one again only after a failure,
fails over a failed task that is not optional only and completes over none, with
one exception: where the process may die (`Losses`), a retry that was due may be
lost, namely when the failed row is marked retried and no newer one exists, and a
workflow whose last task lost its retry completes. That is the first divergence
below, and with `Losses` FALSE one crash refutes the refinement.

Six properties carry a condition, and each is false without it:

* `EdgesAreGrounded`, `LoggedIsApplied` and `NeverRevived` except facts a client
  sent again: `POST /facts` stores the body as it comes, `current` included.
* `CurrentIsFindable` is claimed until a request fails, a rebuild replaces the
  index or a fact is sent again. A rebuild drops what is indexed between its
  listing and its end, and a request that fails leaves facts unindexed.
* `SharedOnlyIfRearmed` excepts messages made available while they were held;
  every push does that, AMQP's second one in particular.
* `EveryKeyIsServed` except keys of which a call fails or is turned away by its own
  token; a lost reply does either (see below).
* `CompletedMeansDone` of `SystemTasks` excepts workflows with a TERMINATE task,
  which is there to complete them over whatever is open.
* `NoStarvation` concerns messages nobody moves, and finitely many returns of
  popped rows: `pushIfNotExists` and `processUnacks` return a row with its old
  `deliver_on`, ahead of everything that came since.

### Bounds, and why they are enough

* `N = 3` has a first, a middle and a last task: every rule of the decider
  relates a row to the next one or to all. `N = 2` where operator requests or
  timers multiply the states.
* `MaxAttempt` bounds the attempts in a row's name. Automatic retries stop at
  `RetryLimit`, below it; the bound limits only retries by hand (`RetryRequest`).
  In `Operator` one of each task fits above its own limit. In `SubWorkflows`
  every retry is by hand, and `MaxAttempt = 1` gives two children per task.
* `MaxPolls = 1` lets every operation come between the two halves of a poll; in
  `Torn` two polls are under way at once. More of them only interleave with each
  other: `TaskId` bounds how many are.
* `MaxCrashes = 2` puts a crash inside the recovery from a crash. `Flow` and
  `ForkPolls` have one: it comes between operations, and recovery is one push.
* `Flow` has a switch in the middle and one at the end, with and without a case,
  and every kind that ends by itself or by a signal; `ForkPolls` every kind that is
  polled or promised. In `ForkPolls` nothing has to end: the join never does (see
  below).
* `Depth = 1` and two requests in `Tree` give a retry, a resume or a restart of
  parent or child and another one before or after the first has taken effect.
  `TreeDeep` has a workflow with both a parent and a child, and a termination of
  each of the three. Where a theorem of section 4 applies the bounds do not matter;
  what larger ones break outside of it is listed below.
* Two messages of different priority and batches of one make them compete; two
  consumers and one producer give every pair of interleaved statements.
* Four facts, two per value, of the same, an earlier, a later or no date and
  less, equal or more authority give every verdict, and two verdicts at once. Two requests at a
  time give every race of two; the third begins on what a race left. Requests are
  symmetric: nothing tells them apart.
* Two calls of one server and one of another on the same key, plus a call on
  another key, cover both sides of the lock's slot; a token lives once, or twice
  when a lost reply made the client ask again, so more calls repeat these.

Deadlock is not checked where the system may really stop: after a crash that
lost the workflow (`Crash`, `Torn`), once bounded requests are used up
(`Operator`, `Tree`, `TreeDeep`, `Facts`), once the workflow is over (`Flow`,
`ForkPolls`) or all calls are (`Lock`), and in `LostTask`. It is checked in `Fair`,
where a worker may repeat a report for ever, and in `Queue`.

### Fairness

`Fair` assumes weak fairness of `Start` (the client's call), `SweepStep` and
`Bootstrap` (`sweeperLoop` runs while the process does), of popping some message
and of handing some popped one out (workers poll in a loop, and a poll that has
popped answers; which message a poll takes is left to it) and `FinalReport(t)` (a worker that has a task reports a final
result; without this nothing can be promised, and `LostTask` shows that the
server does not make up for it).

`SystemTasks` separates the two sides: `ServerFairness` is weak fairness of the
worker's poll and write-back, of promises and of the sweeper loop, which the
server runs without being asked; `OutsideFairness` that workers poll and report
and people signal. `WaitsArePolled` needs only the first. `SubWorkflows` assumes
weak fairness of the pollers, of reports and of the sweeper. In `Queue` consumers
poll again and again (weak), and a poll that finds messages again and again takes
some (strong: between two attempts of a poll, 100 ms apart, another consumer may
take what there was, but not every time); time passes. Consumers and producers may
die at any time. In `Lock` weak fairness of each call's next step says that its
promises settle, with an answer or, by `ConnectionFails`, without one; a command
whose reply is lost is sent again. Nothing is assumed of crashes, timers, requests or failures.

### Divergences

`LostTask` checks what `docs/architecture/durable-execution.md:29` states: "If a
worker polls a task but never responds, the response timeout triggers
redelivery." The response timeout looks only at IN_PROGRESS rows, and no worker
task is ever one.

The others were found in the same way, with a property of one line and these
modules, and have no run of their own here. The runs above stay clear of them by
their instances; where one restricts a theorem, section 4 says so.

*Engine.*
* A crash in `createTasks` (`SyncSqliteAdapter.ts:206`) between the key and the
  row of the next attempt: the key blocks the row, the failed attempt is marked
  retried, the sweeper completes the workflow over a FAILED task (`Losses` of
  `TaskSequence`).
* A crash between the two inserts of `createWorkflow` (`:157`), or between the two
  writes with which a retry or a resume reopens a workflow (`:185`): a RUNNING
  workflow that recovery does not list.
* `removeTask` (`:240`) keeps the `task_scheduled` key, so after a rerun of the
  first task nothing is inserted and the workflow is RUNNING without a task.
* An optional task that fails last: the workflow completes before
  COMPLETED_WITH_ERRORS is saved (`WorkflowExecutorOps.ts:812`).
* The last timeout under the RETRY policy is marked in memory only
  (`DeciderService.ts:589`): the workflow ends, the row stays SCHEDULED.
* `resetWorkflow` is empty (`SyncSqliteAdapter.ts:253`), so `restart` leaves an
  ended workflow as it ended, against `docs/documentation/api/workflow.md:199`.

*System tasks* (against `docs/devguide/ai/why-agentmesh.md:247`, "Terminal state is
always reached").
* `SystemTaskWorker.ts:103` writes back only statuses that are not terminal. A
  JOIN that finds its branches finished, an HTTP task's final status and the
  elapsed duration of a WAIT are set in the worker's copy and never stored.
* `getNextTask` (`DeciderService.ts:344`) finds nothing after a switch with a case
  and nothing after the task of a case: the workflow hangs. Of a case of several
  tasks only the first is scheduled (`SwitchTaskMapper.ts:54`).
* The promise of `scheduleTask` (`WorkflowExecutorOps.ts:1186`) writes the row it
  captured over the CANCELED a termination gave it meanwhile.

*Sub-workflows.*
* A crash between a child's last write and its parent's row (`:543`): nothing tells
  the parent later, since `repairSubWorkflowTask` wants an IN_PROGRESS row with a
  `subWorkflowId`. With a crash `EndsAgree` and `TreeEnds` are false.
* A SUB_WORKFLOW task is a built-in type and is never retried
  (`DeciderService.ts:400`), against `sub-workflow-task.md:164`.
* A terminated parent leaves a child it does not know running
  (`SubWorkflow.ts:143`); retried after it failed, that child opens the parent's
  task again and nobody ends it.
* A terminated workflow whose child is COMPLETED throws (`:490`): the sweep ends
  with the message popped and `NeverIdle` is false. So it is after three requests with
  restarts among them; without restarts and crashes it is a theorem.
* At depth 2 a restart of a finished grandchild makes its grandparent's task
  IN_PROGRESS without a `subWorkflowId`, and the middle workflow's end is not
  seen: `TreeEnds` is false. A crash inside `updateAndPushParents` reopens a child
  under a row that is still COMPLETED: `CompletedByChild` is false with retries and
  crashes together.

*Lock.*
* `onFire` releases the key as soon as the workflow is started, so a server that comes
  later in the same window fires again (`server-lite/src/index.ts:361`).
* The client of `createRedisAdapter` sends a command once more when the connection
  broke before its reply (`redis-lock/src/index.ts:181`, `maxRetriesPerRequest: 1`; that
  unanswered commands are sent again is `ioredis`' default, which the repository does
  not override and does not contain). The `SET ... NX` sent again finds the token of
  the first: `acquire` returns null and `withLock` `{ ran: false }`, without an error,
  although nobody else holds the key, against the comment at `:17`, "Returns { ran: false
  } when the lock is already held elsewhere". The window is not fired by that call,
  nor by others until the token expires. `LoseReply` models it.

*Fact graph.*
* Two ingestions at once both store their value as current.
* Writes of copies overwrite each other: an invalidated fact becomes `superseded`
  again (never `current`), and its document can return to the index, when an
  ingestion listed it before the correction.
* The comment at `supersession-detection.job.ts:51` says "Newer valid time OR higher
  authority wins". Of two facts of the same time the new one never wins: it is
  contradicted, or `superseded` whichever has the higher authority.
* `insertCorrection` swallows the error of its write (`postgres.client.ts:77`), so
  a correction may be made and not logged; the log never says more than was done.

*Services that are not modelled.* `ApprovalService.decideApproval:64` and
`SafetyService.resolveEscalation:103` test a row, await and update it without
testing again, so two concurrent decisions both succeed.
`SchedulerJobService.cleanupStaleQueueMessages:51` deletes messages of workflows
that still run.

## 4. What is proved

For every value of the constants that meets the named assumptions
(`SizeAssumption`, `DefinitionAssumption`, `EngineAssumption`, `LockAssumption`,
`QueueAssumption`, `FactAssumption`, `ShapeAssumption`, `TreeAssumption`). Every safety
property the passing runs check is a theorem, some under a hypothesis named here.

| Theorem | Says | Extra hypothesis |
|---|---|---|
| `Invariant` | the strengthened invariant always holds | |
| `TypeCorrect` | `TypeOK` | |
| `ReplacedStaysTerminal` | `ReplacedIsTerminal` | |
| `ProcessedStaysTerminal` | `ProcessedIsTerminal` | no retry requests |
| `EveryRowHasKey` | a row exists only under its key | |
| `EndSettlesTasks` | `EndedHasNoLiveTask` | no task definition has the RETRY policy |
| `AttemptsAreBounded` | `RetryBudget` | no retry requests |
| `EndStays` | `EndIsFinal` | no terminate, retry or rerun requests |
| `ResultsStayFinal` | `ResultsAreFinal` | no rerun requests |
| `RowsFormChain` | `Chain`, of the statuses of all rows | `Orderly` |
| `OneTaskIsOpen` | `OneTaskAtATime` | `Orderly` |
| `TasksRunInOrder` | `InOrder` | `Orderly` |
| `ImplementsSequence` | `SequentialSpec`: the engine implements `TaskSequence`, without lost retries if there are no crashes | `Linear` |
| `TablesAgree` | `QInv`, the agreement of all tables | `Quiet` |
| `WorkflowNeverStuck` | `NeverStuck` | `Quiet` |
| `EndEmptiesQueue` | `EndedIsUnqueued` | `Quiet` |
| `CompletedIsDone` | `CompletedMeansDone` | `Quiet` |
| `TasksStayDelivered` | `TasksAreDelivered` | `Quiet` |
| `PendingListsOpen` | `PendingIsOpen` | `Quiet`, no restart requests |
| `SystemInvariant`, `SystemTypes` | the system tasks' invariant, `TypeOK` | |
| `OnlyPromisesRewrite`, `FinalStatusStays` | `TerminalOnce` | the second: no promised task |
| `SequenceHolds` | `InSequence` | `DistinctReferences` |
| `EndUnqueues` | `EndedIsUnqueued` | `AbruptTerminate` |
| `ChosenAreDone` | `CompletedMeansDone` | `DistinctReferences`, cases of one task |
| `SystemNeverStuck` | `NeverStuck` | `DistinctReferences`, `SwitchesGoOn` |
| `TreeInvariant`, `TreeTypes` | the tree's invariant, `TypeOK` | |
| `TreeCompletes` | `CompletedByChild` | `Steady` |
| `TreeCloses` | `NoOpenTaskAfterEnd` | `Steady` |
| `TreeAgrees` | `EndsAgree` | `Unbroken` |
| `TreeWorks` | `NeverIdle` | `Unbroken` |
| `LockInvariant`, `LockTypeCorrect`, `Exclusion` | `TypeOK`, `MutualExclusion` of the lock | |
| `OnlyTheOwnerReleases` | `ForeignReleaseIsNoop` | |
| `QueueInvariant`, `OneHolder` | `SharedOnlyIfRearmed` | |
| `FactInvariant` | the strengthened invariant of the fact graph | |
| `EdgesHold` | `EdgesAreGrounded` | |
| `LogHolds` | `LoggedIsApplied` | |
| `PastStays` | `NeverRevived` | |
| `CurrentIsFound` | `CurrentIsFindable` | |

The named hypotheses:

* `Orderly`: no retry and no rerun requests, no task definition with the RETRY
  timeout policy. Crashes, permissive and optional tasks, the other requests and
  timers are admitted.
* `Linear`: only pause, resume and restart requests, no workflow timeout, no
  permissive task, no RETRY policy, `TIME_OUT_WF` only on tasks that are not
  optional. Crashes are admitted, anywhere. `Crash` checks such an instance.
* `Quiet`: no crashes, no rerun requests, no RETRY policy. All other requests,
  retries by hand, skips and timers are admitted.
* `DistinctReferences`: a definition uses a reference once. `getNextTask` and the
  keys of `task_scheduled` go by the reference; nothing validates it.
* `AbruptTerminate`: there is no TERMINATE task or its `terminationStatus` is FAILED
  or TERMINATED.
* `SwitchesGoOn`: a switch that others follow has no case or one that begins with
  TERMINATE.
* `Steady`: no crashes, or no requests but terminations. So without crashes every
  request is admitted, and without retries, resumes and restarts every crash.
* `Unbroken`: no crashes and no restart requests. Terminations, retries and resumes of
  any workflow of the tree are admitted, in any number.

Each hypothesis is needed: the divergences of section 3 are its counterexamples.

* The last timeout under the RETRY policy is in memory only. The workflow ends over
  an open row, and COMPLETED over one that never was done.
* A retry by hand exceeds the retry count on purpose, and its copy of a tolerated
  failure inherits the `executed` flag (`WorkflowExecutorOps.ts:388`), so an open
  row is taken for a finished one: it has no timers and no retries of its own,
  although, as `Operator` shows, the workflow still waits for it and judges its
  result. It may also reopen a workflow in which a later task is open.
* A rerun removes rows whose keys stay, and results with them.
* Terminate, retry and rerun ask for just what `EndIsFinal` excludes (a terminate
  request may turn FAILED into TERMINATED).
* A crash leaves flags, queues and `workflow_pending` behind the rows, loses polls,
  and may let a workflow complete over a FAILED task; what the tables agree on is
  stated without.
* `TaskSequence` gives up only on a task that is not optional, and knows neither
  skips nor workflow timeouts nor permissive failures, which do end a workflow over
  an optional or an earlier task.
* A TERMINATE task in one branch of a fork that completes the workflow leaves the
  messages of the other branches (`completeWorkflow` removes none).
* `SwitchTaskMapper` and `getNextTask`: of a case only the first task, after a case
  nothing.
* A crash in the middle of `updateAndPushParents` (`WorkflowExecutorOps.ts:250`) leaves
  a child running again under a row that is still COMPLETED, or an open row in a
  workflow that has ended: `CompletedByChild` and `NoOpenTaskAfterEnd` need `Steady`.
* A crash between a child's end and its parent's row leaves the two in disagreement. A
  restart (`:192`) leaves the child ended and makes its task IN_PROGRESS, and a child
  that is COMPLETED under an open task makes the next termination throw, with the
  message popped: `EndsAgree` and `NeverIdle` need `Unbroken`. `Tree` shows that two
  such requests do no harm yet.

*The engine's argument.* `EndedHasNoLiveTask` must hold after every crash, so it
is not enough that operations preserve it: every write must. `Good` is the set
of databases in which replaced rows (and, without retries by hand, executed
ones) are terminal, rows have keys, an ended workflow has no open row, and
attempts are within their limit, the last two under the hypotheses above. The middle
lemmas show that each write keeps a database in `Good` (cancel before the
status; the flags only on settled rows; keys before rows); the next ones that
each operation is a `Path`, a non-empty sequence in `Good`; `CommitGood` that a
step therefore ends in `Good`, crash or not. `RetryBudget` needs the strengthening
because a new attempt's bound comes from the row it replaces, and
`EndedHasNoLiveTask` because completion is judged on the statuses in memory:
`CompleteIsSettled` shows that they agree with the rows on what is terminal.
`EndStays` is an action property over the same paths: `Keeps` says that no state
on an operation's path changes the status of an ended workflow, and is shown for
each operation a remaining request or worker can start.

*Order, with crashes.* `Chain` speaks of the statuses of the rows alone, since a
crash may leave the flags `executed` and `retried` behind them: every attempt but the
last of a task failed in a way that calls for another one within the limit, none is
missing, and a task that is not skipped is begun only after some attempt of each
earlier one has passed. `Reach(d)` is what writes may lead to from `d`: databases in
`Good` in which final statuses stay and, under `Orderly`, `Chain` still holds. An
operation is a `Walk` through it, and `Walk` is closed under prefixes and
concatenation, so a crash is covered by the same lemma. `Chain` gives
`OneTaskAtATime`, because two open rows would each come after the other has passed,
and `InOrder`; `Stays` gives `ResultsAreFinal`.

*Refinement.* `TaskSequence` sees of a database which rows there are, how the newest
row of each task stands (open, passed, failed, or failed with its retry lost) and
whether the workflow is open. `Onto(d)` holds the databases that are, seen so, at most
one step after `d`: an open row may have ended and a failed one lost its retry
(`Moved`), and beside that nothing happened (`Same`), one row is new (`Extends`: the
first attempt of the next task or the next attempt of the last one), or the workflow
has ended (`Finishes`, `GivesUp`). `Steps` are sequences that stay within it, so every
prefix of an operation is one abstract step or a stutter. `Chain` is needed three
times: at most one row is added by a whole operation; a task is begun over one whose
newest row passed or failed as optional; and COMPLETED is written only when task `N` has
a row, of which the same holds unless its retry was lost. `StepIsSequential` has the
step for a process that may crash, and for any step after which no retry is lost
(`Unlost`); without crashes that is part of `Calm` (`TidyIsUnlost`), which is why the
theorem stands in `EngineQuietProofs`.

*Agreement, without crashes.* `Calm` adds to `Good` that flags and keys are what the
rows say (`Tidy`), that scheduled rows have a message and others none (`Queued`), that
COMPLETED follows a judged last task (`Finished`) and that an open, decided workflow
has an open task or what follows is begun (`Moves`). It does not hold between the
writes of an operation: the lemmas follow the operation to its last database. The
key of the argument is that a decision leaves nothing to propose unless it inserts a
row, so that `NeverStuck` is preserved, and not only true after each decision.
`TasksAreDelivered` is `Queued` together with the second part of `QInv`: the row of a
popped message is in `taken`, between a poll's pop and its read, or held by a worker.

*The system tasks' argument.* The decision loop is a recursive function; its existence,
and that what every turn keeps the loop keeps, is proved by hand over the least
counterexample (`LoopExists`, `DecideRuns`). `Basic` holds what needs no order: rows
that are complete at once, promises that only a termination touches, messages only of
rows (and, under `AbruptTerminate`, of open ones). `Sound` adds that a top-level row
comes after the success of all before it, with all it brings (`Whole`), and that what
was acted on has its successor (`Followed`). For `CompletedMeansDone`, `Basic` says that
what was acted on has succeeded (`Acted`) and that a workflow which completed without a
TERMINATE task is complete in all its parts (`Earned`; `TurnCompletes`,
`DoneIsComplete`). `InSequence` is not inductive without `Sound`: the next task is found
from a finished one, which must itself be in its place.
For `NeverStuck` the loop is followed turn by turn: after `n` turns the workflow has
ended, has something open, or its first `n` tasks have rows (`IdleTurn`), and the
`Len(Top) + 1`st turn ends it. `OnlyPromisesRewrite` says more than `TerminalOnce`: the
promise of `scheduleTask` is the only write in the component that can change a final
status.

*The tree's argument.* An operation writes in several workflows and a crash may follow
any write, so the invariant of the tables is again one of every write: `Good` says that a COMPLETED task has a COMPLETED
child and an ended workflow no open task (under `Steady`), and each write has a lemma on
when it keeps a database `Good`. The loops and the two recursions, over the attempts of
a task and over the levels of the tree, are recursive functions; that they exist, and
that what a step keeps the loop keeps, follows from the least counterexample
(`LoopExists`, `LoopRuns`, `LoopStays`). What a termination does to a subtree is a
relation between the databases before and after it (`Stopped`): of its own level and those
above it changes the workflow and that workflow's row only, and ends both unless a
COMPLETED child made it throw. It is shown for `Killed[n]` by induction on the levels; the
parent's loop over the attempts (`Canceled`) uses it for the children. `EndsAgree` and `NeverIdle`
do not hold between the writes of an operation, when a child has ended and its parent has
not been told; they are followed to its last database instead. `SoundBut(w)` says that
all is in order except that `w` may have nothing to wait for, which is where an
operation on `w` is until its decision is made. A retry reopens the ancestors one after
another: `Opening(v)` describes the tree when `v` runs again and its own row may still
say COMPLETED. That a
termination under `Unbroken` never throws is part of the invariant, since a task and its
COMPLETED child agree.

*The lock's argument.* The invariant `LockInv` adds to `TypeOK` that a call
inside `fn` whose ttl has not elapsed still owns its token, and that a slot has
one token; exclusion follows. A token may also belong to a call that still waits, whose
reply was lost, but never to one that has released. It holds for either backend, any keys, servers and
failures.

*The queue's argument.* `SharedOnlyIfRearmed` is not inductive: a poll could take
a row another consumer holds. `HeldIsTaken` says it cannot, because what is held is
popped or gone unless it was made available while held; each statement that clears
`popped` marks what is held, and a deletion only shrinks what is available.

*The fact graph's argument.* What a request has still to write was decided on an old
state, so the invariant speaks of `todo`. A fact becomes current only by the write
of rank 2 that stores it, and the id of that fact was given to one request
(`CreateInv`); copies of rank 1 carry only a past status and name facts that are
stored (`RankInv`). So no stale copy revives a fact. An edge, an index deletion or a
log entry that says a fact is past is preceded in the same `todo` by the write that
makes it so, or that has happened (`OrderInv`); an edge by both its ends (`EndInv`);
the record of an update by its edge (`RecordInv`). A failure drops the later ranks
and keeps those awaited with it, which keeps all of these; a crash empties `todo`.
`FindInv` adds, as long as nothing failed or was rebuilt, that every current fact is in
the index or has its indexing, or its request's second listing, ahead of it.

*Model-checked only.* Liveness, which the prover does not reach: `Terminates` (in two
modules), `TreeEnds`, `WaitsArePolled`, `NoStarvation` and `EveryKeyIsServed`. And what
the runs check outside the hypotheses above, on their instances: `EndsAgree` and
`NeverIdle` with restarts (`Tree`).

## 5. What is not modelled

Not modelled, with the reason:

* DO_WHILE (`tasks/DoWhile.ts`): an iteration names its tasks anew, so each loop
  multiplies the rows of `SystemTasks`; dynamic forks and exclusive joins likewise add
  rows at run time.
* `failureWorkflow` (`WorkflowExecutorOps.ts:547`), which starts another workflow
  after an end and never looks at it again; rerun through sub-workflows.
* Retry delays and `totalTimeoutSeconds`, which move times and no status.
* Merge, split and resolution of entities in `graph-service`; source permissions.
* Approvals, escalations, dashboard schedules and clean-up jobs: one or two
  statements on one row each, described above.
* `SqliteConcurrentExecutionLimitDAO`, which the executor of the running server does
  not call; the AMQP connection and observable queue; the Bull queue of
  `company-knowledge-os`, which is a library.
* The REST controllers, which parse and delegate; AI providers and the execution
  sandbox, which compute outputs the engine does not branch on; listeners and
  telemetry, which only publish; search and retrieval; the user interfaces;
  deployment.
