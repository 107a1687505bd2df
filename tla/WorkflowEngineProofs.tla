------------------------- MODULE WorkflowEngineProofs -------------------------
(***************************************************************************)
(* Safety of the engine for every workflow definition, every operator request *)
(* and any number of crashes.                                               *)
(*                                                                         *)
(* A crash leaves any state an operation passes through, so it is not enough *)
(* that operations preserve the invariant: every write does.  Good is the set *)
(* of databases that satisfy it, an operation is a path in Good, and a step   *)
(* ends somewhere on that path.                                              *)
(***************************************************************************)
EXTENDS WorkflowEngine, SequenceTheorems, TLAPS

(* The decider never marks a row TIMED_OUT in memory only.                    *)
NoRetryTimeout == \A r \in Ref : TimeoutPolicy[r] # "RETRY"

(* A copy that a retry by hand makes may be executed from birth.              *)
Marked(d, E, R) ==
  /\ \A t \in R : d.status[t] \in TerminalTask
  /\ \A t \in E : d.status[t] # None
  /\ "retry" \notin Admin => \A t \in E : d.status[t] \in TerminalTask

Processed(d) == Marked(d, d.executed, d.retried)
Keyed(d)     == Rows(d) \subseteq d.keys
Settled(d)   == NoRetryTimeout /\ d.wf \in TerminalWorkflow => Live(d) = {}
Budgeted(d)  == "retry" \notin Admin => \A t \in Rows(d) : t[2] <= RetryLimit[t[1]]

Good == {d \in Database : Processed(d) /\ Keyed(d) /\ Settled(d) /\ Budgeted(d)}

Path == Seq(Good) \ {<< >>}

(***************************************************************************)
(* Paths.                                                                  *)
(***************************************************************************)

LEMMA PathEnds ==
  ASSUME NEW p \in Path
  PROVE  Final(p) \in Good /\ \A i \in 1..(Len(p) - 1) : p[i] \in Good
BY DEF Path, Final

LEMMA PathJoins ==
  ASSUME NEW p \in Path, NEW q \in Path
  PROVE  p \o q \in Path
BY DEF Path

(***************************************************************************)
(* The writes.                                                             *)
(***************************************************************************)

LEMMA GoodStatus ==
  ASSUME NEW d \in Good
  PROVE  /\ d \in Database
         /\ d.executed \cup d.retried \subseteq Rows(d)
         /\ \A t \in d.retried : t \notin Live(d)
         /\ "retry" \notin Admin => \A t \in d.executed : t \notin Live(d)
BY DEF Good, Database, Processed, Marked, Rows, Live, None, TerminalTask, TaskStatuses

LEMMA PutType ==
  ASSUME NEW S, NEW f \in [TaskId -> S], NEW T, NEW v \in S
  PROVE  Put(f, T, v) \in [TaskId -> S]
BY DEF Put

(* Writes that touch no row of the task table.                                *)
LEMMA SameRows ==
  ASSUME NEW d \in Good, NEW e \in Database,
         e.status = d.status, e.executed = d.executed, e.retried = d.retried,
         d.keys \subseteq e.keys,
         e.wf \in TerminalWorkflow => d.wf \in TerminalWorkflow \/ Live(d) = {} \/ ~ NoRetryTimeout
  PROVE  e \in Good /\ Rows(e) = Rows(d) /\ Live(e) = Live(d)
BY DEF Good, Processed, Marked, Keyed, Settled, Budgeted, Rows, Live

LEMMA SetWorkflowGood ==
  ASSUME NEW d \in Good, NEW s \in WorkflowStatuses,
         s \in TerminalWorkflow => d.wf \in TerminalWorkflow \/ Live(d) = {} \/ ~ NoRetryTimeout
  PROVE  /\ SetWorkflow(d, s) \in Good
         /\ Rows(SetWorkflow(d, s)) = Rows(d)
         /\ Live(SetWorkflow(d, s)) = Live(d)
<1> DEFINE e == SetWorkflow(d, s)
<1>1. /\ e \in Database /\ e.status = d.status /\ e.executed = d.executed
      /\ e.retried = d.retried /\ e.keys = d.keys /\ e.wf = s
  BY DEF SetWorkflow, Database, Good
<1> QED
  BY <1>1, SameRows

LEMMA FlagsGood ==
  ASSUME NEW d \in Good, NEW m \in Message, NEW b \in BOOLEAN
  PROVE  /\ SetPending(d) \in Good
         /\ RemovePending(d) \in Good
         /\ [d EXCEPT !.pending = b] \in Good
         /\ SetDecider(d, m) \in Good
<1>1. ASSUME NEW e \in Database, e.status = d.status, e.executed = d.executed,
             e.retried = d.retried, e.keys = d.keys, e.wf = d.wf
      PROVE  e \in Good
  BY <1>1, SameRows
<1> USE DEF Good, Database
<1>2. \A v \in BOOLEAN : [d EXCEPT !.pending = v] \in Good
  BY <1>1
<1>3. SetPending(d) \in Good
  <2> DEFINE v == d.wf \in {"RUNNING", "PAUSED"}
  <2>1. v \in BOOLEAN
    OBVIOUS
  <2> HIDE DEF v
  <2>2. [d EXCEPT !.pending = v] \in Good
    BY <1>2, <2>1
  <2> QED
    BY <2>2 DEF SetPending, v
<1>4. RemovePending(d) \in Good
  BY <1>1 DEF RemovePending
<1>5. SetDecider(d, m) \in Good
  BY <1>1 DEF SetDecider
<1> QED
  BY <1>2, <1>3, <1>4, <1>5

LEMMA QueueGood ==
  ASSUME NEW d \in Good, NEW T
  PROVE  /\ Push(d, T) \in Good /\ Remove(d, T) \in Good
         /\ \A t \in TaskId : Postpone(d, t) \in Good
<1>1. ASSUME NEW f \in [TaskId -> Message]
      PROVE  [d EXCEPT !.msg = f] \in Good
  <2> DEFINE e == [d EXCEPT !.msg = f]
  <2>1. /\ e \in Database /\ e.status = d.status /\ e.executed = d.executed
        /\ e.retried = d.retried /\ e.keys = d.keys /\ e.wf = d.wf
    BY DEF Database, Good
  <2> QED
    BY <2>1, SameRows
<1>2. d.msg \in [TaskId -> Message] /\ "ready" \in Message /\ "absent" \in Message
  BY DEF Good, Database, Message
<1>3. Push(d, T) \in Good
  BY <1>1, <1>2, PutType DEF Push
<1>4. Remove(d, T) \in Good
  BY <1>1, <1>2, PutType DEF Remove
<1>5. ASSUME NEW t \in TaskId PROVE Postpone(d, t) \in Good
  <2> DEFINE f == [d.msg EXCEPT ![t] = IF d.msg[t] = "absent" THEN "absent" ELSE "ready"]
  <2>1. f \in [TaskId -> Message]
    BY <1>2
  <2>2. Postpone(d, t) = [d EXCEPT !.msg = f]
    BY DEF Postpone
  <2> QED
    BY <1>1, <2>1, <2>2
<1> QED
  BY <1>3, <1>4, <1>5

LEMMA InsertKeysGood ==
  ASSUME NEW d \in Good, NEW T \in SUBSET TaskId
  PROVE  InsertKeys(d, T) \in Good
<1> DEFINE e == InsertKeys(d, T)
<1>1. /\ e \in Database /\ e.status = d.status /\ e.executed = d.executed
      /\ e.retried = d.retried /\ d.keys \subseteq e.keys /\ e.wf = d.wf
  BY DEF InsertKeys, Database, Good
<1> QED
  BY <1>1, SameRows

(* A status that may be written: final, or to rows that are not processed     *)
(* while the workflow is open.                                                *)
Writable(d, T, s) ==
  /\ T \in SUBSET d.keys
  /\ s \in TaskStatuses
  /\ s \in TerminalTask \/ (/\ T \cap d.retried = {}
                            /\ "retry" \in Admin \/ T \cap d.executed = {}
                            /\ d.wf \notin TerminalWorkflow)
  /\ "retry" \notin Admin => \A t \in T : t[2] <= RetryLimit[t[1]]

LEMMA SetStatusGood ==
  ASSUME NEW d \in Good, NEW T, NEW s, Writable(d, T, s)
  PROVE  /\ SetStatus(d, T, s) \in Good
         /\ Rows(SetStatus(d, T, s)) = Rows(d) \cup T
         /\ s \in TerminalTask => Live(SetStatus(d, T, s)) = Live(d) \ T
         /\ \A t \in TaskId : SetStatus(d, T, s).status[t] = IF t \in T THEN s ELSE d.status[t]
<1> USE DEF Writable
<1> DEFINE e == SetStatus(d, T, s)
<1>1. d \in Database /\ d.keys \subseteq TaskId
  BY DEF Good, Database
<1>2. Put(d.status, T, s) \in [TaskId -> TaskStatuses \cup {None}]
  BY <1>1, PutType DEF Database
<1>3. /\ e \in Database /\ e.executed = d.executed /\ e.retried = d.retried
      /\ e.keys = d.keys /\ e.wf = d.wf
      /\ e.status = Put(d.status, T, s)
  BY <1>1, <1>2 DEF SetStatus, Database
<1> HIDE DEF e
<1>4. \A t \in TaskId : e.status[t] = IF t \in T THEN s ELSE d.status[t]
  BY <1>3 DEF Put
<1>5. Rows(e) = Rows(d) \cup T
  BY <1>1, <1>4 DEF Rows, None, TaskStatuses
<1>6. s \in TerminalTask => Live(e) = Live(d) \ T
  <2>1. Rows(d) \subseteq TaskId
    BY DEF Rows
  <2> QED
    BY <1>1, <1>4, <1>5, <2>1 DEF Live
<1>7. Processed(e)
  <2>1. s # None
    BY DEF None, TaskStatuses
  <2>2. /\ Marked(d, d.executed, d.retried)
        /\ d.executed \in SUBSET TaskId /\ d.retried \in SUBSET TaskId
    BY <1>1 DEF Processed, Good, Database
  <2> QED
    BY <1>3, <1>4, <2>1, <2>2 DEF Processed, Marked
<1>8. Keyed(e) /\ Budgeted(e)
  BY <1>3, <1>5 DEF Keyed, Budgeted, Good
<1>9. Settled(e)
  BY <1>3, <1>6 DEF Settled, Good
<1>10. e \in Good
  BY <1>3, <1>7, <1>8, <1>9 DEF Good
<1> QED
  BY <1>4, <1>5, <1>6, <1>10 DEF e

LEMMA SetFinalGood ==
  ASSUME NEW d \in Good, NEW T, NEW s, T \subseteq Rows(d), s \in TerminalTask
  PROVE  /\ SetStatus(d, T, s) \in Good
         /\ Rows(SetStatus(d, T, s)) = Rows(d)
         /\ Live(SetStatus(d, T, s)) = Live(d) \ T
         /\ \A t \in TaskId : SetStatus(d, T, s).status[t] = IF t \in T THEN s ELSE d.status[t]
<1>1. Writable(d, T, s)
  BY DEF Writable, Good, Keyed, Budgeted, TerminalTask
<1>2. Rows(d) \cup T = Rows(d)
  OBVIOUS
<1>3. /\ SetStatus(d, T, s) \in Good
      /\ Rows(SetStatus(d, T, s)) = Rows(d) \cup T
      /\ Live(SetStatus(d, T, s)) = Live(d) \ T
      /\ \A t \in TaskId : SetStatus(d, T, s).status[t] = IF t \in T THEN s ELSE d.status[t]
  BY <1>1, SetStatusGood
<1> QED
  BY <1>2, <1>3

(* Marking rows executed or retried.                                          *)
LEMMA MarkGood ==
  ASSUME NEW d \in Good, NEW E \in SUBSET TaskId, NEW R \in SUBSET TaskId,
         Marked(d, E, R)
  PROVE  [d EXCEPT !.executed = E, !.retried = R] \in Good
<1> DEFINE e == [d EXCEPT !.executed = E, !.retried = R]
<1>1. /\ e \in Database /\ e.executed = E /\ e.retried = R
      /\ e.status = d.status /\ e.keys = d.keys /\ e.wf = d.wf
  BY DEF Good, Database
<1> HIDE DEF e
<1> QED
  BY <1>1 DEF Good, Processed, Marked, Keyed, Settled, Budgeted, Rows, Live, e

(* Inserting rows under new keys.                                             *)
LEMMA InsertRowsGood ==
  ASSUME NEW d \in Good, NEW T \in SUBSET d.keys, T \cap Rows(d) = {},
         "retry" \notin Admin => \A t \in T : t[2] <= RetryLimit[t[1]]
  PROVE  /\ d.wf \notin TerminalWorkflow => InsertRows(d, T) \in Good
         /\ InsertSkipped(d, T) \in Good
<1>1. d \in Database /\ d.keys \subseteq TaskId /\ Rows(d) \subseteq TaskId
  BY DEF Good, Database, Rows
<1>2. T \cap (d.executed \cup d.retried) = {}
  BY GoodStatus
<1>3. ASSUME NEW e \in Good, NEW o \in SUBSET (TaskId \X TaskId)
      PROVE  [e EXCEPT !.older = o] \in Good
  <2> DEFINE f == [e EXCEPT !.older = o]
  <2>1. /\ f \in Database /\ f.status = e.status /\ f.executed = e.executed
        /\ f.retried = e.retried /\ f.keys = e.keys /\ f.wf = e.wf
    BY DEF Database, Good
  <2> QED
    BY <2>1, SameRows
<1>4. ASSUME d.wf \notin TerminalWorkflow
      PROVE  InsertRows(d, T) \in Good
  <2> DEFINE o == d.older \cup (Rows(d) \X T) \cup {p \in T \X T : p[1][1] < p[2][1]}
  <2>1. Writable(d, T, "SCHEDULED")
    BY <1>2, <1>4 DEF Writable, TaskStatuses
  <2>2. o \in SUBSET (TaskId \X TaskId)
    BY <1>1 DEF Database
  <2>4. SetStatus(d, T, "SCHEDULED") \in Good
    BY <2>1, SetStatusGood
  <2>3. InsertRows(d, T) = [SetStatus(d, T, "SCHEDULED") EXCEPT !.older = o]
    BY <1>1 DEF InsertRows, SetStatus, Database
  <2> QED
    BY <1>3, <2>2, <2>3, <2>4
<1>5. InsertSkipped(d, T) \in Good
  <2> DEFINE o == d.older \cup (T \X {u \in Rows(d) : d.status[u] # "SKIPPED"})
  <2>1. Writable(d, T, "SKIPPED")
    BY DEF Writable, TaskStatuses, TerminalTask
  <2>2. o \in SUBSET (TaskId \X TaskId)
    BY <1>1 DEF Database
  <2>4. SetStatus(d, T, "SKIPPED") \in Good
    BY <2>1, SetStatusGood
  <2>3. InsertSkipped(d, T) = [SetStatus(d, T, "SKIPPED") EXCEPT !.older = o]
    BY <1>1 DEF InsertSkipped, SetStatus, Database
  <2> QED
    BY <1>3, <2>2, <2>3, <2>4
<1> QED
  BY <1>4, <1>5

LEMMA RemoveRowsGood ==
  ASSUME NEW d \in Good, NEW T \in SUBSET TaskId
  PROVE  RemoveRows(d, T) \in Good
<1> DEFINE e == RemoveRows(d, T)
<1>1. d \in Database
  BY DEF Good
<1>2. Put(d.status, T, None) \in [TaskId -> TaskStatuses \cup {None}]
  BY <1>1, PutType DEF Database
<1>3. {p \in d.older : p[1] \notin T /\ p[2] \notin T} \in SUBSET (TaskId \X TaskId)
  BY <1>1 DEF Database
<1>4. /\ e \in Database
      /\ e.executed = d.executed \ T /\ e.retried = d.retried \ T
      /\ e.keys = d.keys /\ e.wf = d.wf /\ e.status = Put(d.status, T, None)
  BY <1>1, <1>2, <1>3 DEF RemoveRows, Database
<1> HIDE DEF e
<1>5. \A t \in TaskId : e.status[t] = IF t \in T THEN None ELSE d.status[t]
  BY <1>4 DEF Put
<1>6. Rows(e) = Rows(d) \ T
  BY <1>5 DEF Rows
<1>7. Live(e) \subseteq Live(d)
  BY <1>5, <1>6 DEF Live, Rows
<1>8. Processed(e)
  BY <1>1, <1>4, <1>5 DEF Processed, Marked, Good, Database
<1>9. Keyed(e) /\ Budgeted(e) /\ Settled(e)
  BY <1>4, <1>6, <1>7 DEF Keyed, Budgeted, Settled, Good
<1> QED
  BY <1>4, <1>8, <1>9 DEF Good, e

(***************************************************************************)
(* What the decider returns.                                               *)
(***************************************************************************)

LEMMA VisitedRows ==
  ASSUME NEW d \in Good, NEW late
  PROVE  /\ Pending(d) \subseteq Rows(d)
         /\ TimedOut(d, late) \subseteq Pending(d)
         /\ Overdue(d, late) \subseteq Pending(d)
         /\ Unsuccessful(d, late) \subseteq Pending(d)
         /\ Retryable(d, late) \subseteq Pending(d)
         /\ Rewritten(d, late) \subseteq Pending(d)
         /\ Done(d, late) \subseteq Pending(d)
         /\ NoRetryTimeout => TimedOut(d, late) = {}
BY DEF Pending, IsPending, Rows, TimedOut, IsLate, Overdue, Unsuccessful, Retryable,
       Rewritten, Tolerated, Done, NoRetryTimeout, TaskId

LEMMA SettledIsTerminal ==
  ASSUME NEW d \in Good, NEW late, NEW t \in Done(d, late) \cup Retryable(d, late)
  PROVE  t \in TimedOut(d, late) \/ d.status[t] \in TerminalTask
<1>1. t \in TaskId
  BY VisitedRows DEF Rows
<1>2. StatusNow(d, late, t) \in TerminalTask
  BY DEF Done, Retryable, Unsuccessful, UnsuccessfulTask
<1> QED
  BY <1>1, <1>2 DEF StatusNow, TimedOut

LEMMA FirstAttemptsType ==
  ASSUME NEW d, NEW r
  PROVE  \A t \in FirstAttempts(d, r) : t \in TaskId /\ t[2] = 0 /\ 0 <= RetryLimit[t[1]]
BY SizeAssumption, DefinitionAssumption DEF FirstAttempts, NextRef, TaskId

LEMMA NewType ==
  ASSUME NEW d \in Good, NEW late
  PROVE  /\ New(d, late) \in SUBSET TaskId
         /\ New(d, late) \cap Rows(d) = {}
         /\ \A t \in New(d, late) : t[2] <= RetryLimit[t[1]]
<1>1. ASSUME NEW u \in Proposals(d, late)
      PROVE  u \in TaskId /\ u[2] <= RetryLimit[u[1]]
  <2>1. CASE u \in StartProposals(d)
    BY <2>1, FirstAttemptsType DEF StartProposals
  <2>2. CASE u \in NextAttempts(d, late)
    <3>1. PICK t \in Retryable(d, late) : u = <<t[1], t[2] + 1>>
      BY <2>2 DEF NextAttempts
    <3>2. t[2] < RetryLimit[t[1]] /\ t \in TaskId
      BY VisitedRows DEF Retryable, Rows
    <3>3. t[1] \in Ref /\ t[2] \in 0..MaxAttempt /\ RetryLimit[t[1]] \in 0..MaxAttempt
      BY <3>2, DefinitionAssumption DEF TaskId
    <3>4. u[1] = t[1] /\ u[2] = t[2] + 1 /\ u \in TaskId
      BY <2>2, <3>1 DEF NextAttempts
    <3> QED
      BY <3>2, <3>3, <3>4, SizeAssumption
  <2>3. CASE u \in UNION {FirstAttempts(d, t[1]) : t \in Done(d, late)}
    BY <2>3, FirstAttemptsType
  <2> QED
    BY <2>1, <2>2, <2>3 DEF Proposals
<1> QED
  BY <1>1 DEF New

(* With no row TIMED_OUT in memory, a complete workflow has no open task.     *)
LEMMA CompleteIsSettled ==
  ASSUME NEW d \in Good, NEW late, NoRetryTimeout, Complete(d, late)
  PROVE  Live(d) = {}
<1>1. ASSUME NEW t \in Rows(d)
      PROVE  d.status[t] \in TerminalTask
  <2>1. StatusAfter(d, late, t) \in TerminalTask
    BY DEF Complete
  <2>2. StatusNow(d, late, t) = d.status[t]
    BY VisitedRows DEF StatusNow, TimedOut, Rows
  <2>3. CASE t \in Rewritten(d, late)
    BY <2>2, <2>3 DEF Rewritten, Tolerated, Unsuccessful, UnsuccessfulTask
  <2>4. CASE t \notin Rewritten(d, late)
    BY <2>1, <2>2, <2>4 DEF StatusAfter
  <2> QED
    BY <2>3, <2>4
<1> QED
  BY <1>1 DEF Live

(***************************************************************************)
(* The operations are paths.                                               *)
(***************************************************************************)

LEMMA TerminatePath ==
  ASSUME NEW d \in Good, NEW own \in SUBSET Rows(d), NEW spared,
         NoRetryTimeout => spared = {}, NEW s \in WorkflowStatuses
  PROVE  Terminate(d, own, spared, s) \in Path
<1> DEFINE saved    == SetStatus(d, own, "TIMED_OUT")
           canceled == SetStatus(saved, Live(saved) \ spared, "CANCELED")
           unqueued == SetDecider(canceled, "absent")
           ended    == SetWorkflow(unqueued, s)
           settled  == SetPending(ended)
           removed  == Remove(settled, Rows(settled))
<1>0. /\ "absent" \in Message
      /\ {"TIMED_OUT", "CANCELED"} \subseteq TaskStatuses \cap TerminalTask
  BY DEF Message, TaskStatuses, TerminalTask
<1>1. saved \in Good
  BY <1>0, SetFinalGood
<1> HIDE DEF saved
<1>2. Live(saved) \ spared \subseteq Rows(saved)
  BY DEF Live
<1>3. canceled \in Good /\ Live(canceled) = Live(saved) \ (Live(saved) \ spared)
  BY <1>0, <1>1, <1>2, SetFinalGood
<1>4. canceled \in Good /\ (NoRetryTimeout => Live(canceled) = {})
  BY <1>3
<1> HIDE DEF canceled
<1>5. unqueued \in Good
  BY <1>0, <1>4, FlagsGood
<1>6. Live(unqueued) = Live(canceled)
  BY <1>4 DEF unqueued, SetDecider, Live, Rows, Good, Database
<1> HIDE DEF unqueued
<1>7. ended \in Good
  BY <1>4, <1>5, <1>6, SetWorkflowGood
<1> HIDE DEF ended
<1>8. settled \in Good
  BY <1>0, <1>7, FlagsGood
<1> HIDE DEF settled
<1>9. removed \in Good
  BY <1>8, QueueGood
<1> HIDE DEF removed
<1>10. RemovePending(removed) \in Good
  BY <1>0, <1>9, FlagsGood
<1>11. Terminate(d, own, spared, s) =
         <<saved, canceled, unqueued, ended, settled, removed, RemovePending(removed)>>
  BY DEF Terminate, saved, canceled, unqueued, ended, settled, removed
<1> QED
  BY <1>1, <1>4, <1>5, <1>7, <1>8, <1>9, <1>10, <1>11 DEF Path

LEMMA CompletePath ==
  ASSUME NEW d \in Good, Live(d) = {} \/ ~ NoRetryTimeout
  PROVE  CompleteWorkflow(d) \in Path
<1> DEFINE ended   == SetWorkflow(d, "COMPLETED")
           settled == SetPending(ended)
<1>1. ended \in Good
  BY SetWorkflowGood DEF WorkflowStatuses
<1> HIDE DEF ended
<1>2. settled \in Good
  BY <1>1, FlagsGood DEF Message
<1> HIDE DEF settled
<1>3. SetDecider(settled, "absent") \in Good
  BY <1>2, FlagsGood DEF Message
<1>4. CompleteWorkflow(d) = <<ended, settled, SetDecider(settled, "absent")>>
  BY DEF CompleteWorkflow, ended, settled
<1> QED
  BY <1>1, <1>2, <1>3, <1>4 DEF Path

LEMMA AdvancePath ==
  ASSUME NEW d \in Good, NEW late, d.wf = "RUNNING"
  PROVE  Advance(d, late) \in Path
<1> DEFINE new       == New(d, late)
           fresh     == new \ d.keys
           finished  == Done(d, late) \cup Retryable(d, late)
           keyed     == InsertKeys(d, new)
           inserted  == InsertRows(keyed, fresh)
           pushed    == Push(inserted, new)
           late1     == TimedOut(d, late)
           timed     == SetStatus(pushed, late1, "TIMED_OUT")
           settled   == SetStatus(timed, Rewritten(d, late), "COMPLETED_WITH_ERRORS")
           executed  == d.executed \cup Done(d, late)
           retried   == d.retried \cup Retryable(d, late)
           processed == [settled EXCEPT !.executed = executed, !.retried = retried]
<1>0. /\ d \in Database /\ Rows(d) \subseteq d.keys /\ d.keys \subseteq TaskId
      /\ {"TIMED_OUT", "COMPLETED_WITH_ERRORS"} \subseteq TaskStatuses \cap TerminalTask
      /\ d.wf \notin TerminalWorkflow
  BY DEF Good, Database, Keyed, TaskStatuses, TerminalTask, TerminalWorkflow
<1>1. /\ new \in SUBSET TaskId /\ fresh \in SUBSET TaskId /\ fresh \cap Rows(d) = {}
      /\ \A t \in fresh : t[2] <= RetryLimit[t[1]]
  BY NewType
<1>2. /\ late1 \subseteq Rows(d) /\ Rewritten(d, late) \subseteq Rows(d)
      /\ Done(d, late) \subseteq Rows(d) /\ Retryable(d, late) \subseteq Rows(d)
  BY VisitedRows
<1>3. \A t \in finished : t \in late1 \/ d.status[t] \in TerminalTask
  BY SettledIsTerminal
<1>4. "retry" \notin Admin => \A t \in Rows(d) : t[2] <= RetryLimit[t[1]]
  BY DEF Good, Budgeted
<1> HIDE DEF new, fresh, finished, late1
<1>5. keyed \in Good
  BY <1>1, InsertKeysGood
<1>6. /\ keyed.keys = d.keys \cup new /\ keyed.wf = d.wf /\ keyed.status = d.status
      /\ Rows(keyed) = Rows(d)
  BY <1>0 DEF InsertKeys, Database, Rows
<1>7. fresh \in SUBSET keyed.keys
  BY <1>6 DEF fresh
<1> HIDE DEF keyed
<1>8. inserted \in Good
  BY <1>0, <1>1, <1>5, <1>6, <1>7, InsertRowsGood
<1>9. /\ inserted.keys = keyed.keys /\ inserted.status = Put(d.status, fresh, "SCHEDULED")
      /\ inserted.wf = d.wf
  BY <1>5, <1>6 DEF InsertRows, Good, Database
<1> HIDE DEF inserted
<1>10. pushed \in Good
  BY <1>8, QueueGood
<1>11. /\ pushed.keys = keyed.keys /\ pushed.status = inserted.status /\ pushed.wf = d.wf
  BY <1>8, <1>9 DEF Push, Good, Database
<1> HIDE DEF pushed
<1>12. /\ timed \in Good /\ Rows(timed) = Rows(pushed)
       /\ \A t \in TaskId : timed.status[t] = IF t \in late1 THEN "TIMED_OUT" ELSE pushed.status[t]
  <2>1. late1 \subseteq Rows(pushed)
    BY <1>2, <1>9, <1>11 DEF Rows, Put, None
  <2> QED
    BY <1>0, <1>10, <2>1, SetFinalGood
<1> HIDE DEF timed
<1>13. /\ settled \in Good
       /\ \A t \in TaskId : settled.status[t] =
            IF t \in Rewritten(d, late) THEN "COMPLETED_WITH_ERRORS" ELSE timed.status[t]
  <2>1. Rewritten(d, late) \subseteq Rows(timed)
    BY <1>2, <1>9, <1>11, <1>12 DEF Rows, Put, None
  <2> QED
    BY <1>0, <1>12, <2>1, SetFinalGood
<1> HIDE DEF settled
<1>14. executed \in SUBSET TaskId /\ retried \in SUBSET TaskId
  BY <1>0, <1>2 DEF Database
<1>15. ASSUME NEW t \in Rows(d)
       PROVE  /\ settled.status[t] # None
              /\ t \in late1 \/ d.status[t] \in TerminalTask => settled.status[t] \in TerminalTask
  <2>1. t \in TaskId /\ d.status[t] # None /\ None \notin TerminalTask
    BY DEF Rows, None, TerminalTask, TaskStatuses
  <2>2. t \notin fresh
    BY <1>1
  <2>3. pushed.status[t] = d.status[t]
    BY <1>9, <1>11, <2>1, <2>2 DEF Put
  <2>4. /\ timed.status[t] # None
        /\ t \in late1 \/ d.status[t] \in TerminalTask => timed.status[t] \in TerminalTask
    BY <1>0, <1>12, <2>1, <2>3
  <2> QED
    BY <1>0, <1>13, <2>1, <2>4
<1>19. Marked(settled, executed, retried)
  <2>1. \A t \in executed \cup retried : t \in Rows(d)
    BY <1>2, GoodStatus
  <2>2. \A t \in retried : t \in late1 \/ d.status[t] \in TerminalTask
    BY <1>3 DEF finished, Good, Processed, Marked
  <2>3. "retry" \notin Admin =>
          \A t \in executed : t \in late1 \/ d.status[t] \in TerminalTask
    BY <1>3 DEF finished, Good, Processed, Marked
  <2> HIDE DEF executed, retried
  <2> QED
    BY <1>15, <2>1, <2>2, <2>3 DEF Marked
<1>16. processed \in Good
  BY <1>13, <1>14, <1>19, MarkGood
<1> HIDE DEF processed
<1>17. SetPending(processed) \in Good
  BY <1>16, FlagsGood DEF Message
<1>18. Advance(d, late) = IF new \cup finished = {}
         THEN <<d>> ELSE <<keyed, inserted, pushed, processed, SetPending(processed)>>
  BY DEF Advance, new, finished, keyed, inserted, fresh, pushed, processed, settled,
         executed, retried, timed, late1
<1> QED
  BY <1>5, <1>8, <1>10, <1>16, <1>17, <1>18 DEF Path

LEMMA EvaluatePath ==
  ASSUME NEW d \in Good, NEW late, d.wf = "RUNNING"
  PROVE  Evaluate(d, late) \in Path
<1>1. CASE Halting(d, late) # {}
  <2> DEFINE first == FirstHalting(d, late)
             own   == Overdue(d, late) \cap {first}
             s     == HaltStatus(d, first)
  <2>1. own \in SUBSET Rows(d)
    BY VisitedRows
  <2>2. NoRetryTimeout => VisitedTimedOut(d, late) = {}
    BY VisitedRows DEF VisitedTimedOut
  <2>3. s \in WorkflowStatuses
    BY DEF HaltStatus, WorkflowStatuses
  <2>4. Evaluate(d, late) = Terminate(d, own, VisitedTimedOut(d, late), s)
    BY <1>1 DEF Evaluate
  <2> HIDE DEF own, s
  <2> QED
    BY <2>1, <2>2, <2>3, <2>4, TerminatePath
<1>2. CASE Halting(d, late) = {} /\ Complete(d, late) /\ FailedPermissively(d, late)
  <2>1. Evaluate(d, late) = Terminate(d, {}, TimedOut(d, late), "FAILED")
    BY <1>2 DEF Evaluate
  <2>2. NoRetryTimeout => TimedOut(d, late) = {}
    BY VisitedRows
  <2> QED
    BY <2>1, <2>2, TerminatePath DEF WorkflowStatuses
<1>3. CASE Halting(d, late) = {} /\ Complete(d, late) /\ ~ FailedPermissively(d, late)
  <2>1. Evaluate(d, late) = CompleteWorkflow(d)
    BY <1>3 DEF Evaluate
  <2> QED
    BY <1>3, <2>1, CompleteIsSettled, CompletePath
<1>4. CASE Halting(d, late) = {} /\ ~ Complete(d, late)
  <2>1. Evaluate(d, late) = Advance(d, late)
    BY <1>4 DEF Evaluate
  <2> QED
    BY <2>1, AdvancePath
<1> QED
  BY <1>1, <1>2, <1>3, <1>4

LEMMA DecidePath ==
  ASSUME NEW d \in Good, NEW late, NEW expired \in BOOLEAN
  PROVE  Decide(d, late, expired) \in Path
<1>1. CASE d.wf \in TerminalWorkflow \ SuccessfulWorkflow
  <2> DEFINE canceled == SetStatus(d, Live(d), "CANCELED")
  <2>1. Live(d) \subseteq Rows(d)
    BY DEF Live
  <2>3. canceled \in Good
    BY <2>1, SetFinalGood DEF TaskStatuses, TerminalTask
  <2> HIDE DEF canceled
  <2>4. SetDecider(canceled, "absent") \in Good
    BY <2>3, FlagsGood DEF Message
  <2>5. Decide(d, late, expired) = <<canceled, SetDecider(canceled, "absent")>>
    BY <1>1 DEF Decide, canceled, TerminalWorkflow
  <2> QED
    BY <2>3, <2>4, <2>5 DEF Path
<1>2. CASE d.wf \in {"RUNNING", "PAUSED"} /\ expired
  <2>1. Decide(d, late, expired) = Terminate(d, {}, {}, "TIMED_OUT")
    BY <1>2 DEF Decide, TerminalWorkflow
  <2> QED
    BY <2>1, TerminatePath DEF WorkflowStatuses
<1>3. CASE d.wf = "RUNNING" /\ ~ expired
  <2>1. Decide(d, late, expired) = Evaluate(d, late)
    BY <1>3 DEF Decide, TerminalWorkflow
  <2> QED
    BY <1>3, <2>1, EvaluatePath
<1>4. CASE /\ d.wf \notin TerminalWorkflow \ SuccessfulWorkflow
           /\ ~ (d.wf \in {"RUNNING", "PAUSED"} /\ expired)
           /\ ~ (d.wf = "RUNNING" /\ ~ expired)
  <2>1. Decide(d, late, expired) = <<d>>
    BY <1>4 DEF Decide
  <2> QED
    BY <2>1 DEF Path
<1> QED
  BY <1>1, <1>2, <1>3, <1>4

LEMMA StartPath ==
  ASSUME NEW d \in Good
  PROVE  StartWorkflow(d) \in Path
<1> DEFINE created == SetWorkflow(d, "RUNNING")
           listed  == SetPending(created)
<1>1. created \in Good
  BY SetWorkflowGood DEF WorkflowStatuses, TerminalWorkflow
<1> HIDE DEF created
<1>2. listed \in Good
  BY <1>1, FlagsGood DEF Message
<1> HIDE DEF listed
<1>3. <<created, listed>> \in Path
  BY <1>1, <1>2 DEF Path
<1>4. Decide(listed, {}, FALSE) \in Path
  BY <1>2, DecidePath
<1>5. StartWorkflow(d) = <<created, listed>> \o Decide(listed, {}, FALSE)
  BY DEF StartWorkflow, created, listed
<1> QED
  BY <1>3, <1>4, <1>5, PathJoins

LEMMA UpdatePath ==
  ASSUME NEW d \in Good, NEW t \in Rows(d), NEW result \in Results,
         NEW late, NEW expired \in BOOLEAN
  PROVE  UpdateTask(d, t, result, late, expired) \in Path
<1>1. CASE d.status[t] \in TerminalTask \/ d.wf \in TerminalWorkflow
  <2>1. UpdateTask(d, t, result, late, expired) = <<Remove(d, {t})>>
    BY <1>1 DEF UpdateTask
  <2> QED
    BY <2>1, QueueGood DEF Path
<1>2. CASE d.status[t] \notin TerminalTask /\ d.wf \notin TerminalWorkflow
  <2> DEFINE s       == IF result = "IN_PROGRESS" THEN "SCHEDULED" ELSE result
             queued  == IF s = "SCHEDULED" THEN Postpone(d, t) ELSE Remove(d, {t})
             updated == SetStatus(queued, {t}, s)
  <2>1. t \in TaskId /\ s \in TaskStatuses
    BY EngineAssumption DEF Rows, TaskStatuses
  <2> HIDE DEF s
  <2>2. queued \in Good
    BY <2>1, QueueGood
  <2>3. /\ queued.status = d.status /\ queued.keys = d.keys /\ queued.wf = d.wf
        /\ queued.executed = d.executed /\ queued.retried = d.retried
    BY DEF Postpone, Remove, Good, Database
  <2> HIDE DEF queued
  <2>4. Writable(queued, {t}, s)
    BY <1>2, <2>1, <2>3 DEF Writable, Good, Keyed, Budgeted, Processed, Marked
  <2>5. updated \in Good
    BY <2>2, <2>4, SetStatusGood
  <2> HIDE DEF updated
  <2>6. <<queued, updated>> \in Path
    BY <2>2, <2>5 DEF Path
  <2>7. Decide(updated, late, expired) \in Path
    BY <2>5, DecidePath
  <2>8. UpdateTask(d, t, result, late, expired)
          = <<queued, updated>> \o Decide(updated, late, expired)
    BY <1>2 DEF UpdateTask, s, queued, updated
  <2> QED
    BY <2>6, <2>7, <2>8, PathJoins
<1> QED
  BY <1>1, <1>2

LEMMA ForceLastGood ==
  ASSUME NEW d \in Good
  PROVE  ForceLast(d) \in Good
<1> DEFINE E == d.executed \ {t \in Rows(d) : \A u \in Rows(d) : <<t, u>> \notin d.older}
<1>1. E \in SUBSET TaskId /\ d.retried \in SUBSET TaskId /\ E \subseteq d.executed
  BY DEF Good, Database
<1>2. ForceLast(d) = [d EXCEPT !.executed = E]
  BY DEF ForceLast
<1> HIDE DEF E
<1>3. [d EXCEPT !.executed = E] = [d EXCEPT !.executed = E, !.retried = d.retried]
  BY DEF Good, Database
<1>4. Marked(d, E, d.retried)
  BY <1>1 DEF Good, Processed, Marked
<1> QED
  BY <1>1, <1>2, <1>3, <1>4, MarkGood

LEMMA SweepPath ==
  ASSUME NEW d \in Good, NEW late, NEW expired \in BOOLEAN
  PROVE  Sweep(d, late, expired) \in Path
<1> DEFINE popped   == SetDecider(d, "popped")
           decided  == Decide(popped, late, expired)
           after    == Final(decided)
           repaired == IF Unchanged(popped, late) THEN Repair(after) ELSE after
           created  == IF popped.wf = "RUNNING" THEN New(popped, late) ELSE {}
           forced   == ForceLast(repaired)
           listed   == SetPending(forced)
           absent   == SetDecider(popped, "absent")
           ended    == SetDecider(after, "absent")
<1>1. popped \in Good
  BY FlagsGood DEF Message
<1> HIDE DEF popped
<1>2. absent \in Good
  BY <1>1, FlagsGood DEF Message
<1>3. decided \in Path
  BY <1>1, DecidePath
<1> HIDE DEF decided
<1>4. after \in Good
  BY <1>3, PathEnds
<1> HIDE DEF after
<1>5. ended \in Good
  BY <1>4, FlagsGood DEF Message
<1>6. repaired \in Good
  BY <1>4, QueueGood DEF Repair
<1> HIDE DEF repaired
<1>7. forced \in Good
  BY <1>6, ForceLastGood
<1> HIDE DEF forced
<1>8. listed \in Good
  BY <1>7, FlagsGood DEF Message
<1> HIDE DEF listed, absent, ended, created
<1>9. Decide(listed, {}, FALSE) \in Path
  BY <1>8, DecidePath
<1>10. /\ <<popped, absent>> \in Path
       /\ <<popped>> \in Path
       /\ <<ended>> \in Path
       /\ <<repaired>> \in Path
       /\ <<repaired, forced, listed>> \in Path
  BY <1>1, <1>2, <1>5, <1>6, <1>7, <1>8 DEF Path
<1>11. <<popped>> \o decided \in Path
  BY <1>3, <1>10, PathJoins
<1>12. /\ <<popped>> \o decided \o <<ended>> \in Path
       /\ <<popped>> \o decided \o <<repaired>> \in Path
       /\ <<popped>> \o decided \o <<repaired, forced, listed>> \in Path
  BY <1>10, <1>11, PathJoins
<1>13. <<popped>> \o decided \o <<repaired, forced, listed>> \o Decide(listed, {}, FALSE)
         \in Path
  BY <1>9, <1>12, PathJoins
<1>14. Sweep(d, late, expired) =
         CASE popped.wf \notin {"RUNNING", "PAUSED"} -> <<popped, absent>>
           [] popped.wf \in {"RUNNING", "PAUSED"} /\ after.wf \in TerminalWorkflow ->
                <<popped>> \o decided \o <<ended>>
           [] /\ popped.wf \in {"RUNNING", "PAUSED"} /\ after.wf \notin TerminalWorkflow
              /\ Live(after) \cup created # {} ->
                <<popped>> \o decided \o <<repaired>>
           [] OTHER ->
                <<popped>> \o decided \o <<repaired, forced, listed>>
                  \o Decide(listed, {}, FALSE)
  BY DEF Sweep, popped, decided, after, repaired, created, forced, listed, absent, ended
<1> QED
  BY <1>10, <1>12, <1>13, <1>14

LEMMA ReopenPath ==
  ASSUME NEW d \in Good
  PROVE  /\ Reopen(d) \in Path
         /\ Final(Reopen(d)) \in Good
         /\ Final(Reopen(d)).wf = "RUNNING"
         /\ Final(Reopen(d)).status = d.status
         /\ Final(Reopen(d)).keys = d.keys
<1> DEFINE queued == SetDecider(d, "ready")
           opened == SetWorkflow(queued, "RUNNING")
<1>1. queued \in Good
  BY FlagsGood DEF Message
<1>2. queued.status = d.status /\ queued.keys = d.keys
  BY DEF SetDecider, Good, Database
<1> HIDE DEF queued
<1>3. opened \in Good
  BY <1>1, SetWorkflowGood DEF WorkflowStatuses, TerminalWorkflow
<1>4. opened.wf = "RUNNING" /\ opened.status = d.status /\ opened.keys = d.keys
  BY <1>1, <1>2 DEF SetWorkflow, Good, Database
<1> HIDE DEF opened
<1>5. SetPending(opened) \in Good
  BY <1>3, FlagsGood DEF Message
<1>6. Reopen(d) = <<queued, opened, SetPending(opened)>>
  BY DEF Reopen, queued, opened
<1>7. Reopen(d) \in Path
  BY <1>1, <1>3, <1>5, <1>6 DEF Path
<1>8. Final(Reopen(d)) = SetPending(opened)
  BY <1>6 DEF Final
<1>9. /\ SetPending(opened).wf = "RUNNING" /\ SetPending(opened).status = d.status
      /\ SetPending(opened).keys = d.keys
  BY <1>3, <1>4 DEF SetPending, Good, Database
<1> QED
  BY <1>5, <1>7, <1>8, <1>9

LEMMA PausePath ==
  ASSUME NEW d \in Good
  PROVE  PauseWorkflow(d) \in Path
<1> DEFINE paused == SetWorkflow(d, "PAUSED")
           listed == SetPending(paused)
<1>1. paused \in Good
  BY SetWorkflowGood DEF WorkflowStatuses, TerminalWorkflow
<1> HIDE DEF paused
<1>2. listed \in Good
  BY <1>1, FlagsGood DEF Message
<1> HIDE DEF listed
<1>3. SetDecider(listed, "absent") \in Good
  BY <1>2, FlagsGood DEF Message
<1>4. PauseWorkflow(d) = <<paused, listed, SetDecider(listed, "absent")>>
  BY DEF PauseWorkflow, paused, listed
<1> QED
  BY <1>1, <1>2, <1>3, <1>4 DEF Path

LEMMA ResumePath ==
  ASSUME NEW d \in Good, NEW late
  PROVE  ResumeWorkflow(d, late) \in Path
<1>1. Decide(Final(Reopen(d)), late, FALSE) \in Path
  BY ReopenPath, DecidePath
<1> QED
  BY <1>1, ReopenPath, PathJoins DEF ResumeWorkflow

LEMMA SkipPath ==
  ASSUME NEW d \in Good, NEW r \in Ref, RowsOf(d, r) = {},
         NEW late, NEW expired \in BOOLEAN
  PROVE  SkipTask(d, r, late, expired) \in Path
<1> DEFINE t       == <<r, 0>>
           keyed   == InsertKeys(d, {t})
           fresh   == {t} \ d.keys
           skipped == InsertSkipped(keyed, fresh)
<1>1. t \in TaskId /\ t[1] = r /\ t[2] = 0 /\ 0 <= RetryLimit[r]
  BY SizeAssumption, DefinitionAssumption DEF TaskId
<1>2. t \notin Rows(d)
  BY <1>1 DEF RowsOf
<1> HIDE DEF t
<1>3. keyed \in Good
  BY <1>1, InsertKeysGood
<1>4. fresh \in SUBSET keyed.keys /\ Rows(keyed) = Rows(d)
  BY <1>3 DEF InsertKeys, Rows, Good, Database
<1>5. "retry" \notin Admin => \A u \in fresh : u[2] <= RetryLimit[u[1]]
  BY <1>1
<1>6. fresh \cap Rows(keyed) = {}
  BY <1>2, <1>4
<1> HIDE DEF keyed, fresh
<1>7. skipped \in Good
  BY <1>3, <1>4, <1>5, <1>6, InsertRowsGood
<1> HIDE DEF skipped
<1>8. <<keyed, skipped>> \in Path
  BY <1>3, <1>7 DEF Path
<1>9. Decide(skipped, late, expired) \in Path
  BY <1>7, DecidePath
<1>10. SkipTask(d, r, late, expired) = <<keyed, skipped>> \o Decide(skipped, late, expired)
  BY DEF SkipTask, keyed, skipped, fresh, t
<1> QED
  BY <1>8, <1>9, <1>10, PathJoins

LEMMA RetryPath ==
  ASSUME NEW d \in Good, "retry" \in Admin
  PROVE  RetryWorkflow(d) \in Path
<1> DEFINE failed    == RetriableRows(d)
           new       == {u \in TaskId : \E t \in failed : u = <<t[1], t[2] + 1>>}
           fresh     == new \ d.keys
           inherited == {u \in fresh : \E t \in failed \cap d.executed : u = <<t[1], t[2] + 1>>}
           opened    == Final(Reopen(d))
           replaced  == [opened EXCEPT !.executed = d.executed \cup failed,
                                       !.retried  = d.retried \cup failed]
           keyed     == InsertKeys(replaced, new)
           copied    == InsertRows(keyed, fresh)
           E         == keyed.executed \cup inherited
           inserted  == [copied EXCEPT !.executed = E]
<1>1. /\ opened \in Good /\ opened.wf = "RUNNING" /\ opened.status = d.status
      /\ opened.keys = d.keys /\ Reopen(d) \in Path
  BY ReopenPath
<1>2. /\ failed \in SUBSET TaskId
      /\ \A t \in failed : d.status[t] \in TerminalTask /\ d.status[t] # None
  BY DEF RetriableRows, Rows, TerminalTask, TaskStatuses
<1>3. /\ d.executed \cup failed \in SUBSET TaskId /\ d.retried \cup failed \in SUBSET TaskId
      /\ Marked(opened, d.executed \cup failed, d.retried \cup failed)
  BY <1>1, <1>2 DEF Good, Database, Processed, Marked
<1>4. new \in SUBSET TaskId /\ fresh \in SUBSET TaskId /\ fresh \subseteq new
      /\ inherited \subseteq fresh
  OBVIOUS
<1> HIDE DEF failed, new, opened, inherited
<1>5. replaced \in Good
  BY <1>1, <1>3, MarkGood
<1>6. /\ replaced.wf = "RUNNING" /\ replaced.status = d.status /\ replaced.keys = d.keys
  BY <1>1 DEF Good, Database
<1> HIDE DEF replaced
<1>7. keyed \in Good
  BY <1>4, <1>5, InsertKeysGood
<1>8. /\ keyed.wf = "RUNNING" /\ keyed.status = d.status /\ keyed.keys = d.keys \cup new
  BY <1>5, <1>6 DEF InsertKeys, Good, Database
<1>9. fresh \in SUBSET keyed.keys /\ fresh \cap Rows(keyed) = {}
  BY <1>4, <1>8 DEF Good, Keyed, Rows
<1> HIDE DEF keyed, fresh
<1>10. copied \in Good
  BY <1>7, <1>8, <1>9, InsertRowsGood DEF TerminalWorkflow
<1>11. inserted \in Good
  <2>1. /\ copied.status = Put(keyed.status, fresh, "SCHEDULED")
        /\ copied.executed = keyed.executed /\ copied.retried = keyed.retried
    BY <1>7 DEF InsertRows, Good, Database
  <2> HIDE DEF copied
  <2>2. keyed.executed \in SUBSET TaskId /\ copied.retried \in SUBSET TaskId
    BY <1>7, <1>10 DEF Good, Database
  <2>3. Marked(copied, copied.executed, copied.retried)
    BY <1>10 DEF Good, Processed
  <2>4. \A u \in inherited : copied.status[u] # None
    BY <1>4, <2>1 DEF Put, None
  <2>5. E \in SUBSET TaskId /\ Marked(copied, E, copied.retried)
    BY <1>4, <2>1, <2>2, <2>3, <2>4 DEF Marked
  <2> HIDE DEF E
  <2>6. inserted = [copied EXCEPT !.executed = E, !.retried = copied.retried]
    BY <1>10 DEF Good, Database
  <2> QED
    BY <1>10, <2>2, <2>5, <2>6, MarkGood
<1> HIDE DEF inserted
<1>12. Push(inserted, new) \in Good
  BY <1>11, QueueGood
<1>13. <<replaced, keyed, inserted, Push(inserted, new)>> \in Path
  BY <1>5, <1>7, <1>11, <1>12 DEF Path
<1>14. RetryWorkflow(d) = Reopen(d) \o <<replaced, keyed, inserted, Push(inserted, new)>>
  BY DEF RetryWorkflow, failed, new, inherited, opened, replaced, keyed, inserted, fresh
<1> QED
  BY <1>1, <1>13, <1>14, PathJoins

LEMMA RerunPath ==
  ASSUME NEW d \in Good, NEW expired \in BOOLEAN
  PROVE  RerunWorkflow(d, expired) \in Path
<1> DEFINE emptied == RemoveRows(d, Rows(d))
           opening == Reopen(emptied)
<1>1. emptied \in Good
  BY RemoveRowsGood DEF Rows
<1> HIDE DEF emptied
<1>2. opening \in Path /\ Final(opening) \in Good
  BY <1>1, ReopenPath
<1> HIDE DEF opening
<1>3. <<emptied>> \in Path
  BY <1>1 DEF Path
<1>5. Decide(Final(opening), {}, expired) \in Path
  BY <1>2, DecidePath
<1>4. RerunWorkflow(d, expired) = <<emptied>> \o opening \o Decide(Final(opening), {}, expired)
  BY DEF RerunWorkflow, emptied, opening
<1> QED
  BY <1>2, <1>3, <1>4, <1>5, PathJoins

LEMMA RerunFromPath ==
  ASSUME NEW d \in Good, NEW t \in Rows(d), NEW late, NEW expired \in BOOLEAN
  PROVE  RerunFrom(d, t, late, expired) \in Path
<1> DEFINE opened    == Final(Reopen(d))
           later     == {u \in Rows(d) : <<t, u>> \in d.older}
           truncated == RemoveRows(opened, later)
           pushed    == Push(truncated, {t})
           executed  == pushed.executed \ {t}
           retried   == pushed.retried \ {t}
           unmarked  == [pushed EXCEPT !.executed = executed, !.retried = retried]
           revived   == [pushed EXCEPT !.status[t] = "SCHEDULED",
                                       !.executed  = executed,
                                       !.retried   = retried]
<1>1. /\ opened \in Good /\ opened.wf = "RUNNING" /\ opened.keys = d.keys /\ Reopen(d) \in Path
  BY ReopenPath
<1>2. /\ later \in SUBSET TaskId /\ t \in TaskId /\ t \in d.keys
      /\ "retry" \notin Admin => t[2] <= RetryLimit[t[1]]
  BY DEF Rows, Good, Keyed, Budgeted
<1> HIDE DEF opened, later
<1>3. truncated \in Good
  BY <1>1, <1>2, RemoveRowsGood
<1>4. truncated.wf = "RUNNING" /\ truncated.keys = d.keys
  BY <1>1 DEF RemoveRows, Good, Database
<1> HIDE DEF truncated
<1>5. pushed \in Good
  BY <1>3, QueueGood
<1>6. pushed.wf = "RUNNING" /\ pushed.keys = d.keys
  BY <1>3, <1>4 DEF Push, Good, Database
<1> HIDE DEF pushed
<1>7. /\ executed \in SUBSET TaskId /\ retried \in SUBSET TaskId
      /\ Marked(pushed, executed, retried)
      /\ t \notin executed \cup retried
  BY <1>5 DEF Good, Database, Processed, Marked
<1> HIDE DEF executed, retried
<1>8. unmarked \in Good
  BY <1>5, <1>7, MarkGood
<1>9. /\ unmarked.wf = "RUNNING" /\ unmarked.keys = d.keys /\ unmarked.status = pushed.status
      /\ unmarked.executed = executed /\ unmarked.retried = retried
  BY <1>5, <1>6 DEF Good, Database
<1>10. revived = SetStatus(unmarked, {t}, "SCHEDULED")
  <2>1. [pushed.status EXCEPT ![t] = "SCHEDULED"] = Put(pushed.status, {t}, "SCHEDULED")
    BY <1>2, <1>5 DEF Put, Good, Database
  <2>2. revived = [unmarked EXCEPT !.status = Put(pushed.status, {t}, "SCHEDULED")]
    BY <1>5, <2>1 DEF Good, Database
  <2> QED
    BY <1>9, <2>2 DEF SetStatus
<1> HIDE DEF unmarked
<1>11. Writable(unmarked, {t}, "SCHEDULED")
  BY <1>2, <1>7, <1>9 DEF Writable, TaskStatuses, TerminalWorkflow
<1>12. revived \in Good
  BY <1>8, <1>10, <1>11, SetStatusGood
<1> HIDE DEF revived
<1>13. <<truncated, pushed, revived>> \in Path /\ Decide(revived, late, expired) \in Path
  BY <1>3, <1>5, <1>12, DecidePath DEF Path
<1>14. RerunFrom(d, t, late, expired)
         = Reopen(d) \o <<truncated, pushed, revived>> \o Decide(revived, late, expired)
  BY DEF RerunFrom, opened, later, truncated, pushed, executed, retried, revived
<1> QED
  BY <1>1, <1>13, <1>14, PathJoins

LEMMA RestartPath ==
  ASSUME NEW d \in Good
  PROVE  RestartWorkflow(d) \in Path
<1> DEFINE listed == [d EXCEPT !.pending = TRUE]
<1>1. listed \in Good
  BY FlagsGood DEF Message
<1> HIDE DEF listed
<1>2. <<listed>> \in Path
  BY <1>1 DEF Path
<1>4. Decide(listed, {}, FALSE) \in Path
  BY <1>1, DecidePath
<1>3. RestartWorkflow(d) = <<listed>> \o Decide(listed, {}, FALSE)
  BY DEF RestartWorkflow, listed
<1> QED
  BY <1>2, <1>3, <1>4, PathJoins

(***************************************************************************)
(* The inductive invariant.                                                *)
(***************************************************************************)

IInv ==
  /\ db \in Good
  /\ taken \subseteq TaskId
  /\ held \subseteq TaskId
  /\ up \in BOOLEAN
  /\ crashes \in 0..MaxCrashes

LEMMA CountType ==
  ASSUME crashes \in 0..MaxCrashes, crashes < MaxCrashes
  PROVE  crashes + 1 \in 0..MaxCrashes
<1>1. MaxCrashes \in Nat
  BY EngineAssumption
<1> QED
  BY <1>1

(* A step that performs an operation ends on its path, crash or not.          *)
LEMMA CommitGood ==
  ASSUME IInv, NEW p \in Path, Commit(p)
  PROVE  db' \in Good /\ up' \in BOOLEAN /\ crashes' \in 0..MaxCrashes
         /\ taken' \subseteq TaskId
<1>1. db' \in Good
  BY PathEnds DEF Commit
<1>2. up' \in BOOLEAN /\ crashes' \in 0..MaxCrashes /\ taken' \subseteq TaskId
  BY CountType DEF Commit, IInv
<1> QED
  BY <1>1, <1>2

LEMMA TimeType == \A expired \in CanExpire : expired \in BOOLEAN
BY DEF CanExpire

LEMMA InitGood == Init => IInv
<1> SUFFICES ASSUME Init PROVE IInv
  OBVIOUS
<1>1. EmptyDatabase \in Database
  BY DEF EmptyDatabase, Database, Message
<1>2. Rows(EmptyDatabase) = {}
  BY DEF EmptyDatabase, Rows
<1>3. EmptyDatabase \in Good
  BY <1>1, <1>2 DEF Good, Processed, Marked, Keyed, Settled, Budgeted, Live, EmptyDatabase
<1> QED
  BY <1>3, EngineAssumption DEF Init, IInv

LEMMA RequestGood ==
  ASSUME IInv, AdminRequest
  PROVE  db' \in Good /\ up' \in BOOLEAN /\ crashes' \in 0..MaxCrashes
         /\ taken' \subseteq TaskId /\ UNCHANGED held
<1>0. db \in Good
  BY DEF IInv
<1>1. CASE TerminateRequest
  <2>1. Terminate(db, {}, {}, "TERMINATED") \in Path
    BY <1>0, TerminatePath DEF WorkflowStatuses
  <2> QED
    BY <1>1, <2>1, CommitGood DEF TerminateRequest
<1>2. CASE PauseRequest
  BY <1>0, <1>2, PausePath, CommitGood DEF PauseRequest
<1>3. CASE ResumeRequest
  BY <1>0, <1>3, ResumePath, CommitGood DEF ResumeRequest
<1>4. CASE RetryRequest
  BY <1>0, <1>4, RetryPath, CommitGood DEF RetryRequest
<1>5. CASE RerunRequest
  <2>1. ASSUME NEW expired \in CanExpire, Commit(RerunWorkflow(db, expired))
        PROVE  db' \in Good /\ up' \in BOOLEAN /\ crashes' \in 0..MaxCrashes
               /\ taken' \subseteq TaskId
    BY <1>0, <2>1, TimeType, RerunPath, CommitGood
  <2>2. ASSUME NEW t \in Rows(db), NEW late \in CanBeLate, NEW expired \in CanExpire,
               Commit(RerunFrom(db, t, late \ {t}, expired))
        PROVE  db' \in Good /\ up' \in BOOLEAN /\ crashes' \in 0..MaxCrashes
               /\ taken' \subseteq TaskId
    <3>1. RerunFrom(db, t, late \ {t}, expired) \in Path
      BY <1>0, TimeType, RerunFromPath
    <3> QED
      BY <2>2, <3>1, CommitGood
  <2> QED
    BY <1>5, <2>1, <2>2 DEF RerunRequest
<1>6. CASE RestartRequest
  BY <1>0, <1>6, RestartPath, CommitGood DEF RestartRequest
<1>7. ASSUME NEW r \in Ref, SkipRequest(r)
      PROVE  db' \in Good /\ up' \in BOOLEAN /\ crashes' \in 0..MaxCrashes
         /\ taken' \subseteq TaskId /\ UNCHANGED held
  <2>1. PICK late \in CanBeLate, expired \in CanExpire : Commit(SkipTask(db, r, late, expired))
    BY <1>7 DEF SkipRequest
  <2>2. SkipTask(db, r, late, expired) \in Path
    BY <1>0, <1>7, TimeType, SkipPath DEF SkipRequest
  <2> QED
    BY <1>7, <2>1, <2>2, CommitGood DEF SkipRequest
<1> QED
  BY <1>1, <1>2, <1>3, <1>4, <1>5, <1>6, <1>7 DEF AdminRequest

LEMMA StepGood == IInv /\ [Next]_vars => IInv'
<1> SUFFICES ASSUME IInv, [Next]_vars PROVE IInv'
  OBVIOUS
<1>0. db \in Good /\ held \subseteq TaskId
  BY DEF IInv
<1>1. CASE UNCHANGED vars
  BY <1>1 DEF vars, IInv
<1>2. CASE Start
  BY <1>0, <1>2, StartPath, CommitGood DEF Start, IInv
<1>3. ASSUME NEW t \in TaskId, Pop(t) PROVE IInv'
  <2>1. db' = [db EXCEPT !.msg[t] = "popped"]
    BY <1>3 DEF Pop
  <2>2. /\ db' \in Database /\ db'.status = db.status /\ db'.executed = db.executed
        /\ db'.retried = db.retried /\ db'.keys = db.keys /\ db'.wf = db.wf
    BY <1>0, <2>1 DEF Good, Database, Message
  <2>3. db' \in Good
    BY <1>0, <2>2, SameRows
  <2> QED
    BY <1>3, <2>3 DEF Pop, IInv
<1>9. ASSUME NEW t \in TaskId, HandOut(t) PROVE IInv'
  BY <1>9 DEF HandOut, IInv
<1>4. ASSUME NEW t \in TaskId, NEW result \in Results, Report(t, result) PROVE IInv'
  <2>1. PICK late \in CanBeLate, expired \in CanExpire :
          Commit(UpdateTask(db, t, result, late, expired))
    BY <1>4 DEF Report
  <2>2. UpdateTask(db, t, result, late, expired) \in Path
    BY <1>0, <1>4, TimeType, UpdatePath DEF Report
  <2> QED
    BY <1>4, <2>1, <2>2, CommitGood DEF Report, IInv
<1>5. CASE SweepStep
  <2>1. PICK late \in CanBeLate, expired \in CanExpire : Commit(Sweep(db, late, expired))
    BY <1>5 DEF SweepStep
  <2>2. Sweep(db, late, expired) \in Path
    BY <1>0, TimeType, SweepPath
  <2> QED
    BY <1>5, <2>1, <2>2, CommitGood DEF SweepStep, IInv
<1>6. CASE AdminRequest
  BY <1>6, RequestGood DEF IInv
<1>7. CASE Crash
  BY <1>7, CountType DEF Crash, IInv
<1>8. CASE Bootstrap
  <2>1. db' \in Good
    BY <1>0, <1>8, FlagsGood DEF Bootstrap, Message
  <2> QED
    BY <1>8, <2>1 DEF Bootstrap, IInv
<1> QED
  BY <1>1, <1>2, <1>3, <1>4, <1>5, <1>6, <1>7, <1>8, <1>9 DEF Next

(* The engine never leaves Good, with whatever definition, requests, timeouts *)
(* and crashes.                                                              *)
THEOREM Invariant == Spec => []IInv
BY InitGood, StepGood, PTL DEF Spec

(***************************************************************************)
(* What follows from it.                                                   *)
(***************************************************************************)

(* The tables keep their types after every prefix of every operation.          *)
THEOREM TypeCorrect == Spec => []TypeOK
<1>1. IInv => TypeOK
  BY DEF IInv, Good, TypeOK
<1> QED
  BY <1>1, Invariant, PTL

(* What another attempt replaced exists and is terminal.                       *)
THEOREM ReplacedStaysTerminal == Spec => []ReplacedIsTerminal
<1>1. IInv => ReplacedIsTerminal
  BY DEF IInv, Good, Processed, Marked, ReplacedIsTerminal
<1> QED
  BY <1>1, Invariant, PTL

(* While nobody retries the workflow by hand, so does what the decider passed. *)
THEOREM ProcessedStaysTerminal ==
  ASSUME "retry" \notin Admin
  PROVE  Spec => []ProcessedIsTerminal
<1>1. IInv => ProcessedIsTerminal
  BY DEF IInv, Good, Processed, Marked, ProcessedIsTerminal
<1> QED
  BY <1>1, Invariant, PTL

(* task_scheduled guards every row of the task table.                         *)
THEOREM EveryRowHasKey == Spec => []RowHasKey
<1>1. IInv => RowHasKey
  BY DEF IInv, Good, Keyed, RowHasKey
<1> QED
  BY <1>1, Invariant, PTL

(* Without the RETRY timeout policy a workflow that has ended has no open task: *)
(* the rows are settled before the status is, in every operation that ends it. *)
THEOREM EndSettlesTasks ==
  ASSUME NoRetryTimeout
  PROVE  Spec => []EndedHasNoLiveTask
<1>1. IInv => EndedHasNoLiveTask
  BY NoRetryTimeout DEF IInv, Good, Settled, EndedHasNoLiveTask
<1> QED
  BY <1>1, Invariant, PTL

(* While nobody retries the workflow by hand no task exceeds its retry count.  *)
THEOREM AttemptsAreBounded ==
  ASSUME "retry" \notin Admin
  PROVE  Spec => []RetryBudget
<1>1. IInv => RetryBudget
  BY DEF IInv, Good, Budgeted, RetryBudget
<1> QED
  BY <1>1, Invariant, PTL

(***************************************************************************)
(* A workflow that ended stays as it ended.                                *)
(***************************************************************************)

(* The statuses of the workflow along an operation.                            *)
Keeps(p, w) == p # << >> /\ p \in Seq({d \in Database : d.wf = w})

LEMMA CommitKeeps ==
  ASSUME NEW w, NEW p, Keeps(p, w), Commit(p)
  PROVE  db'.wf = w
<1>1. \A i \in 1..Len(p) : p[i].wf = w
  BY DEF Keeps
<1>2. Len(p) \in 1..Len(p) /\ 1..(Len(p) - 1) \subseteq 1..Len(p)
  BY DEF Keeps
<1> QED
  BY <1>1, <1>2 DEF Commit, Final

LEMMA KeepsJoins ==
  ASSUME NEW w, NEW p, NEW q, Keeps(p, w), Keeps(q, w)
  PROVE  Keeps(p \o q, w)
<1> DEFINE S == {d \in Database : d.wf = w}
<1>1. p \in Seq(S) /\ q \in Seq(S) /\ p # << >>
  BY DEF Keeps
<1> HIDE DEF S
<1>2. p \o q \in Seq(S) /\ p \o q # << >>
  BY <1>1
<1> QED
  BY <1>2 DEF Keeps, S

(* Writes after which the status of the workflow is what it was.               *)
LEMMA WritesKeep ==
  ASSUME NEW d \in Good, NEW t
  PROVE  /\ Remove(d, {t}).wf = d.wf /\ Remove(d, {t}) \in Database
         /\ \A m \in Message : SetDecider(d, m).wf = d.wf /\ SetDecider(d, m) \in Good
         /\ [d EXCEPT !.pending = TRUE].wf = d.wf /\ [d EXCEPT !.pending = TRUE] \in Good
         /\ SetStatus(d, Live(d), "CANCELED").wf = d.wf
         /\ SetStatus(d, Live(d), "CANCELED") \in Good
<1>1. d \in Database
  BY DEF Good
<1>2. Remove(d, {t}).wf = d.wf /\ Remove(d, {t}) \in Database
  BY <1>1, QueueGood DEF Remove, Database, Good
<1>3. ASSUME NEW m \in Message
      PROVE  SetDecider(d, m).wf = d.wf /\ SetDecider(d, m) \in Good
  <2>1. SetDecider(d, m) \in Good
    BY FlagsGood
  <2> QED
    BY <1>1, <2>1 DEF SetDecider, Database
<1>4. [d EXCEPT !.pending = TRUE].wf = d.wf
  BY <1>1 DEF Database
<1>5. [d EXCEPT !.pending = TRUE] \in Good
  BY FlagsGood DEF Message
<1>6. SetStatus(d, Live(d), "CANCELED").wf = d.wf
  BY <1>1 DEF SetStatus, Database
<1>7. Live(d) \subseteq Rows(d) /\ "CANCELED" \in TerminalTask
  BY DEF Live, TerminalTask, TaskStatuses
<1>8. SetStatus(d, Live(d), "CANCELED") \in Good
  BY <1>7, SetFinalGood
<1> QED
  BY <1>2, <1>3, <1>4, <1>5, <1>6, <1>8

LEMMA DecideKeeps ==
  ASSUME NEW d \in Good, d.wf \in TerminalWorkflow, NEW late, NEW expired
  PROVE  Keeps(Decide(d, late, expired), d.wf)
<1>0. d.wf \notin {"RUNNING", "PAUSED"} /\ d \in Database
  BY DEF TerminalWorkflow, Good
<1>1. CASE d.wf \in TerminalWorkflow \ SuccessfulWorkflow
  <2> DEFINE canceled == SetStatus(d, Live(d), "CANCELED")
  <2>1. canceled \in Good /\ canceled.wf = d.wf
    BY WritesKeep
  <2> HIDE DEF canceled
  <2>2. SetDecider(canceled, "absent") \in Good /\ SetDecider(canceled, "absent").wf = d.wf
    BY <2>1, WritesKeep DEF Message
  <2>3. Decide(d, late, expired) = <<canceled, SetDecider(canceled, "absent")>>
    BY <1>0, <1>1 DEF Decide, canceled
  <2> QED
    BY <2>1, <2>2, <2>3 DEF Keeps, Good
<1>2. CASE d.wf \notin TerminalWorkflow \ SuccessfulWorkflow
  <2>1. Decide(d, late, expired) = <<d>>
    BY <1>0, <1>2 DEF Decide
  <2> QED
    BY <1>0, <2>1 DEF Keeps
<1> QED
  BY <1>1, <1>2

(* Of the requests, restart is the only one left that an ended workflow        *)
(* accepts, and it decides without reopening.                                 *)
LEMMA EndedStep ==
  ASSUME IInv, Next, Admin \cap {"terminate", "retry", "rerun"} = {},
         db.wf \in TerminalWorkflow
  PROVE  db'.wf = db.wf
<1>0. /\ db \in Good /\ db \in Database
      /\ db.wf \notin {"RUNNING", "PAUSED"} /\ db.wf # None
  BY DEF IInv, Good, TerminalWorkflow, WorkflowStatuses, None
<1>1. CASE Start
  BY <1>0, <1>1 DEF Start
<1>2. ASSUME NEW t \in TaskId, Pop(t) \/ HandOut(t) PROVE db'.wf = db.wf
  BY <1>0, <1>2 DEF Pop, HandOut, Database
<1>3. ASSUME NEW t \in TaskId, NEW result \in Results, Report(t, result)
      PROVE  db'.wf = db.wf
  <2>1. PICK late \in CanBeLate, expired \in CanExpire :
          Commit(UpdateTask(db, t, result, late, expired))
    BY <1>3 DEF Report
  <2>2. UpdateTask(db, t, result, late, expired) = <<Remove(db, {t})>>
    BY DEF UpdateTask
  <2> DEFINE removed == Remove(db, {t})
  <2>4. removed \in Database /\ removed.wf = db.wf
    BY <1>0, WritesKeep
  <2> HIDE DEF removed
  <2>5. Keeps(<<removed>>, db.wf)
    BY <2>4 DEF Keeps
  <2>3. Keeps(<<Remove(db, {t})>>, db.wf)
    BY <2>5 DEF removed
  <2> QED
    BY <2>1, <2>2, <2>3, CommitKeeps
<1>4. CASE SweepStep
  <2> DEFINE popped == SetDecider(db, "popped")
  <2>1. PICK late \in CanBeLate, expired \in CanExpire : Commit(Sweep(db, late, expired))
    BY <1>4 DEF SweepStep
  <2>2. popped \in Good /\ popped.wf = db.wf
    BY <1>0, WritesKeep DEF Message
  <2>3. Sweep(db, late, expired) = <<popped, SetDecider(popped, "absent")>>
    BY <1>0, <2>2 DEF Sweep
  <2> HIDE DEF popped
  <2>4. SetDecider(popped, "absent") \in Good /\ SetDecider(popped, "absent").wf = db.wf
    BY <2>2, WritesKeep DEF Message
  <2>5. Keeps(<<popped, SetDecider(popped, "absent")>>, db.wf)
    BY <2>2, <2>4 DEF Keeps, Good
  <2> QED
    BY <2>1, <2>3, <2>5, CommitKeeps
<1>5. CASE AdminRequest
  <2>1. CASE RestartRequest
    <3> DEFINE listed == [db EXCEPT !.pending = TRUE]
               p == <<listed>> \o Decide(listed, {}, FALSE)
    <3>1. listed \in Good /\ listed.wf = db.wf
      BY <1>0, WritesKeep
    <3> HIDE DEF listed
    <3>2. Keeps(Decide(listed, {}, FALSE), db.wf)
      BY <3>1, DecideKeeps
    <3>5. Keeps(<<listed>>, db.wf)
      BY <3>1 DEF Keeps, Good
    <3>3. Keeps(p, db.wf)
      BY <3>2, <3>5, KeepsJoins
    <3>4. Commit(p)
      BY <2>1 DEF RestartRequest, RestartWorkflow, listed
    <3> QED
      BY <3>3, <3>4, CommitKeeps
  <2> QED
    BY <1>0, <1>5, <2>1 DEF AdminRequest, TerminateRequest, PauseRequest, ResumeRequest,
       RetryRequest, RerunRequest, SkipRequest
<1>6. CASE Crash
  BY <1>6 DEF Crash
<1>7. CASE Bootstrap
  BY <1>0, <1>7 DEF Bootstrap, SetDecider, Database
<1> QED
  BY <1>1, <1>2, <1>3, <1>4, <1>5, <1>6, <1>7 DEF Next

(* While no operator terminates, retries or reruns it, a workflow that ended    *)
(* stays as it ended: late reports, sweeps of messages a crash left behind,     *)
(* recoveries and restarts do not change its status.                           *)
THEOREM EndStays ==
  ASSUME Admin \cap {"terminate", "retry", "rerun"} = {}
  PROVE  Spec => EndIsFinal
<1>1. IInv /\ [Next]_vars => [db.wf \in TerminalWorkflow => db'.wf = db.wf]_vars
  BY EndedStep
<1> QED
  BY <1>1, Invariant, PTL DEF Spec, EndIsFinal
=============================================================================
