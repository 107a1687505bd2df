--------------------------- MODULE SystemTasksProofs ---------------------------
(***************************************************************************)
(* The workflow of system tasks, for every definition: the turns of the       *)
(* decision loop, what every operation keeps, and what follows from it.       *)
(***************************************************************************)
EXTENDS SystemTasks, TLAPS, WellFoundedInduction

(***************************************************************************)
(* The loop of decideInternal.                                             *)
(***************************************************************************)

(* One turn, from the proposals on.                                          *)
TurnOf(e, c) == Turn(e, Proposals(e, c))

(* The turns of all members of a set.                                        *)
Turned(S, c) == {Turn(e, Proposals(e, c)) : e \in S}

LEMMA LeastExists ==
  ASSUME NEW T \in SUBSET Nat, T # {}
  PROVE  \E q \in T : \A p \in T : q <= p
<1> DEFINE R == OpToRel(<, Nat)
<1>1. IsWellFoundedOn(R, Nat)
  BY NatLessThanWellFounded
<1>2. \A x, y \in Nat : x < y => <<x, y>> \in R
  BY DEF OpToRel
<1> HIDE DEF R
<1>3. PICK q \in T : \A p \in T : <<p, q>> \notin R
  BY <1>1, WFMin
<1>4. ASSUME NEW p \in T PROVE q <= p
  <2>1. p \in Nat /\ q \in Nat
    OBVIOUS
  <2>2. ~ (p < q)
    BY <1>2, <1>3, <2>1
  <2> QED
    BY <2>1, <2>2
<1> QED
  BY <1>4

(* The function the loop defines.                                            *)
IsLoop(f, m, d, c) == f = [n \in 0..m |-> IF n = 0 THEN {d} ELSE Turned(f[n - 1], c)]

LEMMA LoopExists ==
  ASSUME NEW d, NEW c, NEW m \in Nat
  PROVE  \E f : IsLoop(f, m, d, c)
<1> DEFINE Bad == {k \in Nat : \A f : ~ IsLoop(f, k, d, c)}
<1>1. SUFFICES ASSUME m \in Bad PROVE FALSE
  OBVIOUS
<1>2. PICK k \in Bad : \A x \in Bad : k <= x
  <2>1. Bad \in SUBSET Nat /\ Bad # {}
    BY <1>1
  <2> QED
    BY <2>1, LeastExists
<1>3. k \in Nat /\ \A f : ~ IsLoop(f, k, d, c)
  BY <1>2
<1>4. CASE k = 0
  <2> DEFINE f == [n \in 0..0 |-> IF n = 0 THEN {d} ELSE Turned({}, c)]
  <2>1. IsLoop(f, 0, d, c)
    <3>1. \A n \in 0..0 : n = 0
      OBVIOUS
    <3> QED
      BY <3>1 DEF IsLoop
  <2> QED
    BY <1>3, <1>4, <2>1
<1>5. CASE k # 0
  <2>1. k - 1 \in Nat /\ ~ (k <= k - 1)
    BY <1>3, <1>5
  <2>2. k - 1 \notin Bad
    BY <2>1, <1>2
  <2> HIDE DEF Bad
  <2>3. PICK f : IsLoop(f, k - 1, d, c)
    BY <2>1, <2>2 DEF Bad
  <2> DEFINE g == [n \in 0..k |-> IF n = k THEN Turned(f[k - 1], c) ELSE f[n]]
  <2>4. ASSUME NEW n \in 0..k
        PROVE  g[n] = IF n = 0 THEN {d} ELSE Turned(g[n - 1], c)
    <3>1. CASE n = k
      <4>1. g[n] = Turned(f[k - 1], c) /\ k - 1 \in 0..k /\ k - 1 # k
        BY <3>1, <2>1, <1>3
      <4>2. g[n - 1] = f[k - 1]
        BY <3>1, <4>1
      <4> QED
        BY <4>1, <4>2, <3>1, <1>5
    <3>2. CASE n # k
      <4>1. n \in 0..(k - 1) /\ g[n] = f[n]
        BY <3>2, <2>1, <1>3
      <4>2. n # 0 => n - 1 \in 0..k /\ n - 1 # k
        BY <4>1, <2>1, <1>3
      <4>3. n # 0 => g[n - 1] = f[n - 1]
        BY <4>2
      <4>4. f[n] = IF n = 0 THEN {d} ELSE Turned(f[n - 1], c)
        BY <2>3, <4>1 DEF IsLoop
      <4> QED
        BY <4>1, <4>3, <4>4
    <3> QED
      BY <3>1, <3>2
  <2>5. g = [n \in 0..k |-> g[n]]
    OBVIOUS
  <2> HIDE DEF g
  <2>6. IsLoop(g, k, d, c)
    BY <2>4, <2>5 DEF IsLoop
  <2> QED
    BY <1>3, <2>6
<1> QED
  BY <1>4, <1>5

(* What the loop leads through a sequence of sets it leaves in the last one.   *)
LEMMA DecideRuns ==
  ASSUME NEW d, NEW c, NEW S,
         d \in S[0],
         \A n \in 0..Len(Top) : \A e \in S[n] : TurnOf(e, c) \in S[n + 1]
  PROVE  \E t \in S[Len(Top) + 1] : Decide(d, c) = Pushed(t)
<1> DEFINE M == Len(Top) + 1
           f == CHOOSE f : IsLoop(f, M, d, c)
<1>1. M \in Nat /\ Len(Top) \in Nat
  BY ShapeAssumption
<1>2. IsLoop(f, M, d, c)
  <2> HIDE DEF M
  <2> QED
    BY <1>1, LoopExists
<1>3. Decide(d, c) = CHOOSE e \in {Pushed(t) : t \in f[M]} : TRUE
  BY DEF Decide, Turned, IsLoop
<1> HIDE DEF f
<1>4. /\ f[0] = {d}
      /\ \A k \in 1..M : f[k] = Turned(f[k - 1], c)
  <2> HIDE DEF M
  <2>1. f = [n \in 0..M |-> IF n = 0 THEN {d} ELSE Turned(f[n - 1], c)]
    BY <1>2 DEF IsLoop
  <2>2. 0 \in 0..M /\ \A k \in 1..M : k \in 0..M /\ k # 0
    BY <1>1
  <2>3. f[0] = {d}
    BY <2>1, <2>2
  <2>4. ASSUME NEW k \in 1..M PROVE f[k] = Turned(f[k - 1], c)
    BY <2>1, <2>2
  <2> QED
    BY <2>3, <2>4
<1> DEFINE Fine(n) == f[n] # {} /\ f[n] \subseteq S[n]
           Bad == {k \in Nat : k <= M /\ ~ Fine(k)}
<1>5. Fine(0)
  BY <1>4
<1>6. ASSUME NEW k \in 1..M, Fine(k - 1) PROVE Fine(k)
  <2>1. k - 1 \in 0..Len(Top) /\ (k - 1) + 1 = k
    BY <1>1
  <2>2. f[k] = {TurnOf(e, c) : e \in f[k - 1]}
    BY <1>4 DEF Turned, TurnOf
  <2> QED
    BY <1>6, <2>1, <2>2
<1>7. Fine(M)
  <2>1. SUFFICES ASSUME M \in Bad PROVE FALSE
    BY <1>1
  <2>2. PICK k \in Bad : \A x \in Bad : k <= x
    <3>1. Bad \in SUBSET Nat /\ Bad # {}
      BY <2>1
    <3> QED
      BY <3>1, LeastExists
  <2>3. k \in Nat /\ k <= M /\ ~ Fine(k) /\ k # 0
    BY <2>2, <1>5
  <2> HIDE DEF M
  <2>4. k \in 1..M /\ k - 1 \in Nat /\ k - 1 <= M /\ ~ (k <= k - 1)
    BY <2>3, <1>1
  <2>5. k - 1 \notin Bad
    BY <2>2, <2>4
  <2> QED
    BY <2>3, <2>4, <2>5, <1>6
<1> QED
  BY <1>3, <1>7

(* What every turn keeps, the loop keeps.                                    *)
LEMMA DecideKeeps ==
  ASSUME NEW d, NEW c, NEW I, d \in I, \A e \in I : TurnOf(e, c) \in I
  PROVE  \E t \in I : Decide(d, c) = Pushed(t)
<1> DEFINE S == [n \in 0..(Len(Top) + 1) |-> I]
<1>1. Len(Top) \in Nat
  BY ShapeAssumption
<1>2. /\ S[0] = I /\ S[Len(Top) + 1] = I
      /\ \A n \in 0..Len(Top) : S[n] = I /\ S[n + 1] = I
  BY <1>1
<1> HIDE DEF S
<1> QED
  BY <1>2, DecideRuns

(***************************************************************************)
(* What every operation keeps.                                             *)
(***************************************************************************)

(* No operator completes the workflow while its other tasks are open.         *)
AbruptTerminate ==
  TerminateAs \in {"FAILED", "TERMINATED"} \/ \A r \in Ref : Kind[r] # "TERMINATE"

(* Tasks that are complete once they are scheduled.                           *)
Instant == {"FORK", "SWITCH", "EVENT", "TERMINATE"}

InstantDone(d) == \A r \in Rows(d) : Kind[r] \in Instant => d.status[r] = "COMPLETED"

(* A promise belongs to a row nothing else touches but a termination.         *)
Owed(d) == \A r \in d.promised : Kind[r] = "PROMISE" /\ d.status[r] \in {"SCHEDULED", "CANCELED"}

(* What is polled is open.                                                   *)
Queued(d) ==
  \A r \in Ref : d.queue[r] = "ready" => r \in Live(d) /\ ~ Ended(d) /\ Kind[r] # "PROMISE"

(* What was acted on has succeeded.                                          *)
Acted(d) == \A r \in d.executed : d.status[r] \in TerminalTask \cap SuccessfulTask

(* All has been run, at the top and elsewhere.                                *)
Complete(d) ==
  /\ TopRef \subseteq Rows(d)
  /\ \A r \in Rows(d) : d.status[r] \in TerminalTask \cap SuccessfulTask

Unstopped(d) == \A r \in Rows(d) : Kind[r] # "TERMINATE"

(* What completed without a TERMINATE task is complete.                        *)
Earned(d) == d.wf = "COMPLETED" /\ Unstopped(d) => Complete(d)

(* What is polled has a row, open or not.                                     *)
Pollable(d) == \A r \in Ref : d.queue[r] = "ready" => r \in Rows(d)

Basic ==
  {d \in Database : /\ InstantDone(d) /\ Owed(d) /\ Pollable(d)
                    /\ Acted(d) /\ Earned(d)
                    /\ AbruptTerminate => Queued(d)}

(* A reference is used once, at the top or in one branch.                     *)
DistinctReferences ==
  /\ \A i, j \in DOMAIN Top : Top[i] = Top[j] => i = j
  /\ \A r \in Ref : Kind[r] \in {"FORK", "SWITCH"} =>
       \A b \in Branches[r] : b # <<>> => b[1] \notin TopRef

(* The first task is there, a task is there only after the success of all      *)
(* before it, with what it brings, and what was acted on has its successor.    *)
Begun(d) == Rows(d) # {} => Top[1] \in Rows(d)

Ordered(d) ==
  \A i, j \in DOMAIN Top :
    i < j /\ Top[j] \in Rows(d) => d.status[Top[i]] \in TerminalTask \cap SuccessfulTask

Whole(d, c) == \A r \in Rows(d) \cap TopRef : Mapped(c, r) \subseteq Rows(d)

Followed(d, c) == \A r \in d.executed : NextTask(c, r) \subseteq Rows(d)

Sound(c) == {d \in Basic : Begun(d) /\ Ordered(d) /\ Whole(d, c) /\ Followed(d, c)}

(* What is held or being written back is the row of a worker's or of a polled  *)
(* task.                                                                      *)
InHand ==
  /\ \A r \in held : r \in Rows(db) /\ Kind[r] = "SIMPLE"
  /\ \A w \in writing : w[1] \in Rows(db) /\ Kind[w[1]] \in Async

SInv == TypeOK /\ db \in Basic /\ InHand /\ (DistinctReferences => db \in Sound(chosen))

(***************************************************************************)
(* What is proposed is a task of the definition that has no row.              *)
(***************************************************************************)

LEMMA TopType ==
  /\ Len(Top) \in Nat \ {0}
  /\ DOMAIN Top = 1..Len(Top)
  /\ \A i \in DOMAIN Top : Top[i] \in Ref /\ Top[i] \in TopRef
  /\ TopRef \subseteq Ref
  /\ Top[1] \in TopRef
<1>1. Top \in Seq(Ref) /\ Top # <<>>
  BY ShapeAssumption
<1>2. Len(Top) \in Nat /\ DOMAIN Top = 1..Len(Top) /\ \A i \in DOMAIN Top : Top[i] \in Ref
  BY <1>1
<1>3. Len(Top) # 0
  BY <1>1
<1>4. \A i \in DOMAIN Top : Top[i] \in TopRef
  BY DEF TopRef
<1> QED
  BY <1>2, <1>3, <1>4 DEF TopRef

LEMMA SuccessorType ==
  ASSUME NEW c, NEW r
  PROVE  NextTask(c, r) \subseteq Successor(r) /\ Successor(r) \subseteq TopRef
<1>1. \A j \in DOMAIN Top : j < Len(Top) => j + 1 \in DOMAIN Top
  BY TopType
<1> QED
  BY <1>1, TopType DEF NextTask, Successor

LEMMA BranchType ==
  ASSUME NEW r \in Ref, Kind[r] \in {"FORK", "SWITCH"}, NEW b \in Branches[r], b # <<>>
  PROVE  b[1] \in Ref
<1>1. b \in Seq(Ref)
  BY ShapeAssumption
<1> QED
  BY <1>1

LEMMA ChoiceType ==
  ASSUME NEW c \in Choices, NEW r \in Ref, Kind[r] = "SWITCH"
  PROVE  c[r] \in Branches[r]
BY DEF Choices

LEMMA MappedType ==
  ASSUME NEW c \in Choices, NEW r \in Ref
  PROVE  Mapped(c, r) \subseteq Ref
<1>1. CASE Kind[r] = "SWITCH"
  BY <1>1, ChoiceType, BranchType DEF Mapped
<1>2. CASE Kind[r] = "FORK"
  BY <1>2, BranchType, SuccessorType, TopType DEF Mapped
<1>3. CASE Kind[r] \notin {"SWITCH", "FORK"}
  BY <1>3 DEF Mapped
<1> QED
  BY <1>1, <1>2, <1>3

LEMMA ProposalsType ==
  ASSUME NEW d, NEW c \in Choices
  PROVE  Proposals(d, c) \in SUBSET Ref /\ Proposals(d, c) \cap Rows(d) = {}
<1>1. Mapped(c, Top[1]) \subseteq Ref
  BY TopType, MappedType
<1>2. Following(d, c) \subseteq Ref
  BY SuccessorType, TopType DEF Following
<1>3. \A q \in Following(d, c) : Mapped(c, q) \subseteq Ref
  BY <1>2, MappedType
<1> QED
  BY <1>1, <1>3 DEF Proposals

(***************************************************************************)
(* The outcomes of a turn: the workflow had ended, ends, or grows.            *)
(***************************************************************************)

LEMMA LastOfType ==
  ASSUME NEW R \in SUBSET Ref, R # {}
  PROVE  LastOf(R) \in R
<1> DEFINE P(r) == \/ Kind[r] = "JOIN"
                   \/ /\ \A q \in R : Kind[q] # "JOIN"
                      /\ r \in TopRef => R \subseteq TopRef
<1>1. \E r \in R : P(r)
  <2>1. CASE \E r \in R : Kind[r] = "JOIN"
    BY <2>1
  <2>2. CASE (\A r \in R : Kind[r] # "JOIN") /\ R \subseteq TopRef
    BY <2>2
  <2>3. CASE (\A r \in R : Kind[r] # "JOIN") /\ ~ (R \subseteq TopRef)
    BY <2>3
  <2> QED
    BY <2>1, <2>2, <2>3
<1>2. LastOf(R) = CHOOSE r \in R : P(r)
  BY DEF LastOf
<1> HIDE DEF P
<1> QED
  BY <1>1, <1>2

(* The rows of a workflow that ends: what is open is canceled.                *)
Settles(d, e) ==
  /\ e \in Database /\ Ended(e)
  /\ \A r \in Ref : e.status[r] = IF r \in Live(d) THEN "CANCELED" ELSE d.status[r]
  /\ e.executed = d.executed /\ e.promised = d.promised

(* The rows of R are added, what was done is acted on.                        *)
Grows(d, e, R) ==
  /\ e \in Database /\ e.wf = d.wf
  /\ \A r \in Ref : e.status[r] = IF r \in R THEN StatusOf(Kind[r]) ELSE d.status[r]
  /\ \A r \in Ref : e.queue[r] = IF r \in R /\ Kind[r] \in Async \cup {"SIMPLE"}
                                 THEN "ready" ELSE d.queue[r]
  /\ e.executed = d.executed \cup Done(d)
  /\ e.promised = d.promised \cup {r \in R : Kind[r] = "PROMISE"}

Unqueued(d, e) == \A r \in Ref : e.queue[r] = IF r \in Rows(d) THEN "absent" ELSE d.queue[r]

Failing(d) == \E r \in Done(d) : d.status[r] \in UnsuccessfulTask
ByTask(d) == \E r \in Rows(d) : Kind[r] = "TERMINATE" /\ d.status[r] = "COMPLETED"

Cancels(d, s, q) == [Canceled(d) EXCEPT !.wf = s, !.queue = q]

LEMMA CanceledIs ==
  ASSUME NEW d \in Database, NEW s \in TerminalWorkflow, NEW q \in [Ref -> Queue]
  PROVE  /\ Settles(d, Cancels(d, s, q)) /\ Cancels(d, s, q).wf = s
         /\ Cancels(d, s, q).queue = q
<1> DEFINE e == Cancels(d, s, q)
<1>1. /\ e.status = [r \in Ref |-> IF r \in Live(d) THEN "CANCELED" ELSE d.status[r]]
      /\ e.wf = s /\ e.queue = q /\ e.decider = "absent" /\ e.last = d.last
      /\ e.executed = d.executed /\ e.promised = d.promised
  BY DEF Database, Canceled, Cancels
<1>2. e \in Database
  BY DEF Database, Canceled, Cancels, TaskStatuses, TerminalWorkflow, Queue
<1>3. Ended(e)
  BY <1>1 DEF Ended
<1> HIDE DEF e
<1>4. Settles(d, e)
  BY <1>1, <1>2, <1>3 DEF Settles
<1> QED
  BY <1>1, <1>4 DEF e

LEMMA TerminatedIs ==
  ASSUME NEW d \in Database, NEW s \in TerminalWorkflow
  PROVE  /\ Settles(d, Terminated(d, s)) /\ Terminated(d, s).wf = s
         /\ Unqueued(d, Terminated(d, s))
<1> DEFINE q == [r \in Ref |-> IF r \in Rows(d) THEN "absent" ELSE d.queue[r]]
<1>1. q \in [Ref -> Queue]
  BY DEF Database, Queue
<1>2. Terminated(d, s) = Cancels(d, s, q)
  BY DEF Terminated, Canceled, Database, Cancels
<1>3. \A r \in Ref : q[r] = IF r \in Rows(d) THEN "absent" ELSE d.queue[r]
  OBVIOUS
<1> HIDE DEF q
<1> QED
  BY <1>1, <1>2, <1>3, CanceledIs DEF Unqueued

LEMMA CompletedIs ==
  ASSUME NEW d \in Database
  PROVE  /\ Settles(d, Completed(d)) /\ Completed(d).wf = "COMPLETED"
         /\ Completed(d).queue = d.queue
<1>1. Completed(d) = Cancels(d, "COMPLETED", d.queue)
  BY DEF Completed, Canceled, Database, Cancels
<1>2. d.queue \in [Ref -> Queue] /\ "COMPLETED" \in TerminalWorkflow
  BY DEF Database, TerminalWorkflow, WorkflowStatuses
<1> QED
  BY <1>1, <1>2, CanceledIs

LEMMA EndExecutionIs ==
  ASSUME NEW d \in Database, NEW b \in BOOLEAN
  PROVE  LET e == EndExecution(d, b)
         IN /\ Settles(d, e)
            /\ \/ Unqueued(d, e)
               \/ e.queue = d.queue /\ ~ (b /\ TerminateAs \in {"FAILED", "TERMINATED"})
<1>1. CASE b /\ TerminateAs \in {"FAILED", "TERMINATED"}
  <2>1. EndExecution(d, b) = Terminated(d, TerminateAs) /\ TerminateAs \in TerminalWorkflow
    BY <1>1 DEF EndExecution, TerminalWorkflow, WorkflowStatuses
  <2> QED
    BY <2>1, TerminatedIs
<1>2. CASE ~ (b /\ TerminateAs \in {"FAILED", "TERMINATED"})
  BY <1>2, CompletedIs DEF EndExecution
<1> QED
  BY <1>1, <1>2

LEMMA ScheduleIs ==
  ASSUME NEW d \in Database, NEW R \in SUBSET Ref, NEW D \in SUBSET Ref, D = Done(d),
         NEW e, e = [Schedule(d, R) EXCEPT !.executed = @ \cup D]
  PROVE  Grows(d, e, R)
<1>1. \A k : StatusOf(k) \in TaskStatuses
  BY DEF StatusOf, TaskStatuses
<1>2. CASE R = {}
  <2>1. e = [d EXCEPT !.executed = @ \cup D]
    BY <1>2 DEF Schedule
  <2>2. e \in Database
    BY <2>1 DEF Database
  <2> QED
    BY <1>2, <2>1, <2>2 DEF Grows, Database
<1>3. CASE R # {}
  <2>0. LastOf(R) \in Ref
    BY <1>3, LastOfType
  <2>1. e = [d EXCEPT !.status   = [r \in Ref |-> IF r \in R THEN StatusOf(Kind[r]) ELSE @[r]],
                      !.queue    = [r \in Ref |-> IF r \in R /\ Kind[r] \in Async \cup {"SIMPLE"}
                                                  THEN "ready" ELSE @[r]],
                      !.promised = @ \cup {r \in R : Kind[r] = "PROMISE"},
                      !.last     = LastOf(R),
                      !.executed = @ \cup D]
    BY <1>3 DEF Schedule, Database
  <2>2. /\ e.wf = d.wf /\ e.decider = d.decider /\ e.last = LastOf(R)
        /\ e.status = [r \in Ref |-> IF r \in R THEN StatusOf(Kind[r]) ELSE d.status[r]]
        /\ e.queue = [r \in Ref |-> IF r \in R /\ Kind[r] \in Async \cup {"SIMPLE"}
                                    THEN "ready" ELSE d.queue[r]]
        /\ e.promised = d.promised \cup {r \in R : Kind[r] = "PROMISE"}
        /\ e.executed = d.executed \cup D
    BY <2>1 DEF Database
  <2>3. /\ e.status \in [Ref -> TaskStatuses \cup {None}]
        /\ e.queue \in [Ref -> Queue]
        /\ e.promised \subseteq Ref /\ e.executed \subseteq Ref
    BY <1>1, <2>2 DEF Database, Queue
  <2>4. e \in Database
    BY <2>0, <2>1, <2>3 DEF Database
  <2> QED
    BY <2>2, <2>4 DEF Grows
<1> QED
  BY <1>2, <1>3

LEMMA DoneType ==
  ASSUME NEW d \in Database
  PROVE  Done(d) \subseteq Ref /\ Rows(d) \subseteq Ref /\ Live(d) \subseteq Rows(d)
BY DEF Done, Rows, Live

LEMMA TurnCases ==
  ASSUME NEW d \in Database, NEW R \in SUBSET Ref
  PROVE  \/ Ended(d) /\ Turn(d, R) = d
         \/ ~ Ended(d) /\ Settles(d, Turn(d, R)) /\ Unqueued(d, Turn(d, R))
         \/ /\ ~ Ended(d) /\ Settles(d, Turn(d, R)) /\ Turn(d, R).queue = d.queue
            /\ \/ Live(d) = {}
               \/ ByTask(d) /\ TerminateAs \notin {"FAILED", "TERMINATED"}
         \/ /\ ~ Ended(d) /\ ~ Failing(d) /\ ~ ByTask(d) /\ ~ AllDone(d, R)
            /\ Grows(d, Turn(d, R), R)
<1> DEFINE b == ByTask(d)
<1>1. CASE Ended(d)
  BY <1>1 DEF Turn
<1>2. CASE ~ Ended(d) /\ Failing(d)
  <2>1. Turn(d, R) = Terminated(d, "FAILED") /\ "FAILED" \in TerminalWorkflow
    BY <1>2 DEF Turn, Failing, TerminalWorkflow, WorkflowStatuses
  <2> QED
    BY <1>2, <2>1, TerminatedIs
<1>3. CASE ~ Ended(d) /\ ~ Failing(d) /\ (ByTask(d) \/ AllDone(d, R))
  <2>1. Turn(d, R) = EndExecution(d, ByTask(d))
    BY <1>3 DEF Turn, Failing, ByTask, AllDone
  <2>2. ByTask(d) \in BOOLEAN
    BY DEF ByTask
  <2>3. AllDone(d, R) => Live(d) = {}
    BY DEF AllDone
  <2> QED
    BY <1>3, <2>1, <2>2, <2>3, EndExecutionIs
<1>4. CASE ~ Ended(d) /\ ~ Failing(d) /\ ~ ByTask(d) /\ ~ AllDone(d, R)
  <2>1. Turn(d, R) = [Schedule(d, R) EXCEPT !.executed = @ \cup Done(d)]
    BY <1>4 DEF Turn, Failing, ByTask, AllDone
  <2> QED
    BY <1>4, <2>1, ScheduleIs, DoneType
<1> QED
  BY <1>1, <1>2, <1>3, <1>4

(* A turn completes the workflow through a TERMINATE task or when all is done.  *)
LEMMA TurnCompletes ==
  ASSUME NEW d \in Database, NEW R \in SUBSET Ref, ~ Ended(d), Turn(d, R).wf = "COMPLETED"
  PROVE  ByTask(d) \/ (AllDone(d, R) /\ ~ Failing(d))
<1> SUFFICES ASSUME ~ ByTask(d), ~ (AllDone(d, R) /\ ~ Failing(d)) PROVE FALSE
  OBVIOUS
<1>1. d.wf # "COMPLETED"
  BY DEF Ended, TerminalWorkflow, WorkflowStatuses
<1>2. CASE Failing(d)
  <2>1. Turn(d, R) = Terminated(d, "FAILED") /\ "FAILED" \in TerminalWorkflow
    BY <1>2 DEF Turn, Failing, TerminalWorkflow, WorkflowStatuses
  <2>2. Terminated(d, "FAILED").wf = "FAILED"
    BY <2>1, TerminatedIs
  <2> QED
    BY <2>1, <2>2
<1>3. CASE ~ Failing(d)
  <2>1. Turn(d, R) = [Schedule(d, R) EXCEPT !.executed = @ \cup Done(d)]
    BY <1>3 DEF Turn, Failing, ByTask
  <2>2. Grows(d, Turn(d, R), R)
    BY <2>1, ScheduleIs, DoneType
  <2> QED
    BY <2>2, <1>1 DEF Grows
<1> QED
  BY <1>2, <1>3

(* What is done and has not failed is complete.                               *)
LEMMA DoneIsComplete ==
  ASSUME NEW d \in Database, NEW R, Acted(d), AllDone(d, R), ~ Failing(d)
  PROVE  Complete(d)
<1>1. ASSUME NEW r \in Rows(d) PROVE d.status[r] \in TerminalTask \cap SuccessfulTask
  <2>1. d.status[r] \in TerminalTask
    BY <1>1 DEF AllDone, Live
  <2>2. CASE r \in d.executed
    BY <2>2 DEF Acted
  <2>3. CASE r \notin d.executed
    <3>1. r \in Done(d)
      BY <2>1, <2>3 DEF Done
    <3> QED
      BY <2>1, <3>1 DEF Failing, UnsuccessfulTask
  <2> QED
    BY <2>2, <2>3
<1> QED
  BY <1>1 DEF Complete, AllDone

(***************************************************************************)
(* What a turn keeps without regard to the order of the definition.           *)
(***************************************************************************)

(* Final statuses stay, rows stay.                                           *)
Stays(d, e) ==
  /\ \A r \in Ref : d.status[r] \in TerminalTask => e.status[r] = d.status[r]
  /\ Rows(d) \subseteq Rows(e)

LEMMA StaysIsOrder ==
  /\ \A d : Stays(d, d)
  /\ \A d, e, f : Stays(d, e) /\ Stays(e, f) => Stays(d, f)
BY DEF Stays

LEMMA StatusFacts ==
  ASSUME NEW d \in Database, NEW r \in Ref
  PROVE  /\ d.status[r] \in TaskStatuses \cup {None}
         /\ (r \in Rows(d) <=> d.status[r] \in TaskStatuses)
         /\ (r \in Live(d) <=> d.status[r] \in {"SCHEDULED", "IN_PROGRESS"})
         /\ (d.status[r] \in TerminalTask => r \in Rows(d) /\ r \notin Live(d))
         /\ (r \in Rows(d) /\ r \notin Live(d) => d.status[r] \in TerminalTask)
BY DEF Database, Rows, Live, TaskStatuses, TerminalTask, None

LEMMA SettlesFacts ==
  ASSUME NEW d \in Database, NEW e, Settles(d, e)
  PROVE  Stays(d, e) /\ Rows(e) = Rows(d) /\ Live(e) = {}
<1>1. ASSUME NEW r \in Ref
      PROVE  /\ (d.status[r] \in TerminalTask => e.status[r] = d.status[r])
             /\ (r \in Rows(d) <=> r \in Rows(e))
             /\ r \notin Live(e)
  <2>1. e \in Database /\ e.status[r] = IF r \in Live(d) THEN "CANCELED" ELSE d.status[r]
    BY DEF Settles
  <2>2. "CANCELED" \in TaskStatuses /\ "CANCELED" \notin {"SCHEDULED", "IN_PROGRESS"}
    BY DEF TaskStatuses
  <2>3. r \in Live(d) => r \in Rows(d)
    BY DEF Live
  <2> QED
    BY <2>1, <2>2, <2>3, StatusFacts
<1>2. e \in Database
  BY DEF Settles
<1> QED
  BY <1>1, <1>2, DoneType DEF Stays

LEMMA StatusOfFacts ==
  ASSUME NEW k
  PROVE  /\ StatusOf(k) \in TaskStatuses
         /\ (k \in Instant => StatusOf(k) = "COMPLETED")
         /\ (k = "PROMISE" => StatusOf(k) = "SCHEDULED")
         /\ (k \in Async \cup {"SIMPLE"} => StatusOf(k) \in {"SCHEDULED", "IN_PROGRESS"} /\ k # "PROMISE")
BY DEF StatusOf, TaskStatuses, Instant, Async

LEMMA GrowsFacts ==
  ASSUME NEW d \in Database, NEW e, NEW R \in SUBSET Ref, R \cap Rows(d) = {}, Grows(d, e, R)
  PROVE  /\ Stays(d, e) /\ Rows(e) = Rows(d) \cup R
         /\ \A r \in Rows(d) : e.status[r] = d.status[r]
         /\ (Ended(e) <=> Ended(d))
<1>1. ASSUME NEW r \in Ref
      PROVE  /\ (r \in Rows(e) <=> r \in Rows(d) \cup R)
             /\ (r \in Rows(d) => e.status[r] = d.status[r])
             /\ (d.status[r] \in TerminalTask => r \in Rows(d))
  <2>1. e \in Database /\ e.status[r] = IF r \in R THEN StatusOf(Kind[r]) ELSE d.status[r]
    BY DEF Grows
  <2> QED
    BY <2>1, StatusFacts, StatusOfFacts
<1>2. e \in Database /\ e.wf = d.wf
  BY DEF Grows
<1> QED
  BY <1>1, <1>2, DoneType DEF Stays, Ended

LEMMA SettlesBasic ==
  ASSUME NEW d \in Basic, NEW e, Settles(d, e),
         \/ Unqueued(d, e)
         \/ e.queue = d.queue /\ (AbruptTerminate => Live(d) = {}),
         e.wf = "COMPLETED" /\ Unstopped(d) => Complete(d)
  PROVE  e \in Basic
<1>1. d \in Database /\ e \in Database /\ e.promised = d.promised
  BY DEF Basic, Settles
<1>2. Rows(e) = Rows(d)
  BY <1>1, SettlesFacts
<1>3. \A r \in Ref : e.status[r] = IF r \in Live(d) THEN "CANCELED" ELSE d.status[r]
  BY DEF Settles
<1>4. InstantDone(e)
  <2>1. ASSUME NEW r \in Rows(e), Kind[r] \in Instant PROVE e.status[r] = "COMPLETED"
    <3>1. r \in Ref /\ d.status[r] = "COMPLETED"
      BY <2>1, <1>1, <1>2, DoneType DEF Basic, InstantDone
    <3>2. r \notin Live(d)
      BY <3>1, <1>1, StatusFacts
    <3> QED
      BY <3>1, <3>2, <1>3
  <2> QED
    BY <2>1 DEF InstantDone
<1>5. Owed(e)
  <2>1. d.promised \subseteq Ref
    BY <1>1 DEF Database
  <2> QED
    BY <1>1, <1>3, <2>1 DEF Basic, Owed
<1>6. ASSUME AbruptTerminate, NEW r \in Ref, e.queue[r] = "ready" PROVE FALSE
  <2>1. d.queue[r] = "ready" => r \in Live(d) /\ r \in Rows(d)
    BY <1>6, <1>1, DoneType DEF Basic, Queued
  <2> QED
    BY <2>1, <1>6 DEF Unqueued
<1>7. Pollable(e)
  BY <1>2 DEF Basic, Pollable, Unqueued
<1>8. Stays(d, e) /\ d.executed \subseteq Ref /\ e.executed = d.executed
  BY <1>1, SettlesFacts DEF Settles, Database
<1>9. Acted(e)
  BY <1>8 DEF Basic, Acted, Stays
<1>10. Earned(e)
  <2>1. Rows(d) \subseteq Ref
    BY DEF Rows
  <2> QED
    BY <1>2, <1>8, <2>1 DEF Earned, Unstopped, Complete, Stays
<1> QED
  BY <1>1, <1>4, <1>5, <1>6, <1>7, <1>9, <1>10 DEF Basic, Queued

LEMMA GrowsBasic ==
  ASSUME NEW d \in Basic, NEW e, NEW R \in SUBSET Ref, R \cap Rows(d) = {}, Grows(d, e, R),
         ~ Ended(d), ~ Failing(d)
  PROVE  e \in Basic
<1>1. d \in Database /\ e \in Database
  BY DEF Basic, Grows
<1>2. Rows(e) = Rows(d) \cup R /\ ~ Ended(e) /\ \A r \in Rows(d) : e.status[r] = d.status[r]
  BY <1>1, GrowsFacts
<1>3. \A r \in R : e.status[r] = StatusOf(Kind[r])
  BY DEF Grows
<1>4. InstantDone(e)
  BY <1>2, <1>3, StatusOfFacts DEF Basic, InstantDone
<1>5. Owed(e)
  <2>1. ASSUME NEW r \in d.promised
        PROVE  Kind[r] = "PROMISE" /\ e.status[r] \in {"SCHEDULED", "CANCELED"}
    <3>1. r \in Ref /\ Kind[r] = "PROMISE" /\ d.status[r] \in {"SCHEDULED", "CANCELED"}
      BY <1>1 DEF Basic, Owed, Database
    <3>2. r \in Rows(d)
      BY <3>1, <1>1, StatusFacts DEF TaskStatuses
    <3> QED
      BY <3>1, <3>2, <1>2
  <2>2. e.promised = d.promised \cup {r \in R : Kind[r] = "PROMISE"}
    BY DEF Grows
  <2> QED
    BY <2>1, <2>2, <1>3, StatusOfFacts DEF Owed
<1>6. ASSUME AbruptTerminate, NEW r \in Ref, e.queue[r] = "ready"
      PROVE  r \in Live(e) /\ Kind[r] # "PROMISE"
  <2>1. e.queue[r] = IF r \in R /\ Kind[r] \in Async \cup {"SIMPLE"} THEN "ready" ELSE d.queue[r]
    BY DEF Grows
  <2>2. CASE r \in R /\ Kind[r] \in Async \cup {"SIMPLE"}
    BY <2>2, <1>1, <1>3, StatusOfFacts, StatusFacts
  <2>3. CASE d.queue[r] = "ready"
    <3>1. r \in Live(d) /\ Kind[r] # "PROMISE" /\ r \in Rows(d)
      BY <2>3, <1>6, <1>1, DoneType DEF Basic, Queued
    <3> QED
      BY <3>1, <1>1, <1>2, StatusFacts
  <2> QED
    BY <1>6, <2>1, <2>2, <2>3
<1>7. Pollable(e)
  BY <1>2 DEF Basic, Pollable, Grows
<1>8. Acted(e)
  <2>1. e.executed = d.executed \cup Done(d) /\ d.executed \subseteq Ref /\ Stays(d, e)
    BY <1>1, GrowsFacts DEF Grows, Database
  <2>2. ASSUME NEW r \in Done(d) PROVE d.status[r] \in TerminalTask \cap SuccessfulTask /\ r \in Ref
    BY <2>2, <1>1, DoneType DEF Done, Failing, UnsuccessfulTask
  <2> QED
    BY <2>1, <2>2 DEF Basic, Acted, Stays
<1>9. Earned(e)
  BY <1>2 DEF Earned, Ended, TerminalWorkflow, WorkflowStatuses
<1> QED
  BY <1>1, <1>2, <1>4, <1>5, <1>6, <1>7, <1>8, <1>9 DEF Basic, Queued

LEMMA TurnBasic ==
  ASSUME NEW c \in Choices, NEW d \in Basic
  PROVE  TurnOf(d, c) \in Basic /\ Stays(d, TurnOf(d, c))
<1> DEFINE R == Proposals(d, c)
           e == TurnOf(d, c)
<1>1. d \in Database /\ R \in SUBSET Ref /\ R \cap Rows(d) = {}
  BY ProposalsType DEF Basic
<1>2. \/ Ended(d) /\ e = d
      \/ ~ Ended(d) /\ Settles(d, e) /\ Unqueued(d, e)
      \/ /\ ~ Ended(d) /\ Settles(d, e) /\ e.queue = d.queue
         /\ \/ Live(d) = {}
            \/ ByTask(d) /\ TerminateAs \notin {"FAILED", "TERMINATED"}
      \/ ~ Ended(d) /\ ~ Failing(d) /\ Grows(d, e, R)
  BY <1>1, TurnCases DEF TurnOf
<1>3. ASSUME ~ Ended(d), e.wf = "COMPLETED", Unstopped(d) PROVE Complete(d)
  <2>1. AllDone(d, R) /\ ~ Failing(d)
    BY <1>1, <1>3, TurnCompletes DEF TurnOf, ByTask, Unstopped
  <2> QED
    BY <1>1, <2>1, DoneIsComplete DEF Basic
<1>4. ByTask(d) /\ TerminateAs \notin {"FAILED", "TERMINATED"} => ~ AbruptTerminate
  BY <1>1, DoneType DEF ByTask, AbruptTerminate
<1> HIDE DEF e, R
<1> QED
  BY <1>1, <1>2, <1>3, <1>4, SettlesBasic, GrowsBasic, SettlesFacts, GrowsFacts, StaysIsOrder DEF e

LEMMA PushedIs ==
  ASSUME NEW d \in Database
  PROVE  /\ Pushed(d) \in Database
         /\ Pushed(d).wf = d.wf /\ Pushed(d).status = d.status
         /\ Pushed(d).executed = d.executed /\ Pushed(d).queue = d.queue
         /\ Pushed(d).promised = d.promised
         /\ (~ Ended(d) /\ (\E r \in Live(d) : Kind[r] = "PROMISE") => Pushed(d).decider = "ready")
BY DEF Pushed, Database, Queue

(* A write that changes no status, queues only what is open and at most        *)
(* forgets flags and promises.                                                *)
Touches(d, e) ==
  /\ d \in Database /\ e \in Database /\ e.wf = d.wf /\ e.status = d.status
  /\ e.executed \subseteq d.executed /\ e.promised \subseteq d.promised
  /\ \A r \in Ref : e.queue[r] = "ready" =>
       d.queue[r] = "ready" \/ (r \in Live(d) /\ ~ Ended(d) /\ Kind[r] # "PROMISE")

LEMMA TouchIs ==
  ASSUME NEW d, NEW e, Touches(d, e)
  PROVE  /\ Rows(e) = Rows(d) /\ Live(e) = Live(d) /\ (Ended(e) <=> Ended(d))
         /\ Stays(d, e)
         /\ (d \in Basic => e \in Basic)
         /\ \A c : d \in Sound(c) => e \in Sound(c)
<1>1. Rows(e) = Rows(d) /\ Live(e) = Live(d) /\ (Ended(e) <=> Ended(d))
  BY DEF Touches, Rows, Live, Ended
<1>2. d \in Basic => e \in Basic
  BY <1>1 DEF Touches, Basic, InstantDone, Owed, Queued, Pollable, Live,
                      Acted, Earned, Unstopped, Complete
<1>3. \A c : d \in Sound(c) => e \in Sound(c)
  BY <1>1, <1>2 DEF Touches, Sound, Begun, Ordered, Whole, Followed
<1> QED
  BY <1>1, <1>2, <1>3 DEF Stays, Touches

LEMMA DecideBasic ==
  ASSUME NEW c \in Choices, NEW d \in Basic
  PROVE  Decide(d, c) \in Basic /\ Stays(d, Decide(d, c))
<1> DEFINE I == {e \in Basic : Stays(d, e)}
<1>1. d \in I
  BY StaysIsOrder
<1>2. ASSUME NEW e \in I PROVE TurnOf(e, c) \in I
  BY <1>2, TurnBasic, StaysIsOrder
<1>3. PICK t \in I : Decide(d, c) = Pushed(t)
  <2> HIDE DEF I
  <2> QED
    BY <1>1, <1>2, DecideKeeps
<1>4. t \in Basic /\ t \in Database /\ Stays(d, t)
  BY DEF Basic
<1>5. Touches(t, Pushed(t))
  BY <1>4, PushedIs DEF Touches
<1> QED
  BY <1>3, <1>4, <1>5, TouchIs, StaysIsOrder

(***************************************************************************)
(* What a turn keeps of the order of the definition.                          *)
(***************************************************************************)

LEMMA InFollowing ==
  ASSUME NEW d, NEW c, NEW p
  PROVE  p \in Following(d, c) <=> \E r \in Done(d) : p \in NextTask(c, r)
BY DEF Following

LEMMA InProposals ==
  ASSUME NEW d, NEW c, NEW q
  PROVE  q \in Proposals(d, c) <=>
           /\ q \notin Rows(d)
           /\ \/ Rows(d) = {} /\ q \in Mapped(c, Top[1])
              \/ Rows(d) # {} /\ \E p \in Following(d, c) : q \in Mapped(c, p)
BY DEF Proposals

(* What is proposed comes, with all that it brings, from the first task or     *)
(* from the successor of one that is done.                                    *)
LEMMA ProposedFrom ==
  ASSUME NEW d, NEW c, NEW q \in Proposals(d, c)
  PROVE  \E p \in TopRef :
           /\ q \in Mapped(c, p)
           /\ Mapped(c, p) \subseteq Proposals(d, c) \cup Rows(d)
           /\ \/ Rows(d) = {} /\ p = Top[1]
              \/ Rows(d) # {} /\ \E r \in Done(d) : p \in NextTask(c, r)
<1>1. CASE Rows(d) = {}
  BY <1>1, TopType, InProposals
<1>2. CASE Rows(d) # {}
  <2>1. PICK p \in Following(d, c) : q \in Mapped(c, p)
    BY <1>2, InProposals
  <2>2. Mapped(c, p) \subseteq Proposals(d, c) \cup Rows(d)
    BY <1>2, InProposals
  <2>3. PICK r \in Done(d) : p \in NextTask(c, r)
    BY InFollowing
  <2>4. p \in TopRef
    BY <2>3, SuccessorType
  <2> QED
    BY <1>2, <2>1, <2>2, <2>3, <2>4
<1> QED
  BY <1>1, <1>2

LEMMA SelfMapped ==
  ASSUME NEW c, NEW p
  PROVE  p \in Mapped(c, p)
BY DEF Mapped

LEMMA SuccessorIs ==
  ASSUME DistinctReferences, NEW k \in DOMAIN Top, NEW j \in DOMAIN Top,
         Top[j] \in Successor(Top[k])
  PROVE  j = k + 1
<1>1. PICK i \in DOMAIN Top : Top[i] = Top[k] /\ i < Len(Top) /\ Top[j] = Top[i + 1]
  BY DEF Successor
<1>2. i \in 1..Len(Top) /\ i + 1 \in DOMAIN Top
  BY <1>1, TopType
<1> QED
  BY <1>1, <1>2 DEF DistinctReferences

(* At the top a task brings itself, and a fork its join.                      *)
LEMMA MappedTop ==
  ASSUME DistinctReferences, NEW c \in Choices, NEW k \in DOMAIN Top, NEW j \in DOMAIN Top,
         Top[j] \in Mapped(c, Top[k])
  PROVE  \/ j = k
         \/ j = k + 1 /\ Kind[Top[k]] = "FORK" /\ Kind[Top[j]] = "JOIN"
<1>1. Top[k] \in Ref /\ Top[j] \in TopRef /\ Top[j] \in Ref
  BY TopType
<1>2. Top[j] = Top[k] => j = k
  BY DEF DistinctReferences
<1>3. ASSUME Kind[Top[k]] \in {"FORK", "SWITCH"}, NEW b \in Branches[Top[k]] \ {<<>>}
      PROVE  Top[j] # b[1]
  BY <1>1, <1>3 DEF DistinctReferences
<1>4. CASE Kind[Top[k]] = "SWITCH"
  <2>1. Top[j] \in {Top[k]} \cup {b[1] : b \in {c[Top[k]]} \ {<<>>}}
    BY <1>4 DEF Mapped
  <2>2. c[Top[k]] \in Branches[Top[k]]
    BY <1>1, <1>4, ChoiceType
  <2> QED
    BY <2>1, <2>2, <1>2, <1>3, <1>4
<1>5. CASE Kind[Top[k]] = "FORK"
  <2>1. Top[j] \in {Top[k]} \cup {b[1] : b \in Branches[Top[k]] \ {<<>>}} \cup Successor(Top[k])
    BY <1>5 DEF Mapped
  <2>2. CASE Top[j] \in Successor(Top[k])
    <3>1. j = k + 1
      BY <2>2, SuccessorIs
    <3>2. PICK i \in DOMAIN Top : Top[i] = Top[k] /\ Kind[Top[i + 1]] = "JOIN"
      BY <1>1, <1>5, ShapeAssumption
    <3>3. i = k
      BY <3>2 DEF DistinctReferences
    <3> QED
      BY <1>5, <3>1, <3>2, <3>3
  <2> QED
    BY <2>1, <2>2, <1>2, <1>3, <1>5
<1>6. CASE Kind[Top[k]] \notin {"FORK", "SWITCH"}
  BY <1>2, <1>6 DEF Mapped
<1> QED
  BY <1>4, <1>5, <1>6

LEMMA TopIndex ==
  ASSUME NEW p \in TopRef
  PROVE  \E k \in DOMAIN Top : p = Top[k]
BY DEF TopRef

(* What comes before a task that may follow has succeeded.                    *)
LEMMA Cleared ==
  ASSUME DistinctReferences, NEW c \in Choices, NEW d \in Sound(c), ~ Failing(d),
         NEW r \in Done(d), NEW k \in DOMAIN Top, Top[k] \in NextTask(c, r),
         NEW i \in DOMAIN Top, i < k
  PROVE  d.status[Top[i]] \in TerminalTask \cap SuccessfulTask
<1>1. PICK j \in DOMAIN Top : Top[j] = r /\ j < Len(Top) /\ Top[k] = Top[j + 1]
  BY SuccessorType DEF Successor
<1>2. j \in 1..Len(Top) /\ j + 1 \in DOMAIN Top
  BY <1>1, TopType
<1>3. k = j + 1
  BY <1>1, <1>2 DEF DistinctReferences
<1>4. r \in Rows(d) /\ d.status[r] \in TerminalTask \cap SuccessfulTask
  BY DEF Done, Failing, UnsuccessfulTask
<1>5. CASE i = j
  BY <1>1, <1>4, <1>5
<1>6. CASE i # j
  <2>1. i < j
    BY <1>2, <1>3, <1>6, TopType
  <2> QED
    BY <2>1, <1>1, <1>4 DEF Sound, Ordered
<1> QED
  BY <1>5, <1>6

LEMMA SettlesSound ==
  ASSUME NEW c, NEW d \in Sound(c), NEW e \in Basic, Settles(d, e)
  PROVE  e \in Sound(c)
<1>1. d \in Database /\ Rows(e) = Rows(d) /\ Stays(d, e) /\ e.executed = d.executed
  BY SettlesFacts DEF Sound, Basic, Settles
<1>2. Ordered(e)
  BY <1>1, TopType DEF Sound, Ordered, Stays
<1> QED
  BY <1>1, <1>2 DEF Sound, Begun, Whole, Followed

LEMMA GrowsSound ==
  ASSUME DistinctReferences, NEW c \in Choices, NEW d \in Sound(c), ~ Ended(d), ~ Failing(d),
         NEW e, Grows(d, e, Proposals(d, c))
  PROVE  e \in Sound(c)
<1> DEFINE R == Proposals(d, c)
<1>1. d \in Database /\ d \in Basic /\ R \in SUBSET Ref /\ R \cap Rows(d) = {}
  BY ProposalsType DEF Basic, Sound
<1>2. e \in Basic /\ Stays(d, e) /\ Rows(e) = Rows(d) \cup R
  BY <1>1, GrowsBasic, GrowsFacts
<1>3. Begun(d) /\ Ordered(d) /\ Whole(d, c) /\ Followed(d, c)
  BY DEF Sound
<1>4. Begun(e)
  <2>1. CASE Rows(d) # {}
    BY <2>1, <1>2, <1>3 DEF Begun
  <2>2. CASE Rows(d) = {}
    <3>1. Top[1] \in R
      BY <2>2, SelfMapped DEF Proposals
    <3> QED
      BY <3>1, <1>2 DEF Begun
  <2> QED
    BY <2>1, <2>2
<1>5. Ordered(e)
  <2>1. SUFFICES ASSUME NEW i \in DOMAIN Top, NEW j \in DOMAIN Top, i < j, Top[j] \in Rows(e)
                 PROVE  e.status[Top[i]] \in TerminalTask \cap SuccessfulTask
    BY DEF Ordered
  <2>2. Top[i] \in Ref /\ i \in 1..Len(Top) /\ j \in 1..Len(Top)
    BY TopType
  <2>3. ASSUME d.status[Top[i]] \in TerminalTask \cap SuccessfulTask
        PROVE  e.status[Top[i]] \in TerminalTask \cap SuccessfulTask
    BY <2>2, <2>3, <1>2 DEF Stays
  <2>4. CASE Top[j] \in Rows(d)
    BY <2>1, <2>3, <2>4, <1>3 DEF Ordered
  <2>5. CASE Top[j] \in R
    <3>1. PICK p \in TopRef :
            /\ Top[j] \in Mapped(c, p) /\ Mapped(c, p) \subseteq R \cup Rows(d)
            /\ \/ Rows(d) = {} /\ p = Top[1]
               \/ Rows(d) # {} /\ \E r \in Done(d) : p \in NextTask(c, r)
      BY <2>5, ProposedFrom
    <3>2. PICK k \in DOMAIN Top : p = Top[k] /\ (Rows(d) = {} => k = 1)
      BY <3>1, TopIndex, TopType
    <3>3. j = k \/ (j = k + 1 /\ Kind[p] = "FORK")
      BY <3>1, <3>2, MappedTop
    <3>4. CASE i < k
      <4>1. Rows(d) # {}
        BY <3>2, <3>4, <2>2
      <4> QED
        BY <4>1, <3>1, <3>2, <3>4, <2>3, Cleared
    <3>5. CASE i = k
      <4>0. Kind[p] = "FORK"
        BY <3>3, <3>5, <2>1, <2>2
      <4>1. p \in Mapped(c, p) /\ p \in Rows(e)
        BY <3>1, <1>2, SelfMapped
      <4>2. e.status[p] = "COMPLETED"
        BY <4>0, <4>1, <1>2 DEF Basic, InstantDone, Instant
      <4> QED
        BY <4>2, <3>2, <3>5 DEF TerminalTask, TaskStatuses, SuccessfulTask
    <3>6. i < k \/ i = k
      BY <3>3, <2>1, <2>2, TopType
    <3> QED
      BY <3>4, <3>5, <3>6
  <2> QED
    BY <2>1, <2>4, <2>5, <1>2
<1>6. Whole(e, c)
  <2>1. SUFFICES ASSUME NEW q \in Rows(e) \cap TopRef PROVE Mapped(c, q) \subseteq Rows(e)
    BY DEF Whole
  <2>2. CASE q \in Rows(d)
    BY <2>2, <1>2, <1>3 DEF Whole
  <2>3. CASE q \in R
    <3>1. PICK p \in TopRef : q \in Mapped(c, p) /\ Mapped(c, p) \subseteq R \cup Rows(d)
      BY <2>3, ProposedFrom
    <3>2. PICK k \in DOMAIN Top, j \in DOMAIN Top : p = Top[k] /\ q = Top[j]
      BY TopIndex
    <3>3. j = k \/ Kind[q] = "JOIN"
      BY <3>1, <3>2, MappedTop
    <3>4. Kind[q] = "JOIN" => Mapped(c, q) = {q}
      BY DEF Mapped
    <3> QED
      BY <3>1, <3>2, <3>3, <3>4, <1>2
  <2> QED
    BY <2>2, <2>3, <1>2
<1>7. Followed(e, c)
  <2>1. e.executed = d.executed \cup Done(d)
    BY DEF Grows
  <2>2. ASSUME NEW r \in Done(d), NEW q \in NextTask(c, r) PROVE q \in Rows(e)
    <3>1. Rows(d) # {}
      BY DEF Done
    <3>2. q \in R \cup Rows(d)
      BY <3>1, SelfMapped, InFollowing, InProposals
    <3> QED
      BY <3>2, <1>2
  <2> QED
    BY <2>1, <2>2, <1>2, <1>3 DEF Followed
<1> QED
  BY <1>2, <1>4, <1>5, <1>6, <1>7 DEF Sound

LEMMA TurnSound ==
  ASSUME DistinctReferences, NEW c \in Choices, NEW d \in Sound(c)
  PROVE  TurnOf(d, c) \in Sound(c)
<1>1. d \in Basic /\ d \in Database /\ Proposals(d, c) \in SUBSET Ref
  BY ProposalsType DEF Sound, Basic
<1>2. TurnOf(d, c) \in Basic
  BY <1>1, TurnBasic
<1>3. \/ TurnOf(d, c) = d
      \/ Settles(d, TurnOf(d, c))
      \/ ~ Ended(d) /\ ~ Failing(d) /\ Grows(d, TurnOf(d, c), Proposals(d, c))
  BY <1>1, TurnCases DEF TurnOf
<1> QED
  BY <1>2, <1>3, SettlesSound, GrowsSound

LEMMA DecideSound ==
  ASSUME DistinctReferences, NEW c \in Choices, NEW d \in Sound(c)
  PROVE  Decide(d, c) \in Sound(c)
<1>1. PICK t \in Sound(c) : Decide(d, c) = Pushed(t)
  BY TurnSound, DecideKeeps
<1>2. Touches(t, Pushed(t))
  <2>1. t \in Database
    BY DEF Sound, Basic
  <2> QED
    BY <2>1, PushedIs DEF Touches
<1> QED
  BY <1>1, <1>2, TouchIs

(***************************************************************************)
(* The operations.                                                         *)
(***************************************************************************)

(* A result is stored in an open row that is neither done at once nor promised.  *)
Stored(d, r, s) ==
  [d EXCEPT !.status[r] = s,
            !.queue[r] = IF s \in TerminalTask \/ @ = "absent" THEN "absent" ELSE "ready"]

LEMMA StoredIs ==
  ASSUME NEW d \in Basic, NEW r \in Live(d), ~ Ended(d),
         Kind[r] \notin Instant \cup {"PROMISE"}, NEW s \in TaskStatuses
  PROVE  /\ Stored(d, r, s) \in Basic /\ Stays(d, Stored(d, r, s))
         /\ \A c : d \in Sound(c) => Stored(d, r, s) \in Sound(c)
<1> DEFINE e == Stored(d, r, s)
<1>1. d \in Database /\ r \in Ref /\ r \in Rows(d) /\ d.status[r] \notin TerminalTask
  BY DoneType, StatusFacts DEF Basic
<1>2. /\ e.wf = d.wf /\ e.executed = d.executed /\ e.promised = d.promised
      /\ e.status[r] = s
      /\ \A q \in Ref : q # r => e.status[q] = d.status[q] /\ e.queue[q] = d.queue[q]
      /\ e.queue[r] = "ready" => s \notin TerminalTask
  BY <1>1 DEF Stored, Database
<1>3. e \in Database
  BY <1>1 DEF Stored, Database, Queue
<1> HIDE DEF e
<1>4. ASSUME NEW q \in Ref PROVE q \in Rows(e) <=> q \in Rows(d)
  BY <1>1, <1>2, <1>3, StatusFacts
<1>5. Rows(e) = Rows(d) /\ (Ended(e) <=> Ended(d))
  BY <1>1, <1>2, <1>3, <1>4, DoneType DEF Ended
<1>6. Stays(d, e)
  BY <1>1, <1>2, <1>5 DEF Stays
<1>7. InstantDone(e)
  <2>1. ASSUME NEW q \in Rows(e), Kind[q] \in Instant PROVE e.status[q] = "COMPLETED"
    <3>1. q # r /\ q \in Ref /\ d.status[q] = "COMPLETED"
      BY <2>1, <1>1, <1>5, DoneType DEF Basic, InstantDone
    <3> QED
      BY <3>1, <1>2
  <2> QED
    BY <2>1 DEF InstantDone
<1>8. Owed(e)
  <2>1. ASSUME NEW q \in d.promised PROVE q # r /\ q \in Ref
    BY <1>1 DEF Basic, Owed, Database
  <2> QED
    BY <2>1, <1>2 DEF Basic, Owed
<1>9. ASSUME AbruptTerminate, NEW q \in Ref, e.queue[q] = "ready"
      PROVE  q \in Live(e) /\ Kind[q] # "PROMISE"
  <2>1. CASE q = r
    <3>1. e.status[r] \in {"SCHEDULED", "IN_PROGRESS"}
      BY <2>1, <1>2, <1>9 DEF TerminalTask, TaskStatuses
    <3> QED
      BY <2>1, <3>1, <1>1, <1>3, StatusFacts
  <2>2. CASE q # r
    <3>1. q \in Live(d) /\ Kind[q] # "PROMISE" /\ e.status[q] = d.status[q]
      BY <2>2, <1>2, <1>9 DEF Basic, Queued
    <3> QED
      BY <3>1, <1>1, <1>3, StatusFacts
  <2> QED
    BY <2>1, <2>2
<1>10. Pollable(e)
  BY <1>1, <1>2, <1>5 DEF Basic, Pollable
<1>11. Acted(e)
  <2>1. ASSUME NEW q \in d.executed PROVE q # r /\ q \in Ref
    BY <1>1 DEF Basic, Acted, Database
  <2> QED
    BY <2>1, <1>2 DEF Basic, Acted
<1>12. Earned(e)
  BY <1>5 DEF Earned, Ended, TerminalWorkflow, WorkflowStatuses
<1>13. e \in Basic
  BY <1>3, <1>5, <1>7, <1>8, <1>9, <1>10, <1>11, <1>12 DEF Basic, Queued
<1>14. ASSUME NEW c, d \in Sound(c) PROVE e \in Sound(c)
  <2>1. Ordered(e)
    BY <1>5, <1>6, <1>14, TopType DEF Sound, Ordered, Stays
  <2> QED
    BY <1>2, <1>5, <1>13, <1>14, <2>1 DEF Sound, Begun, Whole, Followed
<1> QED
  BY <1>6, <1>13, <1>14 DEF e

LEMMA UnqueueTouches ==
  ASSUME NEW d \in Database, NEW r \in Ref, NEW q \in {"absent", "popped"}
  PROVE  Touches(d, [d EXCEPT !.queue[r] = q])
<1> DEFINE e == [d EXCEPT !.queue[r] = q]
<1>1. /\ e.wf = d.wf /\ e.status = d.status /\ e.executed = d.executed /\ e.promised = d.promised
      /\ \A p \in Ref : e.queue[p] = IF p = r THEN q ELSE d.queue[p]
  BY DEF Database
<1>2. e \in Database
  BY DEF Database, Queue
<1> HIDE DEF e
<1>3. Touches(d, e)
  BY <1>1, <1>2 DEF Touches
<1> QED
  BY <1>3 DEF e

LEMMA UpdateCases ==
  ASSUME NEW d \in Database, NEW c, NEW r \in Rows(d), NEW s
  PROVE  \/ /\ UpdateTask(d, c, r, s) = [d EXCEPT !.queue[r] = "absent"]
            /\ r \notin Live(d) \/ Ended(d)
         \/ /\ UpdateTask(d, c, r, s) = Decide(Stored(d, r, s), c)
            /\ r \in Live(d) /\ ~ Ended(d)
<1>1. r \in Ref
  BY DoneType
<1>2. r \in Live(d) <=> d.status[r] \notin TerminalTask
  BY <1>1, StatusFacts
<1> QED
  BY <1>2 DEF UpdateTask, Stored

LEMMA UpdateIs ==
  ASSUME NEW d \in Basic, NEW c \in Choices, NEW r \in Rows(d),
         Kind[r] \notin Instant \cup {"PROMISE"}, NEW s \in TaskStatuses
  PROVE  /\ UpdateTask(d, c, r, s) \in Basic /\ Stays(d, UpdateTask(d, c, r, s))
         /\ (DistinctReferences /\ d \in Sound(c) => UpdateTask(d, c, r, s) \in Sound(c))
<1>1. d \in Database /\ r \in Ref
  BY DoneType DEF Basic
<1>2. CASE UpdateTask(d, c, r, s) = [d EXCEPT !.queue[r] = "absent"]
  <2>1. Touches(d, [d EXCEPT !.queue[r] = "absent"])
    BY <1>1, UnqueueTouches
  <2>2. Touches(d, UpdateTask(d, c, r, s))
    BY <1>2, <2>1
  <2> QED
    BY <2>2, TouchIs
<1>3. CASE UpdateTask(d, c, r, s) = Decide(Stored(d, r, s), c) /\ r \in Live(d) /\ ~ Ended(d)
  <2>1. /\ Stored(d, r, s) \in Basic /\ Stays(d, Stored(d, r, s))
        /\ (d \in Sound(c) => Stored(d, r, s) \in Sound(c))
    BY <1>3, StoredIs
  <2> QED
    BY <1>3, <2>1, DecideBasic, DecideSound, StaysIsOrder
<1> QED
  BY <1>1, <1>2, <1>3, UpdateCases

LEMMA RepairTouches ==
  ASSUME NEW e \in Database, ~ Ended(e)
  PROVE  Touches(e, [e EXCEPT !.queue = [r \in Ref |-> IF Repairable(e, r) THEN "ready" ELSE @[r]]])
<1> DEFINE f == [e EXCEPT !.queue = [r \in Ref |-> IF Repairable(e, r) THEN "ready" ELSE @[r]]]
<1>1. /\ f.wf = e.wf /\ f.status = e.status /\ f.executed = e.executed /\ f.promised = e.promised
      /\ f.queue = [r \in Ref |-> IF Repairable(e, r) THEN "ready" ELSE e.queue[r]]
  BY DEF Database
<1>2. f \in Database
  BY DEF Database, Queue
<1>3. \A r \in Ref : Repairable(e, r) => r \in Live(e) /\ Kind[r] # "PROMISE"
  BY DEF Repairable, Async
<1> HIDE DEF f
<1>4. Touches(e, f)
  BY <1>1, <1>2, <1>3 DEF Touches
<1> QED
  BY <1>4 DEF f

LEMMA ForgetTouches ==
  ASSUME NEW e \in Database, NEW D \in SUBSET e.executed
  PROVE  Touches(e, [e EXCEPT !.executed = D])
<1> DEFINE f == [e EXCEPT !.executed = D]
<1>1. /\ f.wf = e.wf /\ f.status = e.status /\ f.executed = D /\ f.promised = e.promised
      /\ f.queue = e.queue
  BY DEF Database
<1>2. f \in Database
  BY DEF Database
<1> HIDE DEF f
<1>3. Touches(e, f)
  BY <1>1, <1>2 DEF Touches
<1> QED
  BY <1>3 DEF f

LEMMA DeciderTouches ==
  ASSUME NEW e \in Database, NEW q \in Queue
  PROVE  Touches(e, [e EXCEPT !.decider = q]) /\ [e EXCEPT !.decider = q].decider = q
<1> DEFINE f == [e EXCEPT !.decider = q]
<1>1. /\ f.wf = e.wf /\ f.status = e.status /\ f.executed = e.executed /\ f.promised = e.promised
      /\ f.queue = e.queue /\ f.decider = q
  BY DEF Database
<1>2. f \in Database
  BY DEF Database
<1> HIDE DEF f
<1>3. Touches(e, f)
  BY <1>1, <1>2 DEF Touches
<1> QED
  BY <1>1, <1>3 DEF f

LEMMA SweepCases ==
  ASSUME NEW d \in Database, NEW e \in Database, NEW c
  PROVE  \/ SweepOf(d, e, c) = [e EXCEPT !.decider = "absent"] /\ Ended(e)
         \/ /\ ~ Ended(e) /\ Live(e) = {}
            /\ \E D \in SUBSET e.executed : SweepOf(d, e, c) = Decide([e EXCEPT !.executed = D], c)
         \/ ~ Ended(e) /\ Live(e) # {} /\ Touches(e, SweepOf(d, e, c))
<1>1. CASE Ended(e)
  BY <1>1 DEF SweepOf
<1>2. CASE ~ Ended(e) /\ Live(e) = {}
  <2>1. SweepOf(d, e, c) = Decide([e EXCEPT !.executed = e.executed \ {e.last}], c)
    BY <1>2 DEF SweepOf
  <2> QED
    BY <1>2, <2>1
<1>3. CASE ~ Ended(e) /\ Live(e) # {}
  <2>1. Touches(e, e)
    BY DEF Touches
  <2>2. CASE e.status = d.status
    BY <1>3, <2>2, RepairTouches DEF SweepOf
  <2>3. CASE e.status # d.status
    BY <1>3, <2>1, <2>3 DEF SweepOf
  <2> QED
    BY <2>2, <2>3
<1> QED
  BY <1>1, <1>2, <1>3

LEMMA SweepIs ==
  ASSUME NEW d \in Basic, NEW e \in Basic, NEW c \in Choices
  PROVE  /\ SweepOf(d, e, c) \in Basic /\ Stays(e, SweepOf(d, e, c))
         /\ (DistinctReferences /\ e \in Sound(c) => SweepOf(d, e, c) \in Sound(c))
<1>1. d \in Database /\ e \in Database
  BY DEF Basic
<1>2. CASE SweepOf(d, e, c) = [e EXCEPT !.decider = "absent"]
  BY <1>1, <1>2, DeciderTouches, TouchIs DEF Queue
<1>3. CASE Touches(e, SweepOf(d, e, c))
  BY <1>3, TouchIs
<1>4. ASSUME NEW D \in SUBSET e.executed, SweepOf(d, e, c) = Decide([e EXCEPT !.executed = D], c)
      PROVE  /\ SweepOf(d, e, c) \in Basic /\ Stays(e, SweepOf(d, e, c))
             /\ (DistinctReferences /\ e \in Sound(c) => SweepOf(d, e, c) \in Sound(c))
  <2> DEFINE f == [e EXCEPT !.executed = D]
  <2>1. f \in Basic /\ Stays(e, f) /\ (e \in Sound(c) => f \in Sound(c))
    BY <1>1, ForgetTouches, TouchIs
  <2> HIDE DEF f
  <2>2. SweepOf(d, e, c) = Decide(f, c)
    BY <1>4 DEF f
  <2> QED
    BY <2>1, <2>2, DecideBasic, DecideSound, StaysIsOrder
<1> QED
  BY <1>1, <1>2, <1>3, <1>4, SweepCases

(***************************************************************************)
(* The invariant.                                                          *)
(***************************************************************************)

(* What an action keeps of the database.                                      *)
Keeps(d, e, c) ==
  /\ e \in Basic
  /\ Rows(d) \subseteq Rows(e)
  /\ DistinctReferences /\ d \in Sound(c) => e \in Sound(c)

LEMMA EmptyIsSound ==
  ASSUME NEW c, NEW d,
         d = [wf |-> "RUNNING", status |-> [r \in Ref |-> None], executed |-> {},
              last |-> None, queue |-> [r \in Ref |-> "absent"],
              decider |-> "absent", promised |-> {}]
  PROVE  d \in Sound(c) /\ d \in Basic
<1>1. d \in Database
  BY DEF Database, Queue, WorkflowStatuses
<1>2. Rows(d) = {} /\ d.executed = {} /\ d.promised = {} /\ \A r \in Ref : d.queue[r] = "absent"
  BY DEF Rows
<1>3. d \in Basic
  BY <1>1, <1>2 DEF Basic, InstantDone, Owed, Queued, Pollable, Acted, Earned
<1>4. \A i \in DOMAIN Top : Top[i] \notin Rows(d)
  BY <1>2
<1> QED
  BY <1>2, <1>3, <1>4 DEF Sound, Begun, Ordered, Whole, Followed

LEMMA InitSInv == Init => SInv
<1> SUFFICES ASSUME Init PROVE SInv
  OBVIOUS
<1> DEFINE d == [wf |-> "RUNNING", status |-> [r \in Ref |-> None], executed |-> {},
                 last |-> None, queue |-> [r \in Ref |-> "absent"],
                 decider |-> "absent", promised |-> {}]
<1>1. chosen \in Choices /\ db = Decide(d, chosen) /\ writing = {} /\ held = {} /\ crashes = 0
  BY DEF Init
<1>2. d \in Basic /\ d \in Sound(chosen)
  BY EmptyIsSound
<1> HIDE DEF d
<1>3. db \in Basic /\ (DistinctReferences => db \in Sound(chosen))
  BY <1>1, <1>2, DecideBasic, DecideSound
<1>4. crashes \in 0..MaxCrashes
  BY <1>1, ShapeAssumption
<1>5. TypeOK
  BY <1>1, <1>3, <1>4 DEF TypeOK, Basic
<1> QED
  BY <1>1, <1>3, <1>5 DEF SInv, InHand

LEMMA TouchKeeps ==
  ASSUME NEW d \in Basic, NEW e, Touches(d, e), NEW c
  PROVE  Keeps(d, e, c) /\ Stays(d, e)
BY TouchIs DEF Keeps

LEMMA WorkKeeps ==
  ASSUME SInv, NEW r \in Ref, Work(r)
  PROVE  Keeps(db, db', chosen) /\ Stays(db, db')
<1>1. db' = [db EXCEPT !.queue[r] = "popped"] /\ db \in Database /\ db \in Basic
  BY DEF Work, SInv, TypeOK
<1>2. Touches(db, [db EXCEPT !.queue[r] = "popped"])
  BY <1>1, UnqueueTouches
<1>3. Touches(db, db')
  BY <1>1, <1>2
<1> QED
  BY <1>1, <1>3, TouchKeeps

LEMMA ExecuteKeeps ==
  ASSUME SInv, NEW r \in Ref, Execute(r)
  PROVE  Keeps(db, db', chosen) /\ Stays(db, db')
<1>1. /\ db' = [db EXCEPT !.queue[r] = "popped"] \/ db' = [db EXCEPT !.queue[r] = "absent"]
      /\ db \in Database /\ db \in Basic
  BY DEF Execute, SInv, TypeOK
<1>2. /\ Touches(db, [db EXCEPT !.queue[r] = "popped"])
      /\ Touches(db, [db EXCEPT !.queue[r] = "absent"])
  BY <1>1, UnqueueTouches
<1>3. Touches(db, db')
  BY <1>1, <1>2
<1> QED
  BY <1>1, <1>3, TouchKeeps

LEMMA RestartKeeps ==
  ASSUME SInv, Restart
  PROVE  Keeps(db, db', chosen) /\ Stays(db, db')
<1>1. /\ db' = [db EXCEPT !.promised = {}, !.decider = IF Ended(db) THEN @ ELSE "ready"]
      /\ db \in Database /\ db \in Basic
  BY DEF Restart, SInv, TypeOK
<1>2. /\ db'.wf = db.wf /\ db'.status = db.status /\ db'.executed = db.executed
      /\ db'.promised = {} /\ db'.queue = db.queue
  BY <1>1 DEF Database
<1>3. db' \in Database
  BY <1>1 DEF Database, Queue
<1>4. Touches(db, db')
  BY <1>1, <1>2, <1>3 DEF Touches
<1> QED
  BY <1>1, <1>4, TouchKeeps

LEMMA UpdateKeeps ==
  ASSUME SInv, NEW r \in Rows(db), Kind[r] \notin Instant \cup {"PROMISE"}, NEW s \in TaskStatuses,
         db' = UpdateTask(db, chosen, r, s)
  PROVE  Keeps(db, db', chosen) /\ Stays(db, db')
<1>1. db \in Basic /\ chosen \in Choices
  BY DEF SInv, TypeOK
<1> QED
  BY <1>1, UpdateIs DEF Keeps, Stays

LEMMA ReportKeeps ==
  ASSUME SInv, NEW r \in Ref, Report(r)
  PROVE  Keeps(db, db', chosen) /\ Stays(db, db')
<1>1. r \in Rows(db) /\ Kind[r] = "SIMPLE"
  BY DEF Report, SInv, InHand
<1>2. PICK s \in {"COMPLETED", "FAILED"} : db' = UpdateTask(db, chosen, r, s)
  BY DEF Report
<1> QED
  BY <1>1, <1>2, UpdateKeeps DEF Instant, TaskStatuses

LEMMA SignalKeeps ==
  ASSUME SInv, NEW r \in Ref, Signal(r)
  PROVE  Keeps(db, db', chosen) /\ Stays(db, db')
<1>1. r \in Rows(db) /\ Kind[r] \in {"WAIT", "HUMAN"} /\ db' = UpdateTask(db, chosen, r, "COMPLETED")
  BY DEF Signal, Live
<1> QED
  BY <1>1, UpdateKeeps DEF Instant, TaskStatuses

LEMMA WriteBackKeeps ==
  ASSUME SInv, NEW w \in writing, WriteBack(w)
  PROVE  Keeps(db, db', chosen) /\ Stays(db, db')
<1>1. w[1] \in Rows(db) /\ Kind[w[1]] \in Async /\ w[2] = "IN_PROGRESS"
  BY DEF SInv, InHand, TypeOK
<1>2. db' = UpdateTask(db, chosen, w[1], w[2])
  BY DEF WriteBack
<1> QED
  BY <1>1, <1>2, UpdateKeeps DEF Instant, Async, TaskStatuses

LEMMA SweepKeeps ==
  ASSUME SInv, Sweep
  PROVE  Keeps(db, db', chosen) /\ Stays(db, db')
<1> DEFINE d == [db EXCEPT !.decider = "popped"]
           e == Decide(d, chosen)
<1>1. db \in Basic /\ db \in Database /\ chosen \in Choices
  BY DEF SInv, TypeOK
<1>2. db' = SweepOf(d, e, chosen)
  BY DEF Sweep
<1>3. Touches(db, d)
  BY <1>1, DeciderTouches DEF Queue
<1> HIDE DEF d
<1>4. d \in Basic /\ Stays(db, d) /\ (db \in Sound(chosen) => d \in Sound(chosen))
  BY <1>1, <1>3, TouchIs
<1>5. e \in Basic /\ Stays(d, e) /\ (DistinctReferences /\ d \in Sound(chosen) => e \in Sound(chosen))
  BY <1>1, <1>4, DecideBasic, DecideSound
<1> HIDE DEF e
<1>6. Stays(e, db') /\ db' \in Basic /\ (DistinctReferences /\ e \in Sound(chosen) => db' \in Sound(chosen))
  BY <1>1, <1>2, <1>4, <1>5, SweepIs
<1>7. Stays(db, db')
  BY <1>4, <1>5, <1>6, StaysIsOrder
<1> QED
  BY <1>4, <1>5, <1>6, <1>7 DEF Keeps, Stays

LEMMA TerminateKeeps ==
  ASSUME SInv, Terminate
  PROVE  Keeps(db, db', chosen) /\ Stays(db, db')
<1>1. db \in Basic /\ db \in Database /\ "TERMINATED" \in TerminalWorkflow
  BY DEF SInv, TypeOK, TerminalWorkflow, WorkflowStatuses
<1>2. Settles(db, db') /\ Unqueued(db, db')
  BY <1>1, TerminatedIs DEF Terminate
<1>3. db'.wf = "TERMINATED"
  BY <1>1, TerminatedIs DEF Terminate
<1>4. db' \in Basic /\ Stays(db, db') /\ Rows(db') = Rows(db)
  BY <1>1, <1>2, <1>3, SettlesBasic, SettlesFacts
<1> QED
  BY <1>2, <1>4, SettlesSound DEF Keeps

LEMMA ResolveKeeps ==
  ASSUME SInv, NEW r \in db.promised, Resolve(r)
  PROVE  Keeps(db, db', chosen)
<1>1. /\ db \in Basic /\ db \in Database /\ r \in Ref
      /\ Kind[r] = "PROMISE" /\ db.status[r] \in {"SCHEDULED", "CANCELED"}
  BY DEF SInv, TypeOK, Basic, Owed, Database
<1>2. PICK s \in {"COMPLETED", "FAILED"} :
        db' = [db EXCEPT !.status[r] = s, !.executed = @ \ {r},
                         !.promised = @ \ {r}, !.decider = "ready"]
  BY DEF Resolve
<1>3. /\ db'.wf = db.wf /\ db'.queue = db.queue
      /\ db'.executed = db.executed \ {r} /\ db'.promised = db.promised \ {r}
      /\ db'.status[r] = s
      /\ \A q \in Ref : q # r => db'.status[q] = db.status[q]
  BY <1>1, <1>2 DEF Database
<1>4. db' \in Database
  BY <1>1, <1>2 DEF Database, Queue, TaskStatuses
<1>5. ASSUME NEW q \in Ref
      PROVE  (q \in Rows(db') <=> q \in Rows(db)) /\ (q # r => (q \in Live(db') <=> q \in Live(db)))
  <2>1. CASE q = r
    BY <2>1, <1>1, <1>3, <1>4, StatusFacts DEF TaskStatuses
  <2>2. CASE q # r
    BY <2>2, <1>1, <1>3, <1>4, StatusFacts
  <2> QED
    BY <2>1, <2>2
<1>6. Rows(db') = Rows(db) /\ (Ended(db') <=> Ended(db))
  BY <1>1, <1>3, <1>4, <1>5, DoneType DEF Ended
<1>7. InstantDone(db')
  <2>1. ASSUME NEW q \in Rows(db'), Kind[q] \in Instant PROVE db'.status[q] = "COMPLETED"
    <3>1. q # r /\ q \in Ref /\ db.status[q] = "COMPLETED"
      BY <2>1, <1>1, <1>6, DoneType DEF Basic, InstantDone, Instant
    <3> QED
      BY <3>1, <1>3
  <2> QED
    BY <2>1 DEF InstantDone
<1>8. Owed(db')
  <2>1. \A q \in db'.promised : q \in db.promised /\ q # r /\ q \in Ref
    BY <1>1, <1>3 DEF Database
  <2> QED
    BY <2>1, <1>1, <1>3 DEF Basic, Owed
<1>9. AbruptTerminate => Queued(db')
  <2>1. SUFFICES ASSUME AbruptTerminate, NEW q \in Ref, db'.queue[q] = "ready"
                 PROVE  q \in Live(db') /\ ~ Ended(db') /\ Kind[q] # "PROMISE"
    BY DEF Queued
  <2>2. q \in Live(db) /\ ~ Ended(db) /\ Kind[q] # "PROMISE"
    BY <2>1, <1>1, <1>3 DEF Basic, Queued
  <2> QED
    BY <2>2, <1>1, <1>5, <1>6
<1>10. Acted(db')
  BY <1>1, <1>3 DEF Basic, Acted, Database
<1>11. Earned(db')
  <2>1. ASSUME Complete(db) PROVE FALSE
    <3>1. r \in Rows(db)
      BY <1>1, StatusFacts DEF TaskStatuses
    <3> QED
      BY <1>1, <2>1, <3>1 DEF Complete, TerminalTask, TaskStatuses, SuccessfulTask
  <2> QED
    BY <2>1, <1>1, <1>3, <1>6 DEF Basic, Earned, Unstopped
<1>12. db' \in Basic
  BY <1>1, <1>3, <1>4, <1>6, <1>7, <1>8, <1>9, <1>10, <1>11 DEF Basic, Pollable
<1>13. ASSUME db \in Sound(chosen) PROVE db' \in Sound(chosen)
  <2>1. Ordered(db')
    <3>1. SUFFICES ASSUME NEW i \in DOMAIN Top, NEW j \in DOMAIN Top, i < j, Top[j] \in Rows(db')
                   PROVE  db'.status[Top[i]] \in TerminalTask \cap SuccessfulTask
      BY DEF Ordered
    <3>2. db.status[Top[i]] \in TerminalTask \cap SuccessfulTask /\ Top[i] \in Ref
      BY <3>1, <1>6, <1>13, TopType DEF Sound, Ordered
    <3>3. Top[i] # r
      BY <3>2, <1>1 DEF TerminalTask, TaskStatuses, SuccessfulTask
    <3> QED
      BY <3>2, <3>3, <1>3
  <2> QED
    BY <2>1, <1>3, <1>6, <1>12, <1>13 DEF Sound, Begun, Whole, Followed
<1> QED
  BY <1>6, <1>12, <1>13 DEF Keeps

(* An action that keeps the database in order, keeps the invariant when what it  *)
(* adds to the hands of workers is a row.                                      *)
LEMMA KeepsSInv ==
  ASSUME SInv, Keeps(db, db', chosen), chosen' = chosen, crashes' \in 0..MaxCrashes,
         \A r \in held' \ held : r \in Rows(db) /\ Kind[r] = "SIMPLE",
         \A w \in writing' \ writing :
           w \in Ref \X {"IN_PROGRESS"} /\ w[1] \in Rows(db) /\ Kind[w[1]] \in Async
  PROVE  SInv'
<1>1. db \in Database /\ db' \in Database /\ db' \in Basic /\ Rows(db) \subseteq Rows(db')
  BY DEF SInv, Keeps, Basic
<1>2. DistinctReferences => db' \in Sound(chosen')
  BY DEF SInv, Keeps
<1>3. InHand'
  BY <1>1 DEF SInv, InHand
<1>4. TypeOK'
  BY <1>1, DoneType DEF SInv, TypeOK
<1> QED
  BY <1>1, <1>2, <1>3, <1>4 DEF SInv

LEMMA OutcomesType ==
  ASSUME NEW d, NEW r, NEW s \in Outcomes(d, r), WrittenBack(s)
  PROVE  s = "IN_PROGRESS"
<1>1. JoinOutcome(d, r) \in {"FAILED", "COMPLETED", "IN_PROGRESS"}
  BY DEF JoinOutcome
<1>2. s \in {"FAILED", "COMPLETED", "IN_PROGRESS"}
  BY <1>1 DEF Outcomes
<1> QED
  BY <1>2 DEF WrittenBack, TerminalTask, TaskStatuses

LEMMA NextSInv == SInv /\ [Next]_vars => SInv'
<1> SUFFICES ASSUME SInv, [Next]_vars PROVE SInv'
  OBVIOUS
<1>0. /\ crashes \in 0..MaxCrashes /\ db \in Database
      /\ \A r \in Ref : db.queue[r] = "ready" => r \in Rows(db)
  BY DEF SInv, TypeOK, Basic, Pollable
<1>1. ASSUME NEW r \in Ref, Work(r) PROVE SInv'
  <2>1. r \in Rows(db)
    BY <1>0, <1>1 DEF Work
  <2>2. held' = held \cup {r} /\ Kind[r] = "SIMPLE" /\ UNCHANGED <<chosen, writing, crashes>>
    BY <1>1 DEF Work
  <2> QED
    BY <1>0, <1>1, <2>1, <2>2, WorkKeeps, KeepsSInv
<1>2. ASSUME NEW r \in Ref, Report(r) PROVE SInv'
  <2>1. held' \subseteq held /\ UNCHANGED <<chosen, writing, crashes>>
    BY <1>2 DEF Report
  <2> QED
    BY <1>0, <1>2, <2>1, ReportKeeps, KeepsSInv
<1>3. ASSUME NEW r \in Ref, Signal(r) PROVE SInv'
  <2>1. UNCHANGED <<chosen, writing, held, crashes>>
    BY <1>3 DEF Signal
  <2> QED
    BY <1>0, <1>3, <2>1, SignalKeeps, KeepsSInv
<1>4. ASSUME NEW r \in Ref, Execute(r) PROVE SInv'
  <2>1. UNCHANGED <<chosen, held, crashes>>
    BY <1>4 DEF Execute
  <2>2. ASSUME NEW w \in writing' \ writing
        PROVE  w \in Ref \X {"IN_PROGRESS"} /\ w[1] \in Rows(db) /\ Kind[w[1]] \in Async
    <3>1. PICK s \in Outcomes(db, r) :
            /\ writing' = IF WrittenBack(s) THEN writing \cup {<<r, s>>} ELSE writing
            /\ r \in Live(db) /\ Kind[r] \in Async
      BY <1>4, <2>2 DEF Execute
    <3>2. WrittenBack(s) /\ w = <<r, s>>
      BY <2>2, <3>1
    <3>3. s = "IN_PROGRESS"
      BY <3>2, OutcomesType
    <3> QED
      BY <3>1, <3>2, <3>3 DEF Live
  <2> QED
    BY <1>0, <1>4, <2>1, <2>2, ExecuteKeeps, KeepsSInv
<1>5. ASSUME NEW w \in writing, WriteBack(w) PROVE SInv'
  <2>1. writing' \subseteq writing /\ UNCHANGED <<chosen, held, crashes>>
    BY <1>5 DEF WriteBack
  <2> QED
    BY <1>0, <1>5, <2>1, WriteBackKeeps, KeepsSInv
<1>6. ASSUME NEW r \in db.promised, Resolve(r) PROVE SInv'
  <2>1. UNCHANGED <<chosen, writing, held, crashes>>
    BY <1>6 DEF Resolve
  <2> QED
    BY <1>0, <1>6, <2>1, ResolveKeeps, KeepsSInv
<1>7. CASE Sweep
  <2>1. UNCHANGED <<chosen, writing, held, crashes>>
    BY <1>7 DEF Sweep
  <2> QED
    BY <1>0, <1>7, <2>1, SweepKeeps, KeepsSInv
<1>8. CASE Terminate
  <2>1. UNCHANGED <<chosen, writing, held, crashes>>
    BY <1>8 DEF Terminate
  <2> QED
    BY <1>0, <1>8, <2>1, TerminateKeeps, KeepsSInv
<1>9. CASE Restart
  <2>1. writing' = {} /\ UNCHANGED <<chosen, held>> /\ crashes' = crashes + 1 /\ crashes < MaxCrashes
    BY <1>9 DEF Restart
  <2>2. crashes' \in 0..MaxCrashes
    BY <1>0, <2>1, ShapeAssumption
  <2> QED
    BY <1>9, <2>1, <2>2, RestartKeeps, KeepsSInv
<1>10. CASE UNCHANGED vars
  <2>1. UNCHANGED <<db, chosen, writing, held, crashes>>
    BY <1>10 DEF vars
  <2> QED
    BY <2>1 DEF SInv, TypeOK, InHand
<1> QED
  BY <1>1, <1>2, <1>3, <1>4, <1>5, <1>6, <1>7, <1>8, <1>9, <1>10 DEF Next

(***************************************************************************)
(* No turn leaves a workflow without an open task for ever.                   *)
(***************************************************************************)

(* A switch that others follow has at most cases that end the workflow.        *)
SwitchesGoOn ==
  \A i \in DOMAIN Top : Kind[Top[i]] = "SWITCH" /\ i < Len(Top) =>
    \A b \in Branches[Top[i]] : b = <<>> \/ Kind[b[1]] = "TERMINATE"

Idle(d) == ~ Ended(d) /\ Live(d) = {}

(* The first n tasks have rows.                                              *)
UpTo(d, n) == \A k \in DOMAIN Top : k <= n => Top[k] \in Rows(d)

LEMMA NextInTop ==
  ASSUME NEW c, NEW k \in DOMAIN Top, k < Len(Top), ~ (Kind[Top[k]] = "SWITCH" /\ c[Top[k]] # <<>>)
  PROVE  Top[k + 1] \in NextTask(c, Top[k])
BY DEF NextTask, Successor

(* A turn that leaves nothing open has gone one task further.                 *)
LEMMA IdleTurn ==
  ASSUME DistinctReferences, SwitchesGoOn, NEW c \in Choices, NEW d \in Sound(c), Idle(TurnOf(d, c))
  PROVE  /\ Idle(d)
         /\ \A n \in Nat : UpTo(d, n) => UpTo(TurnOf(d, c), n + 1)
         /\ ~ UpTo(d, Len(Top))
<1> DEFINE R == Proposals(d, c)
           e == TurnOf(d, c)
<1>1. d \in Basic /\ d \in Database /\ R \in SUBSET Ref /\ R \cap Rows(d) = {}
  BY ProposalsType DEF Sound, Basic
<1>2. \/ Ended(d) /\ e = d
      \/ Ended(e)
      \/ /\ ~ Ended(d) /\ ~ Failing(d) /\ ~ ByTask(d) /\ ~ AllDone(d, R)
         /\ Grows(d, e, R)
  BY <1>1, TurnCases DEF TurnOf, Settles
<1>3. /\ ~ Ended(d) /\ ~ Failing(d) /\ ~ ByTask(d) /\ ~ AllDone(d, R)
      /\ Grows(d, e, R)
  BY <1>2 DEF Idle
<1> HIDE DEF e
<1>4. /\ Rows(e) = Rows(d) \cup R /\ e \in Database /\ Live(e) = {}
      /\ \A r \in Rows(d) : e.status[r] = d.status[r]
  BY <1>1, <1>3, GrowsFacts DEF Grows, Idle, e
<1>5. Live(d) = {}
  <2>1. ASSUME NEW r \in Live(d) PROVE FALSE
    <3>1. r \in Ref /\ r \in Rows(d)
      BY <1>1, DoneType
    <3>2. r \in Live(e)
      BY <3>1, <1>1, <1>4, StatusFacts
    <3> QED
      BY <3>2, <1>4
  <2> QED
    BY <2>1
<1>6. Begun(d) /\ Whole(d, c) /\ Followed(d, c)
  BY DEF Sound
(* A switch that was followed by others chose no case.                        *)
<1>7. ASSUME NEW k \in DOMAIN Top, k < Len(Top), Top[k] \in Rows(d)
      PROVE  ~ (Kind[Top[k]] = "SWITCH" /\ c[Top[k]] # <<>>)
  <2>1. SUFFICES ASSUME Kind[Top[k]] = "SWITCH", c[Top[k]] # <<>> PROVE FALSE
    OBVIOUS
  <2> DEFINE b == c[Top[k]]
  <2>2. Top[k] \in TopRef /\ Top[k] \in Ref /\ b \in Branches[Top[k]]
    BY <2>1, TopType, ChoiceType
  <2>3. Kind[b[1]] = "TERMINATE"
    BY <2>1, <2>2, <1>7 DEF SwitchesGoOn
  <2>4. b[1] \in Mapped(c, Top[k])
    BY <2>1 DEF Mapped
  <2>5. b[1] \in Rows(d)
    BY <2>2, <2>4, <1>6, <1>7 DEF Whole
  <2>6. d.status[b[1]] = "COMPLETED"
    BY <2>3, <2>5, <1>1 DEF Basic, InstantDone, Instant
  <2> QED
    BY <2>3, <2>5, <2>6, <1>3 DEF ByTask
<1>8. ASSUME NEW k \in DOMAIN Top, k < Len(Top), Top[k] \in Rows(d)
      PROVE  Top[k + 1] \in Rows(e)
  <2>1. Top[k + 1] \in NextTask(c, Top[k])
    BY <1>7, <1>8, NextInTop
  <2>2. CASE Top[k] \in d.executed
    BY <2>1, <2>2, <1>4, <1>6 DEF Followed
  <2>3. CASE Top[k] \notin d.executed
    <3>1. d.status[Top[k]] \in TerminalTask
      BY <1>1, <1>5, <1>8, StatusFacts, TopType
    <3>2. Top[k] \in Done(d)
      BY <2>3, <3>1, <1>8 DEF Done
    <3>3. Top[k + 1] \in R \cup Rows(d)
      BY <2>1, <3>2, <1>8, SelfMapped, InFollowing, InProposals
    <3> QED
      BY <3>3, <1>4
  <2> QED
    BY <2>2, <2>3
<1>9. Top[1] \in Rows(e)
  <2>1. CASE Rows(d) = {}
    <3>1. Top[1] \in R
      BY <2>1, SelfMapped, InProposals
    <3> QED
      BY <3>1, <1>4
  <2>2. CASE Rows(d) # {}
    BY <2>2, <1>4, <1>6 DEF Begun
  <2> QED
    BY <2>1, <2>2
<1>10. ASSUME NEW n \in Nat, UpTo(d, n) PROVE UpTo(e, n + 1)
  <2>1. SUFFICES ASSUME NEW k \in DOMAIN Top, k <= n + 1 PROVE Top[k] \in Rows(e)
    BY DEF UpTo
  <2>2. k \in 1..Len(Top)
    BY TopType
  <2>3. CASE k = 1
    BY <2>3, <1>9
  <2>4. CASE k # 1
    <3>1. k - 1 \in DOMAIN Top /\ k - 1 < Len(Top) /\ k - 1 <= n /\ (k - 1) + 1 = k
      BY <2>1, <2>2, <2>4, TopType
    <3>2. Top[k - 1] \in Rows(d)
      BY <3>1, <1>10 DEF UpTo
    <3>3. Top[(k - 1) + 1] \in Rows(e)
      BY <3>1, <3>2, <1>8
    <3> QED
      BY <3>1, <3>3
  <2> QED
    BY <2>3, <2>4
<1>11. ~ UpTo(d, Len(Top))
  <2>1. SUFFICES ASSUME UpTo(d, Len(Top)) PROVE FALSE
    OBVIOUS
  <2>2. TopRef \subseteq Rows(d)
    BY <2>1, TopType DEF UpTo, TopRef
  <2>3. Rows(d) # {}
    BY <2>2, TopType
  <2>4. ASSUME NEW q \in R PROVE FALSE
    <3>1. PICK p \in TopRef : q \in Mapped(c, p)
      BY ProposedFrom
    <3>2. q \in Rows(d)
      BY <3>1, <2>2, <1>6 DEF Whole
    <3> QED
      BY <3>2, <1>1
  <2> QED
    BY <2>2, <2>4, <1>3, <1>5 DEF AllDone
<1> QED
  BY <1>3, <1>5, <1>10, <1>11 DEF Idle, e

(* After n turns the first n tasks have rows or something is open.             *)
LEMMA DecideNotIdle ==
  ASSUME DistinctReferences, SwitchesGoOn, NEW c \in Choices, NEW d \in Sound(c)
  PROVE  ~ Idle(Decide(d, c))
<1> DEFINE G(n) == {e \in Sound(c) : Idle(e) => n <= Len(Top) /\ UpTo(e, n)}
           S == [n \in 0..(Len(Top) + 1) |-> G(n)]
<1>1. Len(Top) \in Nat
  BY TopType
<1>2. /\ S[0] = G(0) /\ S[Len(Top) + 1] = G(Len(Top) + 1)
      /\ \A n \in 0..Len(Top) : S[n] = G(n) /\ S[n + 1] = G(n + 1)
  BY <1>1
<1>3. d \in G(0)
  <2>1. \A k \in DOMAIN Top : ~ (k <= 0)
    BY TopType
  <2> QED
    BY <2>1, <1>1 DEF UpTo
<1>4. ASSUME NEW n \in 0..Len(Top), NEW e \in G(n)
      PROVE  TurnOf(e, c) \in G(n + 1)
  <2>1. TurnOf(e, c) \in Sound(c)
    BY TurnSound
  <2>2. ASSUME Idle(TurnOf(e, c))
        PROVE  n + 1 <= Len(Top) /\ UpTo(TurnOf(e, c), n + 1)
    <3>1. Idle(e) /\ (UpTo(e, n) => UpTo(TurnOf(e, c), n + 1)) /\ ~ UpTo(e, Len(Top))
      BY <2>2, <1>1, IdleTurn
    <3>2. UpTo(e, n) /\ n <= Len(Top) /\ n # Len(Top)
      BY <3>1
    <3> QED
      BY <3>1, <3>2, <1>1
  <2> QED
    BY <2>1, <2>2
<1> HIDE DEF S
<1>5. PICK t \in S[Len(Top) + 1] : Decide(d, c) = Pushed(t)
  <2>1. d \in S[0]
    BY <1>2, <1>3
  <2>2. \A n \in 0..Len(Top) : \A e \in S[n] : TurnOf(e, c) \in S[n + 1]
    BY <1>2, <1>4
  <2> HIDE DEF G
  <2> QED
    BY <2>1, <2>2, DecideRuns
<1>6. t \in Sound(c) /\ ~ Idle(t)
  BY <1>1, <1>2, <1>5
<1>7. Touches(t, Pushed(t))
  <2>1. t \in Database
    BY <1>6 DEF Sound, Basic
  <2> QED
    BY <2>1, PushedIs DEF Touches
<1>8. Live(Pushed(t)) = Live(t) /\ (Ended(Pushed(t)) <=> Ended(t))
  BY <1>7, TouchIs
<1> QED
  BY <1>5, <1>6, <1>8 DEF Idle

Moving(d) == Idle(d) => d.decider = "ready"

LEMMA UpdateMoving ==
  ASSUME DistinctReferences, SwitchesGoOn, NEW d, NEW c \in Choices, d \in Sound(c), Moving(d),
         NEW r \in Rows(d), Kind[r] \notin Instant \cup {"PROMISE"}, NEW s \in TaskStatuses
  PROVE  Moving(UpdateTask(d, c, r, s))
<1>1. d \in Basic /\ d \in Database /\ r \in Ref
  BY DoneType DEF Sound, Basic
<1>2. CASE UpdateTask(d, c, r, s) = [d EXCEPT !.queue[r] = "absent"]
  <2>1. Touches(d, [d EXCEPT !.queue[r] = "absent"])
    BY <1>1, UnqueueTouches
  <2>2. Touches(d, UpdateTask(d, c, r, s)) /\ UpdateTask(d, c, r, s).decider = d.decider
    BY <1>1, <1>2, <2>1 DEF Database
  <2> QED
    BY <2>2, TouchIs DEF Moving, Idle
<1>3. CASE UpdateTask(d, c, r, s) = Decide(Stored(d, r, s), c) /\ r \in Live(d) /\ ~ Ended(d)
  <2>1. Stored(d, r, s) \in Sound(c)
    BY <1>1, <1>3, StoredIs
  <2> QED
    BY <1>3, <2>1, DecideNotIdle DEF Moving
<1> QED
  BY <1>1, <1>2, <1>3, UpdateCases

LEMMA SweepMoving ==
  ASSUME DistinctReferences, SwitchesGoOn, NEW c \in Choices, NEW d \in Sound(c), NEW e \in Sound(c)
  PROVE  Moving(SweepOf(d, e, c))
<1>1. d \in Database /\ e \in Database
  BY DEF Sound, Basic
<1>2. CASE SweepOf(d, e, c) = [e EXCEPT !.decider = "absent"] /\ Ended(e)
  <2>1. Touches(e, [e EXCEPT !.decider = "absent"])
    BY <1>1, DeciderTouches DEF Queue
  <2>2. Touches(e, SweepOf(d, e, c))
    BY <1>2, <2>1
  <2> QED
    BY <1>2, <2>2, TouchIs DEF Moving, Idle
<1>3. CASE Live(e) # {} /\ Touches(e, SweepOf(d, e, c))
  BY <1>3, TouchIs DEF Moving, Idle
<1>4. ASSUME NEW D \in SUBSET e.executed, SweepOf(d, e, c) = Decide([e EXCEPT !.executed = D], c)
      PROVE  Moving(SweepOf(d, e, c))
  <2> DEFINE f == [e EXCEPT !.executed = D]
  <2>1. f \in Sound(c)
    BY <1>1, ForgetTouches, TouchIs
  <2> HIDE DEF f
  <2>2. SweepOf(d, e, c) = Decide(f, c)
    BY <1>4 DEF f
  <2> QED
    BY <2>1, <2>2, DecideNotIdle DEF Moving
<1> QED
  BY <1>1, <1>2, <1>3, <1>4, SweepCases

LEMMA InitMoving ==
  ASSUME DistinctReferences, SwitchesGoOn, Init
  PROVE  Moving(db)
<1> DEFINE d == [wf |-> "RUNNING", status |-> [r \in Ref |-> None], executed |-> {},
                 last |-> None, queue |-> [r \in Ref |-> "absent"],
                 decider |-> "absent", promised |-> {}]
<1>1. chosen \in Choices /\ db = Decide(d, chosen)
  BY DEF Init
<1>2. d \in Sound(chosen)
  BY EmptyIsSound
<1> HIDE DEF d
<1> QED
  BY <1>1, <1>2, DecideNotIdle DEF Moving

LEMMA NextMoving ==
  ASSUME DistinctReferences, SwitchesGoOn, SInv, Moving(db), [Next]_vars
  PROVE  Moving(db')
<1>0. /\ db \in Basic /\ db \in Database /\ chosen \in Choices /\ db \in Sound(chosen)
      /\ db \in Sound(chosen)
  BY DEF SInv, TypeOK
<1>1. ASSUME NEW e, Touches(db, e), e.decider = db.decider PROVE Moving(e)
  BY <1>1, TouchIs DEF Moving, Idle
<1>2. ASSUME NEW r \in Ref, NEW q \in {"absent", "popped"} PROVE Moving([db EXCEPT !.queue[r] = q])
  <2>1. Touches(db, [db EXCEPT !.queue[r] = q])
    BY <1>0, UnqueueTouches
  <2>2. [db EXCEPT !.queue[r] = q].decider = db.decider
    BY <1>0 DEF Database
  <2> QED
    BY <2>1, <2>2, <1>1
<1>3. ASSUME NEW r \in Ref, Work(r) \/ Execute(r) PROVE Moving(db')
  BY <1>2, <1>3 DEF Work, Execute
<1>4. ASSUME NEW r \in Ref, Report(r) PROVE Moving(db')
  <2>1. r \in Rows(db) /\ Kind[r] = "SIMPLE"
    BY <1>4 DEF Report, SInv, InHand
  <2>2. PICK s \in {"COMPLETED", "FAILED"} : db' = UpdateTask(db, chosen, r, s)
    BY <1>4 DEF Report
  <2>3. Kind[r] \notin Instant \cup {"PROMISE"} /\ s \in TaskStatuses
    BY <2>1 DEF Instant, TaskStatuses
  <2> QED
    BY <1>0, <2>1, <2>2, <2>3, UpdateMoving
<1>5. ASSUME NEW r \in Ref, Signal(r) PROVE Moving(db')
  <2>1. r \in Rows(db) /\ Kind[r] \in {"WAIT", "HUMAN"} /\ db' = UpdateTask(db, chosen, r, "COMPLETED")
    BY <1>5 DEF Signal, Live
  <2>2. Kind[r] \notin Instant \cup {"PROMISE"} /\ "COMPLETED" \in TaskStatuses
    BY <2>1 DEF Instant, TaskStatuses
  <2> QED
    BY <1>0, <2>1, <2>2, UpdateMoving
<1>6. ASSUME NEW w \in writing, WriteBack(w) PROVE Moving(db')
  <2>1. w[1] \in Rows(db) /\ Kind[w[1]] \in Async /\ w[2] = "IN_PROGRESS"
    BY <1>6 DEF SInv, InHand, TypeOK
  <2>2. db' = UpdateTask(db, chosen, w[1], w[2])
    BY <1>6 DEF WriteBack
  <2>3. Kind[w[1]] \notin Instant \cup {"PROMISE"} /\ w[2] \in TaskStatuses
    BY <2>1 DEF Instant, Async, TaskStatuses
  <2> QED
    BY <1>0, <2>1, <2>2, <2>3, UpdateMoving
<1>7. ASSUME NEW r \in db.promised, Resolve(r) PROVE Moving(db')
  <2>1. db'.decider = "ready"
    BY <1>0, <1>7 DEF Resolve, Database
  <2> QED
    BY <2>1 DEF Moving
<1>8. CASE Sweep
  <2> DEFINE d == [db EXCEPT !.decider = "popped"]
             e == Decide(d, chosen)
  <2>1. db' = SweepOf(d, e, chosen)
    BY <1>8 DEF Sweep
  <2>2. Touches(db, d)
    BY <1>0, DeciderTouches DEF Queue
  <2> HIDE DEF d
  <2>3. d \in Sound(chosen)
    BY <1>0, <2>2, TouchIs
  <2>4. e \in Sound(chosen)
    BY <1>0, <2>3, DecideSound
  <2> HIDE DEF e
  <2> QED
    BY <1>0, <2>1, <2>3, <2>4, SweepMoving
<1>9. CASE Terminate
  <2>1. Settles(db, db')
    BY <1>0, <1>9, TerminatedIs DEF Terminate, TerminalWorkflow, WorkflowStatuses
  <2> QED
    BY <2>1 DEF Settles, Moving, Idle
<1>10. CASE Restart
  <2>1. db' = [db EXCEPT !.promised = {}, !.decider = IF Ended(db) THEN @ ELSE "ready"]
    BY <1>10 DEF Restart
  <2>2. db'.wf = db.wf /\ db'.decider = IF Ended(db) THEN db.decider ELSE "ready"
    BY <1>0, <2>1 DEF Database
  <2> QED
    BY <2>2 DEF Moving, Idle, Ended
<1>11. CASE UNCHANGED vars
  BY <1>11 DEF vars, Moving, Idle, Ended, Live, Rows
<1> QED
  BY <1>3, <1>4, <1>5, <1>6, <1>7, <1>8, <1>9, <1>10, <1>11 DEF Next

(***************************************************************************)
(* The theorems.                                                           *)
(***************************************************************************)

(* The invariant: rows in the order of the definition, complete with what each  *)
(* of them brings, and nothing polled, held or promised that has no row.        *)
THEOREM SystemInvariant == Spec => []SInv
BY InitSInv, NextSInv, PTL DEF Spec

(* The variables keep their types.                                            *)
THEOREM SystemTypes == Spec => []TypeOK
<1>1. SInv => TypeOK
  BY DEF SInv
<1> QED
  BY <1>1, SystemInvariant, PTL

(* A final status stays, whatever else is written late, unless a promise of the  *)
(* engine is still to be kept for its task (scheduleTask).                     *)
THEOREM OnlyPromisesRewrite ==
  Spec => [][\A r \in Ref \ db.promised :
               db.status[r] \in TerminalTask => db'.status[r] = db.status[r]]_vars
<1> DEFINE A == \A r \in Ref \ db.promised :
                  db.status[r] \in TerminalTask => db'.status[r] = db.status[r]
<1>1. Stays(db, db') => A
  BY DEF Stays
<1>2. SInv /\ [Next]_vars => [A]_vars
  <2> SUFFICES ASSUME SInv, Next PROVE A
    BY DEF vars
  <2>1. ASSUME NEW r \in Ref, Work(r) \/ Report(r) \/ Signal(r) \/ Execute(r) PROVE A
    BY <1>1, <2>1, WorkKeeps, ReportKeeps, SignalKeeps, ExecuteKeeps
  <2>2. ASSUME NEW w \in writing, WriteBack(w) PROVE A
    BY <1>1, <2>2, WriteBackKeeps
  <2>3. ASSUME NEW r \in db.promised, Resolve(r) PROVE A
    <3>1. db \in Database
      BY DEF SInv, TypeOK
    <3> QED
      BY <2>3, <3>1 DEF Resolve, Database
  <2>4. CASE Sweep \/ Terminate \/ Restart
    BY <1>1, <2>4, SweepKeeps, TerminateKeeps, RestartKeeps
  <2> HIDE DEF A
  <2> QED
    BY <2>1, <2>2, <2>3, <2>4 DEF Next
<1> HIDE DEF A
<1>3. Spec => [][A]_vars
  BY <1>2, SystemInvariant, PTL DEF Spec
<1> QED
  BY <1>3 DEF A

(* A final status stays in a definition without such tasks.                     *)
THEOREM FinalStatusStays ==
  ASSUME \A r \in Ref : Kind[r] # "PROMISE"
  PROVE  Spec => TerminalOnce
<1>1. SInv => db.promised = {}
  BY DEF SInv, TypeOK, Basic, Owed, Database
<1> DEFINE A == \A r \in Ref \ db.promised :
                  db.status[r] \in TerminalTask => db'.status[r] = db.status[r]
           B == \A r \in Ref : db.status[r] \in TerminalTask => db'.status[r] = db.status[r]
<1>2. SInv /\ [A]_vars => [B]_vars
  BY <1>1
<1>3. Spec => [][A]_vars
  BY OnlyPromisesRewrite
<1> HIDE DEF A, B
<1>4. Spec => [][B]_vars
  BY <1>2, <1>3, SystemInvariant, PTL
<1> QED
  BY <1>4 DEF B, TerminalOnce

(* A top-level task is there only after all before it succeeded.                 *)
THEOREM SequenceHolds ==
  ASSUME DistinctReferences
  PROVE  Spec => []InSequence
<1>1. SInv => InSequence
  BY DEF SInv, Sound, Ordered, InSequence
<1> QED
  BY <1>1, SystemInvariant, PTL

(* A workflow that ended leaves no message behind, if nothing ends it as COMPLETED *)
(* while tasks are open (endExecution, completeWorkflow).                       *)
THEOREM EndUnqueues ==
  ASSUME AbruptTerminate
  PROVE  Spec => []EndedIsUnqueued
<1>1. SInv => EndedIsUnqueued
  BY DEF SInv, Basic, Queued, EndedIsUnqueued
<1> QED
  BY <1>1, SystemInvariant, PTL

(* A workflow that completed without a TERMINATE task has run to success every    *)
(* top-level task, the task of every case its switches chose and all else it      *)
(* scheduled, if cases have one task (SwitchTaskMapper schedules no other).       *)
THEOREM ChosenAreDone ==
  ASSUME DistinctReferences,
         \A r \in Ref : Kind[r] = "SWITCH" => \A b \in Branches[r] : Len(b) <= 1
  PROVE  Spec => []CompletedMeansDone
<1>1. ASSUME SInv, TopRef \subseteq Rows(db), NEW r \in DOMAIN chosen, NEW i \in DOMAIN chosen[r]
      PROVE  chosen[r][i] \in Rows(db)
  <2>1. db \in Sound(chosen) /\ chosen \in Choices
    BY <1>1 DEF SInv, TypeOK
  <2>2. r \in Ref /\ Kind[r] = "SWITCH"
    BY <1>1, <2>1 DEF Choices
  <2>3. chosen[r] \in Branches[r] /\ r \in TopRef /\ chosen[r] \in Seq(Ref)
    BY <2>1, <2>2, ChoiceType, ShapeAssumption
  <2>4. i = 1 /\ chosen[r] # <<>>
    BY <1>1, <2>2, <2>3
  <2>5. chosen[r][1] \in Mapped(chosen, r)
    BY <2>2, <2>4 DEF Mapped
  <2> QED
    BY <1>1, <2>1, <2>3, <2>4, <2>5 DEF Sound, Whole
<1>2. ASSUME SInv PROVE CompletedMeansDone
  <2> DEFINE chosenTasks == UNION {{chosen[q][i] : i \in DOMAIN chosen[q]} : q \in DOMAIN chosen}
  <2>1. SUFFICES ASSUME db.wf = "COMPLETED", Unstopped(db),
                        NEW r \in TopRef \cup chosenTasks \cup Rows(db)
                 PROVE  db.status[r] \in TerminalTask \cap SuccessfulTask
    BY DEF CompletedMeansDone, Unstopped
  <2>2. Complete(db)
    BY <1>2, <2>1 DEF SInv, Basic, Earned
  <2>3. TopRef \subseteq Rows(db) /\ chosenTasks \subseteq Rows(db)
    BY <1>1, <1>2, <2>2 DEF Complete
  <2>4. r \in Rows(db)
    BY <2>1, <2>3
  <2> QED
    BY <2>2, <2>4 DEF Complete
<1> QED
  BY <1>2, SystemInvariant, PTL

(* A running workflow has an open task, a promise or a decision to come, if       *)
(* nothing follows a switch that has a case of its own to run (getNextTask).    *)
THEOREM SystemNeverStuck ==
  ASSUME DistinctReferences, SwitchesGoOn
  PROVE  Spec => []NeverStuck
<1> DEFINE I == SInv /\ Moving(db)
<1>1. Init => I
  BY InitSInv, InitMoving
<1>2. I /\ [Next]_vars => I'
  <2> SUFFICES ASSUME SInv, Moving(db), [Next]_vars PROVE SInv' /\ Moving(db')
    OBVIOUS
  <2> QED
    BY NextSInv, NextMoving
<1>3. I => NeverStuck
  <2>1. db.wf = "RUNNING" => ~ Ended(db)
    BY DEF Ended, TerminalWorkflow
  <2> QED
    BY <2>1 DEF Moving, Idle, NeverStuck
<1> HIDE DEF I
<1> QED
  BY <1>1, <1>2, <1>3, PTL DEF Spec
================================================================================
