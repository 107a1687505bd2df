-------------------------- MODULE SubWorkflowsProofs --------------------------
(***************************************************************************)
(* The tree of workflows, for every depth and number of attempts: names,     *)
(* loops, what each write keeps, and what follows for every operation.      *)
(***************************************************************************)
EXTENDS SubWorkflows, TLAPS, WellFoundedInduction

(***************************************************************************)
(* Names.                                                                  *)
(***************************************************************************)

LEMMA Bounds ==
  /\ Depth \in Nat /\ MaxAttempt \in Nat /\ MaxRequests \in Nat /\ MaxCrashes \in Nat
  /\ Attempt \subseteq Nat
BY TreeAssumption DEF Attempt

LEMMA NamesAre ==
  /\ \A r : (r \in Rows) <=> (r \in Seq(Attempt) /\ Len(r) \in 1..(Depth + 1))
  /\ \A w : (w \in Ids) <=> (w \in Seq(Attempt) /\ Len(w) \in 0..Depth)
<1>1. \A m \in Nat : \A r : (r \in [1..m -> Attempt]) <=> (r \in Seq(Attempt) /\ Len(r) = m)
  OBVIOUS
<1>2. \A n \in Nat : \A r : (r \in SeqOf(Attempt, n)) <=> (r \in Seq(Attempt) /\ Len(r) \in 0..n)
  <2> TAKE n \in Nat
  <2> TAKE r
  <2>1. (r \in SeqOf(Attempt, n)) <=> (\E m \in 0..n : r \in [1..m -> Attempt])
    BY DEF SeqOf
  <2>2. \A m \in 0..n : m \in Nat
    OBVIOUS
  <2> QED
    BY <2>1, <2>2, <1>1
<1>3. \A r \in Seq(Attempt) : (r = <<>>) <=> (Len(r) = 0)
  OBVIOUS
<1>4. Depth + 1 \in Nat
  BY Bounds
<1>5. \A r : (r \in Rows) <=> (r \in SeqOf(Attempt, Depth + 1) /\ r # <<>>)
  BY DEF Rows
<1>6. \A r : (r \in Rows) <=> (r \in Seq(Attempt) /\ Len(r) \in 1..(Depth + 1))
  BY <1>2, <1>3, <1>4, <1>5
<1> QED
  BY <1>2, <1>6, Bounds DEF Ids

LEMMA NameOfRow ==
  ASSUME NEW r \in Rows
  PROVE  /\ Front(r) \in Ids /\ Len(r) = Len(Front(r)) + 1
         /\ Last(r) \in Attempt /\ r = Child(Front(r), Last(r))
         /\ HasChild(r) <=> r \in Ids
         /\ r # <<>> /\ Len(r) \in Nat /\ Len(Front(r)) \in Nat
<1>1. r \in Seq(Attempt) /\ Len(r) \in 1..(Depth + 1) /\ Depth \in Nat
  BY NamesAre, Bounds
<1>2. Front(r) \in Seq(Attempt) /\ Len(Front(r)) = Len(r) - 1
  <2>1. Len(r) \in Nat /\ Len(r) - 1 \in 0..Len(r) /\ 1 \in 1..(Len(r) + 1) /\ Len(r) - 1 - 1 + 1 = Len(r) - 1
    BY <1>1
  <2>2. \A i \in 1..(Len(r) - 1) : i \in 1..Len(r) /\ r[i] \in Attempt
    BY <1>1, <2>1
  <2> QED
    BY <1>1, <2>1, <2>2 DEF Front
<1>3. Last(r) \in Attempt
  BY <1>1 DEF Last
<1>4. r = Front(r) \o <<Last(r)>>
  <2>1. r \in Seq(Attempt) /\ Front(r) \o <<Last(r)>> \in Seq(Attempt) /\ Len(Front(r) \o <<Last(r)>>) = Len(r)
    BY <1>1, <1>2, <1>3
  <2>2. \A i \in 1..Len(r) : (Front(r) \o <<Last(r)>>)[i] = r[i]
    BY <1>1, <1>2, <1>3 DEF Front, Last
  <2> QED
    BY <2>1, <2>2
<1>5. HasChild(r) <=> r \in Ids
  BY <1>1, NamesAre DEF HasChild
<1> QED
  BY <1>1, <1>2, <1>3, <1>4, <1>5, NamesAre DEF Child

LEMMA NameOfChild ==
  ASSUME NEW w \in Ids, NEW a \in Attempt
  PROVE  /\ Child(w, a) \in Rows /\ Front(Child(w, a)) = w /\ Last(Child(w, a)) = a
         /\ Len(Child(w, a)) = Len(w) + 1 /\ Len(w) \in Nat
<1>1. w \in Seq(Attempt) /\ Len(w) \in 0..Depth /\ Depth \in Nat
  BY NamesAre, Bounds
<1>2. Child(w, a) \in Seq(Attempt) /\ Len(Child(w, a)) = Len(w) + 1
  BY <1>1 DEF Child
<1>3. Child(w, a) \in Rows
  BY <1>1, <1>2, NamesAre
<1>4. Last(Child(w, a)) = a
  BY <1>1, <1>2 DEF Child, Last
<1>5. Front(Child(w, a)) = w
  <2>1. Front(Child(w, a)) \in Seq(Attempt) /\ Len(Front(Child(w, a))) = Len(w)
    BY <1>1, <1>2 DEF Front
  <2>2. \A i \in 1..Len(w) : Front(Child(w, a))[i] = w[i]
    BY <1>1, <1>2 DEF Front, Child
  <2> QED
    BY <1>1, <2>1, <2>2
<1> QED
  BY <1>1, <1>2, <1>3, <1>4, <1>5

LEMMA IdIsRow ==
  ASSUME NEW w \in Ids
  PROVE  /\ w # <<>> => w \in Rows
         /\ Len(w) \in Nat /\ Len(w) <= Depth
         /\ <<>> \in Ids
<1>1. w \in Seq(Attempt) /\ Len(w) \in 0..Depth /\ Depth \in Nat
  BY NamesAre, Bounds
<1>2. <<>> \in Seq(Attempt) /\ Len(<<>>) = 0
  OBVIOUS
<1>3. w # <<>> => Len(w) # 0
  BY <1>1
<1>4. Len(w) # 0 => Len(w) \in 1..(Depth + 1)
  BY <1>1
<1>5. 0 \in 0..Depth
  BY <1>1
<1>6. <<>> \in Ids
  BY <1>2, <1>5, NamesAre
<1> QED
  BY <1>1, <1>3, <1>4, <1>6, NamesAre

LEMMA RowsOfAre ==
  ASSUME NEW w \in Ids, NEW d
  PROVE  /\ RowsOf(d, w) \subseteq Rows /\ Live(d, w) \subseteq RowsOf(d, w)
         /\ \A r \in RowsOf(d, w) : Front(r) = w /\ Len(r) = Len(w) + 1
         /\ \A r \in Rows : Front(r) = w =>
              /\ (r \in RowsOf(d, w)) <=> (d.row[r] # None)
              /\ (r \in Live(d, w)) <=> (d.row[r] # None /\ d.row[r] \notin TerminalTask)
<1>1. \A r \in RowsOf(d, w) : \E a \in Attempt : r = Child(w, a)
  BY DEF RowsOf
<1>2. \A r \in Rows : Front(r) = w => \E a \in Attempt : r = Child(w, a)
  BY NameOfRow
<1>3. \A r \in RowsOf(d, w) : r \in Rows /\ Front(r) = w /\ Len(r) = Len(w) + 1
  BY <1>1, NameOfChild
<1>4. ASSUME NEW r \in Rows, Front(r) = w
      PROVE  (r \in RowsOf(d, w)) <=> (d.row[r] # None)
  BY <1>2, <1>4 DEF RowsOf
<1> QED
  BY <1>3, <1>4 DEF Live

(***************************************************************************)
(* Loops.                                                                  *)
(***************************************************************************)

LEMMA LeastExists ==
  ASSUME NEW T \in SUBSET Nat, T # {}
  PROVE  \E q \in T : \A p \in T : q <= p
<1> DEFINE R == OpToRel(<, Nat)
<1>1. IsWellFoundedOn(R, Nat)
  BY NatLessThanWellFounded
<1>2. \A x, y \in Nat : x < y => <<x, y>> \in R
  BY DEF OpToRel
<1> HIDE DEF R
<1>3. PICK q \in T : \A p \in T : <<p, q>> \notin R
  BY <1>1, WFMin
<1>4. ASSUME NEW p \in T PROVE q <= p
  <2>1. p \in Nat /\ q \in Nat
    OBVIOUS
  <2>2. ~ (p < q)
    BY <1>2, <1>3, <2>1
  <2> QED
    BY <2>1, <2>2
<1> QED
  BY <1>4

(* What a loop leads through a sequence of sets.                             *)
LEMMA LoopStays ==
  ASSUME NEW m \in Nat, NEW f, NEW T,
         f[0] \in T[0],
         \A n \in 1..m : f[n - 1] \in T[n - 1] => f[n] \in T[n]
  PROVE  \A n \in 0..m : f[n] \in T[n]
<1> DEFINE Bad == {n \in Nat : n <= m /\ f[n] \notin T[n]}
<1>1. SUFFICES ASSUME NEW n \in 0..m, n \in Bad PROVE FALSE
  OBVIOUS
<1>2. PICK k \in Bad : \A x \in Bad : k <= x
  <2>1. Bad \in SUBSET Nat /\ Bad # {}
    BY <1>1
  <2> QED
    BY <2>1, LeastExists
<1>3. k \in Nat /\ k <= m /\ f[k] \notin T[k] /\ k # 0
  BY <1>2
<1>4. k \in 1..m /\ k - 1 \in Nat /\ k - 1 <= m /\ ~ (k <= k - 1)
  BY <1>3
<1>5. k - 1 \notin Bad
  BY <1>2, <1>4
<1> QED
  BY <1>3, <1>4, <1>5

(* A function defined by its value at 0 and a step from each value to the next.  *)
StepOf(G, n, x) == G[<<n, x>>]
IsLoop(f, m, b, G) == f = [n \in 0..m |-> IF n = 0 THEN b ELSE StepOf(G, n, f[n - 1])]

LEMMA LoopExists ==
  ASSUME NEW G, NEW b, NEW m \in Nat
  PROVE  \E f : IsLoop(f, m, b, G)
<1> DEFINE Bad == {k \in Nat : \A f : ~ IsLoop(f, k, b, G)}
<1>1. SUFFICES ASSUME m \in Bad PROVE FALSE
  OBVIOUS
<1>2. PICK k \in Bad : \A x \in Bad : k <= x
  <2>1. Bad \in SUBSET Nat /\ Bad # {}
    BY <1>1
  <2> QED
    BY <2>1, LeastExists
<1>3. k \in Nat /\ \A f : ~ IsLoop(f, k, b, G)
  BY <1>2
<1>4. CASE k = 0
  <2> DEFINE f == [n \in 0..0 |-> IF n = 0 THEN b ELSE StepOf(G, n, b)]
  <2>1. IsLoop(f, 0, b, G)
    <3>1. \A n \in 0..0 : n = 0
      OBVIOUS
    <3> QED
      BY <3>1 DEF IsLoop
  <2> QED
    BY <1>3, <1>4, <2>1
<1>5. CASE k # 0
  <2>1. k - 1 \in Nat /\ ~ (k <= k - 1)
    BY <1>3, <1>5
  <2>2. k - 1 \notin Bad
    BY <2>1, <1>2
  <2> HIDE DEF Bad
  <2>3. PICK f : IsLoop(f, k - 1, b, G)
    BY <2>1, <2>2 DEF Bad
  <2> DEFINE g == [n \in 0..k |-> IF n = k THEN StepOf(G, k, f[k - 1]) ELSE f[n]]
  <2>4. ASSUME NEW n \in 0..k
        PROVE  g[n] = IF n = 0 THEN b ELSE StepOf(G, n, g[n - 1])
    <3>1. CASE n = k
      <4>1. g[n] = StepOf(G, k, f[k - 1]) /\ k - 1 \in 0..k /\ k - 1 # k
        BY <3>1, <2>1, <1>3
      <4>2. g[n - 1] = f[k - 1]
        BY <3>1, <4>1
      <4> QED
        BY <4>1, <4>2, <3>1, <1>5
    <3>2. CASE n # k
      <4>1. n \in 0..(k - 1) /\ g[n] = f[n]
        BY <3>2, <2>1, <1>3
      <4>2. n # 0 => n - 1 \in 0..k /\ n - 1 # k
        BY <4>1, <2>1, <1>3
      <4>3. n # 0 => g[n - 1] = f[n - 1]
        BY <4>2
      <4>4. f[n] = IF n = 0 THEN b ELSE StepOf(G, n, f[n - 1])
        BY <2>3, <4>1 DEF IsLoop
      <4> QED
        BY <4>1, <4>3, <4>4
    <3> QED
      BY <3>1, <3>2
  <2>5. g = [n \in 0..k |-> g[n]]
    OBVIOUS
  <2> HIDE DEF g
  <2>6. IsLoop(g, k, b, G)
    BY <2>4, <2>5 DEF IsLoop
  <2> QED
    BY <1>3, <2>6
<1> QED
  BY <1>4, <1>5

(* ... whose steps are known as long as its values stay in a set.              *)
LEMMA LoopRuns ==
  ASSUME NEW G, NEW b, NEW m \in Nat, NEW S, b \in S,
         \A n \in 1..m : \A x \in S : StepOf(G, n, x) \in S,
         NEW f, IsLoop(f, m, b, G)
  PROVE  /\ f[0] = b
         /\ \A n \in 1..m : f[n - 1] \in S /\ f[n] = StepOf(G, n, f[n - 1])
         /\ \A n \in 0..m : f[n] \in S
<1>1. 0 \in 0..m /\ \A n \in 1..m : n \in 0..m /\ n # 0 /\ n - 1 \in 0..m
  OBVIOUS
<1>2. f[0] = b /\ \A n \in 1..m : f[n] = StepOf(G, n, f[n - 1])
  BY <1>1 DEF IsLoop
<1> DEFINE T == [n \in 0..m |-> S]
<1>3. f[0] \in T[0] /\ \A n \in 1..m : f[n - 1] \in T[n - 1] => f[n] \in T[n]
  BY <1>1, <1>2
<1> HIDE DEF T
<1>4. \A n \in 0..m : f[n] \in T[n]
  BY <1>3, LoopStays
<1>5. \A n \in 0..m : f[n] \in S
  BY <1>4 DEF T
<1> QED
  BY <1>1, <1>2, <1>5

(***************************************************************************)
(* Sequences of databases.                                                 *)
(***************************************************************************)

Trail(S) == Seq(S) \ {<<>>}

LEMMA TheOne ==
  \A x : The({x}) = x
BY DEF The

LEMMA TrailFacts ==
  ASSUME NEW S
  PROVE  /\ \A t \in Trail(S) : Last(t) \in S /\ t \in Seq(S) /\ Len(t) \in Nat \ {0}
         /\ \A d \in S : <<d>> \in Trail(S) /\ Last(<<d>>) = d
         /\ \A t \in Trail(S), d \in S : Append(t, d) \in Trail(S) /\ Last(Append(t, d)) = d
         /\ \A t, u \in Trail(S) : t \o u \in Trail(S) /\ Last(t \o u) = Last(u)
         /\ \A t \in Trail(S) : t \o <<>> = t
         /\ \A t \in Trail(S) : \A n \in 1..Len(t) : t[n] \in S
<1>1. \A t \in Trail(S) : Last(t) \in S /\ t \in Seq(S) /\ Len(t) \in Nat \ {0}
  BY DEF Trail, Last
<1>2. \A d \in S : <<d>> \in Trail(S) /\ Last(<<d>>) = d
  BY DEF Trail, Last
<1>3. \A t \in Trail(S), d \in S : Append(t, d) \in Trail(S) /\ Last(Append(t, d)) = d
  BY DEF Trail, Last
<1>4. \A t, u \in Trail(S) : t \o u \in Trail(S) /\ Last(t \o u) = Last(u)
  BY DEF Trail, Last
<1>5. \A t \in Trail(S) : t \o <<>> = t
  BY DEF Trail
<1>6. \A t \in Trail(S) : \A n \in 1..Len(t) : t[n] \in S
  BY DEF Trail
<1> QED
  BY <1>1, <1>2, <1>3, <1>4, <1>5, <1>6

LEMMA TrailJoins ==
  ASSUME NEW S, NEW t \in Trail(S), NEW u \in Trail(S)
  PROVE  t \o u \in Trail(S) /\ Last(t \o u) = Last(u)
BY DEF Trail, Last

LEMMA TwoSteps ==
  ASSUME NEW S, NEW a \in S, NEW b \in S
  PROVE  <<a>> \o <<b>> = <<a, b>>
<1> DEFINE x == <<a>> \o <<b>>
           y == <<a, b>>
<1>1. x \in Seq(S) /\ y \in Seq(S) /\ Len(x) = 2 /\ Len(y) = 2
  OBVIOUS
<1>2. x[1] = a /\ x[2] = b /\ y[1] = a /\ y[2] = b
  OBVIOUS
<1>3. \A n \in 1..2 : n = 1 \/ n = 2
  OBVIOUS
<1> HIDE DEF x, y
<1>4. \A n \in 1..Len(x) : x[n] = y[n]
  BY <1>1, <1>2, <1>3
<1>5. x = y
  BY <1>1, <1>4
<1> QED
  BY <1>5 DEF x, y

LEMMA TrailWidens ==
  ASSUME NEW S, NEW T, S \subseteq T
  PROVE  Trail(S) \subseteq Trail(T)
BY DEF Trail

(***************************************************************************)
(* What each write does to a database.                                     *)
(***************************************************************************)

LEMMA Fields ==
  /\ \A d \in Database :
       /\ d.wf \in [Ids -> WorkflowStatuses \cup {None}]
       /\ d.row \in [Rows -> TaskStatuses \cup {None}]
       /\ d.known \subseteq Rows /\ d.executed \subseteq Rows /\ d.retried \subseteq Rows
       /\ d.queue \in [Rows -> Queue] /\ d.decider \in [Ids -> Queue]
       /\ d = [wf |-> d.wf, row |-> d.row, known |-> d.known, executed |-> d.executed,
               retried |-> d.retried, queue |-> d.queue, decider |-> d.decider]
  /\ None \notin WorkflowStatuses /\ None \notin TaskStatuses
  /\ {"absent", "ready", "popped"} = Queue
BY DEF Database, None, WorkflowStatuses, TaskStatuses, Queue

LEMMA TaskIsSet ==
  ASSUME NEW d \in Database, NEW r \in Rows, NEW s \in TaskStatuses
  PROVE  /\ SetTask(d, r, s) \in Database
         /\ SetTask(d, r, s).wf = d.wf /\ SetTask(d, r, s).known = d.known
         /\ SetTask(d, r, s).decider = d.decider
         /\ SetTask(d, r, s).row[r] = s
         /\ \A q \in Rows : q # r => SetTask(d, r, s).row[q] = d.row[q]
         /\ SetTask(d, r, s).executed = d.executed /\ SetTask(d, r, s).retried = d.retried
BY DEF SetTask, Database

LEMMA WorkflowIsSet ==
  ASSUME NEW d \in Database, NEW w \in Ids, NEW s \in WorkflowStatuses
  PROVE  /\ SetWorkflow(d, w, s) \in Database
         /\ SetWorkflow(d, w, s).row = d.row /\ SetWorkflow(d, w, s).known = d.known
         /\ SetWorkflow(d, w, s).decider = d.decider
         /\ SetWorkflow(d, w, s).wf[w] = s
         /\ \A v \in Ids : v # w => SetWorkflow(d, w, s).wf[v] = d.wf[v]
         /\ SetWorkflow(d, w, s).executed = d.executed /\ SetWorkflow(d, w, s).retried = d.retried
BY DEF SetWorkflow, Database

LEMMA DeciderIsSet ==
  ASSUME NEW d \in Database, NEW w \in Ids, NEW q \in Queue
  PROVE  /\ SetDecider(d, w, q) \in Database
         /\ SetDecider(d, w, q).wf = d.wf /\ SetDecider(d, w, q).row = d.row
         /\ SetDecider(d, w, q).known = d.known
         /\ SetDecider(d, w, q).decider[w] = q
         /\ \A v \in Ids : v # w => SetDecider(d, w, q).decider[v] = d.decider[v]
         /\ SetDecider(d, w, q).executed = d.executed /\ SetDecider(d, w, q).retried = d.retried
BY DEF SetDecider, Database

LEMMA QueueIsSet ==
  ASSUME NEW d \in Database, NEW R, NEW q \in Queue
  PROVE  /\ SetQueue(d, R, q) \in Database
         /\ SetQueue(d, R, q).wf = d.wf /\ SetQueue(d, R, q).row = d.row
         /\ SetQueue(d, R, q).known = d.known /\ SetQueue(d, R, q).decider = d.decider
         /\ SetQueue(d, R, q).executed = d.executed /\ SetQueue(d, R, q).retried = d.retried
BY DEF SetQueue, Database

LEMMA RowIsKnown ==
  ASSUME NEW d \in Database, NEW r \in Rows
  PROVE  /\ Know(d, r) \in Database
         /\ Know(d, r).wf = d.wf /\ Know(d, r).row = d.row /\ Know(d, r).decider = d.decider
         /\ Know(d, r).known = d.known \cup {r}
         /\ Know(d, r).executed = d.executed /\ Know(d, r).retried = d.retried
BY DEF Know, Database

LEMMA StatusOfEnd ==
  /\ \A s \in WorkflowStatuses : TaskStatusOf(s) \in TaskStatuses
  /\ \A s \in TerminalWorkflow : TaskStatusOf(s) \in TerminalTask
  /\ \A s \in WorkflowStatuses : (TaskStatusOf(s) = "COMPLETED") <=> (s = "COMPLETED")
  /\ TaskStatusOf("TERMINATED") = "CANCELED" /\ TaskStatusOf("COMPLETED") = "COMPLETED"
  /\ TerminalWorkflow \subseteq WorkflowStatuses /\ TerminalTask \subseteq TaskStatuses
  /\ {"TERMINATED", "FAILED", "COMPLETED"} \subseteq TerminalWorkflow
  /\ "RUNNING" \in WorkflowStatuses /\ "RUNNING" \notin TerminalWorkflow
  /\ {"CANCELED", "COMPLETED", "FAILED"} \subseteq TerminalTask
  /\ {"IN_PROGRESS", "SCHEDULED"} \subseteq TaskStatuses
  /\ "IN_PROGRESS" \notin TerminalTask /\ "SCHEDULED" \notin TerminalTask
BY DEF TaskStatusOf, WorkflowStatuses, TerminalWorkflow, TaskStatuses, TerminalTask

(***************************************************************************)
(* The invariant of every database an operation passes through ...          *)
(***************************************************************************)

(* Nobody reopens workflows, or no crash interrupts it.                      *)
Steady == MaxCrashes = 0 \/ Requests \subseteq {"terminate"}

Covered(d, r) == HasChild(r) /\ d.row[r] = "COMPLETED" => d.wf[r] = "COMPLETED"
Settled(d, w) == Over(d, w) => Live(d, w) = {}

Good == {d \in Database :
           Steady => (\A r \in Rows : Covered(d, r)) /\ (\A w \in Ids : Settled(d, w))}

(* ... and of those it leads to, unless one crashes or restarts are asked for.   *)
Unbroken == MaxCrashes = 0 /\ "restart" \notin Requests

Agreed(d) ==
  \A r \in d.known : /\ HasChild(r) /\ d.row[r] # None
                     /\ Over(d, r) => d.row[r] = TaskStatusOf(d.wf[r])
Awake(d, w) == d.wf[w] = "RUNNING" => Live(d, w) # {} \/ d.decider[w] = "ready"

LEMMA GoodIs ==
  /\ Good \subseteq Database
  /\ \A d \in Good : Steady => (\A r \in Rows : Covered(d, r)) /\ (\A w \in Ids : Settled(d, w))
  /\ Unbroken => Steady
BY DEF Good, Unbroken, Steady

(* Of the tables, Good reads the statuses.                                    *)
LEMMA GoodSame ==
  ASSUME NEW d \in Good, NEW e \in Database, e.wf = d.wf, e.row = d.row
  PROVE  e \in Good
<1>1. \A r \in Rows : Covered(d, r) => Covered(e, r)
  BY DEF Covered
<1>2. \A w \in Ids : Settled(d, w) => Settled(e, w)
  BY DEF Settled, Over, Live, RowsOf
<1> QED
  BY <1>1, <1>2 DEF Good

LEMMA GoodTask ==
  ASSUME NEW d \in Good, NEW r \in Rows, NEW s \in TaskStatuses,
         Steady => (HasChild(r) /\ s = "COMPLETED" => d.wf[r] = "COMPLETED"),
         Steady => s \in TerminalTask \/ ~ Over(d, Front(r))
  PROVE  SetTask(d, r, s) \in Good
<1> DEFINE e == SetTask(d, r, s)
<1>1. d \in Database
  BY GoodIs
<1>2. /\ e \in Database /\ e.wf = d.wf /\ e.row[r] = s
      /\ \A q \in Rows : q # r => e.row[q] = d.row[q]
  BY <1>1, TaskIsSet
<1> HIDE DEF e
<1>3. ASSUME Steady, NEW q \in Rows PROVE Covered(e, q)
  BY <1>2, <1>3, GoodIs DEF Covered
<1>4. ASSUME Steady, NEW w \in Ids PROVE Settled(e, w)
  <2>1. SUFFICES ASSUME Over(e, w), NEW q \in Live(e, w) PROVE FALSE
    BY DEF Settled
  <2>2. Over(d, w) /\ Live(d, w) = {}
    BY <2>1, <1>2, <1>4, GoodIs DEF Over, Settled
  <2>3. q \in Rows /\ Front(q) = w /\ e.row[q] # None /\ e.row[q] \notin TerminalTask
    BY <2>1, RowsOfAre
  <2>4. q # r
    BY <2>2, <2>3, <1>2, <1>4
  <2>5. q \in Live(d, w)
    BY <2>3, <2>4, <1>2, RowsOfAre
  <2> QED
    BY <2>2, <2>5
<1>5. e \in Good
  BY <1>2, <1>3, <1>4 DEF Good
<1> QED
  BY <1>5 DEF e

LEMMA GoodWorkflow ==
  ASSUME NEW d \in Good, NEW w \in Ids, NEW s \in WorkflowStatuses,
         Steady => (s \in TerminalWorkflow => Live(d, w) = {}),
         Steady => (w # <<>> /\ d.row[w] = "COMPLETED" => s = "COMPLETED")
  PROVE  SetWorkflow(d, w, s) \in Good
<1> DEFINE e == SetWorkflow(d, w, s)
<1>1. d \in Database
  BY GoodIs
<1>2. /\ e \in Database /\ e.row = d.row /\ e.wf[w] = s
      /\ \A v \in Ids : v # w => e.wf[v] = d.wf[v]
  BY <1>1, WorkflowIsSet
<1> HIDE DEF e
<1>3. ASSUME Steady, NEW q \in Rows PROVE Covered(e, q)
  <2>1. SUFFICES ASSUME HasChild(q), e.row[q] = "COMPLETED" PROVE e.wf[q] = "COMPLETED"
    BY DEF Covered
  <2>2. q \in Ids /\ q # <<>> /\ d.wf[q] = "COMPLETED"
    BY <2>1, <1>2, <1>3, NameOfRow, GoodIs DEF Covered
  <2> QED
    BY <2>1, <2>2, <1>2, <1>3
<1>4. ASSUME Steady, NEW v \in Ids PROVE Settled(e, v)
  <2>1. Live(e, v) = Live(d, v)
    BY <1>2 DEF Live, RowsOf
  <2>2. Settled(d, v)
    BY <1>4, GoodIs
  <2> QED
    BY <2>1, <2>2, <1>2, <1>4 DEF Settled, Over
<1>5. e \in Good
  BY <1>2, <1>3, <1>4 DEF Good
<1> QED
  BY <1>5 DEF e

LEMMA GoodOthers ==
  ASSUME NEW d \in Good
  PROVE  /\ \A w \in Ids : \A q \in Queue : SetDecider(d, w, q) \in Good
         /\ \A R : \A q \in Queue : SetQueue(d, R, q) \in Good
         /\ \A r \in Rows : Know(d, r) \in Good
<1>1. d \in Database
  BY GoodIs
<1> QED
  BY <1>1, DeciderIsSet, QueueIsSet, RowIsKnown, GoodSame

(***************************************************************************)
(* The end of a workflow.                                                  *)
(***************************************************************************)

(* e differs from d by what the end of w in status s changes, outside the queues. *)
Ended(d, e, w, s) ==
  /\ e \in Good
  /\ e.wf[w] = s /\ \A v \in Ids : v # w => e.wf[v] = d.wf[v]
  /\ \A q \in Rows : q # w => e.row[q] = d.row[q]
  /\ w # <<>> => e.row[w] = d.row[w] \/ e.row[w] \in TerminalTask
  /\ d.known \subseteq e.known /\ e.known \subseteq d.known \cup {w}
  /\ w # <<>> /\ w \in e.known => e.row[w] = TaskStatusOf(s)
  /\ w # <<>> => e.decider[Front(w)] = "ready"
  /\ \A v \in Ids : v # w /\ (w = <<>> \/ v # Front(w)) => e.decider[v] = d.decider[v]

LEMMA ParentTold ==
  ASSUME NEW d \in Good, NEW w \in Ids, w # <<>>, Over(d, w)
  PROVE  /\ TellParent(d, w) \in Trail(Good)
         /\ LET e == Last(TellParent(d, w))
            IN /\ e \in Good /\ e.wf = d.wf
               /\ \A q \in Rows : q # w => e.row[q] = d.row[q]
               /\ e.row[w] = d.row[w] \/ e.row[w] \in TerminalTask
               /\ d.known \subseteq e.known /\ e.known \subseteq d.known \cup {w}
               /\ w \in e.known => e.row[w] = TaskStatusOf(d.wf[w])
               /\ e.decider[Front(w)] = "ready"
               /\ \A v \in Ids : v # Front(w) => e.decider[v] = d.decider[v]
<1> DEFINE t == SubWorkflowExecute(d, w)
           s == TaskStatusOf(d.wf[w])
           a == SetTask(d, w, s)
           e == SetDecider(t, Front(w), "ready")
<1>1. /\ d \in Database /\ w \in Rows /\ Front(w) \in Ids /\ w # Front(w) /\ HasChild(w)
      /\ {"ready"} \subseteq Queue
  BY IdIsRow, NameOfRow, GoodIs, Fields
<1>2. s \in TerminalTask /\ s \in TaskStatuses /\ (s = "COMPLETED" => d.wf[w] = "COMPLETED")
  BY StatusOfEnd DEF Over
<1>3. /\ a \in Good /\ a.wf = d.wf /\ a.row[w] = s /\ a.known = d.known /\ a.decider = d.decider
      /\ \A q \in Rows : q # w => a.row[q] = d.row[q]
  BY <1>1, <1>2, TaskIsSet, GoodTask
<1>4. /\ Know(a, w) \in Good /\ Know(a, w).wf = d.wf /\ Know(a, w).row = a.row
      /\ Know(a, w).known = d.known \cup {w} /\ Know(a, w).decider = d.decider
  BY <1>1, <1>3, RowIsKnown, GoodOthers, GoodIs
<1> HIDE DEF a, s
<1>5. /\ t \in Good /\ t.wf = d.wf /\ \A q \in Rows : q # w => t.row[q] = d.row[q]
      /\ t.row[w] = d.row[w] \/ t.row[w] \in TerminalTask
      /\ d.known \subseteq t.known /\ t.known \subseteq d.known \cup {w}
      /\ w \in t.known => t.row[w] = s
      /\ t.decider = d.decider
  <2>1. t = a \/ (t = d /\ w \notin d.known) \/ t = Know(a, w)
    BY DEF SubWorkflowExecute, a, s
  <2> HIDE DEF t
  <2> QED
    BY <2>1, <1>1, <1>2, <1>3, <1>4
<1> HIDE DEF t
<1>6. /\ e \in Good /\ e.wf = t.wf /\ e.row = t.row /\ e.known = t.known
      /\ e.decider[Front(w)] = "ready"
      /\ \A v \in Ids : v # Front(w) => e.decider[v] = t.decider[v]
  BY <1>1, <1>5, DeciderIsSet, GoodOthers, GoodIs
<1>7. TellParent(d, w) = <<t, e>>
  BY DEF TellParent, t, e
<1> HIDE DEF e
<1>8. <<t, e>> \in Trail(Good) /\ Last(<<t, e>>) = e
  BY <1>5, <1>6 DEF Trail, Last
<1>9. Last(TellParent(d, w)) = e /\ TellParent(d, w) \in Trail(Good)
  BY <1>7, <1>8
<1> HIDE DEF s
<1>10. w \in e.known => e.row[w] = s
  BY <1>5, <1>6
<1>11. w \in e.known => e.row[w] = TaskStatusOf(d.wf[w])
  BY <1>10 DEF s
<1> QED
  BY <1>5, <1>6, <1>9, <1>11

LEMMA EndGood ==
  ASSUME NEW d \in Good, NEW w \in Ids, NEW s \in {"TERMINATED", "FAILED"},
         Steady => Live(d, w) = {} /\ (w # <<>> => d.row[w] # "COMPLETED")
  PROVE  EndSteps(d, w, s) \in Trail(Good) /\ Ended(d, Last(EndSteps(d, w, s)), w, s)
<1> DEFINE a == SetDecider(d, w, "absent")
           b == SetWorkflow(a, w, s)
           c == SetQueue(b, RowsOf(b, w), "absent")
           told == TellParent(c, w)
<1>1. /\ d \in Database /\ {"absent", "ready"} \subseteq Queue
      /\ s \in WorkflowStatuses /\ s \in TerminalWorkflow
  BY GoodIs, Fields, StatusOfEnd
<1>2. /\ a \in Good /\ a \in Database /\ a.wf = d.wf /\ a.row = d.row /\ a.known = d.known
      /\ \A v \in Ids : v # w => a.decider[v] = d.decider[v]
  BY <1>1, DeciderIsSet, GoodOthers, GoodIs
<1>0. EndSteps(d, w, s) = <<a, b, c>> \o The({TellParent(e, w) : e \in {c}})
  BY DEF EndSteps
<1> HIDE DEF a
<1>3. Live(a, w) = Live(d, w)
  BY <1>2 DEF Live, RowsOf
<1>4. /\ b \in Good /\ b \in Database /\ b.row = d.row /\ b.known = d.known /\ b.wf[w] = s
      /\ b.decider = a.decider
      /\ \A v \in Ids : v # w => b.wf[v] = d.wf[v]
  BY <1>1, <1>2, <1>3, WorkflowIsSet, GoodWorkflow, GoodIs
<1> HIDE DEF b
<1>5. /\ c \in Good /\ c \in Database /\ c.row = d.row /\ c.known = d.known /\ c.wf = b.wf
      /\ c.decider = a.decider
  BY <1>1, <1>4, QueueIsSet, GoodOthers, GoodIs
<1> HIDE DEF c
<1>6. Over(c, w)
  BY <1>1, <1>4, <1>5 DEF Over
<1>7. <<a, b, c>> \in Trail(Good) /\ Last(<<a, b, c>>) = c
  BY <1>2, <1>4, <1>5 DEF Trail, Last
<1>8. EndSteps(d, w, s) = <<a, b, c>> \o told
  <2>1. {TellParent(e, w) : e \in {c}} = {told}
    OBVIOUS
  <2> QED
    BY <1>0, <2>1, TheOne
<1>9. CASE w = <<>>
  <2>1. told = <<>>
    BY <1>9 DEF TellParent
  <2>2. EndSteps(d, w, s) = <<a, b, c>>
    BY <1>7, <1>8, <2>1, TrailFacts
  <2> QED
    BY <2>2, <1>2, <1>4, <1>5, <1>7, <1>9 DEF Ended
<1>10. CASE w # <<>>
  <2> DEFINE e == Last(told)
  <2>1. /\ told \in Trail(Good) /\ e \in Good /\ e.wf = c.wf
        /\ \A q \in Rows : q # w => e.row[q] = c.row[q]
        /\ e.row[w] = c.row[w] \/ e.row[w] \in TerminalTask
        /\ c.known \subseteq e.known /\ e.known \subseteq c.known \cup {w}
        /\ w \in e.known => e.row[w] = TaskStatusOf(c.wf[w])
        /\ e.decider[Front(w)] = "ready"
        /\ \A v \in Ids : v # Front(w) => e.decider[v] = c.decider[v]
    BY <1>5, <1>6, <1>10, ParentTold
  <2>2. EndSteps(d, w, s) \in Trail(Good) /\ Last(EndSteps(d, w, s)) = e
    <3> HIDE DEF told
    <3> QED
      BY <1>7, <1>8, <2>1, TrailJoins
  <2> HIDE DEF e, told
  <2>3. Ended(d, e, w, s)
    BY <2>1, <1>2, <1>4, <1>5, <1>10 DEF Ended
  <2> QED
    BY <2>2, <2>3
<1> QED
  BY <1>9, <1>10

LEMMA CompleteGood ==
  ASSUME NEW d \in Good, NEW w \in Ids, Live(d, w) = {}
  PROVE  CompleteSteps(d, w) \in Trail(Good) /\ Ended(d, Last(CompleteSteps(d, w)), w, "COMPLETED")
<1> DEFINE c == SetWorkflow(d, w, "COMPLETED")
           told == TellParent(c, w)
           all == <<c>> \o told
           f == Last(all)
           e == SetDecider(f, w, "absent")
<1>1. /\ d \in Database /\ {"absent", "ready"} \subseteq Queue
      /\ "COMPLETED" \in WorkflowStatuses /\ "COMPLETED" \in TerminalWorkflow
  BY GoodIs, Fields, StatusOfEnd
<1>2. /\ c \in Good /\ c \in Database /\ c.row = d.row /\ c.known = d.known
      /\ c.wf[w] = "COMPLETED" /\ c.decider = d.decider
      /\ \A v \in Ids : v # w => c.wf[v] = d.wf[v]
  BY <1>1, WorkflowIsSet, GoodWorkflow, GoodIs
<1>3. CompleteSteps(d, w) = Append(all, e)
  BY TheOne DEF CompleteSteps
<1> HIDE DEF c
<1>4. Over(c, w)
  BY <1>1, <1>2 DEF Over
<1>5. /\ all \in Trail(Good) /\ f \in Good /\ f.wf = c.wf
      /\ \A q \in Rows : q # w => f.row[q] = c.row[q]
      /\ w # <<>> => f.row[w] = c.row[w] \/ f.row[w] \in TerminalTask
      /\ c.known \subseteq f.known /\ f.known \subseteq c.known \cup {w}
      /\ w # <<>> /\ w \in f.known => f.row[w] = TaskStatusOf(c.wf[w])
      /\ w # <<>> => f.decider[Front(w)] = "ready"
      /\ \A v \in Ids : w = <<>> \/ v # Front(w) => f.decider[v] = c.decider[v]
  <2>0. <<c>> \in Trail(Good) /\ Last(<<c>>) = c
    BY <1>2, TrailFacts
  <2>1. CASE w = <<>>
    <3>1. told = <<>>
      BY <2>1 DEF TellParent
    <3>2. all = <<c>>
      BY <3>1, <2>0, TrailFacts
    <3> QED
      BY <3>2, <2>0, <2>1, <1>2
  <2>2. CASE w # <<>>
    <3> DEFINE g == Last(told)
    <3>1. /\ told \in Trail(Good) /\ g \in Good /\ g.wf = c.wf
          /\ \A q \in Rows : q # w => g.row[q] = c.row[q]
          /\ g.row[w] = c.row[w] \/ g.row[w] \in TerminalTask
          /\ c.known \subseteq g.known /\ g.known \subseteq c.known \cup {w}
          /\ w \in g.known => g.row[w] = TaskStatusOf(c.wf[w])
          /\ g.decider[Front(w)] = "ready"
          /\ \A v \in Ids : v # Front(w) => g.decider[v] = c.decider[v]
      BY <1>2, <1>4, <2>2, ParentTold
    <3>2. all \in Trail(Good) /\ f = g
      <4> HIDE DEF told
      <4> QED
        BY <2>0, <3>1, TrailJoins
    <3> HIDE DEF g, all, f
    <3> QED
      BY <3>1, <3>2, <2>2
  <2> QED
    BY <2>1, <2>2
<1> HIDE DEF f, all
<1>6. /\ e \in Good /\ e.wf = f.wf /\ e.row = f.row /\ e.known = f.known
      /\ \A v \in Ids : v # w => e.decider[v] = f.decider[v]
  BY <1>1, <1>5, DeciderIsSet, GoodOthers, GoodIs
<1> HIDE DEF e
<1>7. w # <<>> => Front(w) \in Ids /\ Front(w) # w
  BY IdIsRow, NameOfRow
<1>8. Append(all, e) \in Trail(Good) /\ Last(Append(all, e)) = e
  BY <1>5, <1>6, TrailFacts
<1>9. Ended(d, e, w, "COMPLETED")
  BY <1>2, <1>5, <1>6, <1>7 DEF Ended
<1> QED
  BY <1>3, <1>8, <1>9

(* What an end leaves in agreement and awake.                                 *)
LEMMA EndedAgrees ==
  ASSUME NEW d \in Good, NEW w \in Ids, NEW e, NEW s \in TerminalWorkflow,
         Ended(d, e, w, s), Agreed(d)
  PROVE  Agreed(e)
<1>1. SUFFICES ASSUME NEW r \in e.known
               PROVE  /\ HasChild(r) /\ e.row[r] # None
                      /\ Over(e, r) => e.row[r] = TaskStatusOf(e.wf[r])
  BY DEF Agreed
<1>2. d \in Database /\ e \in Database /\ r \in Rows
  BY <1>1, GoodIs, Fields DEF Ended
<1>3. CASE r # w
  <2>1. r \in d.known /\ e.row[r] = d.row[r]
    BY <1>1, <1>2, <1>3 DEF Ended
  <2>2. HasChild(r) /\ r \in Ids
    BY <1>2, <2>1, NameOfRow DEF Agreed
  <2> QED
    BY <2>1, <2>2, <1>3 DEF Agreed, Over, Ended
<1>4. CASE r = w
  <2>1. w # <<>> /\ HasChild(w)
    BY <1>2, <1>4, NameOfRow
  <2>2. e.row[w] = TaskStatusOf(s) /\ TaskStatusOf(s) # None
    BY <1>1, <1>4, <2>1, StatusOfEnd, Fields DEF Ended
  <2> QED
    BY <2>1, <2>2, <1>4 DEF Ended
<1> QED
  BY <1>3, <1>4

LEMMA EndedAwakes ==
  ASSUME NEW d \in Good, NEW w \in Ids, NEW e, NEW s \in TerminalWorkflow,
         Ended(d, e, w, s), NEW v \in Ids,
         Awake(d, v) \/ v = w \/ (w # <<>> /\ v = Front(w))
  PROVE  Awake(e, v)
<1>1. CASE v = w
  BY <1>1, StatusOfEnd DEF Awake, Ended
<1>2. CASE w # <<>> /\ v = Front(w)
  BY <1>2 DEF Awake, Ended
<1>3. CASE v # w /\ ~ (w # <<>> /\ v = Front(w))
  <2>1. e.wf[v] = d.wf[v] /\ e.decider[v] = d.decider[v]
    BY <1>3 DEF Ended
  <2>2. \A r \in Rows : Front(r) = v => e.row[r] = d.row[r]
    BY <1>3, NameOfRow DEF Ended
  <2>3. Live(d, v) \subseteq Live(e, v)
    BY <2>2, RowsOfAre
  <2> QED
    BY <1>3, <2>1, <2>3 DEF Awake
<1> QED
  BY <1>1, <1>2, <1>3

(***************************************************************************)
(* The termination of a workflow and of what is below it.                   *)
(***************************************************************************)

(* e differs from d by a termination of w, which the database allows to end in s  *)
(* when nothing was interrupted before.                                        *)
Stopped(d, e, w, s) ==
  /\ e \in Good
  /\ \A v \in Ids : v # w /\ Len(v) <= Len(w) => e.wf[v] = d.wf[v]
  /\ \A q \in Rows : q # w /\ Len(q) <= Len(w) => e.row[q] = d.row[q]
  /\ w # <<>> => e.row[w] = d.row[w] \/ e.row[w] \in TerminalTask
  /\ d.known \subseteq e.known
  /\ Unbroken /\ Agreed(d) =>
       /\ Agreed(e) /\ e.wf[w] = s
       /\ \A v \in Ids : Awake(d, v) \/ v = w \/ (w # <<>> /\ v = Front(w)) => Awake(e, v)

(* kill terminates workflows of level k and deeper.                            *)
Stops(kill, k) ==
  \A d \in Good : \A w \in Ids : Len(w) >= k /\ d.wf[w] # "COMPLETED" =>
    kill[d][w] \in Trail(Good) /\ Stopped(d, Last(kill[d][w]), w, "TERMINATED")

(* e differs from d by the cancellation of the first n attempts of w's task.     *)
Canceled(d, e, w, n) ==
  /\ e \in Good
  /\ \A v \in Ids : Len(v) <= Len(w) => e.wf[v] = d.wf[v]
  /\ \A q \in Rows : Len(q) <= Len(w) => e.row[q] = d.row[q]
  /\ \A r \in Rows : Front(r) = w =>
       IF r \in Live(d, w) /\ Last(r) < n
       THEN e.row[r] = "CANCELED"
       ELSE e.row[r] = d.row[r] /\ (HasChild(r) => e.wf[r] = d.wf[r])
  /\ d.known \subseteq e.known
  /\ Unbroken /\ Agreed(d) =>
       /\ Agreed(e)
       /\ \A v \in Ids : v # w /\ Awake(d, v) => Awake(e, v)
       /\ \A r \in Live(d, w) : Last(r) < n /\ Cancels(d, r) => e.wf[r] = "TERMINATED"

(* The two writes for one task, of which the first may be missing.               *)
LEMMA OneTaskWritten ==
  ASSUME NEW kill, NEW w \in Ids, NEW a \in Attempt, NEW ss \in Trail(Good),
         Stops(kill, Len(w) + 1)
  PROVE  /\ CancelTask(kill, ss, Child(w, a)) \in Trail(Good)
         /\ \E f \in Good :
              /\ SetTask(f, Child(w, a), "CANCELED") \in Good
              /\ Last(CancelTask(kill, ss, Child(w, a))) = SetTask(f, Child(w, a), "CANCELED")
              /\ \/ /\ f = Last(ss)
                    /\ ~ (Cancels(Last(ss), Child(w, a)) /\ Last(ss).wf[Child(w, a)] # "COMPLETED")
                 \/ Stopped(Last(ss), f, Child(w, a), "TERMINATED") /\ HasChild(Child(w, a))
<1> DEFINE r == Child(w, a)
           c == Last(ss)
           k == CancelChild(kill, c, r)
           f == Last(ss \o k)
           g == SetTask(f, r, "CANCELED")
<1>1. /\ r \in Rows /\ Len(r) = Len(w) + 1 /\ Len(w) \in Nat /\ (HasChild(r) => r \in Ids)
  BY NameOfChild, NameOfRow
<1>2. c \in Good /\ c \in Database
  BY TrailFacts, GoodIs
<1>3. CancelTask(kill, ss, r) = Append(ss \o k, g)
  <2>1. {ss2 \o CancelChild(kill, Last(ss2), r) : ss2 \in {ss}} = {ss \o k}
    OBVIOUS
  <2>2. {Append(all, SetTask(Last(all), r, "CANCELED")) : all \in {ss \o k}} = {Append(ss \o k, g)}
    OBVIOUS
  <2>3. CancelTask(kill, ss, r)
          = The({Append(all, SetTask(Last(all), r, "CANCELED")) :
                   all \in {ss2 \o CancelChild(kill, Last(ss2), r) : ss2 \in {ss}}})
    BY DEF CancelTask
  <2> QED
    BY <2>1, <2>2, <2>3, TheOne
<1> HIDE DEF r, c
<1>4. /\ ss \o k \in Trail(Good)
      /\ \/ f = c /\ ~ (Cancels(c, r) /\ c.wf[r] # "COMPLETED")
         \/ Stopped(c, f, r, "TERMINATED") /\ HasChild(r)
  <2>1. CASE Cancels(c, r) /\ c.wf[r] # "COMPLETED"
    <3>1. k = kill[c][r] /\ HasChild(r)
      BY <2>1 DEF CancelChild, Cancels
    <3>2. kill[c][r] \in Trail(Good) /\ Stopped(c, Last(kill[c][r]), r, "TERMINATED")
      BY <1>1, <1>2, <2>1, <3>1 DEF Stops
    <3>3. ss \o kill[c][r] \in Trail(Good) /\ Last(ss \o kill[c][r]) = Last(kill[c][r])
      BY <3>2, TrailJoins
    <3> QED
      BY <3>1, <3>2, <3>3
  <2>2. CASE ~ (Cancels(c, r) /\ c.wf[r] # "COMPLETED")
    <3>1. k = <<>>
      BY <2>2 DEF CancelChild
    <3>2. ss \o k = ss
      BY <3>1, TrailFacts
    <3> QED
      BY <3>2, <2>2 DEF c
  <2> QED
    BY <2>1, <2>2
<1> HIDE DEF k, f
<1>5. f \in Good
  BY <1>2, <1>4 DEF Stopped
<1>6. g \in Good
  <2>1. "CANCELED" \in TaskStatuses /\ "CANCELED" \in TerminalTask /\ "CANCELED" # "COMPLETED"
    BY StatusOfEnd
  <2> QED
    BY <1>1, <1>5, <2>1, GoodTask
<1> HIDE DEF g
<1>7. Append(ss \o k, g) \in Trail(Good) /\ Last(Append(ss \o k, g)) = g
  BY <1>4, <1>6, TrailFacts
<1>8. CancelTask(kill, ss, r) \in Trail(Good) /\ Last(CancelTask(kill, ss, r)) = g
  BY <1>3, <1>7
<1> QED
  BY <1>4, <1>5, <1>6, <1>8 DEF r, c, g

LEMMA OneTaskCanceled ==
  ASSUME NEW kill, NEW d \in Good, NEW w \in Ids, NEW a \in Attempt, NEW ss \in Trail(Good),
         Stops(kill, Len(w) + 1), Canceled(d, Last(ss), w, a), Child(w, a) \in Live(d, w)
  PROVE  Canceled(d, Last(CancelTask(kill, ss, Child(w, a))), w, a + 1)
<1> DEFINE r == Child(w, a)
           c == Last(ss)
<1>1. /\ r \in Rows /\ Front(r) = w /\ Last(r) = a /\ Len(r) = Len(w) + 1 /\ Len(w) \in Nat
      /\ (HasChild(r) => r \in Ids) /\ r # <<>> /\ a \in Nat
  BY NameOfChild, NameOfRow, Bounds
<1>2. c \in Good /\ c \in Database /\ d \in Database /\ Canceled(d, c, w, a) /\ r \in Live(d, w)
  BY TrailFacts, GoodIs
<1>3. PICK f \in Good :
        /\ SetTask(f, r, "CANCELED") \in Good
        /\ Last(CancelTask(kill, ss, r)) = SetTask(f, r, "CANCELED")
        /\ \/ f = c /\ ~ (Cancels(c, r) /\ c.wf[r] # "COMPLETED")
           \/ Stopped(c, f, r, "TERMINATED") /\ HasChild(r)
  BY OneTaskWritten
<1> DEFINE g == SetTask(f, r, "CANCELED")
<1> HIDE DEF r, c
<1>4. \/ f = c /\ ~ (Cancels(c, r) /\ c.wf[r] # "COMPLETED")
      \/ Stopped(c, f, r, "TERMINATED") /\ HasChild(r)
  BY <1>3
<1>5. /\ f \in Good /\ f \in Database
      /\ \A v \in Ids : v # r /\ Len(v) <= Len(r) => f.wf[v] = c.wf[v]
      /\ \A q \in Rows : q # r /\ Len(q) <= Len(r) => f.row[q] = c.row[q]
      /\ c.known \subseteq f.known
  BY <1>2, <1>4, GoodIs DEF Stopped
<1>6. /\ g \in Good /\ g \in Database /\ g.wf = f.wf /\ g.known = f.known /\ g.decider = f.decider
      /\ g.row[r] = "CANCELED" /\ \A q \in Rows : q # r => g.row[q] = f.row[q]
  <2>1. "CANCELED" \in TaskStatuses
    BY StatusOfEnd
  <2> QED
    BY <1>1, <1>3, <1>5, <2>1, TaskIsSet, GoodIs
<1> HIDE DEF g
<1>7. \A v \in Ids : Len(v) <= Len(w) => g.wf[v] = d.wf[v]
  <2> SUFFICES ASSUME NEW v \in Ids, Len(v) <= Len(w) PROVE g.wf[v] = d.wf[v]
    OBVIOUS
  <2>1. Len(v) \in Nat
    BY IdIsRow
  <2>2. v # r /\ Len(v) <= Len(r)
    BY <1>1, <2>1
  <2> QED
    BY <1>2, <1>5, <1>6, <2>2 DEF Canceled
<1>8. \A q \in Rows : Len(q) <= Len(w) => g.row[q] = d.row[q]
  <2> SUFFICES ASSUME NEW q \in Rows, Len(q) <= Len(w) PROVE g.row[q] = d.row[q]
    OBVIOUS
  <2>1. Len(q) \in Nat
    BY NameOfRow
  <2>2. q # r /\ Len(q) <= Len(r)
    BY <1>1, <2>1
  <2> QED
    BY <1>2, <1>5, <1>6, <2>2 DEF Canceled
<1>9. ASSUME NEW q \in Rows, Front(q) = w, q # r
      PROVE  /\ g.row[q] = c.row[q] /\ (HasChild(q) => g.wf[q] = c.wf[q])
             /\ (Last(q) < a + 1) <=> (Last(q) < a)
  <2>1. Len(q) = Len(r) /\ Len(q) \in Nat /\ (HasChild(q) => q \in Ids) /\ Last(q) \in Nat
    BY <1>1, <1>9, NameOfRow, Bounds
  <2>2. Last(q) # a
    BY <1>9, NameOfRow DEF r
  <2> QED
    BY <1>1, <1>5, <1>6, <1>9, <2>1, <2>2
<1>10. ASSUME NEW q \in Rows, Front(q) = w
       PROVE  IF q \in Live(d, w) /\ Last(q) < a + 1
              THEN g.row[q] = "CANCELED"
              ELSE g.row[q] = d.row[q] /\ (HasChild(q) => g.wf[q] = d.wf[q])
  <2>1. CASE q = r
    BY <1>1, <1>2, <1>6, <2>1
  <2>2. CASE q # r
    <3>1. IF q \in Live(d, w) /\ Last(q) < a
          THEN c.row[q] = "CANCELED"
          ELSE c.row[q] = d.row[q] /\ (HasChild(q) => c.wf[q] = d.wf[q])
      BY <1>2, <1>10 DEF Canceled
    <3> QED
      BY <1>9, <1>10, <2>2, <3>1
  <2> QED
    BY <2>1, <2>2
<1>11. d.known \subseteq g.known
  BY <1>2, <1>5, <1>6 DEF Canceled
<1>12. ASSUME Unbroken, Agreed(d)
       PROVE  /\ Agreed(g)
              /\ \A v \in Ids : v # w /\ Awake(d, v) => Awake(g, v)
              /\ \A q \in Live(d, w) : Last(q) < a + 1 /\ Cancels(d, q) => g.wf[q] = "TERMINATED"
  <2>1. /\ Agreed(c)
        /\ \A v \in Ids : v # w /\ Awake(d, v) => Awake(c, v)
        /\ \A q \in Live(d, w) : Last(q) < a /\ Cancels(d, q) => c.wf[q] = "TERMINATED"
    BY <1>2, <1>12 DEF Canceled
  <2>2. c.row[r] = d.row[r] /\ c.row[r] \notin TerminalTask /\ (HasChild(r) => c.wf[r] = d.wf[r])
    <3>1. ~ (Last(r) < a) /\ d.row[r] \notin TerminalTask
      BY <1>1, <1>2, RowsOfAre
    <3> QED
      BY <1>1, <1>2, <3>1 DEF Canceled
  <2>3. r \in c.known => ~ Over(c, r)
    <3>1. Over(c, r) => TaskStatusOf(c.wf[r]) \in TerminalTask
      BY StatusOfEnd DEF Over
    <3> QED
      BY <2>1, <2>2, <3>1 DEF Agreed
  <2>4. /\ Agreed(f)
        /\ \A v \in Ids : Awake(c, v) => Awake(f, v)
        /\ f = c \/ f.wf[r] = "TERMINATED"
    <3>1. CASE f = c
      BY <2>1, <3>1
    <3>2. CASE Stopped(c, f, r, "TERMINATED") /\ HasChild(r)
      BY <1>12, <2>1, <3>2 DEF Stopped
    <3> QED
      BY <1>4, <3>1, <3>2
  <2>5. Agreed(g)
    <3>1. SUFFICES ASSUME NEW q \in g.known
                   PROVE  /\ HasChild(q) /\ g.row[q] # None
                          /\ Over(g, q) => g.row[q] = TaskStatusOf(g.wf[q])
      BY DEF Agreed
    <3>2. /\ q \in f.known /\ q \in Rows /\ HasChild(q) /\ f.row[q] # None
          /\ Over(f, q) => f.row[q] = TaskStatusOf(f.wf[q])
      BY <1>5, <1>6, <2>4, Fields DEF Agreed
    <3>3. CASE q # r
      BY <1>6, <3>2, <3>3 DEF Over
    <3>4. CASE q = r
      <4>1. "CANCELED" # None /\ TaskStatusOf("TERMINATED") = "CANCELED"
        BY StatusOfEnd, Fields
      <4>2. Over(g, r) => g.wf[r] = "TERMINATED"
        BY <1>6, <2>3, <2>4, <3>2, <3>4 DEF Over
      <4> QED
        BY <1>6, <3>2, <3>4, <4>1, <4>2
    <3> QED
      BY <3>3, <3>4
  <2>6. ASSUME NEW v \in Ids, v # w, Awake(d, v) PROVE Awake(g, v)
    <3>1. Awake(f, v)
      BY <2>1, <2>4, <2>6
    <3>2. Live(f, v) \subseteq Live(g, v)
      <4> SUFFICES ASSUME NEW q \in Live(f, v) PROVE q \in Live(g, v)
        OBVIOUS
      <4>1. q \in Rows /\ Front(q) = v /\ f.row[q] # None /\ f.row[q] \notin TerminalTask
        BY RowsOfAre
      <4>2. g.row[q] = f.row[q]
        BY <1>1, <1>6, <2>6, <4>1
      <4> QED
        BY <4>1, <4>2, RowsOfAre
    <3> QED
      BY <1>6, <3>1, <3>2 DEF Awake
  <2>7. ASSUME NEW q \in Live(d, w), Last(q) < a + 1, Cancels(d, q)
        PROVE  g.wf[q] = "TERMINATED"
    <3>1. q \in Rows /\ Front(q) = w /\ HasChild(q) /\ q \in d.known
      BY <2>7, RowsOfAre DEF Cancels
    <3>2. CASE q # r
      BY <1>9, <2>1, <2>7, <3>1, <3>2
    <3>3. CASE q = r
      <4>1. r \in c.known /\ Cancels(c, r)
        BY <1>2, <2>2, <2>7, <3>1, <3>3 DEF Cancels, Canceled
      <4>2. c.wf[r] # "COMPLETED"
        BY <2>3, <4>1, StatusOfEnd DEF Over
      <4>3. Stopped(c, f, r, "TERMINATED")
        BY <1>4, <4>1, <4>2
      <4>4. f.wf[r] = "TERMINATED"
        BY <1>12, <2>1, <4>3 DEF Stopped
      <4> QED
        BY <1>6, <3>3, <4>4
    <3> QED
      BY <3>2, <3>3
  <2> QED
    BY <2>5, <2>6, <2>7
<1>13. Canceled(d, g, w, a + 1)
  BY <1>6, <1>7, <1>8, <1>10, <1>11, <1>12 DEF Canceled
<1>14. Last(CancelTask(kill, ss, r)) = g
  BY <1>3 DEF g
<1> QED
  BY <1>13, <1>14 DEF r

(* One turn of cancelNonTerminalTasks' loop.                                    *)
CancelNext(kill, d, w, n, ss) ==
  IF Child(w, n - 1) \in Live(d, w) THEN CancelTask(kill, ss, Child(w, n - 1)) ELSE ss
CancelLoop(f, m, kill, d, w) ==
  f = [n \in 0..m |-> IF n = 0 THEN <<d>> ELSE CancelNext(kill, d, w, n, f[n - 1])]

LEMMA CancelLoopExists ==
  ASSUME NEW kill, NEW d \in Good, NEW w \in Ids, Stops(kill, Len(w) + 1)
  PROVE  \E c : /\ c[0] = <<d>>
                /\ \A n \in 1..(MaxAttempt + 1) :
                     c[n - 1] \in Trail(Good) /\ c[n] = CancelNext(kill, d, w, n, c[n - 1])
                /\ CancelTasks(kill, d, w) = c[MaxAttempt + 1]
<1> DEFINE S == Trail(Good)
           M == MaxAttempt + 1
           G == [x \in (1..M) \X S |-> CancelNext(kill, d, w, x[1], x[2])]
           c == CHOOSE f : CancelLoop(f, M, kill, d, w)
<1>1. M \in Nat
  BY Bounds
<1>2. <<d>> \in S
  BY TrailFacts
<1>3. ASSUME NEW n \in 1..M, NEW x \in S PROVE CancelNext(kill, d, w, n, x) \in S
  <2>1. n - 1 \in Attempt
    BY <1>1, Bounds DEF Attempt
  <2> QED
    BY <2>1, OneTaskWritten DEF CancelNext
<1> HIDE DEF S, M
<1>4. \A n \in 1..M : \A x \in S : StepOf(G, n, x) = CancelNext(kill, d, w, n, x)
  BY DEF StepOf
<1> HIDE DEF G
<1>5. ASSUME NEW f, IsLoop(f, M, <<d>>, G)
      PROVE  /\ f[0] = <<d>>
             /\ \A n \in 1..M : f[n - 1] \in S /\ f[n] = StepOf(G, n, f[n - 1])
             /\ \A n \in 0..M : f[n] \in S
  <2>1. \A n \in 1..M : \A x \in S : StepOf(G, n, x) \in S
    BY <1>3, <1>4
  <2> QED
    BY <1>1, <1>2, <1>5, <2>1, LoopRuns
<1>6. PICK f : IsLoop(f, M, <<d>>, G)
  BY <1>1, LoopExists
<1>7. CancelLoop(f, M, kill, d, w)
  <2>1. \A n \in 1..M : f[n - 1] \in S /\ StepOf(G, n, f[n - 1]) = CancelNext(kill, d, w, n, f[n - 1])
    BY <1>4, <1>5, <1>6
  <2>2. \A n \in 0..M : n # 0 => n \in 1..M
    BY <1>1
  <2> QED
    BY <1>6, <2>1, <2>2 DEF IsLoop, CancelLoop
<1>8. CancelLoop(c, M, kill, d, w)
  BY <1>7
<1>9. CancelTasks(kill, d, w) = c[M]
  BY DEF CancelTasks, CancelLoop, CancelNext, M
<1> HIDE DEF c
<1>10. c[0] = <<d>> /\ \A n \in 1..M : c[n] = CancelNext(kill, d, w, n, c[n - 1])
  <2>1. 0 \in 0..M /\ \A n \in 1..M : n \in 0..M /\ n # 0
    BY <1>1
  <2> QED
    BY <1>8, <2>1 DEF CancelLoop
<1>11. \A n \in 0..M : c[n] \in S
  <2> DEFINE T == [n \in 0..M |-> S]
  <2>1. 0 \in 0..M /\ \A n \in 1..M : n \in 0..M /\ n - 1 \in 0..M
    BY <1>1
  <2>2. c[0] \in T[0] /\ \A n \in 1..M : c[n - 1] \in T[n - 1] => c[n] \in T[n]
    BY <1>2, <1>3, <1>10, <2>1
  <2> HIDE DEF T
  <2>3. \A n \in 0..M : c[n] \in T[n]
    BY <1>1, <2>2, LoopStays
  <2> QED
    BY <2>3 DEF T
<1>12. \A n \in 1..M : c[n - 1] \in S
  <2>1. \A n \in 1..M : n - 1 \in 0..M
    BY <1>1
  <2> QED
    BY <1>11, <2>1
<1> QED
  BY <1>9, <1>10, <1>12 DEF S, M

LEMMA TasksCanceled ==
  ASSUME NEW kill, NEW d \in Good, NEW w \in Ids, Stops(kill, Len(w) + 1)
  PROVE  /\ CancelTasks(kill, d, w) \in Trail(Good)
         /\ Canceled(d, Last(CancelTasks(kill, d, w)), w, MaxAttempt + 1)
<1> DEFINE M == MaxAttempt + 1
           T == [n \in 0..M |-> {ss \in Trail(Good) : Canceled(d, Last(ss), w, n)}]
<1>1. PICK c : /\ c[0] = <<d>>
               /\ \A n \in 1..M : c[n - 1] \in Trail(Good) /\ c[n] = CancelNext(kill, d, w, n, c[n - 1])
               /\ CancelTasks(kill, d, w) = c[M]
  BY CancelLoopExists
<1>2. M \in Nat /\ 0 \in 0..M /\ M \in 0..M /\ \A n \in 1..M : n \in 0..M /\ n - 1 \in 0..M
  BY Bounds
<1>3. c[0] \in T[0]
  <2>1. <<d>> \in Trail(Good) /\ Last(<<d>>) = d
    BY TrailFacts
  <2>2. \A r \in Rows : ~ (Last(r) < 0)
    <3> SUFFICES ASSUME NEW r \in Rows PROVE ~ (Last(r) < 0)
      OBVIOUS
    <3>1. Last(r) \in Nat
      BY NameOfRow, Bounds
    <3> QED
      BY <3>1
  <2>3. \A r \in Live(d, w) : r \in Rows
    BY RowsOfAre
  <2>4. Canceled(d, d, w, 0)
    BY <2>2, <2>3 DEF Canceled
  <2> QED
    BY <1>1, <1>2, <2>1, <2>4
<1>4. ASSUME NEW n \in 1..M, c[n - 1] \in T[n - 1] PROVE c[n] \in T[n]
  <2> DEFINE a == n - 1
             ss == c[n - 1]
  <2>1. a \in Attempt /\ a + 1 = n /\ a \in Nat /\ Attempt \subseteq Nat
    BY Bounds DEF Attempt
  <2>2. ss \in Trail(Good) /\ Canceled(d, Last(ss), w, a)
    BY <1>2, <1>4
  <2>3. c[n] = CancelNext(kill, d, w, n, ss)
    BY <1>1
  <2> HIDE DEF ss
  <2>4. CASE Child(w, a) \in Live(d, w)
    <3>1. c[n] = CancelTask(kill, ss, Child(w, a))
      BY <2>3, <2>4 DEF CancelNext
    <3>2. c[n] \in Trail(Good)
      BY <2>1, <2>2, <3>1, OneTaskWritten
    <3>3. Canceled(d, Last(c[n]), w, a + 1)
      BY <2>1, <2>2, <2>4, <3>1, OneTaskCanceled
    <3> QED
      BY <1>2, <2>1, <3>2, <3>3
  <2>5. CASE Child(w, a) \notin Live(d, w)
    <3>1. c[n] = ss
      BY <2>3, <2>5 DEF CancelNext
    <3>2. \A r \in Rows : Front(r) = w /\ r \in Live(d, w) => ((Last(r) < a + 1) <=> (Last(r) < a))
      <4> SUFFICES ASSUME NEW r \in Rows, Front(r) = w, r \in Live(d, w)
                   PROVE  (Last(r) < a + 1) <=> (Last(r) < a)
        OBVIOUS
      <4>1. Last(r) # a /\ Last(r) \in Nat
        BY <2>5, NameOfRow, Bounds
      <4> QED
        BY <2>1, <4>1
    <3>3. \A r \in Live(d, w) : r \in Rows /\ Front(r) = w
      BY RowsOfAre
    <3>4. Canceled(d, Last(ss), w, a + 1)
      <4> HIDE DEF a
      <4> QED
        BY <2>2, <3>2, <3>3 DEF Canceled
    <3> QED
      BY <1>2, <2>1, <2>2, <3>1, <3>4
  <2> QED
    BY <2>4, <2>5
<1> HIDE DEF T, M
<1>5. c[M] \in T[M]
  BY <1>2, <1>3, <1>4, LoopStays
<1> QED
  BY <1>1, <1>2, <1>5 DEF T, M

(* After the loop nothing is open, and nothing failed unless something was broken.  *)
LEMMA NothingLive ==
  ASSUME NEW d \in Good, NEW w \in Ids, NEW e, Canceled(d, e, w, MaxAttempt + 1)
  PROVE  /\ e \in Good /\ Live(e, w) = {}
         /\ e.wf[w] = d.wf[w] /\ (w # <<>> => e.row[w] = d.row[w])
         /\ Unbroken /\ Agreed(d) => ~ CancelFails(d, e, w)
<1>1. \A r \in Rows : Last(r) < MaxAttempt + 1
  <2> SUFFICES ASSUME NEW r \in Rows PROVE Last(r) < MaxAttempt + 1
    OBVIOUS
  <2>1. Last(r) \in 0..MaxAttempt /\ MaxAttempt \in Nat
    BY NameOfRow, Bounds DEF Attempt
  <2> QED
    BY <2>1
<1>2. Live(e, w) = {}
  <2> SUFFICES ASSUME NEW r \in Live(e, w) PROVE FALSE
    OBVIOUS
  <2>1. r \in Rows /\ Front(r) = w /\ e.row[r] # None /\ e.row[r] \notin TerminalTask
    BY RowsOfAre
  <2>2. CASE r \in Live(d, w)
    BY <1>1, <2>1, <2>2, StatusOfEnd DEF Canceled
  <2>3. CASE r \notin Live(d, w)
    <3>1. e.row[r] = d.row[r]
      BY <2>1, <2>3 DEF Canceled
    <3> QED
      BY <2>1, <2>3, <3>1, RowsOfAre
  <2> QED
    BY <2>2, <2>3
<1>3. Len(w) <= Len(w)
  BY IdIsRow
<1>4. Unbroken /\ Agreed(d) => ~ CancelFails(d, e, w)
  <2>1. \A r \in Live(d, w) : r \in Rows
    BY RowsOfAre
  <2> QED
    BY <1>1, <2>1 DEF Canceled, CancelFails
<1> QED
  BY <1>2, <1>3, <1>4, IdIsRow DEF Canceled

LEMMA TerminatedBy ==
  ASSUME NEW kill, NEW d \in Good, NEW w \in Ids, NEW s \in {"TERMINATED", "FAILED"},
         Stops(kill, Len(w) + 1), d.wf[w] # "COMPLETED"
  PROVE  /\ TerminateBy(kill, d, w, s) \in Trail(Good)
         /\ Stopped(d, Last(TerminateBy(kill, d, w, s)), w, s)
<1> DEFINE all == CancelTasks(kill, d, w)
           e == Last(all)
           f == Last(EndSteps(e, w, s))
<1>1. all \in Trail(Good) /\ Canceled(d, e, w, MaxAttempt + 1)
  BY TasksCanceled
<1>2. TerminateBy(kill, d, w, s) = IF CancelFails(d, e, w) THEN all ELSE all \o EndSteps(e, w, s)
  BY TheOne DEF TerminateBy
<1> HIDE DEF all
<1>3. /\ e \in Good /\ Live(e, w) = {}
      /\ e.wf[w] = d.wf[w] /\ (w # <<>> => e.row[w] = d.row[w])
      /\ Unbroken /\ Agreed(d) => ~ CancelFails(d, e, w)
  BY <1>1, NothingLive
<1>4. CASE CancelFails(d, e, w)
  <2>1. TerminateBy(kill, d, w, s) = all
    BY <1>2, <1>4
  <2> HIDE DEF e
  <2>2. Stopped(d, e, w, s)
    BY <1>1, <1>3, <1>4 DEF Stopped, Canceled
  <2> QED
    BY <1>1, <2>1, <2>2 DEF e
<1>5. CASE ~ CancelFails(d, e, w)
  <2>1. TerminateBy(kill, d, w, s) = all \o EndSteps(e, w, s)
    BY <1>2, <1>5
  <2> HIDE DEF e
  <2>2. Steady => (w # <<>> => e.row[w] # "COMPLETED")
    <3>1. w # <<>> => w \in Rows /\ HasChild(w)
      BY IdIsRow, NameOfRow
    <3> QED
      BY <1>3, <3>1, GoodIs DEF Covered
  <2>3. EndSteps(e, w, s) \in Trail(Good) /\ Ended(e, f, w, s)
    BY <1>3, <2>2, EndGood
  <2>4. /\ all \o EndSteps(e, w, s) \in Trail(Good)
        /\ Last(all \o EndSteps(e, w, s)) = f
    BY <1>1, <2>3, TrailJoins
  <2> HIDE DEF f
  <2>5. s \in TerminalWorkflow
    BY StatusOfEnd
  <2>6. ASSUME Unbroken, Agreed(d)
        PROVE  /\ Agreed(f) /\ f.wf[w] = s
               /\ \A v \in Ids : Awake(d, v) \/ v = w \/ (w # <<>> /\ v = Front(w)) => Awake(f, v)
    <3>1. Agreed(e) /\ \A v \in Ids : v # w /\ Awake(d, v) => Awake(e, v)
      BY <1>1, <2>6 DEF Canceled
    <3>2. Agreed(f)
      BY <1>3, <2>3, <2>5, <3>1, EndedAgrees
    <3>3. \A v \in Ids : Awake(e, v) \/ v = w \/ (w # <<>> /\ v = Front(w)) => Awake(f, v)
      BY <1>3, <2>3, <2>5, EndedAwakes
    <3> QED
      BY <2>3, <3>1, <3>2, <3>3 DEF Ended
  <2>7. Stopped(d, f, w, s)
    BY <1>1, <1>3, <2>3, <2>6 DEF Stopped, Canceled, Ended
  <2> QED
    BY <2>1, <2>4, <2>7
<1> QED
  BY <1>4, <1>5

(* What a termination does level by level is well defined.                      *)
KillBy(n, kill) ==
  [d \in Database |-> [w \in Ids |-> IF n = 0 THEN <<>> ELSE TerminateBy(kill, d, w, "TERMINATED")]]
IsKilled(f, m) == f = [n \in 0..m |-> KillBy(n, f[n - 1])]

LEMMA KilledExists ==
  ASSUME NEW m \in Nat
  PROVE  \E f : IsKilled(f, m)
<1> DEFINE Bad == {k \in Nat : \A f : ~ IsKilled(f, k)}
<1>1. SUFFICES ASSUME m \in Bad PROVE FALSE
  OBVIOUS
<1>2. PICK k \in Bad : \A x \in Bad : k <= x
  <2>1. Bad \in SUBSET Nat /\ Bad # {}
    BY <1>1
  <2> QED
    BY <2>1, LeastExists
<1>3. k \in Nat /\ \A f : ~ IsKilled(f, k)
  BY <1>2
<1>4. \A g, h : KillBy(0, g) = KillBy(0, h)
  BY DEF KillBy
<1>5. CASE k = 0
  <2> DEFINE f == [n \in 0..0 |-> KillBy(0, 0)]
  <2>1. IsKilled(f, 0)
    <3>1. \A n \in 0..0 : n = 0
      OBVIOUS
    <3>2. \A n \in 0..0 : KillBy(0, 0) = KillBy(n, f[n - 1])
      BY <3>1, <1>4
    <3>3. f = [n \in 0..0 |-> KillBy(n, f[n - 1])]
      BY <3>2
    <3> HIDE DEF f
    <3> QED
      BY <3>3 DEF IsKilled
  <2> QED
    BY <1>3, <1>5, <2>1
<1>6. CASE k # 0
  <2>1. k - 1 \in Nat /\ ~ (k <= k - 1)
    BY <1>3, <1>6
  <2>2. k - 1 \notin Bad
    BY <2>1, <1>2
  <2> HIDE DEF Bad
  <2>3. PICK f : IsKilled(f, k - 1)
    BY <2>1, <2>2 DEF Bad
  <2> DEFINE g == [n \in 0..k |-> IF n = k THEN KillBy(k, f[k - 1]) ELSE f[n]]
  <2>4. ASSUME NEW n \in 0..k
        PROVE  g[n] = KillBy(n, g[n - 1])
    <3>1. CASE n = k
      <4>1. g[n] = KillBy(k, f[k - 1]) /\ k - 1 \in 0..k /\ k - 1 # k
        BY <3>1, <2>1, <1>3
      <4>2. g[n - 1] = f[k - 1]
        BY <3>1, <4>1
      <4> QED
        BY <4>1, <4>2, <3>1
    <3>2. CASE n # k
      <4>1. n \in 0..(k - 1) /\ g[n] = f[n]
        BY <3>2, <2>1, <1>3
      <4>2. f[n] = KillBy(n, f[n - 1])
        BY <2>3, <4>1 DEF IsKilled
      <4>3. CASE n = 0
        <5> HIDE DEF g
        <5> QED
          BY <4>1, <4>2, <4>3, <1>4
      <4>4. CASE n # 0
        <5>1. n - 1 \in 0..k /\ n - 1 # k
          BY <4>1, <4>4, <2>1, <1>3
        <5>2. g[n - 1] = f[n - 1]
          BY <5>1
        <5> HIDE DEF g
        <5> QED
          BY <4>1, <4>2, <5>2
      <4> QED
        BY <4>3, <4>4
    <3> QED
      BY <3>1, <3>2
  <2>5. g = [n \in 0..k |-> g[n]]
    OBVIOUS
  <2> HIDE DEF g
  <2>6. IsKilled(g, k)
    BY <2>4, <2>5 DEF IsKilled
  <2> QED
    BY <1>3, <2>6
<1> QED
  BY <1>5, <1>6

LEMMA KillByOne ==
  ASSUME NEW n, n # 0, NEW kill, NEW d \in Database, NEW w \in Ids
  PROVE  KillBy(n, kill)[d][w] = TerminateBy(kill, d, w, "TERMINATED")
BY DEF KillBy

LEMMA KilledStops ==
  Stops(Killed[Depth], 1)
<1>1. Depth \in Nat
  BY Bounds
<1>2. IsKilled(Killed, Depth)
  <2>1. Killed = CHOOSE f : IsKilled(f, Depth)
    BY DEF Killed, IsKilled, KillBy
  <2> QED
    BY <1>1, <2>1, KilledExists
<1>3. \A n \in 0..Depth : Killed[n] = KillBy(n, Killed[n - 1])
  BY <1>2 DEF IsKilled
<1> DEFINE T == [n \in 0..Depth |-> {k \in {Killed[i] : i \in 0..Depth} : Stops(k, Depth - n + 1)}]
<1>4. Killed[0] \in T[0]
  <2>1. 0 \in 0..Depth
    BY <1>1
  <2>2. Stops(Killed[0], Depth - 0 + 1)
    <3>1. \A w \in Ids : ~ (Len(w) >= Depth - 0 + 1)
      <4> SUFFICES ASSUME NEW w \in Ids PROVE ~ (Len(w) >= Depth - 0 + 1)
        OBVIOUS
      <4>1. Len(w) \in Nat /\ Len(w) <= Depth
        BY IdIsRow
      <4> QED
        BY <1>1, <4>1
    <3> QED
      BY <3>1 DEF Stops
  <2> QED
    BY <2>1, <2>2
<1>5. ASSUME NEW n \in 1..Depth, Killed[n - 1] \in T[n - 1] PROVE Killed[n] \in T[n]
  <2>1. n \in 0..Depth /\ n - 1 \in 0..Depth /\ n # 0
    BY <1>1
  <2>2. Stops(Killed[n - 1], Depth - (n - 1) + 1)
    BY <1>5, <2>1
  <2>3. Stops(Killed[n], Depth - n + 1)
    <3>1. SUFFICES ASSUME NEW d \in Good, NEW w \in Ids, Len(w) >= Depth - n + 1, d.wf[w] # "COMPLETED"
                   PROVE  /\ Killed[n][d][w] \in Trail(Good)
                          /\ Stopped(d, Last(Killed[n][d][w]), w, "TERMINATED")
      BY DEF Stops
    <3>2. Killed[n][d][w] = TerminateBy(Killed[n - 1], d, w, "TERMINATED")
      <4>1. Killed[n] = KillBy(n, Killed[n - 1]) /\ d \in Database
        BY <1>3, <2>1, GoodIs
      <4> QED
        BY <2>1, <4>1, KillByOne
    <3>3. Stops(Killed[n - 1], Len(w) + 1)
      <4>1. \A v \in Ids : Len(v) >= Len(w) + 1 => Len(v) >= Depth - (n - 1) + 1
        <5> SUFFICES ASSUME NEW v \in Ids, Len(v) >= Len(w) + 1 PROVE Len(v) >= Depth - (n - 1) + 1
          OBVIOUS
        <5>1. Len(v) \in Nat /\ Len(w) \in Nat
          BY IdIsRow
        <5> QED
          BY <1>1, <3>1, <5>1
      <4> QED
        BY <2>2, <4>1 DEF Stops
    <3> QED
      BY <3>1, <3>2, <3>3, TerminatedBy
  <2> QED
    BY <2>1, <2>3
<1> HIDE DEF T
<1>6. Killed[Depth] \in T[Depth]
  <2>1. \A n \in 0..Depth : Killed[n] \in T[n]
    BY <1>1, <1>4, <1>5, LoopStays
  <2> QED
    BY <1>1, <2>1
<1>7. Stops(Killed[Depth], Depth - Depth + 1) /\ Depth - Depth + 1 = 1
  BY <1>1, <1>6 DEF T
<1> QED
  BY <1>7

LEMMA Terminated ==
  ASSUME NEW d \in Good, NEW w \in Ids, NEW s \in {"TERMINATED", "FAILED"}, d.wf[w] # "COMPLETED"
  PROVE  /\ TerminateSteps(d, w, s) \in Trail(Good)
         /\ Stopped(d, Last(TerminateSteps(d, w, s)), w, s)
<1>1. Stops(Killed[Depth], Len(w) + 1)
  <2>1. \A v \in Ids : Len(v) >= Len(w) + 1 => Len(v) >= 1
    <3> SUFFICES ASSUME NEW v \in Ids, Len(v) >= Len(w) + 1 PROVE Len(v) >= 1
      OBVIOUS
    <3> QED
      BY IdIsRow
  <2> QED
    BY <2>1, KilledStops DEF Stops
<1> QED
  BY <1>1, TerminatedBy DEF TerminateSteps

LEMMA AllCanceled ==
  ASSUME NEW d \in Good, NEW w \in Ids
  PROVE  /\ CancelAll(d, w) \in Trail(Good)
         /\ Canceled(d, Last(CancelAll(d, w)), w, MaxAttempt + 1)
<1>1. Stops(Killed[Depth], Len(w) + 1)
  <2>1. \A v \in Ids : Len(v) >= Len(w) + 1 => Len(v) >= 1
    <3> SUFFICES ASSUME NEW v \in Ids, Len(v) >= Len(w) + 1 PROVE Len(v) >= 1
      OBVIOUS
    <3> QED
      BY IdIsRow
  <2> QED
    BY <2>1, KilledStops DEF Stops
<1> QED
  BY <1>1, TasksCanceled DEF CancelAll

(***************************************************************************)
(* A decision.                                                             *)
(***************************************************************************)

(* The databases operations lead to, and those in which one workflow may be        *)
(* neither open nor queued until the operation decides on it.                    *)
Sound == {d \in Good : Unbroken => Agreed(d) /\ \A v \in Ids : Awake(d, v)}
SoundBut(w) == {d \in Good : Unbroken => Agreed(d) /\ \A v \in Ids : v # w => Awake(d, v)}

LEMMA SoundIs ==
  ASSUME NEW w
  PROVE  /\ Sound \subseteq SoundBut(w) /\ SoundBut(w) \subseteq Good /\ Sound \subseteq Good
         /\ \A d \in SoundBut(w) : Awake(d, w) => d \in Sound
BY DEF Sound, SoundBut

LEMMA SameBut ==
  ASSUME NEW w \in Ids, NEW d \in SoundBut(w), NEW e \in Database,
         e.wf = d.wf, e.row = d.row, e.known = d.known,
         \A v \in Ids : v # w => e.decider[v] = d.decider[v] \/ e.decider[v] = "ready"
  PROVE  e \in SoundBut(w)
<1>1. d \in Good /\ e \in Good
  BY SoundIs, GoodSame
<1>2. Agreed(d) => Agreed(e)
  BY DEF Agreed, Over
<1>3. \A v \in Ids : v # w /\ Awake(d, v) => Awake(e, v)
  BY DEF Awake, Live, RowsOf
<1> QED
  BY <1>1, <1>2, <1>3 DEF SoundBut

LEMMA SameSound ==
  ASSUME NEW d \in Sound, NEW e \in Database,
         e.wf = d.wf, e.row = d.row, e.known = d.known,
         \A v \in Ids : e.decider[v] = d.decider[v] \/ e.decider[v] = "ready"
  PROVE  e \in Sound
<1>1. d \in Good /\ e \in Good
  BY SoundIs, GoodSame
<1>2. Agreed(d) => Agreed(e)
  BY DEF Agreed, Over
<1>3. \A v \in Ids : Awake(d, v) => Awake(e, v)
  BY DEF Awake, Live, RowsOf
<1> QED
  BY <1>1, <1>2, <1>3 DEF Sound

LEMMA StoppedSound ==
  ASSUME NEW w \in Ids, NEW d \in SoundBut(w), NEW e, NEW s, Stopped(d, e, w, s)
  PROVE  e \in Sound
<1>1. e \in Good
  BY DEF Stopped
<1>2. ASSUME Unbroken PROVE Agreed(e) /\ \A v \in Ids : Awake(e, v)
  <2>1. Agreed(d) /\ \A v \in Ids : v # w => Awake(d, v)
    BY <1>2 DEF SoundBut
  <2> QED
    BY <1>2, <2>1 DEF Stopped
<1> QED
  BY <1>1, <1>2 DEF Sound

LEMMA EndedSound ==
  ASSUME NEW w \in Ids, NEW d \in SoundBut(w), NEW e, NEW s \in TerminalWorkflow, Ended(d, e, w, s)
  PROVE  e \in Sound
<1>1. e \in Good /\ d \in Good
  BY SoundIs DEF Ended
<1>2. ASSUME Unbroken PROVE Agreed(e) /\ \A v \in Ids : Awake(e, v)
  <2>1. Agreed(d) /\ \A v \in Ids : v # w => Awake(d, v)
    BY <1>2 DEF SoundBut
  <2> QED
    BY <1>1, <2>1, EndedAgrees, EndedAwakes
<1> QED
  BY <1>1, <1>2 DEF Sound

LEMMA CanceledSound ==
  ASSUME NEW w \in Ids, NEW d \in SoundBut(w), NEW e, NEW n, Canceled(d, e, w, n), d.wf[w] # "RUNNING"
  PROVE  e \in Sound
<1>1. e \in Good
  BY DEF Canceled
<1>2. e.wf[w] = d.wf[w]
  BY IdIsRow DEF Canceled
<1>3. Awake(e, w)
  BY <1>2 DEF Awake
<1>4. ASSUME Unbroken PROVE Agreed(e) /\ \A v \in Ids : Awake(e, v)
  <2>1. Agreed(d) /\ \A v \in Ids : v # w => Awake(d, v)
    BY <1>4 DEF SoundBut
  <2> QED
    BY <1>3, <1>4, <2>1 DEF Canceled
<1> QED
  BY <1>1, <1>4 DEF Sound

(* The decider message of a workflow that does not run may go.                     *)
LEMMA GoneSound ==
  ASSUME NEW w \in Ids, NEW d \in SoundBut(w), d.wf[w] # "RUNNING"
  PROVE  Gone(d, w) \in Trail(Good) /\ Last(Gone(d, w)) \in Sound
         /\ SetDecider(d, w, "absent") \in Sound /\ SetDecider(d, w, "absent") \in Good
<1> DEFINE e == SetDecider(d, w, "absent")
<1>1. d \in Good /\ d \in Database /\ "absent" \in Queue
  BY SoundIs, GoodIs, Fields
<1>2. /\ e \in Database /\ e.wf = d.wf /\ e.row = d.row /\ e.known = d.known
      /\ \A v \in Ids : v # w => e.decider[v] = d.decider[v]
  BY <1>1, DeciderIsSet
<1>3. Gone(d, w) = <<e>>
  BY DEF Gone
<1> HIDE DEF e
<1>4. e \in SoundBut(w)
  BY <1>2, SameBut
<1>5. Awake(e, w)
  BY <1>2 DEF Awake
<1>6. e \in Sound /\ e \in Good
  BY <1>4, <1>5, SoundIs
<1>7. Gone(d, w) \in Trail(Good) /\ Last(Gone(d, w)) = e
  BY <1>3, <1>6, TrailFacts
<1> QED
  BY <1>6, <1>7 DEF e

(* A new attempt of w's task, on any database.                                    *)
LEMMA ScheduleWrites ==
  ASSUME NEW d \in Database, NEW r \in Rows
  PROVE  /\ Schedule(d, r) \in Trail(Database)
         /\ Schedule(d, r) \in Trail({SetTask(d, r, "SCHEDULED"), Last(Schedule(d, r))})
         /\ LET e == Last(Schedule(d, r))
            IN /\ e.wf = d.wf /\ e.known = d.known /\ e.decider = d.decider
               /\ e.row = SetTask(d, r, "SCHEDULED").row /\ e \in Database
<1> DEFINE a == SetTask(d, r, "SCHEDULED")
           b == SetQueue(a, {r}, "ready")
<1>1. /\ "SCHEDULED" \in TaskStatuses /\ "ready" \in Queue
  BY StatusOfEnd, Fields
<1>2. /\ a \in Database /\ a.wf = d.wf /\ a.known = d.known /\ a.decider = d.decider
  BY <1>1, TaskIsSet
<1>3. Schedule(d, r) = <<a>> \o (IF HasChild(r) THEN <<b>> ELSE <<>>)
  BY DEF Schedule
<1> HIDE DEF a
<1>4. b \in Database /\ b.wf = a.wf /\ b.known = a.known /\ b.decider = a.decider /\ b.row = a.row
  BY <1>1, <1>2, QueueIsSet
<1> HIDE DEF b
<1>5. Schedule(d, r) = <<a>> \/ Schedule(d, r) = <<a, b>>
  <2>1. <<a>> \o <<>> = <<a>>
    BY <1>2
  <2>2. <<a>> \o <<b>> = <<a, b>>
    BY <1>2, <1>4, TwoSteps
  <2> QED
    BY <1>3, <2>1, <2>2
<1>6. CASE Schedule(d, r) = <<a>>
  <2>1. Last(Schedule(d, r)) = a /\ <<a>> \in Trail(Database) /\ <<a>> \in Trail({a, a})
    BY <1>2, <1>6 DEF Trail, Last
  <2> QED
    BY <1>2, <1>6, <2>1 DEF a
<1>7. CASE Schedule(d, r) = <<a, b>>
  <2>1. Last(Schedule(d, r)) = b /\ <<a, b>> \in Trail(Database) /\ <<a, b>> \in Trail({a, b})
    BY <1>2, <1>4, <1>7 DEF Trail, Last
  <2> QED
    BY <1>2, <1>4, <1>7, <2>1 DEF a
<1> QED
  BY <1>5, <1>6, <1>7

LEMMA ScheduleAgrees ==
  ASSUME NEW d \in Database, NEW w \in Ids, NEW r \in Rows, Front(r) = w, d.wf[w] = "RUNNING",
         d.row[r] = None, NEW e \in Database,
         e.wf = d.wf, e.known = d.known, e.decider = d.decider,
         e.row = SetTask(d, r, "SCHEDULED").row
  PROVE  /\ Awake(e, w)
         /\ Agreed(d) => Agreed(e)
         /\ \A v \in Ids : Awake(d, v) => Awake(e, v)
         /\ \A q \in Rows : Covered(d, q) => Covered(e, q)
         /\ \A v \in Ids : Settled(d, v) => Settled(e, v)
<1>1. /\ "SCHEDULED" \in TaskStatuses /\ "SCHEDULED" # None /\ "SCHEDULED" \notin TerminalTask
      /\ "RUNNING" \notin TerminalWorkflow
  BY StatusOfEnd, Fields
<1>2. e.row[r] = "SCHEDULED" /\ \A q \in Rows : q # r => e.row[q] = d.row[q]
  BY <1>1, TaskIsSet
<1>3. r \in Live(e, w)
  BY <1>1, <1>2, RowsOfAre
<1>4. Awake(e, w)
  BY <1>3 DEF Awake
<1>5. Agreed(d) => Agreed(e)
  <2> SUFFICES ASSUME Agreed(d) PROVE Agreed(e)
    OBVIOUS
  <2>1. \A q \in e.known : q \in Rows /\ q # r
    BY Fields DEF Agreed
  <2> QED
    BY <1>2, <2>1 DEF Agreed, Over
<1>6. ASSUME NEW v \in Ids, Awake(d, v) PROVE Awake(e, v)
  <2>1. CASE v = w
    BY <1>4, <2>1
  <2>2. CASE v # w
    <3>1. Live(d, v) \subseteq Live(e, v)
      <4> SUFFICES ASSUME NEW q \in Live(d, v) PROVE q \in Live(e, v)
        OBVIOUS
      <4>1. q \in Rows /\ Front(q) = v /\ d.row[q] # None /\ d.row[q] \notin TerminalTask
        BY RowsOfAre
      <4> QED
        BY <1>2, <2>2, <4>1, RowsOfAre
    <3> QED
      BY <1>6, <3>1 DEF Awake
  <2> QED
    BY <2>1, <2>2
<1>7. \A q \in Rows : Covered(d, q) => Covered(e, q)
  BY <1>2 DEF Covered
<1>8. ASSUME NEW v \in Ids, Settled(d, v) PROVE Settled(e, v)
  <2>1. SUFFICES ASSUME Over(e, v), NEW q \in Live(e, v) PROVE FALSE
    BY DEF Settled
  <2>2. q \in Rows /\ Front(q) = v /\ e.row[q] # None /\ e.row[q] \notin TerminalTask
    BY RowsOfAre
  <2>3. v # w
    BY <1>1, <2>1 DEF Over
  <2>4. d.row[q] = e.row[q]
    BY <1>2, <2>2, <2>3
  <2>5. q \in Live(d, v)
    BY <2>2, <2>4, RowsOfAre
  <2> QED
    BY <1>8, <2>1, <2>5 DEF Settled, Over
<1> QED
  BY <1>4, <1>5, <1>6, <1>7, <1>8

LEMMA ScheduleSound ==
  ASSUME NEW w \in Ids, NEW d \in SoundBut(w), d.wf[w] = "RUNNING", RowsOf(d, w) = {}
  PROVE  Schedule(d, Child(w, 0)) \in Trail(Good) /\ Last(Schedule(d, Child(w, 0))) \in Sound
<1> DEFINE r == Child(w, 0)
           a == SetTask(d, r, "SCHEDULED")
           e == Last(Schedule(d, r))
<1>1. d \in Good /\ d \in Database
  BY SoundIs, GoodIs
<1>2. r \in Rows /\ Front(r) = w
  <2>1. 0 \in Attempt
    BY Bounds DEF Attempt
  <2> QED
    BY <2>1, NameOfChild
<1>3. d.row[r] = None
  BY <1>2, RowsOfAre
<1> HIDE DEF r
<1>4. a \in Good
  <2>1. "SCHEDULED" \in TaskStatuses /\ "SCHEDULED" # "COMPLETED" /\ "RUNNING" \notin TerminalWorkflow
    BY StatusOfEnd
  <2> QED
    BY <1>1, <1>2, <2>1, GoodTask DEF Over
<1>5. /\ e \in Database /\ e.wf = d.wf /\ e.known = d.known /\ e.decider = d.decider /\ e.row = a.row
      /\ Schedule(d, r) \in Trail({a, e})
  BY <1>1, <1>2, ScheduleWrites
<1>6. a.wf = d.wf
  BY <1>1, <1>2, StatusOfEnd, TaskIsSet
<1>7. /\ Awake(e, w)
      /\ Agreed(d) => Agreed(e)
      /\ \A v \in Ids : Awake(d, v) => Awake(e, v)
  <2> HIDE DEF e
  <2> QED
    BY <1>1, <1>2, <1>3, <1>5, ScheduleAgrees
<1> HIDE DEF a, e
<1>8. e \in Good
  BY <1>4, <1>5, <1>6, GoodSame
<1>9. e \in Sound
  BY <1>7, <1>8 DEF SoundBut, Sound
<1>10. Schedule(d, r) \in Trail(Good)
  <2>1. {a, e} \subseteq Good
    BY <1>4, <1>8
  <2> QED
    BY <1>5, <2>1, TrailWidens
<1> QED
  BY <1>9, <1>10 DEF r, e

(* What a decision leads to, from wherever it is taken.                            *)
LEMMA DecisionSound ==
  ASSUME NEW w \in Ids, NEW d \in SoundBut(w)
  PROVE  DecideSteps(d, w) \in Trail(Good) /\ Last(DecideSteps(d, w)) \in Sound
<1> DEFINE failed == {r \in Pending(d, w) : Failed(d, r)}
           ended == CHOOSE r \in failed : \A q \in failed : Last(r) <= Last(q)
           end == CASE d.row[ended] = "CANCELED" -> "TERMINATED" [] OTHER -> "FAILED"
           all == CancelAll(d, w)
           c == Last(all)
           gone == SetDecider(c, w, "absent")
           done == [d EXCEPT !.executed = @ \cup (Pending(d, w) \ Live(d, w))]
           outer == d.wf[w] \in TerminalWorkflow \ {"COMPLETED"}
           run == d.wf[w] = "RUNNING"
<1>1. d \in Good /\ d \in Database
  BY SoundIs, GoodIs
<1>2. "PAUSED" \notin TerminalWorkflow /\ "RUNNING" \notin TerminalWorkflow /\ "COMPLETED" \in TerminalWorkflow
  BY DEF TerminalWorkflow, WorkflowStatuses
<1>3. CASE d.wf[w] = "PAUSED" \/ d.wf[w] = "COMPLETED"
  <2>0. ~ outer /\ ~ run
    BY <1>2, <1>3
  <2>1. DecideSteps(d, w) = <<d>>
    BY <1>3, <2>0, Zenon DEF DecideSteps
  <2>2. Awake(d, w)
    BY <1>3 DEF Awake
  <2>3. d \in Sound
    BY <2>2, SoundIs
  <2>4. <<d>> \in Trail(Good) /\ Last(<<d>>) = d
    BY <1>1, TrailFacts
  <2> QED
    BY <2>1, <2>3, <2>4
<1>4. CASE outer
  <2>1. DecideSteps(d, w) = IF CancelFails(d, c, w) THEN all ELSE Append(all, gone)
    <3>1. DecideSteps(d, w)
            = The({IF CancelFails(d, Last(canceled), w) THEN canceled
                   ELSE Append(canceled, SetDecider(Last(canceled), w, "absent")) :
                     canceled \in {CancelAll(d, w)}})
      BY <1>2, <1>4 DEF DecideSteps
    <3>2. {IF CancelFails(d, Last(canceled), w) THEN canceled
           ELSE Append(canceled, SetDecider(Last(canceled), w, "absent")) :
             canceled \in {all}} = {IF CancelFails(d, c, w) THEN all ELSE Append(all, gone)}
      <4> HIDE DEF all
      <4> QED
        OBVIOUS
    <3> QED
      BY <3>1, <3>2, TheOne
  <2>2. all \in Trail(Good) /\ Canceled(d, c, w, MaxAttempt + 1)
    BY <1>1, AllCanceled
  <2>3. d.wf[w] # "RUNNING"
    BY <1>2, <1>4
  <2>4. c \in Sound /\ c.wf[w] # "RUNNING"
    <3> HIDE DEF c
    <3> QED
      BY <1>1, <2>2, <2>3, CanceledSound, NothingLive
  <2>5. gone \in Sound /\ gone \in Good
    <3> HIDE DEF c
    <3> QED
      BY <2>4, SoundIs, GoneSound
  <2> HIDE DEF all, gone, c
  <2>6. Append(all, gone) \in Trail(Good) /\ Last(Append(all, gone)) = gone
    BY <2>2, <2>5, TrailFacts
  <2> QED
    BY <2>1, <2>2, <2>4, <2>5, <2>6 DEF c
<1>5. CASE run /\ failed # {}
  <2>1. DecideSteps(d, w) = TerminateSteps(d, w, end)
    BY <1>2, <1>5 DEF DecideSteps
  <2>2. end \in {"TERMINATED", "FAILED"}
    OBVIOUS
  <2> HIDE DEF end
  <2>3. /\ TerminateSteps(d, w, end) \in Trail(Good)
        /\ Stopped(d, Last(TerminateSteps(d, w, end)), w, end)
    BY <1>1, <1>5, <2>2, Terminated
  <2> QED
    BY <2>1, <2>3, StoppedSound
<1>6. CASE run /\ failed = {} /\ RowsOf(d, w) = {}
  <2>1. DecideSteps(d, w) = Schedule(d, Child(w, 0))
    BY <1>2, <1>6 DEF DecideSteps
  <2> QED
    BY <1>6, <2>1, ScheduleSound
<1>7. CASE run /\ failed = {} /\ RowsOf(d, w) # {} /\ Live(d, w) = {}
  <2>1. DecideSteps(d, w) = CompleteSteps(d, w)
    BY <1>2, <1>7 DEF DecideSteps
  <2>2. /\ CompleteSteps(d, w) \in Trail(Good)
        /\ Ended(d, Last(CompleteSteps(d, w)), w, "COMPLETED")
    BY <1>1, <1>7, CompleteGood
  <2> QED
    BY <1>2, <2>1, <2>2, EndedSound
<1>8. CASE /\ ~ (d.wf[w] = "PAUSED" \/ d.wf[w] = "COMPLETED") /\ ~ outer /\ ~ (run /\ failed # {})
           /\ ~ (run /\ failed = {} /\ RowsOf(d, w) = {})
           /\ ~ (run /\ failed = {} /\ RowsOf(d, w) # {} /\ Live(d, w) = {})
  <2>1. DecideSteps(d, w) = <<done>>
    BY <1>8 DEF DecideSteps
  <2>2. /\ done \in Database /\ done.wf = d.wf /\ done.row = d.row /\ done.known = d.known
        /\ done.decider = d.decider
    <3>1. Pending(d, w) \subseteq Rows
      BY RowsOfAre DEF Pending
    <3> QED
      BY <1>1, <3>1 DEF Database
  <2>3. run => Live(d, w) # {}
    BY <1>8
  <2> HIDE DEF done
  <2>4. done \in SoundBut(w)
    BY <2>2, SameBut
  <2>5. Awake(done, w)
    BY <2>2, <2>3 DEF Awake, Live, RowsOf
  <2>6. done \in Sound /\ done \in Good
    BY <2>4, <2>5, SoundIs
  <2> QED
    BY <2>1, <2>6, TrailFacts
<1> QED
  BY <1>3, <1>4, <1>5, <1>6, <1>7, <1>8

(***************************************************************************)
(* A sweep.                                                                *)
(***************************************************************************)

(* What the steps before it and an operation lead to together.                      *)
LEMMA ThenOperations ==
  ASSUME NEW ss, NEW w, NEW d
  PROVE  /\ Then(ss, LAMBDA f : DecideSteps(f, w)) = ss \o DecideSteps(Last(ss), w)
         /\ Then(ss, LAMBDA f : EnsureParent(f, w)) = ss \o EnsureParent(Last(ss), w)
         /\ Then(ss, LAMBDA f : Settle(f, w)) = ss \o Settle(Last(ss), w)
         /\ Then(ss, LAMBDA e : AfterDecide(d, e, w)) = ss \o AfterDecide(d, Last(ss), w)
         /\ Then(ss, LAMBDA f : SweepSteps(f, w)) = ss \o SweepSteps(Last(ss), w)
         /\ Then(ss, LAMBDA f : UpdateParents(f, w)) = ss \o UpdateParents(Last(ss), w)
<1>1. Then(ss, LAMBDA f : DecideSteps(f, w)) = ss \o DecideSteps(Last(ss), w)
  <2>1. Then(ss, LAMBDA f : DecideSteps(f, w)) = The({tt \o The({DecideSteps(x, w) : x \in {Last(tt)}}) : tt \in {ss}})
    BY DEF Then
  <2>2. {tt \o The({DecideSteps(x, w) : x \in {Last(tt)}}) : tt \in {ss}} = {ss \o DecideSteps(Last(ss), w)}
    BY TheOne
  <2> QED
    BY <2>1, <2>2, TheOne
<1>2. Then(ss, LAMBDA f : EnsureParent(f, w)) = ss \o EnsureParent(Last(ss), w)
  <2>1. Then(ss, LAMBDA f : EnsureParent(f, w)) = The({tt \o The({EnsureParent(x, w) : x \in {Last(tt)}}) : tt \in {ss}})
    BY DEF Then
  <2>2. {tt \o The({EnsureParent(x, w) : x \in {Last(tt)}}) : tt \in {ss}} = {ss \o EnsureParent(Last(ss), w)}
    BY TheOne
  <2> QED
    BY <2>1, <2>2, TheOne
<1>3. Then(ss, LAMBDA f : Settle(f, w)) = ss \o Settle(Last(ss), w)
  <2>1. Then(ss, LAMBDA f : Settle(f, w)) = The({tt \o The({Settle(x, w) : x \in {Last(tt)}}) : tt \in {ss}})
    BY DEF Then
  <2>2. {tt \o The({Settle(x, w) : x \in {Last(tt)}}) : tt \in {ss}} = {ss \o Settle(Last(ss), w)}
    BY TheOne
  <2> QED
    BY <2>1, <2>2, TheOne
<1>4. Then(ss, LAMBDA e : AfterDecide(d, e, w)) = ss \o AfterDecide(d, Last(ss), w)
  <2>1. Then(ss, LAMBDA e : AfterDecide(d, e, w)) = The({tt \o The({AfterDecide(d, x, w) : x \in {Last(tt)}}) : tt \in {ss}})
    BY DEF Then
  <2>2. {tt \o The({AfterDecide(d, x, w) : x \in {Last(tt)}}) : tt \in {ss}} = {ss \o AfterDecide(d, Last(ss), w)}
    BY TheOne
  <2> QED
    BY <2>1, <2>2, TheOne
<1>5. Then(ss, LAMBDA f : SweepSteps(f, w)) = ss \o SweepSteps(Last(ss), w)
  <2>1. Then(ss, LAMBDA f : SweepSteps(f, w)) = The({tt \o The({SweepSteps(x, w) : x \in {Last(tt)}}) : tt \in {ss}})
    BY DEF Then
  <2>2. {tt \o The({SweepSteps(x, w) : x \in {Last(tt)}}) : tt \in {ss}} = {ss \o SweepSteps(Last(ss), w)}
    BY TheOne
  <2> QED
    BY <2>1, <2>2, TheOne
<1>6. Then(ss, LAMBDA f : UpdateParents(f, w)) = ss \o UpdateParents(Last(ss), w)
  <2>1. Then(ss, LAMBDA f : UpdateParents(f, w)) = The({tt \o The({UpdateParents(x, w) : x \in {Last(tt)}}) : tt \in {ss}})
    BY DEF Then
  <2>2. {tt \o The({UpdateParents(x, w) : x \in {Last(tt)}}) : tt \in {ss}} = {ss \o UpdateParents(Last(ss), w)}
    BY TheOne
  <2> QED
    BY <2>1, <2>2, TheOne
<1> QED
  BY <1>1, <1>2, <1>3, <1>4, <1>5, <1>6

LEMMA EnsuredSound ==
  ASSUME NEW d \in Sound, NEW w \in Ids
  PROVE  EnsureParent(d, w) \in Trail(Good) /\ Last(EnsureParent(d, w)) \in Sound
<1> DEFINE e == SetDecider(d, Front(w), "ready")
<1>1. d \in Good /\ d \in Database /\ "ready" \in Queue
  BY SoundIs, GoodIs, Fields
<1>2. CASE EnsureParent(d, w) = <<d>>
  BY <1>1, <1>2, TrailFacts
<1>3. CASE w # <<>> /\ EnsureParent(d, w) = <<e>>
  <2>1. Front(w) \in Ids
    BY <1>3, IdIsRow, NameOfRow
  <2>2. /\ e \in Database /\ e.wf = d.wf /\ e.row = d.row /\ e.known = d.known
        /\ e.decider[Front(w)] = "ready"
        /\ \A v \in Ids : v # Front(w) => e.decider[v] = d.decider[v]
    BY <1>1, <2>1, DeciderIsSet
  <2> HIDE DEF e
  <2>3. e \in Sound
    BY <2>2, SameSound
  <2>4. e \in Good
    BY <2>3, SoundIs
  <2>5. <<e>> \in Trail(Good) /\ Last(<<e>>) = e
    BY <2>4, TrailFacts
  <2>6. EnsureParent(d, w) = <<e>>
    BY <1>3 DEF e
  <2> QED
    BY <2>3, <2>5, <2>6
<1> QED
  BY <1>2, <1>3 DEF EnsureParent

LEMMA LatestIs ==
  ASSUME NEW d, NEW w \in Ids, RowsOf(d, w) # {}
  PROVE  /\ LatestOf(RowsOf(d, w)) \in RowsOf(d, w)
         /\ \A q \in RowsOf(d, w) : Last(q) <= Last(LatestOf(RowsOf(d, w)))
<1> DEFINE R == RowsOf(d, w)
           T == {MaxAttempt - Last(r) : r \in R}
<1>1. \A r \in R : Last(r) \in 0..MaxAttempt
  BY RowsOfAre, NameOfRow DEF Attempt
<1>2. MaxAttempt \in Nat
  BY Bounds
<1> HIDE DEF R
<1>3. \A r \in R : MaxAttempt - Last(r) \in Nat /\ Last(r) \in Nat
  <2> SUFFICES ASSUME NEW r \in R PROVE MaxAttempt - Last(r) \in Nat /\ Last(r) \in Nat
    OBVIOUS
  <2>1. Last(r) \in 0..MaxAttempt
    BY <1>1
  <2> QED
    BY <1>2, <2>1
<1>4. T \in SUBSET Nat
  BY <1>3
<1>5. T # {}
  BY DEF R
<1>6. PICK q \in T : \A p \in T : q <= p
  BY <1>4, <1>5, LeastExists
<1>7. PICK r \in R : q = MaxAttempt - Last(r)
  OBVIOUS
<1>8. \A x \in R : Last(x) <= Last(r)
  <2> SUFFICES ASSUME NEW x \in R PROVE Last(x) <= Last(r)
    OBVIOUS
  <2>1. MaxAttempt - Last(r) <= MaxAttempt - Last(x)
    BY <1>6, <1>7
  <2>2. Last(x) \in Nat /\ Last(r) \in Nat
    BY <1>3
  <2> QED
    BY <1>2, <2>1, <2>2
<1>9. LatestOf(R) \in R /\ \A x \in R : Last(x) <= Last(LatestOf(R))
  BY <1>8 DEF LatestOf
<1> QED
  BY <1>9 DEF R

LEMMA ForcedSound ==
  ASSUME NEW d \in Sound, NEW w \in Ids
  PROVE  ForceLast(d, w) \in Trail(Good) /\ Last(ForceLast(d, w)) \in Sound
<1> DEFINE e == [d EXCEPT !.executed = @ \ {LatestOf(RowsOf(d, w))}]
<1>1. d \in Good /\ d \in Database
  BY SoundIs, GoodIs
<1>2. CASE ForceLast(d, w) = <<d>>
  BY <1>1, <1>2, TrailFacts
<1>3. CASE ForceLast(d, w) = DecideSteps(e, w)
  <2>1. /\ e \in Database /\ e.wf = d.wf /\ e.row = d.row /\ e.known = d.known
        /\ e.decider = d.decider
    BY <1>1 DEF Database
  <2> HIDE DEF e
  <2>2. e \in SoundBut(w)
    BY <2>1, SoundIs, SameBut
  <2> QED
    BY <1>3, <2>2, DecisionSound
<1> QED
  BY <1>2, <1>3 DEF ForceLast

LEMMA SettledSound ==
  ASSUME NEW d \in Sound, NEW w \in Ids
  PROVE  Settle(d, w) \in Trail(Good) /\ Last(Settle(d, w)) \in Sound
<1>1. d \in SoundBut(w)
  BY SoundIs
<1>2. CASE Over(d, w)
  <2>1. Settle(d, w) = Gone(d, w) /\ d.wf[w] # "RUNNING"
    BY <1>2, StatusOfEnd DEF Settle, Over
  <2> QED
    BY <1>1, <2>1, GoneSound
<1>3. CASE ~ Over(d, w)
  <2> DEFINE ss == ForceLast(d, w)
             u == EnsureParent(Last(ss), w)
  <2>1. Settle(d, w) = ss \o u
    BY <1>3, ThenOperations, Zenon DEF Settle
  <2>2. ss \in Trail(Good) /\ Last(ss) \in Sound
    BY ForcedSound
  <2>3. u \in Trail(Good) /\ Last(u) \in Sound
    BY <2>2, EnsuredSound
  <2> HIDE DEF ss, u
  <2> QED
    BY <2>1, <2>2, <2>3, TrailJoins
<1> QED
  BY <1>2, <1>3

LEMMA RepairedSound ==
  ASSUME NEW d \in Sound, NEW w \in Ids
  PROVE  Repair(d, w) \in Sound
<1> DEFINE a == SetQueue(d, Unhanded(d, w), "ready")
           row == [r \in Rows |-> IF r \in Outlived(d, w) THEN TaskStatusOf(d.wf[r]) ELSE d.row[r]]
           e == [a EXCEPT !.row = row]
<1>1. d \in Good /\ d \in Database /\ "ready" \in Queue
  BY SoundIs, GoodIs, Fields
<1>2. /\ a \in Database /\ a.wf = d.wf /\ a.row = d.row /\ a.known = d.known /\ a.decider = d.decider
  BY <1>1, QueueIsSet
<1> HIDE DEF a
<1>3. Repair(d, w) = e
  BY <1>2 DEF Repair, a
<1>4. \A r \in Outlived(d, w) :
        /\ r \in Rows /\ r \in Ids /\ HasChild(r) /\ Over(d, r) /\ r \in d.known
        /\ r \in Live(d, w) /\ Front(r) = w
        /\ d.wf[r] \in WorkflowStatuses /\ TaskStatusOf(d.wf[r]) \in TerminalTask
        /\ TaskStatusOf(d.wf[r]) \in TaskStatuses
        /\ (TaskStatusOf(d.wf[r]) = "COMPLETED" => d.wf[r] = "COMPLETED")
  BY RowsOfAre, NameOfRow, StatusOfEnd DEF Outlived, Over
<1>5. row \in [Rows -> TaskStatuses \cup {None}]
  <2>1. \A r \in Rows : d.row[r] \in TaskStatuses \cup {None}
    BY <1>1, Fields
  <2> QED
    BY <1>4, <2>1
<1>6. \A r \in Rows : row[r] = IF r \in Outlived(d, w) THEN TaskStatusOf(d.wf[r]) ELSE d.row[r]
  OBVIOUS
<1> HIDE DEF row
<1>7. e \in Database /\ e.wf = d.wf /\ e.row = row /\ e.known = d.known /\ e.decider = d.decider
  BY <1>2, <1>5 DEF Database
<1> HIDE DEF e
<1>8. ASSUME Steady, NEW r \in Rows PROVE Covered(e, r)
  BY <1>1, <1>4, <1>6, <1>7, <1>8, GoodIs DEF Covered
<1>9. ASSUME Steady, NEW v \in Ids PROVE Settled(e, v)
  <2>1. SUFFICES ASSUME Over(e, v), NEW q \in Live(e, v) PROVE FALSE
    BY DEF Settled
  <2>2. q \in Rows /\ Front(q) = v /\ e.row[q] # None /\ e.row[q] \notin TerminalTask
    BY RowsOfAre
  <2>3. q \notin Outlived(d, w)
    BY <1>4, <1>6, <1>7, <2>2
  <2>4. q \in Live(d, v)
    BY <1>6, <1>7, <2>2, <2>3, RowsOfAre
  <2> QED
    BY <1>1, <1>7, <1>9, <2>1, <2>4, GoodIs DEF Settled, Over
<1>10. e \in Good
  BY <1>7, <1>8, <1>9 DEF Good
<1>11. ASSUME Unbroken PROVE Agreed(e) /\ \A v \in Ids : Awake(e, v)
  <2>1. Agreed(d) /\ \A v \in Ids : Awake(d, v)
    BY <1>11 DEF Sound
  <2>2. Outlived(d, w) = {}
    <3> SUFFICES ASSUME NEW r \in Outlived(d, w) PROVE FALSE
      OBVIOUS
    <3>1. d.row[r] = TaskStatusOf(d.wf[r])
      BY <1>4, <2>1 DEF Agreed
    <3> QED
      BY <1>4, <3>1, RowsOfAre
  <2>3. \A r \in Rows : e.row[r] = d.row[r]
    BY <1>6, <1>7, <2>2
  <2>4. e.row = d.row
    <3>1. d.row \in [Rows -> TaskStatuses \cup {None}]
      BY <1>1, Fields
    <3> QED
      BY <1>5, <1>7, <2>3, <3>1
  <2>5. e \in Sound
    BY <1>7, <2>4, SameSound
  <2> QED
    BY <1>11, <2>5 DEF Sound
<1> QED
  BY <1>3, <1>10, <1>11 DEF Sound

LEMMA RepairStepsSound ==
  ASSUME NEW d \in Sound, NEW w \in Ids
  PROVE  RepairSteps(d, w) \in Trail(Good) /\ Last(RepairSteps(d, w)) \in Sound
<1> DEFINE e == Repair(d, w)
           u == DecideSteps(e, w)
<1>1. e \in Sound /\ e \in Good /\ e \in SoundBut(w)
  BY RepairedSound, SoundIs
<1>2. RepairSteps(d, w) = <<e>> \/ RepairSteps(d, w) = <<e>> \o u
  <2> DEFINE ss == <<e>>
  <2>0. Last(ss) = e
    BY <1>1, TrailFacts
  <2>1. Then(ss, LAMBDA f : DecideSteps(f, w)) = ss \o DecideSteps(Last(ss), w)
    BY ThenOperations
  <2>2. RepairSteps(d, w) = <<e>> \/ RepairSteps(d, w) = Then(ss, LAMBDA f : DecideSteps(f, w))
    BY DEF RepairSteps
  <2> HIDE DEF e
  <2> QED
    BY <2>0, <2>1, <2>2
<1>3. <<e>> \in Trail(Good) /\ Last(<<e>>) = e
  BY <1>1, TrailFacts
<1> HIDE DEF e
<1>4. u \in Trail(Good) /\ Last(u) \in Sound
  BY <1>1, DecisionSound
<1> HIDE DEF u
<1>5. <<e>> \o u \in Trail(Good) /\ Last(<<e>> \o u) = Last(u)
  BY <1>3, <1>4, TrailJoins
<1> QED
  BY <1>1, <1>2, <1>3, <1>4, <1>5

LEMMA AfterDecideSound ==
  ASSUME NEW d, NEW e \in Sound, NEW w \in Ids
  PROVE  AfterDecide(d, e, w) \in Trail(Good) /\ Last(AfterDecide(d, e, w)) \in Sound
<1> DEFINE ss == RepairSteps(e, w)
           u == Settle(Last(ss), w)
<1>1. e \in SoundBut(w) /\ e \in Good
  BY SoundIs
<1>2. \/ Over(e, w) /\ AfterDecide(d, e, w) = Gone(e, w)
      \/ AfterDecide(d, e, w) = <<e>>
      \/ AfterDecide(d, e, w) = ss \o u
      \/ AfterDecide(d, e, w) = Settle(e, w)
  <2>1. Then(RepairSteps(e, w), LAMBDA f : Settle(f, w)) = ss \o u
    BY ThenOperations
  <2>2. \/ Over(e, w) /\ AfterDecide(d, e, w) = Gone(e, w)
        \/ AfterDecide(d, e, w) = <<e>>
        \/ AfterDecide(d, e, w) = Then(RepairSteps(e, w), LAMBDA f : Settle(f, w))
        \/ AfterDecide(d, e, w) = Settle(e, w)
    BY Zenon DEF AfterDecide
  <2> QED
    BY <2>1, <2>2
<1>3. ss \in Trail(Good) /\ Last(ss) \in Sound
  BY RepairStepsSound
<1>4. u \in Trail(Good) /\ Last(u) \in Sound
  BY <1>3, SettledSound
<1>5. ss \o u \in Trail(Good) /\ Last(ss \o u) \in Sound
  <2> HIDE DEF ss, u
  <2> QED
    BY <1>3, <1>4, TrailJoins
<1>6. Over(e, w) => Gone(e, w) \in Trail(Good) /\ Last(Gone(e, w)) \in Sound
  BY <1>1, GoneSound, StatusOfEnd DEF Over
<1>7. <<e>> \in Trail(Good) /\ Last(<<e>>) = e
  BY <1>1, TrailFacts
<1>8. Settle(e, w) \in Trail(Good) /\ Last(Settle(e, w)) \in Sound
  BY SettledSound
<1> HIDE DEF ss, u
<1> QED
  BY <1>2, <1>5, <1>6, <1>7, <1>8

LEMMA SweepSound ==
  ASSUME NEW w \in Ids, NEW d \in SoundBut(w)
  PROVE  SweepSteps(d, w) \in Trail(Good) /\ Last(SweepSteps(d, w)) \in Sound
<1> DEFINE ss == DecideSteps(d, w)
           u == AfterDecide(d, Last(ss), w)
<1>1. \/ Over(d, w) /\ SweepSteps(d, w) = Gone(d, w)
      \/ SweepSteps(d, w) = ss \o u
  <2>1. Then(DecideSteps(d, w), LAMBDA e : AfterDecide(d, e, w)) = ss \o u
    BY ThenOperations
  <2>2. \/ Over(d, w) /\ SweepSteps(d, w) = Gone(d, w)
        \/ SweepSteps(d, w) = Then(DecideSteps(d, w), LAMBDA e : AfterDecide(d, e, w))
    BY Zenon DEF SweepSteps
  <2> QED
    BY <2>1, <2>2
<1>2. Over(d, w) => Gone(d, w) \in Trail(Good) /\ Last(Gone(d, w)) \in Sound
  BY GoneSound, StatusOfEnd DEF Over
<1>3. ss \in Trail(Good) /\ Last(ss) \in Sound
  BY DecisionSound
<1>4. u \in Trail(Good) /\ Last(u) \in Sound
  BY <1>3, AfterDecideSound
<1> HIDE DEF ss, u
<1>5. ss \o u \in Trail(Good) /\ Last(ss \o u) = Last(u)
  BY <1>3, <1>4, TrailJoins
<1> QED
  BY <1>1, <1>2, <1>4, <1>5

(***************************************************************************)
(* The inductive invariant.                                                *)
(***************************************************************************)

TreeInv == db \in Sound /\ requests \in 0..MaxRequests /\ crashes \in 0..MaxCrashes

LEMMA RebootedGood ==
  ASSUME NEW d \in Good
  PROVE  Rebooted(d) \in Good
<1> DEFINE f == [w \in Ids |-> IF d.wf[w] # None /\ ~ Over(d, w) THEN "ready" ELSE d.decider[w]]
           e == [d EXCEPT !.decider = f]
<1>1. d \in Database /\ "ready" \in Queue
  BY GoodIs, Fields
<1>2. Rebooted(d) = e
  BY DEF Rebooted
<1>3. f \in [Ids -> Queue]
  <2>1. \A w \in Ids : d.decider[w] \in Queue
    BY <1>1, Fields
  <2> QED
    BY <1>1, <2>1
<1> HIDE DEF f
<1>4. e \in Database /\ e.wf = d.wf /\ e.row = d.row
  BY <1>1, <1>3 DEF Database
<1> HIDE DEF e
<1>5. e \in Good
  BY <1>4, GoodSame
<1> QED
  BY <1>2, <1>5

(* An operation that ends or is interrupted.  Between the writes of a retry or a     *)
(* restart a database need not be Good: then no crash may be possible.            *)
LEMMA Committed ==
  ASSUME TreeInv, NEW ss, ss \in Trail(Database), Last(ss) \in Sound,
         ss \in Trail(Good) \/ ~ (Requests \subseteq {"terminate"}), Commit(ss)
  PROVE  db' \in Sound /\ crashes' \in 0..MaxCrashes
<1>1. /\ MaxCrashes \in Nat /\ crashes \in 0..MaxCrashes /\ db \in Good /\ db \in Database
  BY Bounds, SoundIs, GoodIs DEF TreeInv
<1>2. \/ db' = Last(ss) /\ crashes' = crashes
      \/ /\ crashes < MaxCrashes /\ crashes' = crashes + 1
         /\ \E n \in 0..(Len(ss) - 1) : db' = Rebooted(IF n = 0 THEN db ELSE ss[n])
  BY DEF Commit
<1>3. CASE db' = Last(ss) /\ crashes' = crashes
  BY <1>1, <1>3
<1>4. CASE /\ crashes < MaxCrashes /\ crashes' = crashes + 1
           /\ \E n \in 0..(Len(ss) - 1) : db' = Rebooted(IF n = 0 THEN db ELSE ss[n])
  <2>1. MaxCrashes # 0 /\ crashes' \in 0..MaxCrashes
    BY <1>1, <1>4
  <2>2. PICK n \in 0..(Len(ss) - 1) : db' = Rebooted(IF n = 0 THEN db ELSE ss[n])
    BY <1>4
  <2>3. \A S : ss \in Trail(S) /\ n # 0 => ss[n] \in S
    <3> SUFFICES ASSUME NEW S, ss \in Trail(S), n # 0 PROVE ss[n] \in S
      OBVIOUS
    <3>1. Len(ss) \in Nat \ {0}
      BY TrailFacts
    <3>2. n \in 1..Len(ss)
      BY <2>2, <3>1
    <3> QED
      BY <3>2, TrailFacts
  <2> DEFINE x == IF n = 0 THEN db ELSE ss[n]
  <2>4. x \in Database /\ (ss \in Trail(Good) => x \in Good)
    BY <1>1, <2>3
  <2> HIDE DEF x
  <2>5. x \in Good
    <3>1. CASE ss \in Trail(Good)
      BY <2>4, <3>1
    <3>2. CASE ~ (Requests \subseteq {"terminate"})
      <4>1. ~ Steady
        BY <2>1, <3>2 DEF Steady
      <4> QED
        BY <2>4, <4>1 DEF Good
    <3> QED
      BY <3>1, <3>2
  <2>6. db' \in Good
    BY <2>2, <2>5, RebootedGood DEF x
  <2>7. ~ Unbroken
    BY <2>1 DEF Unbroken
  <2> QED
    BY <2>1, <2>6, <2>7 DEF Sound
<1> QED
  BY <1>2, <1>3, <1>4

LEMMA CommittedGood ==
  ASSUME TreeInv, NEW ss, ss \in Trail(Good), Last(ss) \in Sound, Commit(ss)
  PROVE  db' \in Sound /\ crashes' \in 0..MaxCrashes
<1>1. ss \in Trail(Database)
  BY GoodIs, TrailWidens
<1> QED
  BY <1>1, Committed

(* The server starts the child of a row.                                          *)
LEMMA ExecuteKeeps ==
  ASSUME TreeInv, NEW r \in Rows, Execute(r)
  PROVE  TreeInv'
<1> DEFINE popped == SetQueue(db, {r}, "popped")
           removed == SetQueue(db, {r}, "absent")
           created == SetWorkflow(popped, r, "RUNNING")
           pushed == SetDecider(created, r, "ready")
           ss == CASE db.row[r] \in TerminalTask -> <<popped, removed>>
                   [] db.row[r] = "SCHEDULED" /\ db.wf[r] = None -> <<popped, created, pushed>>
                   [] OTHER -> <<popped>>
<1>1. /\ HasChild(r) /\ r \in Ids /\ r # <<>> /\ Front(r) \in Ids
      /\ {"popped", "absent", "ready"} \subseteq Queue
      /\ "RUNNING" \in WorkflowStatuses /\ "RUNNING" \notin TerminalWorkflow
      /\ "SCHEDULED" \notin TerminalTask /\ "SCHEDULED" # "COMPLETED"
  BY NameOfRow, Fields, StatusOfEnd DEF Execute
<1>2. db \in Sound /\ db \in Good /\ db \in Database
  BY SoundIs, GoodIs DEF TreeInv
<1>3. Commit(ss) /\ requests' = requests
  BY DEF Execute
<1>4. /\ popped \in Database /\ popped.wf = db.wf /\ popped.row = db.row
      /\ popped.known = db.known /\ popped.decider = db.decider
      /\ removed \in Database /\ removed.wf = db.wf /\ removed.row = db.row
      /\ removed.known = db.known /\ removed.decider = db.decider
  BY <1>1, <1>2, QueueIsSet
<1> HIDE DEF popped, removed
<1>5. popped \in Sound /\ removed \in Sound /\ popped \in Good /\ removed \in Good
  BY <1>2, <1>4, SameSound, SoundIs
<1>6. ASSUME db.row[r] = "SCHEDULED" /\ db.wf[r] = None
      PROVE  created \in Good /\ pushed \in Good /\ pushed \in Sound
  <2>1. created \in Good
    BY <1>1, <1>4, <1>5, <1>6, GoodWorkflow
  <2>2. /\ created \in Database /\ created.row = db.row /\ created.known = db.known
        /\ created.decider = db.decider /\ created.wf[r] = "RUNNING"
        /\ \A v \in Ids : v # r => created.wf[v] = db.wf[v]
    BY <1>1, <1>4, WorkflowIsSet
  <2> HIDE DEF created
  <2>3. /\ pushed \in Database /\ pushed.row = db.row /\ pushed.known = db.known
        /\ pushed.wf = created.wf /\ pushed.decider[r] = "ready"
        /\ \A v \in Ids : v # r => pushed.decider[v] = db.decider[v]
        /\ pushed \in Good
    <3>1. "ready" \in Queue /\ r \in Ids
      BY <1>1
    <3>2. pushed \in Good
      BY <2>1, <3>1, GoodOthers
    <3> QED
      BY <2>2, <3>1, <3>2, DeciderIsSet
  <2> HIDE DEF pushed
  <2>4. ASSUME Agreed(db) PROVE Agreed(pushed)
    <3>1. SUFFICES ASSUME NEW q \in pushed.known
                   PROVE  /\ HasChild(q) /\ pushed.row[q] # None
                          /\ Over(pushed, q) => pushed.row[q] = TaskStatusOf(pushed.wf[q])
      BY DEF Agreed
    <3>2. q \in db.known /\ q \in Rows /\ HasChild(q) /\ q \in Ids
      BY <1>2, <2>3, <2>4, Fields, NameOfRow DEF Agreed
    <3> QED
      BY <1>1, <2>2, <2>3, <2>4, <3>2 DEF Agreed, Over
  <2>5. ASSUME NEW v \in Ids, Awake(db, v) PROVE Awake(pushed, v)
    <3>1. Live(pushed, v) = Live(db, v)
      BY <2>3 DEF Live, RowsOf
    <3> QED
      BY <2>2, <2>3, <2>5, <3>1 DEF Awake
  <2>6. pushed \in Sound
    BY <1>2, <2>3, <2>4, <2>5 DEF Sound
  <2> QED
    BY <2>1, <2>3, <2>6
<1> HIDE DEF created, pushed
<1>7. ss \in Trail(Good) /\ Last(ss) \in Sound
  <2>1. CASE db.row[r] \in TerminalTask
    <3>1. ss = <<popped, removed>>
      BY <1>1, <2>1, Zenon
    <3>2. <<popped, removed>> \in Trail(Good) /\ Last(<<popped, removed>>) = removed
      BY <1>5 DEF Trail, Last
    <3> QED
      BY <1>5, <3>1, <3>2
  <2>2. CASE db.row[r] = "SCHEDULED" /\ db.wf[r] = None
    <3>0. ~ (db.row[r] \in TerminalTask)
      BY <1>1, <2>2
    <3>1. ss = <<popped, created, pushed>>
      BY <2>2, <3>0, Zenon
    <3>2. <<popped, created, pushed>> \in Trail(Good) /\ Last(<<popped, created, pushed>>) = pushed
      BY <1>5, <1>6, <2>2 DEF Trail, Last
    <3> QED
      BY <1>6, <2>2, <3>1, <3>2
  <2>3. CASE ~ (db.row[r] \in TerminalTask) /\ ~ (db.row[r] = "SCHEDULED" /\ db.wf[r] = None)
    <3>1. ss = <<popped>>
      BY <2>3, Zenon
    <3>2. <<popped>> \in Trail(Good) /\ Last(<<popped>>) = popped
      BY <1>5, TrailFacts
    <3> QED
      BY <1>5, <3>1, <3>2
  <2> QED
    BY <2>1, <2>2, <2>3
<1> HIDE DEF ss
<1>8. db' \in Sound /\ crashes' \in 0..MaxCrashes
  BY <1>3, <1>7, CommittedGood
<1> QED
  BY <1>3, <1>8 DEF TreeInv

(* A worker reports and its workflow decides.                                       *)
LEMMA ReportKeeps ==
  ASSUME TreeInv, NEW r \in Rows, Report(r)
  PROVE  TreeInv'
<1> DEFINE w == Front(r)
<1>1. /\ w \in Ids /\ ~ HasChild(r) /\ r \in Live(db, w) /\ ~ Over(db, w)
  BY NameOfRow DEF Report
<1>2. db \in Sound /\ db \in Good /\ db \in Database
  BY SoundIs, GoodIs DEF TreeInv
<1>3. PICK s \in {"COMPLETED", "FAILED"} :
        Commit(Then(<<SetTask(db, r, s)>>, LAMBDA d : DecideSteps(d, Front(r))))
  BY DEF Report
<1> DEFINE e == SetTask(db, r, s)
           ss == <<e>>
           u == DecideSteps(e, w)
<1>4. s \in TerminalTask /\ s \in TaskStatuses
  BY StatusOfEnd
<1>5. /\ e \in Database /\ e.wf = db.wf /\ e.known = db.known /\ e.decider = db.decider
      /\ \A q \in Rows : q # r => e.row[q] = db.row[q]
  BY <1>2, <1>4, TaskIsSet
<1>6. e \in Good
  BY <1>1, <1>2, <1>4, GoodTask
<1> HIDE DEF e
<1>7. ss \in Trail(Good) /\ Last(ss) = e
  BY <1>6, TrailFacts
<1>8. Commit(ss \o u)
  <2>1. Then(ss, LAMBDA d : DecideSteps(d, w)) = ss \o DecideSteps(Last(ss), w)
    BY ThenOperations
  <2>2. Commit(Then(ss, LAMBDA d : DecideSteps(d, w)))
    BY <1>3 DEF e
  <2> HIDE DEF ss
  <2> QED
    BY <1>7, <2>1, <2>2
<1>9. e \in SoundBut(w)
  <2>1. ASSUME Agreed(db) PROVE Agreed(e)
    <3>1. \A q \in e.known : q \in Rows /\ q # r
      BY <1>1, <1>2, <1>5, <2>1, Fields DEF Agreed
    <3> QED
      BY <1>5, <2>1, <3>1 DEF Agreed, Over
  <2>2. ASSUME NEW v \in Ids, v # w, Awake(db, v) PROVE Awake(e, v)
    <3>1. Live(db, v) \subseteq Live(e, v)
      <4> SUFFICES ASSUME NEW q \in Live(db, v) PROVE q \in Live(e, v)
        OBVIOUS
      <4>1. q \in Rows /\ Front(q) = v /\ db.row[q] # None /\ db.row[q] \notin TerminalTask
        BY RowsOfAre
      <4>2. e.row[q] = db.row[q]
        BY <1>5, <2>2, <4>1
      <4> QED
        BY <4>1, <4>2, RowsOfAre
    <3> QED
      BY <1>5, <2>2, <3>1 DEF Awake
  <2> QED
    BY <1>2, <1>6, <2>1, <2>2 DEF Sound, SoundBut
<1>10. u \in Trail(Good) /\ Last(u) \in Sound
  BY <1>1, <1>9, DecisionSound
<1> HIDE DEF ss, u
<1>11. ss \o u \in Trail(Good) /\ Last(ss \o u) = Last(u)
  BY <1>7, <1>10, TrailJoins
<1>12. db' \in Sound /\ crashes' \in 0..MaxCrashes
  BY <1>8, <1>10, <1>11, CommittedGood
<1> QED
  BY <1>12 DEF TreeInv, Report

LEMMA SweepKeeps ==
  ASSUME TreeInv, NEW w \in Ids, Sweep(w)
  PROVE  TreeInv'
<1> DEFINE e == SetDecider(db, w, "popped")
           ss == <<e>>
           u == SweepSteps(e, w)
<1>1. db \in Sound /\ db \in Good /\ db \in Database /\ db \in SoundBut(w) /\ "popped" \in Queue
  BY SoundIs, GoodIs, Fields DEF TreeInv
<1>2. /\ e \in Database /\ e.wf = db.wf /\ e.row = db.row /\ e.known = db.known
      /\ \A v \in Ids : v # w => e.decider[v] = db.decider[v]
  BY <1>1, DeciderIsSet
<1>3. Commit(Then(ss, LAMBDA d : SweepSteps(d, w)))
  BY DEF Sweep
<1> HIDE DEF e
<1>4. e \in SoundBut(w) /\ e \in Good
  BY <1>1, <1>2, SameBut, SoundIs
<1>5. ss \in Trail(Good) /\ Last(ss) = e
  BY <1>4, TrailFacts
<1>6. Commit(ss \o u)
  <2>1. Then(ss, LAMBDA d : SweepSteps(d, w)) = ss \o SweepSteps(Last(ss), w)
    BY ThenOperations
  <2> HIDE DEF ss
  <2> QED
    BY <1>3, <1>5, <2>1
<1>7. u \in Trail(Good) /\ Last(u) \in Sound
  BY <1>4, SweepSound
<1> HIDE DEF ss, u
<1>8. ss \o u \in Trail(Good) /\ Last(ss \o u) = Last(u)
  BY <1>5, <1>7, TrailJoins
<1>9. db' \in Sound /\ crashes' \in 0..MaxCrashes
  BY <1>6, <1>7, <1>8, CommittedGood
<1> QED
  BY <1>9 DEF TreeInv, Sweep

LEMMA RequestCounted ==
  ASSUME TreeInv, NEW kind, NEW w, Request(kind, w)
  PROVE  kind \in Requests /\ requests' \in 0..MaxRequests
BY Bounds DEF Request, TreeInv

LEMMA TerminateKeeps ==
  ASSUME TreeInv, NEW w \in Ids, Terminate(w)
  PROVE  TreeInv'
<1> DEFINE ss == TerminateSteps(db, w, "TERMINATED")
<1>1. db \in Good /\ db \in SoundBut(w) /\ db.wf[w] # "COMPLETED"
  BY SoundIs DEF TreeInv, Terminate
<1>2. ss \in Trail(Good) /\ Stopped(db, Last(ss), w, "TERMINATED")
  BY <1>1, Terminated
<1>3. Last(ss) \in Sound
  <2> HIDE DEF ss
  <2> QED
    BY <1>1, <1>2, StoppedSound
<1>4. Commit(ss)
  BY DEF Terminate
<1> HIDE DEF ss
<1>5. db' \in Sound /\ crashes' \in 0..MaxCrashes
  BY <1>2, <1>3, <1>4, CommittedGood
<1>6. requests' \in 0..MaxRequests
  BY RequestCounted DEF Terminate
<1> QED
  BY <1>5, <1>6 DEF TreeInv

LEMMA InitSound ==
  ASSUME Init
  PROVE  TreeInv
<1> DEFINE d == [wf |-> [w \in Ids |-> IF w = <<>> THEN "RUNNING" ELSE None],
                 row |-> [r \in Rows |-> None], known |-> {}, executed |-> {}, retried |-> {},
                 queue |-> [r \in Rows |-> "absent"], decider |-> [w \in Ids |-> "absent"]]
<1>1. db = Last(DecideSteps(d, <<>>)) /\ requests = 0 /\ crashes = 0
  BY DEF Init
<1>2. <<>> \in Ids
  <2>1. <<>> \in Seq(Attempt) /\ Len(<<>>) = 0
    OBVIOUS
  <2>2. 0 \in 0..Depth
    BY Bounds
  <2> QED
    BY <2>1, <2>2, NamesAre
<1>3. d \in Database
  <2>1. [w \in Ids |-> IF w = <<>> THEN "RUNNING" ELSE None] \in [Ids -> WorkflowStatuses \cup {None}]
    BY StatusOfEnd
  <2>2. /\ [r \in Rows |-> "absent"] \in [Rows -> Queue]
        /\ [w \in Ids |-> "absent"] \in [Ids -> Queue]
        /\ [r \in Rows |-> None] \in [Rows -> TaskStatuses \cup {None}]
    BY Fields
  <2> QED
    BY <2>1, <2>2 DEF Database
<1>4. /\ d.wf[<<>>] = "RUNNING" /\ \A w \in Ids : w # <<>> => d.wf[w] = None
      /\ \A r \in Rows : d.row[r] = None
      /\ d.known = {}
  BY <1>2
<1> HIDE DEF d
<1>5. \A r \in Rows : Covered(d, r)
  BY <1>4, StatusOfEnd, Fields DEF Covered
<1>6. \A w \in Ids : Live(d, w) = {}
  BY <1>4, RowsOfAre
<1>7. d \in Good
  BY <1>3, <1>5, <1>6 DEF Good, Settled
<1>8. d \in SoundBut(<<>>)
  <2>1. Agreed(d)
    BY <1>4 DEF Agreed
  <2>2. \A v \in Ids : v # <<>> => Awake(d, v)
    BY <1>4, StatusOfEnd, Fields DEF Awake
  <2> QED
    BY <1>7, <2>1, <2>2 DEF SoundBut
<1>9. Last(DecideSteps(d, <<>>)) \in Sound
  BY <1>2, <1>8, DecisionSound
<1> QED
  BY <1>1, <1>9, Bounds DEF TreeInv

(***************************************************************************)
(* Retry and restart.                                                      *)
(***************************************************************************)

(* The databases in which v runs again and the row that started it may not yet.    *)
Opening(v) ==
  {d \in Database :
     /\ Steady => (\A r \in Rows : r # v => Covered(d, r)) /\ (\A w \in Ids : Settled(d, w))
     /\ Unbroken => d.wf[v] = "RUNNING" /\ Agreed(d) /\ \A w \in Ids : Awake(d, w)}

LEMMA ParentReopened ==
  ASSUME NEW ss \in Trail(Database), NEW v \in Ids, v # <<>>
  PROVE  /\ ParentSteps(ss, v) \in Trail(Database)
         /\ Last(ss) \in Opening(v) => Last(ParentSteps(ss, v)) \in Opening(Front(v))
<1> DEFINE d == Last(ss)
           p == Front(v)
           a == SetTask(d, v, "IN_PROGRESS")
           b == SetWorkflow(a, p, "RUNNING")
           c == SetDecider(b, p, "ready")
           tt == <<a, b, c>>
<1>1. /\ d \in Database /\ v \in Rows /\ p \in Ids /\ v # p /\ "ready" \in Queue
      /\ "IN_PROGRESS" \in TaskStatuses /\ "RUNNING" \in WorkflowStatuses
      /\ "IN_PROGRESS" # "COMPLETED" /\ "RUNNING" \notin TerminalWorkflow /\ "IN_PROGRESS" # None
  <2>1. d \in Database
    BY TrailFacts
  <2>2. v \in Rows /\ p \in Ids /\ v # p
    BY IdIsRow, NameOfRow
  <2> HIDE DEF d, p
  <2> QED
    BY <2>1, <2>2, Fields, StatusOfEnd
<1>2. ParentSteps(ss, v) = ss \o tt
  BY DEF ParentSteps
<1> HIDE DEF d, p
<1>3. /\ a \in Database /\ a.wf = d.wf /\ a.known = d.known /\ a.decider = d.decider
      /\ a.row[v] = "IN_PROGRESS" /\ \A q \in Rows : q # v => a.row[q] = d.row[q]
  BY <1>1, TaskIsSet
<1> HIDE DEF a
<1>4. /\ b \in Database /\ b.row = a.row /\ b.known = d.known /\ b.decider = d.decider
      /\ b.wf[p] = "RUNNING" /\ \A u \in Ids : u # p => b.wf[u] = d.wf[u]
  BY <1>1, <1>3, WorkflowIsSet
<1> HIDE DEF b
<1>5. /\ c \in Database /\ c.row = a.row /\ c.known = d.known /\ c.wf = b.wf
      /\ c.decider[p] = "ready" /\ \A u \in Ids : u # p => c.decider[u] = d.decider[u]
  BY <1>1, <1>4, DeciderIsSet
<1> HIDE DEF c
<1>6. tt \in Trail(Database) /\ Last(tt) = c
  BY <1>3, <1>4, <1>5 DEF Trail, Last
<1> HIDE DEF tt
<1>7. ParentSteps(ss, v) \in Trail(Database) /\ Last(ParentSteps(ss, v)) = c
  BY <1>2, <1>6, TrailJoins
<1>8. \A u \in Ids : u # p => Live(d, u) = Live(c, u)
  <2> SUFFICES ASSUME NEW u \in Ids, u # p PROVE Live(d, u) = Live(c, u)
    OBVIOUS
  <2>1. \A q \in Rows : Front(q) = u => c.row[q] = d.row[q]
    BY <1>3, <1>5 DEF p
  <2>2. \A q \in Live(d, u) : q \in Live(c, u)
    BY <2>1, RowsOfAre
  <2>3. \A q \in Live(c, u) : q \in Live(d, u)
    BY <2>1, RowsOfAre
  <2> QED
    BY <2>2, <2>3
<1>9. ASSUME d \in Opening(v) PROVE c \in Opening(p)
  <2>1. ASSUME Steady, NEW r \in Rows, r # p PROVE Covered(c, r)
    <3>1. r # v => Covered(d, r)
      BY <1>9, <2>1 DEF Opening
    <3>2. HasChild(r) => r \in Ids /\ c.wf[r] = d.wf[r]
      BY <1>4, <1>5, <2>1, NameOfRow
    <3> QED
      BY <1>1, <1>3, <1>5, <3>1, <3>2 DEF Covered
  <2>2. ASSUME Steady, NEW u \in Ids PROVE Settled(c, u)
    <3>1. Settled(d, u)
      BY <1>9, <2>2 DEF Opening
    <3> QED
      BY <1>1, <1>4, <1>5, <1>8, <3>1 DEF Settled, Over
  <2>3. ASSUME Unbroken PROVE c.wf[p] = "RUNNING" /\ Agreed(c) /\ \A u \in Ids : Awake(c, u)
    <3>1. d.wf[v] = "RUNNING" /\ Agreed(d) /\ \A u \in Ids : Awake(d, u)
      BY <1>9, <2>3 DEF Opening
    <3>2. Agreed(c)
      <4>1. SUFFICES ASSUME NEW q \in c.known
                     PROVE  /\ HasChild(q) /\ c.row[q] # None
                            /\ Over(c, q) => c.row[q] = TaskStatusOf(c.wf[q])
        BY DEF Agreed
      <4>2. /\ q \in Rows /\ HasChild(q) /\ q \in Ids /\ d.row[q] # None
            /\ Over(d, q) => d.row[q] = TaskStatusOf(d.wf[q])
        BY <1>1, <1>5, <3>1, Fields, NameOfRow DEF Agreed
      <4> QED
        BY <1>1, <1>3, <1>4, <1>5, <3>1, <4>2 DEF Over
    <3>3. \A u \in Ids : Awake(c, u)
      BY <1>4, <1>5, <1>8, <3>1 DEF Awake
    <3> QED
      BY <1>4, <1>5, <3>2, <3>3
  <2> QED
    BY <1>5, <2>1, <2>2, <2>3 DEF Opening
<1> QED
  BY <1>7, <1>9 DEF d, p

(* The ancestors of w.                                                            *)
LEMMA Ancestors ==
  ASSUME NEW w \in Ids
  PROVE  /\ Len(w) \in Nat /\ SubSeq(w, 1, Len(w) - 0) = w
         /\ \A n \in 1..Len(w) :
              LET v == SubSeq(w, 1, Len(w) - n + 1)
              IN /\ v \in Ids /\ v # <<>> /\ v = SubSeq(w, 1, Len(w) - (n - 1))
                 /\ Front(v) = SubSeq(w, 1, Len(w) - n)
         /\ SubSeq(w, 1, Len(w) - Len(w)) = <<>>
<1>1. w \in Seq(Attempt) /\ Len(w) \in 0..Depth /\ Depth \in Nat /\ Len(w) \in Nat
  BY NamesAre, Bounds
<1>2. \A m \in 0..Len(w) :
        /\ SubSeq(w, 1, m) \in Seq(Attempt) /\ Len(SubSeq(w, 1, m)) = m
        /\ \A i \in 1..m : SubSeq(w, 1, m)[i] = w[i]
  <2> SUFFICES ASSUME NEW m \in 0..Len(w)
               PROVE  /\ SubSeq(w, 1, m) \in Seq(Attempt) /\ Len(SubSeq(w, 1, m)) = m
                      /\ \A i \in 1..m : SubSeq(w, 1, m)[i] = w[i]
    OBVIOUS
  <2>1. \A i \in 1..m : i \in 1..Len(w) /\ w[i] \in Attempt
    BY <1>1
  <2> QED
    BY <1>1, <2>1
<1>3. SubSeq(w, 1, Len(w) - 0) = w
  <2>1. Len(w) - 0 = Len(w) /\ Len(w) \in 0..Len(w)
    BY <1>1
  <2> DEFINE x == SubSeq(w, 1, Len(w))
  <2>2. x \in Seq(Attempt) /\ Len(x) = Len(w) /\ \A i \in 1..Len(w) : x[i] = w[i]
    BY <1>2, <2>1
  <2> HIDE DEF x
  <2>3. x = w
    BY <1>1, <2>2
  <2> QED
    BY <2>1, <2>3 DEF x
<1>4. ASSUME NEW n \in 1..Len(w)
      PROVE  LET v == SubSeq(w, 1, Len(w) - n + 1)
             IN /\ v \in Ids /\ v # <<>> /\ v = SubSeq(w, 1, Len(w) - (n - 1))
                /\ Front(v) = SubSeq(w, 1, Len(w) - n)
  <2> DEFINE m == Len(w) - n + 1
             v == SubSeq(w, 1, m)
             p == SubSeq(w, 1, m - 1)
  <2>1. /\ m \in 0..Len(w) /\ m - 1 \in 0..Len(w) /\ m # 0 /\ m \in 0..Depth
        /\ m = Len(w) - (n - 1) /\ m - 1 = Len(w) - n /\ m \in Nat
    BY <1>1
  <2> HIDE DEF m
  <2>2. v \in Seq(Attempt) /\ Len(v) = m /\ \A i \in 1..m : v[i] = w[i]
    BY <1>2, <2>1
  <2>3. p \in Seq(Attempt) /\ Len(p) = m - 1 /\ \A i \in 1..(m - 1) : p[i] = w[i]
    BY <1>2, <2>1
  <2> HIDE DEF v, p
  <2>4. v \in Ids /\ v # <<>>
    BY <2>1, <2>2, NamesAre
  <2>5. Front(v) = p
    <3>1. /\ Front(v) \in Seq(Attempt) /\ Len(Front(v)) = m - 1
          /\ \A i \in 1..(m - 1) : Front(v)[i] = v[i]
      <4>1. v \in Rows /\ Front(v) \in Ids /\ Len(v) = Len(Front(v)) + 1 /\ Len(Front(v)) \in Nat
        BY <2>4, IdIsRow, NameOfRow
      <4>2. Front(v) \in Seq(Attempt)
        BY <4>1, NamesAre
      <4>3. Front(v) = SubSeq(v, 1, m - 1)
        BY <2>2 DEF Front
      <4>4. \A i \in 1..(m - 1) : Front(v)[i] = v[i]
        BY <2>1, <2>2, <4>3
      <4>5. Len(Front(v)) = m - 1
        <5>1. m = Len(Front(v)) + 1
          BY <2>2, <4>1
        <5>2. \A k \in Nat : m = k + 1 => k = m - 1
          BY <2>1
        <5> QED
          BY <4>1, <5>1, <5>2
      <4> QED
        BY <4>2, <4>4, <4>5
    <3>2. \A i \in 1..(m - 1) : i \in 1..m /\ i \in 1..(m - 1)
      BY <2>1
    <3>3. \A i \in 1..(m - 1) : Front(v)[i] = p[i]
      BY <2>2, <2>3, <3>1, <3>2
    <3> QED
      BY <2>3, <3>1, <3>3
  <2> QED
    BY <2>1, <2>4, <2>5 DEF v, p, m
<1>5. SubSeq(w, 1, Len(w) - Len(w)) = <<>>
  <2>1. Len(w) - Len(w) = 0 /\ 0 \in 0..Len(w)
    BY <1>1
  <2>2. SubSeq(w, 1, 0) \in Seq(Attempt) /\ Len(SubSeq(w, 1, 0)) = 0
    BY <1>2, <2>1
  <2> QED
    BY <2>1, <2>2
<1> QED
  BY <1>1, <1>3, <1>4, <1>5

(* The loop of updateAndPushParents.                                              *)
Ancestor(w, n) == SubSeq(w, 1, Len(w) - n + 1)
ReopenLoop(f, d, w) ==
  f = [n \in 0..Len(w) |->
         IF n = 0 THEN <<d>>
         ELSE The({ParentSteps(ss, SubSeq(w, 1, Len(w) - n + 1)) : ss \in {f[n - 1]}})]

LEMMA ReopenLoopExists ==
  ASSUME NEW d \in Database, NEW w \in Ids
  PROVE  \E c : /\ c[0] = <<d>>
                /\ \A n \in 1..Len(w) : c[n] = ParentSteps(c[n - 1], Ancestor(w, n))
                /\ UpdateParents(d, w) = c[Len(w)]
<1> DEFINE S == Trail(Database)
           M == Len(w)
           G == [x \in (1..M) \X S |-> ParentSteps(x[2], Ancestor(w, x[1]))]
           c == CHOOSE f : ReopenLoop(f, d, w)
<1>1. M \in Nat /\ \A n \in 1..M : Ancestor(w, n) \in Ids /\ Ancestor(w, n) # <<>>
  BY Ancestors DEF Ancestor
<1>2. <<d>> \in S
  BY TrailFacts
<1>3. ASSUME NEW n \in 1..M, NEW x \in S PROVE ParentSteps(x, Ancestor(w, n)) \in S
  BY <1>1, ParentReopened
<1>4. \A n, ss : The({ParentSteps(s2, SubSeq(w, 1, Len(w) - n + 1)) : s2 \in {ss}}) = ParentSteps(ss, Ancestor(w, n))
  <2> SUFFICES ASSUME NEW n, NEW ss
               PROVE  The({ParentSteps(s2, SubSeq(w, 1, Len(w) - n + 1)) : s2 \in {ss}}) = ParentSteps(ss, Ancestor(w, n))
    OBVIOUS
  <2>1. {ParentSteps(s2, SubSeq(w, 1, Len(w) - n + 1)) : s2 \in {ss}} = {ParentSteps(ss, SubSeq(w, 1, Len(w) - n + 1))}
    OBVIOUS
  <2> QED
    BY <2>1, TheOne DEF Ancestor
<1> HIDE DEF S, M
<1>5. \A n \in 1..M : \A x \in S : StepOf(G, n, x) = ParentSteps(x, Ancestor(w, n))
  BY DEF StepOf
<1> HIDE DEF G
<1>6. ASSUME NEW f, IsLoop(f, M, <<d>>, G)
      PROVE  /\ f[0] = <<d>>
             /\ \A n \in 1..M : f[n - 1] \in S /\ f[n] = StepOf(G, n, f[n - 1])
             /\ \A n \in 0..M : f[n] \in S
  <2>1. \A n \in 1..M : \A x \in S : StepOf(G, n, x) \in S
    BY <1>3, <1>5
  <2> QED
    BY <1>1, <1>2, <1>6, <2>1, LoopRuns
<1>7. PICK f : IsLoop(f, M, <<d>>, G)
  BY <1>1, LoopExists
<1>8. ReopenLoop(f, d, w)
  <2>1. \A n \in 1..M : StepOf(G, n, f[n - 1]) = ParentSteps(f[n - 1], Ancestor(w, n))
    BY <1>5, <1>6, <1>7
  <2>2. \A n \in 0..M : n # 0 => n \in 1..M
    BY <1>1
  <2>3. \A n \in 1..M : StepOf(G, n, f[n - 1])
                        = The({ParentSteps(ss, SubSeq(w, 1, Len(w) - n + 1)) : ss \in {f[n - 1]}})
    BY <1>4, <2>1
  <2>4. f = [n \in 0..M |-> IF n = 0 THEN <<d>> ELSE StepOf(G, n, f[n - 1])]
    BY <1>7 DEF IsLoop
  <2>5. f = [n \in 0..M |-> IF n = 0 THEN <<d>>
                            ELSE The({ParentSteps(ss, SubSeq(w, 1, Len(w) - n + 1)) : ss \in {f[n - 1]}})]
    BY <2>2, <2>3, <2>4
  <2> QED
    BY <2>5 DEF ReopenLoop, M
<1>9. ReopenLoop(c, d, w)
  BY <1>8
<1>10. UpdateParents(d, w) = c[Len(w)]
  BY DEF UpdateParents, ReopenLoop
<1> HIDE DEF c
<1>11. c[0] = <<d>> /\ \A n \in 1..M : c[n] = ParentSteps(c[n - 1], Ancestor(w, n))
  <2>1. 0 \in 0..M /\ \A n \in 1..M : n \in 0..M /\ n # 0
    BY <1>1
  <2>2. c = [n \in 0..M |-> IF n = 0 THEN <<d>>
                            ELSE The({ParentSteps(ss, SubSeq(w, 1, Len(w) - n + 1)) : ss \in {c[n - 1]}})]
    BY <1>9 DEF ReopenLoop, M
  <2>3. c[0] = <<d>>
    BY <2>1, <2>2
  <2>4. \A n \in 1..M : c[n] = The({ParentSteps(ss, SubSeq(w, 1, Len(w) - n + 1)) : ss \in {c[n - 1]}})
    BY <2>1, <2>2
  <2> QED
    BY <1>4, <2>3, <2>4
<1> QED
  BY <1>10, <1>11 DEF M

LEMMA ParentsSound ==
  ASSUME NEW w \in Ids, NEW d \in Opening(w)
  PROVE  UpdateParents(d, w) \in Trail(Database) /\ Last(UpdateParents(d, w)) \in Sound
<1> DEFINE M == Len(w)
           T == [n \in 0..M |-> {ss \in Trail(Database) : Last(ss) \in Opening(SubSeq(w, 1, M - n))}]
<1>1. /\ M \in Nat /\ SubSeq(w, 1, M - 0) = w /\ SubSeq(w, 1, M - M) = <<>>
      /\ \A n \in 1..M : /\ Ancestor(w, n) \in Ids /\ Ancestor(w, n) # <<>>
                         /\ Ancestor(w, n) = SubSeq(w, 1, M - (n - 1))
                         /\ Front(Ancestor(w, n)) = SubSeq(w, 1, M - n)
  BY Ancestors DEF Ancestor
<1>2. d \in Database
  BY DEF Opening
<1>3. PICK c : /\ c[0] = <<d>>
               /\ \A n \in 1..M : c[n] = ParentSteps(c[n - 1], Ancestor(w, n))
               /\ UpdateParents(d, w) = c[M]
  BY <1>2, ReopenLoopExists
<1> HIDE DEF M
<1>4. 0 \in 0..M /\ M \in 0..M /\ \A n \in 1..M : n \in 0..M /\ n - 1 \in 0..M
  BY <1>1
<1>5. c[0] \in T[0]
  <2>1. <<d>> \in Trail(Database) /\ Last(<<d>>) = d
    BY <1>2, TrailFacts
  <2> QED
    BY <1>1, <1>3, <1>4, <2>1
<1>6. ASSUME NEW n \in 1..M, c[n - 1] \in T[n - 1] PROVE c[n] \in T[n]
  <2>1. c[n - 1] \in Trail(Database) /\ Last(c[n - 1]) \in Opening(Ancestor(w, n))
    BY <1>1, <1>4, <1>6
  <2>2. /\ ParentSteps(c[n - 1], Ancestor(w, n)) \in Trail(Database)
        /\ Last(ParentSteps(c[n - 1], Ancestor(w, n))) \in Opening(SubSeq(w, 1, M - n))
    BY <1>1, <2>1, ParentReopened
  <2> QED
    BY <1>3, <1>4, <2>2
<1> HIDE DEF T
<1>7. \A n \in 0..M : c[n] \in T[n]
  BY <1>1, <1>5, <1>6, LoopStays
<1>8. c[M] \in Trail(Database) /\ Last(c[M]) \in Opening(<<>>)
  BY <1>1, <1>4, <1>7 DEF T
<1>9. Opening(<<>>) \subseteq Sound
  <2>1. \A r \in Rows : r # <<>>
    BY NameOfRow
  <2> QED
    BY <2>1 DEF Opening, Sound, Good
<1> QED
  BY <1>3, <1>8, <1>9

(* A new attempt, in a workflow that runs again.                                   *)
LEMMA RetryOpens ==
  ASSUME NEW d \in Sound, NEW w \in Ids, RowsOf(d, w) # {},
         Last(LatestOf(RowsOf(d, w))) < MaxAttempt
  PROVE  RetrySteps(d, w) \in Trail(Database) /\ Last(RetrySteps(d, w)) \in Opening(w)
<1> DEFINE r == LatestOf(RowsOf(d, w))
           next == Child(w, Last(r) + 1)
           a == SetDecider(d, w, "ready")
           b == SetWorkflow(a, w, "RUNNING")
           c == [b EXCEPT !.retried = @ \cup {r}, !.executed = @ \cup {r}]
           ss == <<a, b, c>>
           u == Schedule(c, next)
           e == Last(u)
<1>1. /\ d \in Good /\ d \in Database /\ "ready" \in Queue /\ "RUNNING" \in WorkflowStatuses
      /\ "RUNNING" \notin TerminalWorkflow
  BY SoundIs, GoodIs, Fields, StatusOfEnd
<1>2. r \in RowsOf(d, w) /\ r \in Rows /\ \A q \in RowsOf(d, w) : Last(q) <= Last(r)
  BY LatestIs, RowsOfAre
<1>3. next \in Rows /\ Front(next) = w /\ Last(next) = Last(r) + 1 /\ Last(r) \in Nat
  <2>1. Last(r) \in Attempt /\ Last(r) < MaxAttempt
    BY <1>2, NameOfRow
  <2> HIDE DEF r
  <2>2. Last(r) + 1 \in Attempt /\ Last(r) \in Nat
    BY <2>1, Bounds DEF Attempt
  <2> QED
    BY <2>2, NameOfChild
<1>4. RetrySteps(d, w) = ss \o u
  BY DEF RetrySteps
<1> HIDE DEF r, next
<1>5. next \notin RowsOf(d, w)
  <2> SUFFICES ASSUME next \in RowsOf(d, w) PROVE FALSE
    OBVIOUS
  <2>1. Last(next) <= Last(r)
    BY <1>2
  <2> QED
    BY <1>3, <2>1
<1>6. d.row[next] = None
  BY <1>3, <1>5, RowsOfAre
<1>7. /\ a \in Database /\ a.wf = d.wf /\ a.row = d.row /\ a.known = d.known
      /\ a.decider[w] = "ready" /\ \A v \in Ids : v # w => a.decider[v] = d.decider[v]
  BY <1>1, DeciderIsSet
<1> HIDE DEF a
<1>8. /\ b \in Database /\ b.row = d.row /\ b.known = d.known /\ b.decider = a.decider
      /\ b.wf[w] = "RUNNING" /\ \A v \in Ids : v # w => b.wf[v] = d.wf[v]
  BY <1>1, <1>7, WorkflowIsSet
<1> HIDE DEF b
<1>9. /\ c \in Database /\ c.row = d.row /\ c.known = d.known /\ c.decider = a.decider /\ c.wf = b.wf
  BY <1>2, <1>8 DEF Database
<1> HIDE DEF c
<1>10. \A v \in Ids : Live(c, v) = Live(d, v)
  BY <1>9 DEF Live, RowsOf
<1>11. \A q \in Rows : q # w /\ Covered(d, q) => Covered(c, q)
  <2> SUFFICES ASSUME NEW q \in Rows, q # w, Covered(d, q) PROVE Covered(c, q)
    OBVIOUS
  <2>1. HasChild(q) => c.wf[q] = d.wf[q]
    BY <1>8, <1>9, NameOfRow
  <2> QED
    BY <1>9, <2>1 DEF Covered
<1>12. \A v \in Ids : Settled(d, v) => Settled(c, v)
  BY <1>1, <1>8, <1>9, <1>10 DEF Settled, Over
<1>13. Agreed(d) => Agreed(c)
  <2> SUFFICES ASSUME Agreed(d), NEW q \in c.known
               PROVE  /\ HasChild(q) /\ c.row[q] # None
                      /\ Over(c, q) => c.row[q] = TaskStatusOf(c.wf[q])
    BY DEF Agreed
  <2>1. /\ q \in Rows /\ HasChild(q) /\ q \in Ids /\ d.row[q] # None
        /\ Over(d, q) => d.row[q] = TaskStatusOf(d.wf[q])
    BY <1>1, <1>9, Fields, NameOfRow DEF Agreed
  <2> QED
    BY <1>1, <1>8, <1>9, <2>1 DEF Over
<1>14. \A v \in Ids : Awake(d, v) => Awake(c, v)
  BY <1>7, <1>8, <1>9, <1>10 DEF Awake
<1>15. /\ u \in Trail(Database) /\ e.wf = c.wf /\ e.known = c.known /\ e.decider = c.decider
       /\ e.row = SetTask(c, next, "SCHEDULED").row /\ e \in Database
  BY <1>3, <1>9, ScheduleWrites
<1> HIDE DEF e
<1>16. /\ Agreed(c) => Agreed(e)
       /\ \A v \in Ids : Awake(c, v) => Awake(e, v)
       /\ \A q \in Rows : Covered(c, q) => Covered(e, q)
       /\ \A v \in Ids : Settled(c, v) => Settled(e, v)
  BY <1>3, <1>6, <1>8, <1>9, <1>15, ScheduleAgrees
<1>17. e \in Opening(w)
  <2>1. ASSUME Steady
        PROVE  (\A q \in Rows : q # w => Covered(e, q)) /\ (\A v \in Ids : Settled(e, v))
    BY <1>1, <1>11, <1>12, <1>16, <2>1, GoodIs
  <2>2. ASSUME Unbroken PROVE e.wf[w] = "RUNNING" /\ Agreed(e) /\ \A v \in Ids : Awake(e, v)
    <3>1. Agreed(d) /\ \A v \in Ids : Awake(d, v)
      BY <2>2 DEF Sound
    <3> QED
      BY <1>8, <1>9, <1>13, <1>14, <1>15, <1>16, <3>1
  <2> QED
    BY <1>15, <2>1, <2>2 DEF Opening
<1>18. ss \in Trail(Database)
  BY <1>7, <1>8, <1>9 DEF Trail
<1> HIDE DEF ss, u
<1>19. ss \o u \in Trail(Database) /\ Last(ss \o u) = Last(u)
  BY <1>15, <1>18, TrailJoins
<1> QED
  BY <1>4, <1>17, <1>19 DEF e

(* The workflow that a resume retries.                                              *)
FoundNext(d, v) ==
  LET r == FirstFailed(d, v)
  IN IF HasChild(r) /\ r \in d.known /\ FailedRows(d, r) # {} THEN r ELSE v
FoundLoop(f, d, w) ==
  f = [n \in 0..Depth |->
         IF n = 0 THEN w
         ELSE The({LET r == FirstFailed(d, v)
                   IN IF HasChild(r) /\ r \in d.known /\ FailedRows(d, r) # {} THEN r ELSE v :
                     v \in {f[n - 1]}})]

LEMMA LastFailedIs ==
  ASSUME NEW d \in Database, NEW w \in Ids
  PROVE  LastFailed(d, w) \in Ids
<1> DEFINE G == [x \in (1..Depth) \X Ids |-> FoundNext(d, x[2])]
           c == CHOOSE f : FoundLoop(f, d, w)
<1>1. Depth \in Nat
  BY Bounds
<1>2. ASSUME NEW v \in Ids PROVE FoundNext(d, v) \in Ids
  <2>1. \A r \in d.known : HasChild(r) => r \in Ids
    BY Fields, NameOfRow
  <2> QED
    BY <2>1 DEF FoundNext
<1>3. \A v : The({LET r == FirstFailed(d, x)
                  IN IF HasChild(r) /\ r \in d.known /\ FailedRows(d, r) # {} THEN r ELSE x :
                    x \in {v}}) = FoundNext(d, v)
  <2> SUFFICES ASSUME NEW v
               PROVE  The({LET r == FirstFailed(d, x)
                           IN IF HasChild(r) /\ r \in d.known /\ FailedRows(d, r) # {} THEN r ELSE x :
                             x \in {v}}) = FoundNext(d, v)
    OBVIOUS
  <2>1. {LET r == FirstFailed(d, x)
         IN IF HasChild(r) /\ r \in d.known /\ FailedRows(d, r) # {} THEN r ELSE x : x \in {v}}
          = {FoundNext(d, v)}
    BY DEF FoundNext
  <2> QED
    BY <2>1, TheOne
<1>4. \A n \in 1..Depth : \A v \in Ids : StepOf(G, n, v) = FoundNext(d, v)
  BY DEF StepOf
<1> HIDE DEF G
<1>5. PICK f : IsLoop(f, Depth, w, G)
  BY <1>1, LoopExists
<1>6. \A n \in 1..Depth : f[n - 1] \in Ids
  <2>1. \A n \in 1..Depth : \A v \in Ids : StepOf(G, n, v) \in Ids
    BY <1>2, <1>4
  <2> QED
    BY <1>1, <1>5, <2>1, LoopRuns
<1>7. FoundLoop(f, d, w)
  <2>1. \A n \in 0..Depth : n # 0 => n \in 1..Depth
    BY <1>1
  <2>2. f = [n \in 0..Depth |-> IF n = 0 THEN w ELSE StepOf(G, n, f[n - 1])]
    BY <1>5 DEF IsLoop
  <2>3. f = [n \in 0..Depth |-> IF n = 0 THEN w ELSE FoundNext(d, f[n - 1])]
    BY <1>4, <1>6, <2>1, <2>2
  <2>4. f = [n \in 0..Depth |->
               IF n = 0 THEN w
               ELSE The({LET r == FirstFailed(d, v)
                         IN IF HasChild(r) /\ r \in d.known /\ FailedRows(d, r) # {} THEN r ELSE v :
                           v \in {f[n - 1]}})]
    BY <1>3, <2>3, Zenon
  <2> QED
    BY <2>4 DEF FoundLoop
<1>8. FoundLoop(c, d, w)
  BY <1>7
<1>9. LastFailed(d, w) = c[Depth]
  BY DEF LastFailed, FoundLoop
<1> HIDE DEF c
<1>10. c[0] = w /\ \A n \in 1..Depth : c[n] = FoundNext(d, c[n - 1])
  <2>1. 0 \in 0..Depth /\ \A n \in 1..Depth : n \in 0..Depth /\ n # 0
    BY <1>1
  <2>2. c[0] = w
    BY <1>8, <2>1 DEF FoundLoop
  <2>3. \A n \in 1..Depth :
          c[n] = The({LET r == FirstFailed(d, v)
                      IN IF HasChild(r) /\ r \in d.known /\ FailedRows(d, r) # {} THEN r ELSE v :
                        v \in {c[n - 1]}})
    BY <1>8, <2>1 DEF FoundLoop
  <2> QED
    BY <1>3, <2>2, <2>3
<1> DEFINE T == [n \in 0..Depth |-> Ids]
<1>11. 0 \in 0..Depth /\ Depth \in 0..Depth /\ \A n \in 1..Depth : n \in 0..Depth /\ n - 1 \in 0..Depth
  BY <1>1
<1>12. c[0] \in T[0] /\ \A n \in 1..Depth : c[n - 1] \in T[n - 1] => c[n] \in T[n]
  BY <1>2, <1>10, <1>11
<1> HIDE DEF T
<1>13. \A n \in 0..Depth : c[n] \in T[n]
  BY <1>1, <1>12, LoopStays
<1> QED
  BY <1>9, <1>11, <1>13 DEF T

LEMMA RetryKeeps ==
  ASSUME TreeInv, NEW w \in Ids, NEW resume \in BOOLEAN, Retry(w, resume)
  PROVE  TreeInv'
<1> DEFINE target == IF resume THEN LastFailed(db, w) ELSE w
           kind == IF resume THEN "resume" ELSE "retry"
           ss == RetrySteps(db, target)
           u == UpdateParents(Last(ss), target)
<1>1. db \in Sound /\ db \in Database
  BY SoundIs, GoodIs DEF TreeInv
<1>2. target \in Ids
  BY <1>1, LastFailedIs
<1>3. /\ Request(kind, w) /\ Retriable(db, target)
      /\ Last(LatestOf(RowsOf(db, target))) < MaxAttempt
      /\ Commit(Then(ss, LAMBDA d : UpdateParents(d, target)))
  BY DEF Retry
<1> HIDE DEF target
<1>4. RowsOf(db, target) # {}
  BY <1>3 DEF Retriable
<1>5. ss \in Trail(Database) /\ Last(ss) \in Opening(target)
  BY <1>1, <1>2, <1>3, <1>4, RetryOpens
<1>6. u \in Trail(Database) /\ Last(u) \in Sound
  BY <1>2, <1>5, ParentsSound
<1>7. Commit(ss \o u)
  <2>1. Then(ss, LAMBDA d : UpdateParents(d, target)) = ss \o u
    BY ThenOperations
  <2> HIDE DEF ss, u
  <2> QED
    BY <1>3, <2>1
<1> HIDE DEF ss, u
<1>8. ss \o u \in Trail(Database) /\ Last(ss \o u) = Last(u)
  BY <1>5, <1>6, TrailJoins
<1>9. kind \in Requests /\ requests' \in 0..MaxRequests
  BY <1>3, RequestCounted
<1>10. ~ (Requests \subseteq {"terminate"})
  BY <1>9
<1>11. db' \in Sound /\ crashes' \in 0..MaxCrashes
  BY <1>6, <1>7, <1>8, <1>10, Committed
<1> QED
  BY <1>9, <1>11 DEF TreeInv

LEMMA RestartKeeps ==
  ASSUME TreeInv, NEW w \in Ids, Restart(w)
  PROVE  TreeInv'
<1> DEFINE ss == DecideSteps(db, w)
           u == UpdateParents(Last(ss), w)
<1>1. db \in Sound /\ db \in SoundBut(w)
  BY SoundIs DEF TreeInv
<1>2. "restart" \in Requests /\ requests' \in 0..MaxRequests
  BY RequestCounted DEF Restart
<1>3. ss \in Trail(Good) /\ Last(ss) \in Sound
  BY <1>1, DecisionSound
<1>4. ss \in Trail(Database)
  BY <1>3, GoodIs, TrailWidens
<1>5. Commit(Then(ss, LAMBDA d : UpdateParents(d, w)))
  BY DEF Restart
<1> HIDE DEF ss
<1>6. Last(ss) \in Opening(w)
  <2>1. ~ Unbroken /\ Last(ss) \in Good
    BY <1>2, <1>3, SoundIs DEF Unbroken
  <2> QED
    BY <2>1, GoodIs DEF Opening
<1>7. u \in Trail(Database) /\ Last(u) \in Sound
  BY <1>6, ParentsSound
<1>8. Commit(ss \o u)
  <2>1. Then(ss, LAMBDA d : UpdateParents(d, w)) = ss \o u
    BY ThenOperations
  <2> HIDE DEF u
  <2> QED
    BY <1>5, <2>1
<1> HIDE DEF u
<1>9. ss \o u \in Trail(Database) /\ Last(ss \o u) = Last(u)
  BY <1>4, <1>7, TrailJoins
<1>10. ~ (Requests \subseteq {"terminate"})
  BY <1>2
<1>11. db' \in Sound /\ crashes' \in 0..MaxCrashes
  BY <1>7, <1>8, <1>9, <1>10, Committed
<1> QED
  BY <1>2, <1>11 DEF TreeInv

(***************************************************************************)
(* The theorems.                                                           *)
(***************************************************************************)

(* Whatever the depth of the tree and the bounds, the database and the counters   *)
(* are Sound after every step of the pollers, the workers, the sweeper, the        *)
(* requests and the crashes: the inductive invariant of what follows.             *)
THEOREM TreeInvariant ==
  Spec => []TreeInv
<1>1. Init => TreeInv
  BY InitSound
<1>2. TreeInv /\ [Next]_vars => TreeInv'
  <2> SUFFICES ASSUME TreeInv, [Next]_vars PROVE TreeInv'
    OBVIOUS
  <2>1. ASSUME NEW r \in Rows, Execute(r) PROVE TreeInv'
    BY <2>1, ExecuteKeeps
  <2>2. ASSUME NEW r \in Rows, Report(r) PROVE TreeInv'
    BY <2>2, ReportKeeps
  <2>3. ASSUME NEW w \in Ids, Sweep(w) PROVE TreeInv'
    BY <2>3, SweepKeeps
  <2>4. ASSUME NEW w \in Ids, Terminate(w) PROVE TreeInv'
    BY <2>4, TerminateKeeps
  <2>5. ASSUME NEW w \in Ids, Restart(w) PROVE TreeInv'
    BY <2>5, RestartKeeps
  <2>6. ASSUME NEW w \in Ids, NEW resume \in BOOLEAN, Retry(w, resume) PROVE TreeInv'
    BY <2>6, RetryKeeps
  <2>7. CASE UNCHANGED vars
    BY <2>7 DEF vars, TreeInv
  <2> QED
    BY <2>1, <2>2, <2>3, <2>4, <2>5, <2>6, <2>7 DEF Next
<1> QED
  BY <1>1, <1>2, PTL DEF Spec

(* The tables hold what they may, requests and crashes keep to their bounds.       *)
THEOREM TreeTypes ==
  Spec => []TypeOK
<1>1. TreeInv => TypeOK
  BY SoundIs, GoodIs DEF TreeInv, TypeOK
<1> QED
  BY <1>1, TreeInvariant, PTL

(* Unless a crash can interrupt a retry or a restart, a SUB_WORKFLOW task is          *)
(* COMPLETED only when the workflow it started is (SubWorkflow.execute,              *)
(* updateParentWorkflowTask, repairSubWorkflowTask).                              *)
THEOREM TreeCompletes ==
  Steady => (Spec => []CompletedByChild)
<1> SUFFICES ASSUME Steady PROVE Spec => []CompletedByChild
  OBVIOUS
<1>1. TreeInv => CompletedByChild
  BY SoundIs, GoodIs DEF TreeInv, CompletedByChild, Covered
<1> QED
  BY <1>1, TreeInvariant, PTL

(* Under the same condition a workflow that ended has no open task, wherever a       *)
(* termination is cut (cancelNonTerminalTasks, updateAndPushParents).              *)
THEOREM TreeCloses ==
  Steady => (Spec => []NoOpenTaskAfterEnd)
<1> SUFFICES ASSUME Steady PROVE Spec => []NoOpenTaskAfterEnd
  OBVIOUS
<1>1. TreeInv => NoOpenTaskAfterEnd
  BY SoundIs, GoodIs DEF TreeInv, NoOpenTaskAfterEnd, Settled
<1> QED
  BY <1>1, TreeInvariant, PTL

(* When no crash interrupts an operation and nobody restarts a workflow, a child      *)
(* and the task that started it agree on how they ended, through terminations,       *)
(* retries and resumes at any level (updateParentWorkflowTask, cancel).            *)
THEOREM TreeAgrees ==
  Unbroken => (Spec => []EndsAgree)
<1> SUFFICES ASSUME Unbroken PROVE Spec => []EndsAgree
  OBVIOUS
<1>1. TreeInv => EndsAgree
  BY DEF TreeInv, Sound, Agreed, EndsAgree
<1> QED
  BY <1>1, TreeInvariant, PTL

(* Under the same condition every running workflow of the tree has an open task or a *)
(* message in the decider queue (expediteLazyWorkflowEvaluation, updateAndPushParents). *)
THEOREM TreeWorks ==
  Unbroken => (Spec => []NeverIdle)
<1> SUFFICES ASSUME Unbroken PROVE Spec => []NeverIdle
  OBVIOUS
<1>1. TreeInv => NeverIdle
  BY DEF TreeInv, Sound, Awake, NeverIdle
<1> QED
  BY <1>1, TreeInvariant, PTL
================================================================================
