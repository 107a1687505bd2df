--------------------------- MODULE EngineOrderProofs ---------------------------
(***************************************************************************)
(* The order of the tasks and the finality of their results, for every        *)
(* workflow definition and any number of crashes.                            *)
(*                                                                         *)
(* Chain is what the statuses of the rows alone must satisfy; it does not     *)
(* mention the flags executed and retried, which a crash can leave behind the *)
(* rows.  Reach(d) holds the databases that writes may lead to from d, and an *)
(* operation is a walk through it, whatever prefix of it is left by a crash.  *)
(***************************************************************************)
EXTENDS WorkflowEngineProofs, WellFoundedInduction

(* Nothing is retried or rerun by hand and no row times out in memory only.   *)
Orderly == Admin \cap {"retry", "rerun"} = {} /\ NoRetryTimeout

(* A failure that calls for another attempt.                                  *)
Replaced(d, t) ==
  d.status[t] \in UnsuccessfulTask \cap RetriableTask /\ t[2] < RetryLimit[t[1]]

(* A success, or a failure that is tolerated after the last attempt.          *)
Passed(d, t) ==
  /\ d.status[t] \in TerminalTask
  /\ d.status[t] \in UnsuccessfulTask => /\ t[1] \in Optional \cup Permissive
                                         /\ ~ Replaced(d, t)

(* All attempts of a task but the last were to be replaced, none is missing,   *)
(* and a task that is not skipped is begun after every earlier one has passed. *)
Chain(d) ==
  /\ \A t, u \in Rows(d) : t[1] = u[1] /\ t[2] < u[2] => Replaced(d, t)
  /\ \A t \in Rows(d) : \A a \in 0..(t[2] - 1) : <<t[1], a>> \in Rows(d)
  /\ \A t \in Rows(d), p \in Ref :
       p < t[1] /\ d.status[t] # "SKIPPED" => \E u \in RowsOf(d, p) : Passed(d, u)

(* Final statuses stay, but for the failure of an optional task.               *)
Stays(d, e) ==
  \A t \in TaskId :
    d.status[t] \in TerminalTask =>
      \/ e.status[t] = d.status[t]
      \/ /\ e.status[t] = "COMPLETED_WITH_ERRORS"
         /\ d.status[t] \in UnsuccessfulTask
         /\ t[1] \in Optional

Reach(d) == {e \in Good : Stays(d, e) /\ (Orderly /\ Chain(d) => Chain(e))}

Walk(d) == Seq(Reach(d)) \ {<< >>}

(***************************************************************************)
(* Walks.                                                                  *)
(***************************************************************************)

LEMMA ReachItself ==
  ASSUME NEW d \in Good, NEW e \in Good, e.status = d.status
  PROVE  e \in Reach(d)
<1>1. Rows(e) = Rows(d)
  BY DEF Rows
<1>2. Chain(d) => Chain(e)
  BY <1>1 DEF Chain, Replaced, Passed, RowsOf
<1> QED
  BY <1>2 DEF Reach, Stays

LEMMA ReachOn ==
  ASSUME NEW d \in Good, NEW e \in Reach(d)
  PROVE  /\ e \in Good
         /\ Reach(e) \subseteq Reach(d)
         /\ Walk(e) \subseteq Walk(d)
<1>1. ASSUME NEW f \in Reach(e) PROVE f \in Reach(d)
  <2>1. Stays(d, f)
    BY <1>1 DEF Reach, Stays, TerminalTask, UnsuccessfulTask, SuccessfulTask, TaskStatuses
  <2> QED
    BY <1>1, <2>1 DEF Reach
<1>2. Reach(e) \subseteq Reach(d)
  BY <1>1
<1>3. Seq(Reach(e)) \subseteq Seq(Reach(d))
  BY <1>2
<1> QED
  BY <1>2, <1>3 DEF Walk, Reach

LEMMA WalkEnds ==
  ASSUME NEW d \in Good, NEW p \in Walk(d)
  PROVE  Final(p) \in Reach(d) /\ \A i \in 1..(Len(p) - 1) : p[i] \in Reach(d)
BY DEF Walk, Final

LEMMA WalkJoins ==
  ASSUME NEW d \in Good, NEW p \in Walk(d), NEW q \in Walk(d)
  PROVE  p \o q \in Walk(d)
<1> DEFINE S == Reach(d)
<1>1. p \in Seq(S) /\ q \in Seq(S) /\ p # << >>
  BY DEF Walk
<1> HIDE DEF S
<1>2. p \o q \in Seq(S) /\ p \o q # << >>
  BY <1>1
<1> QED
  BY <1>2 DEF Walk, S

(* The first and the last of some numbers.                                    *)
LEMMA LeastExists ==
  ASSUME NEW T \in SUBSET Nat, T # {}
  PROVE  \E q \in T : \A p \in T : q <= p
<1> DEFINE R == OpToRel(<, Nat)
<1>1. IsWellFoundedOn(R, Nat)
  BY NatLessThanWellFounded
<1>2. \A x, y \in Nat : x < y => <<x, y>> \in R
  BY DEF OpToRel
<1> HIDE DEF R
<1>3. PICK q \in T : \A p \in T : <<p, q>> \notin R
  BY <1>1, WFMin
<1>4. ASSUME NEW p \in T PROVE q <= p
  <2>1. p \in Nat /\ q \in Nat
    OBVIOUS
  <2>2. ~ (p < q)
    BY <1>2, <1>3, <2>1
  <2> QED
    BY <2>1, <2>2
<1> QED
  BY <1>4

LEMMA GreatestExists ==
  ASSUME NEW n \in Nat, NEW T \in SUBSET (0..n), T # {}
  PROVE  \E q \in T : \A p \in T : p <= q
<1> DEFINE S == {m \in Nat : m <= n /\ n - m \in T}
<1>1. S # {}
  <2>0. PICK q \in T : TRUE
    OBVIOUS
  <2>1. q \in T /\ q \in Nat /\ q <= n
    <3>1. q \in 0..n
      OBVIOUS
    <3> QED
      BY <3>1
  <2>2. n - q \in Nat /\ n - q <= n /\ n - (n - q) = q
    BY <2>1
  <2>3. n - q \in S
    BY <2>1, <2>2
  <2> QED
    BY <2>3
<1>2. PICK m \in S : \A k \in S : m <= k
  <2>1. S \in SUBSET Nat
    OBVIOUS
  <2> HIDE DEF S
  <2> QED
    BY <1>1, <2>1, LeastExists
<1>3. ASSUME NEW p \in T PROVE p <= n - m
  <2>1. p \in Nat /\ p <= n /\ n - p \in Nat /\ n - p <= n /\ n - (n - p) = p
    OBVIOUS
  <2>2. n - p \in S
    BY <2>1
  <2> QED
    BY <1>2, <2>1, <2>2
<1>4. n - m \in T
  BY <1>2
<1> QED
  BY <1>3, <1>4

LEMMA LatestExists ==
  ASSUME NEW d, NEW r, RowsOf(d, r) # {}
  PROVE  LatestOf(d, r) # {}
<1> DEFINE T == {t[2] : t \in RowsOf(d, r)}
<1>1. \A t \in RowsOf(d, r) : t[2] \in 0..MaxAttempt
  BY DEF RowsOf, Rows, TaskId
<1>2. T \in SUBSET (0..MaxAttempt) /\ T # {}
  BY <1>1
<1>3. PICK a \in T : \A b \in T : b <= a
  <2> HIDE DEF T
  <2> QED
    BY <1>2, GreatestExists, SizeAssumption
<1> QED
  BY <1>3 DEF LatestOf

(* The writes that leave the task table alone.                                *)
LEMMA SameStatus ==
  ASSUME NEW d \in Good, NEW m, NEW s, NEW T
  PROVE  /\ SetWorkflow(d, s).status = d.status
         /\ SetPending(d).status = d.status
         /\ RemovePending(d).status = d.status
         /\ SetDecider(d, m).status = d.status
         /\ InsertKeys(d, T).status = d.status
         /\ Push(d, T).status = d.status
         /\ Remove(d, T).status = d.status
         /\ \A t \in TaskId : Postpone(d, t).status = d.status
BY DEF Good, Database, SetWorkflow, SetPending, RemovePending, SetDecider, InsertKeys,
       Push, Remove, Postpone

(***************************************************************************)
(* The writes to the task table.                                           *)
(***************************************************************************)

LEMMA Statuses ==
  /\ TerminalTask \subseteq TaskStatuses /\ None \notin TaskStatuses
  /\ UnsuccessfulTask \subseteq TerminalTask
  /\ "SKIPPED" \in TerminalTask \ UnsuccessfulTask
  /\ "COMPLETED_WITH_ERRORS" \in TerminalTask \ UnsuccessfulTask
BY DEF TerminalTask, TaskStatuses, None, UnsuccessfulTask, SuccessfulTask

LEMMA TaskIdType ==
  \A t \in TaskId : t[1] \in Ref /\ t[1] \in Int /\ t[2] \in Nat /\ t = <<t[1], t[2]>>
BY SizeAssumption DEF TaskId, Ref

(* The status of open rows changes.                                           *)
LEMMA LiveReach ==
  ASSUME NEW d \in Good, NEW e \in Good, NEW T \in SUBSET Live(d),
         NEW s \in TaskStatuses \ {"SKIPPED"},
         \A t \in TaskId : e.status[t] = IF t \in T THEN s ELSE d.status[t]
  PROVE  e \in Reach(d) /\ Rows(e) = Rows(d)
<1>1. \A t \in T : t \in Rows(d) /\ t \in TaskId /\ d.status[t] \notin TerminalTask
  BY DEF Live, Rows
<1>2. Rows(e) = Rows(d)
  BY <1>1, Statuses DEF Rows
<1>3. Stays(d, e)
  BY <1>1 DEF Stays
<1>4. ASSUME Chain(d) PROVE Chain(e)
  <2>1. \A t \in Rows(d) : Replaced(d, t) => t \notin T /\ Replaced(e, t)
    BY <1>1, Statuses DEF Replaced, Rows
  <2>2. \A t \in Rows(d) : Passed(d, t) => t \notin T /\ Passed(e, t)
    BY <1>1, <2>1 DEF Passed, Replaced, Rows
  <2>3. \A t \in Rows(d) : e.status[t] # "SKIPPED" => d.status[t] # "SKIPPED"
    BY <1>1, Statuses DEF Rows
  <2>4. \A p : RowsOf(e, p) = RowsOf(d, p)
    BY <1>2 DEF RowsOf
  <2>5. \A t, u \in Rows(e) : t[1] = u[1] /\ t[2] < u[2] => Replaced(e, t)
    BY <1>2, <1>4, <2>1 DEF Chain
  <2>6. \A t \in Rows(e) : \A a \in 0..(t[2] - 1) : <<t[1], a>> \in Rows(e)
    BY <1>2, <1>4 DEF Chain
  <2>7. ASSUME NEW t \in Rows(e), NEW p \in Ref, p < t[1], e.status[t] # "SKIPPED"
        PROVE  \E u \in RowsOf(e, p) : Passed(e, u)
    <3>1. PICK u \in RowsOf(d, p) : Passed(d, u)
      BY <1>2, <1>4, <2>3, <2>7 DEF Chain
    <3> QED
      BY <2>2, <2>4, <3>1 DEF RowsOf
  <2> QED
    BY <2>5, <2>6, <2>7 DEF Chain
<1> QED
  BY <1>2, <1>3, <1>4 DEF Reach

(* A failure that is tolerated for good is rewritten.                         *)
LEMMA TolerateReach ==
  ASSUME NEW d \in Good, NEW e \in Good, NEW T \in SUBSET Rows(d),
         \A t \in T : d.status[t] \in UnsuccessfulTask /\ t[1] \in Optional /\ ~ Replaced(d, t),
         \A t \in TaskId : e.status[t] = IF t \in T THEN "COMPLETED_WITH_ERRORS" ELSE d.status[t]
  PROVE  e \in Reach(d) /\ Rows(e) = Rows(d)
<1>1. \A t \in T : t \in TaskId
  BY DEF Rows
<1>2. Rows(e) = Rows(d)
  BY <1>1, Statuses DEF Rows
<1>3. Stays(d, e)
  BY <1>1 DEF Stays
<1>4. ASSUME Chain(d) PROVE Chain(e)
  <2>1. \A t \in Rows(d) : Replaced(d, t) => Replaced(e, t)
    BY <1>1 DEF Replaced, Rows
  <2>2. ASSUME NEW t \in Rows(d), Passed(d, t) PROVE Passed(e, t)
    <3>1. CASE t \in T
      BY <1>1, <3>1, Statuses DEF Passed
    <3>2. CASE t \notin T
      BY <2>2, <3>2 DEF Passed, Replaced, Rows
    <3> QED
      BY <3>1, <3>2
  <2>3. \A t \in Rows(d) : e.status[t] # "SKIPPED" => d.status[t] # "SKIPPED"
    BY <1>1, Statuses DEF Rows
  <2>4. \A p : RowsOf(e, p) = RowsOf(d, p)
    BY <1>2 DEF RowsOf
  <2>5. \A t, u \in Rows(e) : t[1] = u[1] /\ t[2] < u[2] => Replaced(e, t)
    BY <1>2, <1>4, <2>1 DEF Chain
  <2>6. \A t \in Rows(e) : \A a \in 0..(t[2] - 1) : <<t[1], a>> \in Rows(e)
    BY <1>2, <1>4 DEF Chain
  <2>7. ASSUME NEW t \in Rows(e), NEW p \in Ref, p < t[1], e.status[t] # "SKIPPED"
        PROVE  \E u \in RowsOf(e, p) : Passed(e, u)
    <3>1. PICK u \in RowsOf(d, p) : Passed(d, u)
      BY <1>2, <1>4, <2>3, <2>7 DEF Chain
    <3> QED
      BY <2>2, <2>4, <3>1 DEF RowsOf
  <2> QED
    BY <2>5, <2>6, <2>7 DEF Chain
<1> QED
  BY <1>2, <1>3, <1>4 DEF Reach

(***************************************************************************)
(* What the decider inserts.                                               *)
(***************************************************************************)

(* The first attempt of a task that has no row, or the attempt after a failure *)
(* that calls for one.                                                        *)
Begins(d, u) ==
  /\ u[2] = 0
  /\ RowsOf(d, u[1]) = {}
  /\ \A p \in Ref : p < u[1] => \E v \in RowsOf(d, p) : Passed(d, v)

Repeats(d, u) ==
  /\ u \notin Rows(d)
  /\ u[2] > 0
  /\ <<u[1], u[2] - 1>> \in Rows(d)
  /\ Replaced(d, <<u[1], u[2] - 1>>)

LEMMA StatusIsNow ==
  ASSUME NEW d \in Good, NEW late, NoRetryTimeout
  PROVE  \A t \in TaskId : StatusNow(d, late, t) = d.status[t]
BY VisitedRows DEF StatusNow, TimedOut

(* What the decider has dealt with when no row ends the workflow.              *)
LEMMA DonePassed ==
  ASSUME NEW d \in Good, NEW late, NoRetryTimeout, Halting(d, late) = {},
         NEW t \in Done(d, late)
  PROVE  Passed(d, t) /\ t \in Rows(d) /\ d.status[t] # "SKIPPED"
<1>1. t \in Rows(d) /\ t \in TaskId /\ t \in Pending(d)
  BY VisitedRows DEF Rows
<1>2. StatusNow(d, late, t) = d.status[t]
  BY <1>1, StatusIsNow
<1>3. d.status[t] \in TerminalTask /\ t \notin Retryable(d, late)
  BY <1>2 DEF Done
<1>4. d.status[t] # "SKIPPED"
  BY <1>1 DEF Pending, IsPending
<1>5. ASSUME d.status[t] \in UnsuccessfulTask
      PROVE  t[1] \in Optional \cup Permissive /\ ~ Replaced(d, t)
  <2>1. t \in Unsuccessful(d, late)
    BY <1>1, <1>2, <1>5 DEF Unsuccessful
  <2>2. t \in Tolerated(d, late)
    BY <1>3, <2>1 DEF Halting
  <2>3. ~ Replaced(d, t)
    BY <1>2, <1>3, <2>1 DEF Replaced, Retryable
  <2> QED
    BY <2>2, <2>3 DEF Tolerated
<1> QED
  BY <1>1, <1>3, <1>4, <1>5 DEF Passed

(* The next task, when every earlier one has passed.                          *)
LEMMA FirstAttemptBegins ==
  ASSUME NEW d \in Good, Chain(d), NEW r \in 0..N,
         \A p \in Ref : p <= r => \E v \in RowsOf(d, p) : Passed(d, v),
         NEW u \in FirstAttempts(d, r), u \notin Rows(d)
  PROVE  Begins(d, u)
<1>1. PICK q \in NextRef(d, r) : u = <<q, 0>>
  BY DEF FirstAttempts
<1>2. q \in Ref /\ r < q /\ u[1] = q /\ u[2] = 0 /\ u \in TaskId
  BY <1>1, SizeAssumption DEF NextRef, TaskId
<1>3. RowsOf(d, q) = {}
  <2> SUFFICES ASSUME NEW t \in RowsOf(d, q) PROVE FALSE
    OBVIOUS
  <2>1. t \in Rows(d) /\ t[1] = q /\ t[2] \in Nat /\ t = <<q, t[2]>>
    BY TaskIdType DEF RowsOf, Rows
  <2>2. t[2] # 0
    BY <1>1, <2>1
  <2>3. 0 \in 0..(t[2] - 1)
    BY <2>1, <2>2
  <2> QED
    BY <1>1, <2>1, <2>3 DEF Chain
<1>4. ASSUME NEW p \in Ref, p < q PROVE \E v \in RowsOf(d, p) : Passed(d, v)
  <2>1. CASE p <= r
    BY <2>1
  <2>2. CASE ~ (p <= r)
    <3>1. r < p
      BY <2>2, SizeAssumption DEF Ref
    <3>2. IsSkipped(d, p)
      BY <1>1, <1>4, <3>1 DEF NextRef
    <3>3. PICK v \in RowsOf(d, p) : d.status[v] = "SKIPPED"
      BY <3>2 DEF IsSkipped
    <3> QED
      BY <3>3, Statuses DEF Passed
  <2> QED
    BY <2>1, <2>2
<1> QED
  BY <1>2, <1>3, <1>4 DEF Begins

LEMMA NewIsNext ==
  ASSUME NEW d \in Good, NEW late, NoRetryTimeout, Chain(d), Halting(d, late) = {},
         NEW u \in New(d, late)
  PROVE  Begins(d, u) \/ Repeats(d, u)
<1>0. u \notin Rows(d) /\ u \in TaskId
  BY NewType
<1>1. CASE u \in StartProposals(d)
  <2>1. 0 \in 0..N /\ \A p \in Ref : ~ (p <= 0)
    BY SizeAssumption DEF Ref
  <2>2. u \in FirstAttempts(d, 0)
    BY <1>1 DEF StartProposals
  <2> QED
    BY <1>0, <2>1, <2>2, FirstAttemptBegins
<1>2. CASE u \in NextAttempts(d, late)
  <2>1. PICK t \in Retryable(d, late) : u = <<t[1], t[2] + 1>>
    BY <1>2 DEF NextAttempts
  <2>2. t \in Rows(d) /\ t \in TaskId
    BY VisitedRows DEF Rows
  <2>3. Replaced(d, t)
    BY <2>2, StatusIsNow DEF Retryable, Replaced, Unsuccessful
  <2>4. t[1] = u[1] /\ t[2] = u[2] - 1 /\ u[2] > 0 /\ t = <<u[1], u[2] - 1>>
    <3>1. t[2] \in Nat /\ t = <<t[1], t[2]>>
      BY <2>2, TaskIdType
    <3>2. u[1] = t[1] /\ u[2] = t[2] + 1
      BY <2>1
    <3>3. t[2] = u[2] - 1 /\ u[2] > 0
      BY <3>1, <3>2
    <3> QED
      BY <3>1, <3>2, <3>3
  <2> QED
    BY <1>0, <2>2, <2>3, <2>4 DEF Repeats
<1>3. CASE u \in UNION {FirstAttempts(d, t[1]) : t \in Done(d, late)}
  <2>1. PICK t \in Done(d, late) : u \in FirstAttempts(d, t[1])
    BY <1>3
  <2>2. Passed(d, t) /\ t \in Rows(d) /\ t \in TaskId /\ d.status[t] # "SKIPPED"
    BY DonePassed DEF Rows
  <2>3. t[1] \in 0..N /\ t[1] \in Ref /\ t[1] \in Int
    BY <2>2, TaskIdType, SizeAssumption DEF Ref
  <2>4. ASSUME NEW p \in Ref, p <= t[1] PROVE \E v \in RowsOf(d, p) : Passed(d, v)
    <3>1. CASE p = t[1]
      BY <2>2, <3>1 DEF RowsOf
    <3>2. CASE p < t[1]
      BY <2>2, <3>2 DEF Chain
    <3> QED
      BY <2>3, <2>4, <3>1, <3>2, SizeAssumption DEF Ref
  <2> QED
    BY <1>0, <2>1, <2>3, <2>4, FirstAttemptBegins
<1> QED
  BY <1>1, <1>2, <1>3 DEF New, Proposals

LEMMA InsertChain ==
  ASSUME NEW d \in Good, NEW e \in Good, NEW F \in SUBSET TaskId, Chain(d),
         \A u \in F : Begins(d, u) \/ Repeats(d, u),
         \A t \in TaskId : e.status[t] = IF t \in F THEN "SCHEDULED" ELSE d.status[t],
         F \cap Rows(d) = {}, Rows(e) = Rows(d) \cup F
  PROVE  Chain(e)
<1>0. \A t \in Rows(e) : t \in TaskId /\ t[1] \in Ref /\ t[2] \in Nat /\ t = <<t[1], t[2]>>
  BY TaskIdType DEF Rows
<1>1. \A t \in Rows(d) : t \in Rows(e) /\ e.status[t] = d.status[t]
  BY <1>0
<1>2. ASSUME NEW t \in Rows(d), Replaced(d, t) PROVE Replaced(e, t)
  BY <1>1, <1>2 DEF Replaced
<1>11. ASSUME NEW t \in Rows(d), Passed(d, t) PROVE Passed(e, t)
  BY <1>1, <1>11 DEF Replaced, Passed
<1>3. \A p : RowsOf(d, p) \subseteq RowsOf(e, p)
  BY <1>1 DEF RowsOf
<1>4. \A t, u \in Rows(d) : t[1] = u[1] /\ t[2] < u[2] => Replaced(d, t)
  BY DEF Chain
<1>5. \A t \in Rows(d) : \A a \in 0..(t[2] - 1) : <<t[1], a>> \in Rows(d)
  BY DEF Chain
<1>6. ASSUME NEW u \in F, NEW t \in Rows(d), t[1] = u[1]
      PROVE  t[2] < u[2] /\ Replaced(d, t)
  <2>1. Repeats(d, u)
    BY <1>6 DEF Begins, RowsOf
  <2> DEFINE v == <<u[1], u[2] - 1>>
  <2>2. /\ v \in Rows(d) /\ Replaced(d, v) /\ v[1] = u[1] /\ v[2] = u[2] - 1 /\ u[2] > 0
        /\ u \notin Rows(d)
    BY <2>1 DEF Repeats
  <2> HIDE DEF v
  <2>3. u[2] \in Nat /\ u = <<u[1], u[2]>> /\ t[2] \in Nat /\ t = <<t[1], t[2]>> /\ v = <<v[1], v[2]>>
    BY <1>0, <1>1, <2>2
  <2>4. t[2] < u[2]
    <3> SUFFICES ASSUME ~ (t[2] < u[2]) PROVE FALSE
      OBVIOUS
    <3>1. t[2] # u[2]
      BY <1>6, <2>2, <2>3
    <3>2. u[2] \in 0..(t[2] - 1)
      BY <2>3, <3>1
    <3> QED
      BY <1>5, <1>6, <2>2, <2>3, <3>2
  <2>5. CASE t[2] = u[2] - 1
    BY <1>6, <2>2, <2>3, <2>4, <2>5
  <2>6. CASE t[2] # u[2] - 1
    <3>1. t[2] < v[2]
      BY <2>2, <2>3, <2>4, <2>6
    <3> QED
      BY <1>4, <1>6, <2>2, <2>4, <3>1
  <2> QED
    BY <2>5, <2>6
<1>7. ASSUME NEW t \in F, NEW u \in F, t[1] = u[1] PROVE t = u
  <2>1. CASE Begins(d, t)
    <3>1. RowsOf(d, u[1]) = {}
      BY <1>7, <2>1 DEF Begins
    <3>2. Begins(d, u)
      <4>1. <<u[1], u[2] - 1>> \notin Rows(d)
        <5> DEFINE v == <<u[1], u[2] - 1>>
        <5>1. v[1] = u[1]
          OBVIOUS
        <5> HIDE DEF v
        <5> QED
          BY <3>1, <5>1 DEF RowsOf, v
      <4> QED
        BY <4>1 DEF Repeats
    <3> QED
      BY <1>0, <1>7, <2>1, <3>2 DEF Begins
  <2>2. CASE Repeats(d, t)
    <3> DEFINE v == <<t[1], t[2] - 1>>
    <3>1. v \in Rows(d) /\ v[1] = u[1] /\ v[2] = t[2] - 1
      BY <1>7, <2>2 DEF Repeats
    <3> HIDE DEF v
    <3>2. v[2] < u[2]
      BY <1>6, <3>1
    <3>3. Repeats(d, u)
      BY <3>1 DEF Begins, RowsOf
    <3> DEFINE w == <<u[1], u[2] - 1>>
    <3>4. w \in Rows(d) /\ w[1] = t[1] /\ w[2] = u[2] - 1
      BY <1>7, <3>3 DEF Repeats
    <3> HIDE DEF w
    <3>5. w[2] < t[2]
      BY <1>6, <3>4
    <3>6. t[2] \in Nat /\ u[2] \in Nat /\ t = <<t[1], t[2]>> /\ u = <<u[1], u[2]>>
      BY <1>0
    <3>7. t[2] = u[2]
      BY <3>1, <3>2, <3>4, <3>5, <3>6
    <3> QED
      BY <1>7, <3>6, <3>7
  <2> QED
    BY <2>1, <2>2
<1>8. \A t, u \in Rows(e) : t[1] = u[1] /\ t[2] < u[2] => Replaced(e, t)
  <2> SUFFICES ASSUME NEW t \in Rows(e), NEW u \in Rows(e), t[1] = u[1], t[2] < u[2]
               PROVE  Replaced(e, t)
    OBVIOUS
  <2>0. t[2] \in Nat /\ u[2] \in Nat
    BY <1>0
  <2>1. CASE t \in Rows(d) /\ u \in Rows(d)
    <3>1. Replaced(d, t)
      BY <1>4, <2>1
    <3> QED
      BY <1>2, <2>1, <3>1
  <2>2. CASE t \in Rows(d) /\ u \in F
    <3>1. Replaced(d, t)
      BY <1>6, <2>2
    <3> QED
      BY <1>2, <2>2, <3>1
  <2>3. CASE t \in F /\ u \in Rows(d)
    <3>1. u[2] < t[2]
      BY <1>6, <2>3
    <3> QED
      BY <2>0, <3>1
  <2>4. CASE t \in F /\ u \in F
    BY <1>7, <2>0, <2>4
  <2> QED
    BY <2>1, <2>2, <2>3, <2>4
<1>9. \A t \in Rows(e) : \A a \in 0..(t[2] - 1) : <<t[1], a>> \in Rows(e)
  <2> SUFFICES ASSUME NEW t \in F, NEW a \in 0..(t[2] - 1) PROVE <<t[1], a>> \in Rows(e)
    BY <1>1, <1>5
  <2>1. t[2] \in Nat /\ a \in Int /\ 0 <= a /\ a <= t[2] - 1
    BY <1>0
  <2>2. Repeats(d, t)
    BY <2>1 DEF Begins
  <2> DEFINE v == <<t[1], t[2] - 1>>
  <2>3. v \in Rows(d) /\ v[1] = t[1] /\ v[2] = t[2] - 1
    BY <2>2 DEF Repeats
  <2>4. CASE a = t[2] - 1
    BY <2>3, <2>4
  <2>5. CASE a # t[2] - 1
    <3> HIDE DEF v
    <3>1. a \in 0..(v[2] - 1)
      BY <2>1, <2>3, <2>5
    <3>2. <<v[1], a>> \in Rows(d)
      BY <1>5, <2>3, <3>1
    <3> QED
      BY <2>3, <3>2
  <2> QED
    BY <2>4, <2>5
<1>10. ASSUME NEW t \in Rows(e), NEW p \in Ref, p < t[1], e.status[t] # "SKIPPED"
       PROVE  \E u \in RowsOf(e, p) : Passed(e, u)
  <2>1. \E u \in RowsOf(d, p) : Passed(d, u)
    <3>1. CASE t \in Rows(d)
      BY <1>1, <1>10, <3>1 DEF Chain
    <3>2. CASE t \in F /\ Begins(d, t)
      BY <1>10, <3>2 DEF Begins
    <3>3. CASE t \in F /\ Repeats(d, t)
      <4> DEFINE v == <<t[1], t[2] - 1>>
      <4>1. v \in Rows(d) /\ v[1] = t[1] /\ Replaced(d, v)
        BY <3>3 DEF Repeats
      <4> HIDE DEF v
      <4>2. d.status[v] # "SKIPPED"
        BY <4>1, Statuses DEF Replaced
      <4> QED
        BY <1>10, <4>1, <4>2 DEF Chain
    <3> QED
      BY <3>1, <3>2, <3>3
  <2>2. PICK u \in RowsOf(d, p) : Passed(d, u)
    BY <2>1
  <2>3. u \in Rows(d) /\ u \in RowsOf(e, p)
    BY <1>3, <2>2 DEF RowsOf
  <2>4. Passed(e, u)
    BY <1>11, <2>2, <2>3
  <2> QED
    BY <2>3, <2>4
<1> QED
  BY <1>8, <1>9, <1>10 DEF Chain

LEMMA InsertReach ==
  ASSUME NEW d \in Good, NEW e \in Good, NEW late, NEW F \in SUBSET New(d, late),
         Halting(d, late) = {},
         \A t \in TaskId : e.status[t] = IF t \in F THEN "SCHEDULED" ELSE d.status[t]
  PROVE  e \in Reach(d) /\ Rows(e) = Rows(d) \cup F
<1>1. F \in SUBSET TaskId /\ F \cap Rows(d) = {}
  BY NewType
<1>2. Rows(e) = Rows(d) \cup F
  BY <1>1 DEF Rows, None
<1>3. Stays(d, e)
  BY <1>1, Statuses DEF Stays, Rows
<1>4. ASSUME Orderly, Chain(d) PROVE Chain(e)
  <2>1. \A u \in F : Begins(d, u) \/ Repeats(d, u)
    BY <1>4, NewIsNext DEF Orderly
  <2> QED
    BY <1>1, <1>2, <1>4, <2>1, InsertChain
<1> QED
  BY <1>2, <1>3, <1>4 DEF Reach

(* A skipped task has a row, and nothing has to precede it.                   *)
LEMMA SkipReach ==
  ASSUME NEW d \in Good, NEW e \in Good, NEW r \in Ref, RowsOf(d, r) = {},
         NEW F \in SUBSET {<<r, 0>>},
         \A t \in TaskId : e.status[t] = IF t \in F THEN "SKIPPED" ELSE d.status[t]
  PROVE  e \in Reach(d)
<1>1. <<r, 0>> \in TaskId /\ F \cap Rows(d) = {}
  BY SizeAssumption DEF TaskId, RowsOf
<1>2. Rows(e) = Rows(d) \cup F
  BY <1>1 DEF Rows, None
<1>3. Stays(d, e)
  BY <1>1, Statuses DEF Stays, Rows
<1>4. ASSUME Chain(d) PROVE Chain(e)
  <2>0. \A t \in Rows(e) : t \in TaskId /\ t[1] \in Ref /\ t[2] \in Nat
    BY TaskIdType DEF Rows
  <2>1. \A t \in Rows(d) : t \in Rows(e) /\ e.status[t] = d.status[t] /\ t[1] # r
    BY <1>1, <1>2, <2>0 DEF RowsOf
  <2>2. \A t \in F : t[1] = r /\ t[2] = 0 /\ e.status[t] = "SKIPPED"
    BY <1>1
  <2>3. ASSUME NEW t \in Rows(d), Replaced(d, t) PROVE Replaced(e, t)
    BY <2>1, <2>3 DEF Replaced
  <2>4. ASSUME NEW t \in Rows(d), Passed(d, t) PROVE Passed(e, t)
    BY <2>1, <2>4 DEF Passed, Replaced
  <2>5. ASSUME NEW t \in Rows(e), NEW u \in Rows(e), t[1] = u[1], t[2] < u[2]
        PROVE  Replaced(e, t)
    <3>1. t \in Rows(d) /\ u \in Rows(d)
      BY <1>2, <2>0, <2>1, <2>2, <2>5
    <3>2. Replaced(d, t)
      BY <1>4, <2>5, <3>1 DEF Chain
    <3> QED
      BY <2>3, <3>1, <3>2
  <2>6. \A t \in Rows(e) : \A a \in 0..(t[2] - 1) : <<t[1], a>> \in Rows(e)
    <3> SUFFICES ASSUME NEW t \in Rows(e), NEW a \in 0..(t[2] - 1)
                 PROVE  <<t[1], a>> \in Rows(e)
      OBVIOUS
    <3>1. t \in Rows(d)
      BY <1>2, <2>0, <2>2
    <3> QED
      BY <1>2, <1>4, <3>1 DEF Chain
  <2>7. ASSUME NEW t \in Rows(e), NEW p \in Ref, p < t[1], e.status[t] # "SKIPPED"
        PROVE  \E u \in RowsOf(e, p) : Passed(e, u)
    <3>1. t \in Rows(d) /\ d.status[t] # "SKIPPED"
      BY <1>2, <2>1, <2>2, <2>7
    <3>2. PICK u \in RowsOf(d, p) : Passed(d, u)
      BY <1>4, <2>7, <3>1 DEF Chain
    <3>3. u \in Rows(d) /\ u \in RowsOf(e, p)
      BY <2>1, <3>2 DEF RowsOf
    <3>4. Passed(e, u)
      BY <2>4, <3>2, <3>3
    <3> QED
      BY <3>3, <3>4
  <2> QED
    BY <2>5, <2>6, <2>7 DEF Chain
<1> QED
  BY <1>3, <1>4 DEF Reach

(***************************************************************************)
(* The operations are walks.                                               *)
(***************************************************************************)

LEMMA LateIsLive ==
  ASSUME NEW d \in Good, NEW late
  PROVE  /\ Overdue(d, late) \subseteq Live(d)
         /\ TimedOut(d, late) \subseteq Live(d)
BY DEF Overdue, TimedOut, IsLate, IsPending, Live, Rows

LEMMA TerminateWalk ==
  ASSUME NEW d \in Good, NEW own \in SUBSET Live(d), NEW spared,
         NoRetryTimeout => spared = {}, NEW s \in WorkflowStatuses
  PROVE  Terminate(d, own, spared, s) \in Walk(d)
<1> DEFINE saved    == SetStatus(d, own, "TIMED_OUT")
           canceled == SetStatus(saved, Live(saved) \ spared, "CANCELED")
           unqueued == SetDecider(canceled, "absent")
           ended    == SetWorkflow(unqueued, s)
           settled  == SetPending(ended)
           removed  == Remove(settled, Rows(settled))
           path     == <<saved, canceled, unqueued, ended, settled, removed, RemovePending(removed)>>
<1>0. /\ own \in SUBSET Rows(d)
      /\ {"TIMED_OUT", "CANCELED"} \subseteq TerminalTask /\ TerminalTask \subseteq TaskStatuses
  BY DEF Live, TerminalTask, TaskStatuses
<1>1. path \in Path
  BY <1>0, TerminatePath DEF Terminate
<1>2. Terminate(d, own, spared, s) = path
  BY DEF Terminate
<1>3. /\ saved \in Good
      /\ \A t \in TaskId : saved.status[t] = IF t \in own THEN "TIMED_OUT" ELSE d.status[t]
  BY <1>0, SetFinalGood
<1> HIDE DEF saved
<1>4. saved \in Reach(d)
  BY <1>0, <1>3, LiveReach
<1>5. /\ canceled \in Good
      /\ \A t \in TaskId : canceled.status[t] =
           IF t \in Live(saved) \ spared THEN "CANCELED" ELSE saved.status[t]
  BY <1>0, <1>3, SetFinalGood DEF Live
<1> HIDE DEF canceled
<1>6. canceled \in Reach(saved)
  <2> DEFINE T == Live(saved) \ spared
  <2>1. T \in SUBSET Live(saved) /\ "CANCELED" \in TaskStatuses \ {"SKIPPED"}
    BY <1>0
  <2>2. \A t \in TaskId : canceled.status[t] = IF t \in T THEN "CANCELED" ELSE saved.status[t]
    BY <1>5
  <2> HIDE DEF T
  <2> QED
    BY <1>3, <1>5, <2>1, <2>2, LiveReach
<1>7. canceled \in Reach(d)
  BY <1>4, <1>6, ReachOn
<1>8. /\ unqueued \in Good /\ ended \in Good /\ settled \in Good /\ removed \in Good
      /\ RemovePending(removed) \in Good
  <2> HIDE DEF unqueued, ended, settled, removed
  <2> QED
    BY <1>1 DEF Path
<1>9. /\ unqueued.status = canceled.status /\ ended.status = canceled.status
      /\ settled.status = canceled.status /\ removed.status = canceled.status
      /\ RemovePending(removed).status = canceled.status
  <2>1. unqueued.status = canceled.status
    BY <1>5, SameStatus
  <2>2. ended.status = canceled.status
    BY <1>8, <2>1, SameStatus
  <2>3. settled.status = canceled.status
    BY <1>8, <2>2, SameStatus
  <2>4. removed.status = canceled.status
    BY <1>8, <2>3, SameStatus
  <2> QED
    BY <1>8, <2>1, <2>2, <2>3, <2>4, SameStatus
<1>10. {unqueued, ended, settled, removed, RemovePending(removed)} \subseteq Reach(d)
  <2> HIDE DEF unqueued, ended, settled, removed
  <2> QED
    BY <1>5, <1>7, <1>8, <1>9, ReachItself, ReachOn
<1> HIDE DEF unqueued, ended, settled, removed
<1> QED
  BY <1>2, <1>4, <1>7, <1>10 DEF Walk

LEMMA CompleteWalk ==
  ASSUME NEW d \in Good, Live(d) = {} \/ ~ NoRetryTimeout
  PROVE  CompleteWorkflow(d) \in Walk(d)
<1> DEFINE ended   == SetWorkflow(d, "COMPLETED")
           settled == SetPending(ended)
           last    == SetDecider(settled, "absent")
<1>1. CompleteWorkflow(d) = <<ended, settled, last>>
  BY DEF CompleteWorkflow
<1>2. <<ended, settled, last>> \in Path
  BY <1>1, CompletePath
<1>3. ended \in Good /\ settled \in Good /\ last \in Good
  <2> HIDE DEF ended, settled, last
  <2> QED
    BY <1>2 DEF Path
<1>4. ended.status = d.status /\ settled.status = d.status /\ last.status = d.status
  BY <1>3, SameStatus
<1> HIDE DEF ended, settled, last
<1>5. {ended, settled, last} \subseteq Reach(d)
  BY <1>3, <1>4, ReachItself
<1> QED
  BY <1>1, <1>5 DEF Walk

LEMMA AdvanceWalk ==
  ASSUME NEW d \in Good, NEW late, d.wf = "RUNNING", Halting(d, late) = {}
  PROVE  Advance(d, late) \in Walk(d)
<1> DEFINE new       == New(d, late)
           fresh     == new \ d.keys
           finished  == Done(d, late) \cup Retryable(d, late)
           keyed     == InsertKeys(d, new)
           inserted  == InsertRows(keyed, fresh)
           pushed    == Push(inserted, new)
           late1     == TimedOut(d, late)
           late2     == Rewritten(d, late)
           settled   == SetStatus(SetStatus(pushed, late1, "TIMED_OUT"), late2,
                                  "COMPLETED_WITH_ERRORS")
           processed == [settled EXCEPT !.executed = d.executed \cup Done(d, late),
                                        !.retried = d.retried \cup Retryable(d, late)]
           path      == <<keyed, inserted, pushed, processed, SetPending(processed)>>
<1>1. Advance(d, late) = IF new \cup finished = {} THEN <<d>> ELSE path
  BY DEF Advance
<1>2. Advance(d, late) \in Path
  BY AdvancePath
<1>3. CASE new \cup finished = {}
  <2>1. d \in Reach(d)
    BY ReachItself
  <2> QED
    BY <1>1, <1>3, <2>1 DEF Walk
<1>4. CASE new \cup finished # {}
  <2>1. path \in Path
    BY <1>1, <1>2, <1>4
  <2>2. /\ keyed \in Good /\ inserted \in Good /\ pushed \in Good /\ processed \in Good
        /\ SetPending(processed) \in Good
    <3> HIDE DEF keyed, inserted, pushed, processed
    <3> QED
      BY <2>1 DEF Path
  <2>3. /\ fresh \in SUBSET New(d, late) /\ fresh \in SUBSET TaskId
        /\ late1 \in SUBSET Live(d) /\ late2 \subseteq Rows(d) /\ late1 \subseteq Rows(d)
        /\ fresh \cap Rows(d) = {}
    BY NewType, LateIsLive, VisitedRows
  <2>4. keyed.status = d.status
    BY SameStatus
  <2>5. \A t \in TaskId : inserted.status[t] = IF t \in fresh THEN "SCHEDULED" ELSE d.status[t]
    BY <2>2, <2>4 DEF InsertRows, Put, Good, Database
  <2>6. pushed.status = inserted.status
    BY <2>2, SameStatus
  <2>7. processed.status = settled.status
    BY <2>2 DEF SetStatus, Good, Database
  <2>8. SetPending(processed).status = processed.status
    BY <2>2, SameStatus
  <2>9. \A t \in TaskId : settled.status[t] =
          IF t \in late2 THEN "COMPLETED_WITH_ERRORS"
          ELSE IF t \in late1 THEN "TIMED_OUT" ELSE pushed.status[t]
    BY <2>2 DEF SetStatus, Put, Good, Database
  <2> DEFINE final == SetPending(processed)
  <2> HIDE DEF keyed, inserted, pushed, processed, settled, new, fresh, final
  <2>10. keyed \in Reach(d)
    BY <2>2, <2>4, ReachItself
  <2>11. inserted \in Reach(d) /\ Rows(inserted) = Rows(d) \cup fresh
    BY <2>2, <2>3, <2>5, InsertReach
  <2>12. pushed \in Reach(d)
    BY <2>2, <2>6, <2>11, ReachItself, ReachOn
  <2>13. processed \in Reach(d)
    <3>1. Stays(d, processed)
      <4> SUFFICES ASSUME NEW t \in TaskId, d.status[t] \in TerminalTask
                   PROVE  \/ processed.status[t] = d.status[t]
                          \/ /\ processed.status[t] = "COMPLETED_WITH_ERRORS"
                             /\ d.status[t] \in UnsuccessfulTask
                             /\ t[1] \in Optional
        BY DEF Stays
      <4>1. t \in Rows(d) /\ t \notin Live(d) /\ t \notin late1 /\ t \notin fresh
        BY <2>3, Statuses DEF Rows, Live
      <4>2. CASE t \in late2
        <5>1. t[1] \in Optional /\ StatusNow(d, late, t) \in UnsuccessfulTask
          BY <4>2 DEF Rewritten, Tolerated, Unsuccessful
        <5>2. StatusNow(d, late, t) = d.status[t]
          BY <4>1 DEF StatusNow, TimedOut
        <5> QED
          BY <2>7, <2>9, <4>2, <5>1, <5>2
      <4>3. CASE t \notin late2
        BY <2>5, <2>6, <2>7, <2>9, <4>1, <4>3
      <4> QED
        BY <4>2, <4>3
    <3>2. ASSUME Orderly, Chain(d) PROVE Chain(processed)
      <4>1. late1 = {} /\ \A t \in TaskId : StatusNow(d, late, t) = d.status[t]
        BY <3>2, VisitedRows, StatusIsNow DEF Orderly
      <4>2. \A t \in TaskId : processed.status[t] =
              IF t \in late2 THEN "COMPLETED_WITH_ERRORS" ELSE pushed.status[t]
        BY <2>7, <2>9, <4>1
      <4>3. \A t \in late2 : t \in Rows(d) /\ t \in TaskId /\ t \notin fresh
        BY <2>3 DEF Rows
      <4>4. ASSUME NEW t \in late2
            PROVE  /\ pushed.status[t] \in UnsuccessfulTask /\ t[1] \in Optional
                   /\ ~ Replaced(pushed, t)
        <5>1. /\ t[1] \in Optional /\ t \in Unsuccessful(d, late)
              /\ t \notin Retryable(d, late)
          BY <4>4 DEF Rewritten, Tolerated
        <5>2. pushed.status[t] = d.status[t] /\ StatusNow(d, late, t) = d.status[t]
          BY <2>5, <2>6, <4>1, <4>3
        <5> QED
          BY <5>1, <5>2 DEF Unsuccessful, Retryable, Replaced
      <4>5. late2 \in SUBSET Rows(pushed)
        BY <2>5, <2>6, <4>3 DEF Rows
      <4>6. processed \in Reach(pushed)
        BY <2>2, <4>2, <4>4, <4>5, TolerateReach
      <4>7. Chain(pushed)
        BY <2>12, <3>2 DEF Reach
      <4> QED
        BY <3>2, <4>6, <4>7 DEF Reach
    <3> QED
      BY <2>2, <3>1, <3>2 DEF Reach
  <2>14. final \in Reach(d)
    BY <2>2, <2>8, <2>13, ReachItself, ReachOn DEF final
  <2>15. Advance(d, late) = <<keyed, inserted, pushed, processed, final>>
    BY <1>1, <1>4 DEF final
  <2> QED
    BY <2>10, <2>11, <2>12, <2>13, <2>14, <2>15 DEF Walk
<1> QED
  BY <1>3, <1>4

LEMMA EvaluateWalk ==
  ASSUME NEW d \in Good, NEW late, d.wf = "RUNNING"
  PROVE  Evaluate(d, late) \in Walk(d)
<1>1. CASE Halting(d, late) # {}
  <2> DEFINE first == FirstHalting(d, late)
             own   == Overdue(d, late) \cap {first}
             s     == HaltStatus(d, first)
  <2>1. own \in SUBSET Live(d)
    BY LateIsLive
  <2>2. NoRetryTimeout => VisitedTimedOut(d, late) = {}
    BY VisitedRows DEF VisitedTimedOut
  <2>3. s \in WorkflowStatuses
    BY DEF HaltStatus, WorkflowStatuses
  <2>4. Evaluate(d, late) = Terminate(d, own, VisitedTimedOut(d, late), s)
    BY <1>1 DEF Evaluate
  <2> HIDE DEF own, s
  <2> QED
    BY <2>1, <2>2, <2>3, <2>4, TerminateWalk
<1>2. CASE Halting(d, late) = {} /\ Complete(d, late) /\ FailedPermissively(d, late)
  <2>1. Evaluate(d, late) = Terminate(d, {}, TimedOut(d, late), "FAILED")
    BY <1>2 DEF Evaluate
  <2>2. NoRetryTimeout => TimedOut(d, late) = {}
    BY VisitedRows
  <2> QED
    BY <2>1, <2>2, TerminateWalk DEF WorkflowStatuses
<1>3. CASE Halting(d, late) = {} /\ Complete(d, late) /\ ~ FailedPermissively(d, late)
  <2>1. Evaluate(d, late) = CompleteWorkflow(d)
    BY <1>3 DEF Evaluate
  <2> QED
    BY <1>3, <2>1, CompleteIsSettled, CompleteWalk
<1>4. CASE Halting(d, late) = {} /\ ~ Complete(d, late)
  <2>1. Evaluate(d, late) = Advance(d, late)
    BY <1>4 DEF Evaluate
  <2> QED
    BY <1>4, <2>1, AdvanceWalk
<1> QED
  BY <1>1, <1>2, <1>3, <1>4

LEMMA DecideWalk ==
  ASSUME NEW d \in Good, NEW late, NEW expired \in BOOLEAN
  PROVE  Decide(d, late, expired) \in Walk(d)
<1>1. CASE d.wf \in TerminalWorkflow \ SuccessfulWorkflow
  <2> DEFINE T        == Live(d)
             canceled == SetStatus(d, T, "CANCELED")
             last     == SetDecider(canceled, "absent")
  <2>1. /\ T \subseteq Rows(d) /\ T \in SUBSET Live(d)
        /\ "CANCELED" \in TerminalTask /\ "CANCELED" \in TaskStatuses \ {"SKIPPED"}
    BY DEF Live, TerminalTask, TaskStatuses
  <2> HIDE DEF T
  <2>2. /\ canceled \in Good
        /\ \A t \in TaskId : canceled.status[t] = IF t \in T THEN "CANCELED" ELSE d.status[t]
    BY <2>1, SetFinalGood
  <2> HIDE DEF canceled
  <2>3. canceled \in Reach(d)
    BY <2>1, <2>2, LiveReach
  <2>4. last \in Good /\ last.status = canceled.status
    BY <2>2, FlagsGood, SameStatus DEF Message
  <2>5. last \in Reach(d)
    BY <2>2, <2>3, <2>4, ReachItself, ReachOn
  <2>6. Decide(d, late, expired) = <<canceled, last>>
    BY <1>1 DEF Decide, canceled, T, TerminalWorkflow
  <2> QED
    BY <2>3, <2>5, <2>6 DEF Walk
<1>2. CASE d.wf \in {"RUNNING", "PAUSED"} /\ expired
  <2>1. Decide(d, late, expired) = Terminate(d, {}, {}, "TIMED_OUT")
    BY <1>2 DEF Decide, TerminalWorkflow
  <2> QED
    BY <2>1, TerminateWalk DEF WorkflowStatuses
<1>3. CASE d.wf = "RUNNING" /\ ~ expired
  <2>1. Decide(d, late, expired) = Evaluate(d, late)
    BY <1>3 DEF Decide, TerminalWorkflow
  <2> QED
    BY <1>3, <2>1, EvaluateWalk
<1>4. CASE /\ d.wf \notin TerminalWorkflow \ SuccessfulWorkflow
           /\ ~ (d.wf \in {"RUNNING", "PAUSED"} /\ expired)
           /\ ~ (d.wf = "RUNNING" /\ ~ expired)
  <2>1. Decide(d, late, expired) = <<d>>
    BY <1>4 DEF Decide
  <2>2. d \in Reach(d)
    BY ReachItself
  <2> QED
    BY <2>1, <2>2 DEF Walk
<1> QED
  BY <1>1, <1>2, <1>3, <1>4

(* The writes that leave the task table alone go no further.                   *)
LEMMA WritesReach ==
  ASSUME NEW d \in Good, NEW e \in Reach(d), NEW m \in Message, NEW T
  PROVE  /\ SetDecider(e, m) \in Reach(d)
         /\ SetPending(e) \in Reach(d)
         /\ Push(e, T) \in Reach(d)
         /\ ForceLast(e) \in Reach(d)
<1>1. e \in Good /\ Reach(e) \subseteq Reach(d)
  BY ReachOn
<1>2. SetDecider(e, m) \in Good /\ SetDecider(e, m).status = e.status
  BY <1>1, FlagsGood, SameStatus
<1>3. SetPending(e) \in Good /\ SetPending(e).status = e.status
  BY <1>1, FlagsGood, SameStatus
<1>4. Push(e, T) \in Good /\ Push(e, T).status = e.status
  BY <1>1, QueueGood, SameStatus
<1>5. ForceLast(e) \in Good /\ ForceLast(e).status = e.status
  BY <1>1, ForceLastGood DEF ForceLast, Good, Database
<1> QED
  BY <1>1, <1>2, <1>3, <1>4, <1>5, ReachItself

(* What decides after writes that led from d to e.                            *)
LEMMA DecideAfter ==
  ASSUME NEW d \in Good, NEW e \in Reach(d), NEW late, NEW expired \in BOOLEAN
  PROVE  Decide(e, late, expired) \in Walk(d)
BY ReachOn, DecideWalk

LEMMA StartWalk ==
  ASSUME NEW d \in Good
  PROVE  StartWorkflow(d) \in Walk(d)
<1> DEFINE created == SetWorkflow(d, "RUNNING")
           listed  == SetPending(created)
<1>1. created \in Good /\ created.status = d.status
  BY SetWorkflowGood, SameStatus DEF WorkflowStatuses, TerminalWorkflow
<1> HIDE DEF created
<1>2. listed \in Good /\ listed.status = d.status
  BY <1>1, FlagsGood, SameStatus DEF Message
<1> HIDE DEF listed
<1>3. created \in Reach(d) /\ listed \in Reach(d)
  BY <1>1, <1>2, ReachItself
<1>4. <<created, listed>> \in Walk(d)
  BY <1>3 DEF Walk
<1>5. Decide(listed, {}, FALSE) \in Walk(d)
  BY <1>3, DecideAfter
<1>6. StartWorkflow(d) = <<created, listed>> \o Decide(listed, {}, FALSE)
  BY DEF StartWorkflow, created, listed
<1> QED
  BY <1>4, <1>5, <1>6, WalkJoins

LEMMA UpdateWalk ==
  ASSUME NEW d \in Good, NEW t \in Rows(d), NEW result \in Results,
         NEW late, NEW expired \in BOOLEAN
  PROVE  UpdateTask(d, t, result, late, expired) \in Walk(d)
<1>1. CASE d.status[t] \in TerminalTask \/ d.wf \in TerminalWorkflow
  <2> DEFINE removed == Remove(d, {t})
  <2>1. UpdateTask(d, t, result, late, expired) = <<removed>>
    BY <1>1 DEF UpdateTask
  <2>2. removed \in Good /\ removed.status = d.status
    BY QueueGood, SameStatus
  <2> HIDE DEF removed
  <2>3. removed \in Reach(d)
    BY <2>2, ReachItself
  <2> QED
    BY <2>1, <2>3 DEF Walk
<1>2. CASE d.status[t] \notin TerminalTask /\ d.wf \notin TerminalWorkflow
  <2> DEFINE s       == IF result = "IN_PROGRESS" THEN "SCHEDULED" ELSE result
             queued  == IF s = "SCHEDULED" THEN Postpone(d, t) ELSE Remove(d, {t})
             updated == SetStatus(queued, {t}, s)
  <2>1. /\ t \in TaskId /\ s \in TaskStatuses \ {"SKIPPED"}
        /\ {t} \in SUBSET Live(d)
    BY <1>2, EngineAssumption DEF Rows, Live, TaskStatuses
  <2> HIDE DEF s
  <2>2. queued \in Good
    BY <2>1, QueueGood
  <2>3. /\ queued.status = d.status /\ queued.keys = d.keys /\ queued.wf = d.wf
        /\ queued.executed = d.executed /\ queued.retried = d.retried
    BY DEF Postpone, Remove, Good, Database
  <2> HIDE DEF queued
  <2>4. Writable(queued, {t}, s)
    BY <1>2, <2>1, <2>3 DEF Writable, Good, Keyed, Budgeted, Processed, Marked
  <2>5. /\ updated \in Good
        /\ \A u \in TaskId : updated.status[u] = IF u \in {t} THEN s ELSE d.status[u]
    <3> DEFINE T == {t}
    <3> HIDE DEF T
    <3>1. Writable(queued, T, s)
      BY <2>4 DEF T
    <3>2. /\ SetStatus(queued, T, s) \in Good
          /\ \A u \in TaskId : SetStatus(queued, T, s).status[u] =
               IF u \in T THEN s ELSE queued.status[u]
      BY <2>2, <3>1, SetStatusGood
    <3>3. \A u \in TaskId : queued.status[u] = d.status[u]
      BY <2>3
    <3> QED
      BY <3>2, <3>3 DEF T
  <2> HIDE DEF updated
  <2>6. queued \in Reach(d)
    BY <2>2, <2>3, ReachItself
  <2>7. updated \in Reach(d)
    BY <2>1, <2>5, LiveReach
  <2>8. <<queued, updated>> \in Walk(d)
    BY <2>6, <2>7 DEF Walk
  <2>9. Decide(updated, late, expired) \in Walk(d)
    BY <2>7, DecideAfter
  <2>10. UpdateTask(d, t, result, late, expired)
          = <<queued, updated>> \o Decide(updated, late, expired)
    BY <1>2 DEF UpdateTask, s, queued, updated
  <2> QED
    BY <2>8, <2>9, <2>10, WalkJoins
<1> QED
  BY <1>1, <1>2

LEMMA SweepWalk ==
  ASSUME NEW d \in Good, NEW late, NEW expired \in BOOLEAN
  PROVE  Sweep(d, late, expired) \in Walk(d)
<1> DEFINE popped   == SetDecider(d, "popped")
           decided  == Decide(popped, late, expired)
           after    == Final(decided)
           repaired == IF Unchanged(popped, late) THEN Repair(after) ELSE after
           created  == IF popped.wf = "RUNNING" THEN New(popped, late) ELSE {}
           forced   == ForceLast(repaired)
           listed   == SetPending(forced)
           absent   == SetDecider(popped, "absent")
           ended    == SetDecider(after, "absent")
<1>0. "popped" \in Message /\ "absent" \in Message
  BY DEF Message
<1>1. popped \in Reach(d) /\ popped \in Good
  BY <1>0, FlagsGood, SameStatus, ReachItself
<1> HIDE DEF popped
<1>2. absent \in Reach(d)
  BY <1>0, <1>1, WritesReach
<1>3. decided \in Walk(d)
  BY <1>1, DecideAfter
<1> HIDE DEF decided
<1>4. after \in Reach(d)
  BY <1>3, WalkEnds
<1> HIDE DEF after
<1>5. ended \in Reach(d)
  BY <1>0, <1>4, WritesReach
<1>6. repaired \in Reach(d)
  BY <1>0, <1>4, WritesReach DEF Repair
<1> HIDE DEF repaired
<1>7. forced \in Reach(d)
  BY <1>0, <1>6, WritesReach
<1> HIDE DEF forced
<1>8. listed \in Reach(d)
  BY <1>0, <1>7, WritesReach
<1> HIDE DEF listed, absent, ended, created
<1>9. Decide(listed, {}, FALSE) \in Walk(d)
  BY <1>8, DecideAfter
<1>10. /\ <<popped, absent>> \in Walk(d)
       /\ <<popped>> \in Walk(d)
       /\ <<ended>> \in Walk(d)
       /\ <<repaired>> \in Walk(d)
       /\ <<repaired, forced, listed>> \in Walk(d)
  BY <1>1, <1>2, <1>5, <1>6, <1>7, <1>8 DEF Walk
<1>11. <<popped>> \o decided \in Walk(d)
  BY <1>3, <1>10, WalkJoins
<1>12. /\ <<popped>> \o decided \o <<ended>> \in Walk(d)
       /\ <<popped>> \o decided \o <<repaired>> \in Walk(d)
       /\ <<popped>> \o decided \o <<repaired, forced, listed>> \in Walk(d)
  BY <1>10, <1>11, WalkJoins
<1>13. <<popped>> \o decided \o <<repaired, forced, listed>> \o Decide(listed, {}, FALSE)
         \in Walk(d)
  BY <1>9, <1>12, WalkJoins
<1>14. Sweep(d, late, expired) =
         CASE popped.wf \notin {"RUNNING", "PAUSED"} -> <<popped, absent>>
           [] popped.wf \in {"RUNNING", "PAUSED"} /\ after.wf \in TerminalWorkflow ->
                <<popped>> \o decided \o <<ended>>
           [] /\ popped.wf \in {"RUNNING", "PAUSED"} /\ after.wf \notin TerminalWorkflow
              /\ Live(after) \cup created # {} ->
                <<popped>> \o decided \o <<repaired>>
           [] OTHER ->
                <<popped>> \o decided \o <<repaired, forced, listed>>
                  \o Decide(listed, {}, FALSE)
  BY DEF Sweep, popped, decided, after, repaired, created, forced, listed, absent, ended
<1> QED
  BY <1>10, <1>12, <1>13, <1>14

LEMMA ReopenWalk ==
  ASSUME NEW d \in Good
  PROVE  Reopen(d) \in Walk(d) /\ Final(Reopen(d)) \in Reach(d)
<1> DEFINE queued == SetDecider(d, "ready")
           opened == SetWorkflow(queued, "RUNNING")
           listed == SetPending(opened)
<1>1. queued \in Good /\ queued.status = d.status
  BY FlagsGood, SameStatus DEF Message
<1> HIDE DEF queued
<1>2. opened \in Good /\ opened.status = d.status
  BY <1>1, SetWorkflowGood, SameStatus DEF WorkflowStatuses, TerminalWorkflow
<1> HIDE DEF opened
<1>3. listed \in Good /\ listed.status = d.status
  BY <1>2, FlagsGood, SameStatus DEF Message
<1> HIDE DEF listed
<1>4. {queued, opened, listed} \subseteq Reach(d)
  BY <1>1, <1>2, <1>3, ReachItself
<1>5. Reopen(d) = <<queued, opened, listed>>
  BY DEF Reopen, queued, opened, listed
<1> QED
  BY <1>4, <1>5 DEF Walk, Final

LEMMA PauseWalk ==
  ASSUME NEW d \in Good
  PROVE  PauseWorkflow(d) \in Walk(d)
<1> DEFINE paused == SetWorkflow(d, "PAUSED")
           listed == SetPending(paused)
           last   == SetDecider(listed, "absent")
<1>1. paused \in Good /\ paused.status = d.status
  BY SetWorkflowGood, SameStatus DEF WorkflowStatuses, TerminalWorkflow
<1> HIDE DEF paused
<1>2. listed \in Good /\ listed.status = d.status
  BY <1>1, FlagsGood, SameStatus DEF Message
<1> HIDE DEF listed
<1>3. last \in Good /\ last.status = d.status
  BY <1>2, FlagsGood, SameStatus DEF Message
<1> HIDE DEF last
<1>4. {paused, listed, last} \subseteq Reach(d)
  BY <1>1, <1>2, <1>3, ReachItself
<1>5. PauseWorkflow(d) = <<paused, listed, last>>
  BY DEF PauseWorkflow, paused, listed, last
<1> QED
  BY <1>4, <1>5 DEF Walk

LEMMA ResumeWalk ==
  ASSUME NEW d \in Good, NEW late
  PROVE  ResumeWorkflow(d, late) \in Walk(d)
<1>1. Decide(Final(Reopen(d)), late, FALSE) \in Walk(d)
  BY ReopenWalk, DecideAfter
<1> QED
  BY <1>1, ReopenWalk, WalkJoins DEF ResumeWorkflow

LEMMA SkipWalk ==
  ASSUME NEW d \in Good, NEW r \in Ref, RowsOf(d, r) = {},
         NEW late, NEW expired \in BOOLEAN
  PROVE  SkipTask(d, r, late, expired) \in Walk(d)
<1> DEFINE t       == <<r, 0>>
           keyed   == InsertKeys(d, {t})
           fresh   == {t} \ d.keys
           skipped == InsertSkipped(keyed, fresh)
<1>1. t \in TaskId /\ t[1] = r /\ t[2] = 0 /\ 0 <= RetryLimit[r]
  BY SizeAssumption, DefinitionAssumption DEF TaskId
<1>2. t \notin Rows(d) /\ fresh \in SUBSET {<<r, 0>>}
  BY <1>1 DEF RowsOf
<1> HIDE DEF t
<1>3. keyed \in Good
  BY <1>1, InsertKeysGood
<1>4. /\ fresh \in SUBSET keyed.keys /\ Rows(keyed) = Rows(d)
      /\ keyed.status = d.status
  BY <1>3 DEF InsertKeys, Rows, Good, Database
<1>5. "retry" \notin Admin => \A u \in fresh : u[2] <= RetryLimit[u[1]]
  BY <1>1
<1>6. fresh \cap Rows(keyed) = {}
  BY <1>2, <1>4
<1> HIDE DEF keyed, fresh
<1>7. skipped \in Good
  BY <1>3, <1>4, <1>5, <1>6, InsertRowsGood
<1>8. \A u \in TaskId : skipped.status[u] = IF u \in fresh THEN "SKIPPED" ELSE d.status[u]
  BY <1>3, <1>4 DEF InsertSkipped, Put, Good, Database
<1> HIDE DEF skipped
<1>9. keyed \in Reach(d) /\ skipped \in Reach(d)
  BY <1>2, <1>3, <1>4, <1>7, <1>8, ReachItself, SkipReach
<1>10. <<keyed, skipped>> \in Walk(d) /\ Decide(skipped, late, expired) \in Walk(d)
  BY <1>9, DecideAfter DEF Walk
<1>11. SkipTask(d, r, late, expired) = <<keyed, skipped>> \o Decide(skipped, late, expired)
  BY DEF SkipTask, keyed, skipped, fresh, t
<1> QED
  BY <1>10, <1>11, WalkJoins

(* What a path goes on with is a path.                                        *)
LEMMA PathRest ==
  ASSUME NEW p \in Path, NEW S, NEW q \in Seq(S), q # << >>, p \o q \in Path
  PROVE  q \in Path
<1> DEFINE r == p \o q
<1>1. p \in Seq(Good) /\ r \in Seq(Good) /\ Len(p) \in Nat /\ Len(q) \in Nat
  BY DEF Path
<1>2. p \in Seq(Good \cup S) /\ q \in Seq(Good \cup S)
  BY <1>1
<1>3. /\ Len(r) = Len(p) + Len(q)
      /\ \A i \in 1..(Len(p) + Len(q)) : r[i] = IF i <= Len(p) THEN p[i] ELSE q[i - Len(p)]
  BY <1>2, ConcatProperties
<1>4. \A i \in 1..(Len(p) + Len(q)) : r[i] \in Good
  BY <1>1, <1>3, ElementOfSeq
<1> HIDE DEF r
<1>5. ASSUME NEW j \in 1..Len(q) PROVE q[j] \in Good
  <2>1. /\ j + Len(p) \in 1..(Len(p) + Len(q)) /\ ~ (j + Len(p) <= Len(p))
        /\ j + Len(p) - Len(p) = j
    BY <1>1
  <2> QED
    BY <1>3, <1>4, <2>1
<1>6. q \in Seq(Good)
  BY <1>1, <1>5
<1> QED
  BY <1>6 DEF Path

(* The rows of a retry by hand are new ones.                                  *)
LEMMA RetryWalk ==
  ASSUME NEW d \in Good, "retry" \in Admin
  PROVE  RetryWorkflow(d) \in Walk(d)
<1> DEFINE failed    == RetriableRows(d)
           new       == {u \in TaskId : \E t \in failed : u = <<t[1], t[2] + 1>>}
           fresh     == new \ d.keys
           inherited == {u \in fresh : \E t \in failed \cap d.executed : u = <<t[1], t[2] + 1>>}
           opened    == Final(Reopen(d))
           replaced  == [opened EXCEPT !.executed = d.executed \cup failed,
                                       !.retried  = d.retried \cup failed]
           keyed     == InsertKeys(replaced, new)
           copied    == InsertRows(keyed, fresh)
           inserted  == [copied EXCEPT !.executed = keyed.executed \cup inherited]
           pushed    == Push(inserted, new)
           rest      == <<replaced, keyed, inserted, pushed>>
<1>1. RetryWorkflow(d) = Reopen(d) \o rest
  BY DEF RetryWorkflow
<1>2. RetryWorkflow(d) \in Path /\ Reopen(d) \in Path
  BY RetryPath, ReopenPath
<1>4. /\ opened \in Good /\ opened.status = d.status /\ opened.keys = d.keys
      /\ Reopen(d) \in Walk(d)
  BY ReopenPath, ReopenWalk
<1> HIDE DEF failed, new, opened, inherited
<1>5. replaced.status = d.status /\ replaced.keys = d.keys
  BY <1>4 DEF Good, Database
<1>6. keyed.status = replaced.status
  BY <1>4 DEF InsertKeys, Good, Database
<1>7. \A t \in TaskId : copied.status[t] = IF t \in fresh THEN "SCHEDULED" ELSE keyed.status[t]
  BY <1>4 DEF InsertRows, InsertKeys, Put, Good, Database
<1>8. inserted.status = copied.status /\ pushed.status = inserted.status
  BY <1>4 DEF InsertRows, InsertKeys, Push, Good, Database
<1>9. fresh \cap Rows(d) = {}
  BY DEF Good, Keyed
<1> HIDE DEF replaced, keyed, copied, inserted, pushed, fresh
<1>10. replaced \in Good /\ keyed \in Good /\ inserted \in Good /\ pushed \in Good
  <2>1. rest \in Seq({replaced, keyed, inserted, pushed}) /\ rest # << >>
    OBVIOUS
  <2>2. rest \in Path
    <3> HIDE DEF rest
    <3> QED
      BY <1>1, <1>2, <2>1, PathRest
  <2> QED
    BY <2>2 DEF Path
<1>12. replaced \in Reach(d) /\ keyed \in Reach(d)
  BY <1>5, <1>6, <1>10, ReachItself
<1>13. \A t \in TaskId : t \in fresh => d.status[t] \notin TerminalTask
  BY <1>9, Statuses DEF Rows
<1>14. inserted \in Reach(d) /\ pushed \in Reach(d)
  BY <1>5, <1>6, <1>7, <1>8, <1>10, <1>13 DEF Reach, Stays, Orderly
<1>15. rest \in Walk(d)
  BY <1>12, <1>14 DEF Walk
<1> QED
  BY <1>1, <1>4, <1>15, WalkJoins

LEMMA RestartWalk ==
  ASSUME NEW d \in Good
  PROVE  RestartWorkflow(d) \in Walk(d)
<1> DEFINE listed == [d EXCEPT !.pending = TRUE]
<1>1. listed \in Good /\ listed.status = d.status
  <2>1. listed \in Good
    BY FlagsGood DEF Message
  <2> QED
    BY <2>1 DEF Good, Database
<1> HIDE DEF listed
<1>2. listed \in Reach(d)
  BY <1>1, ReachItself
<1>3. Decide(listed, {}, FALSE) \in Walk(d)
  BY <1>2, DecideAfter
<1>5. <<listed>> \in Walk(d)
  BY <1>2 DEF Walk
<1>4. RestartWorkflow(d) = <<listed>> \o Decide(listed, {}, FALSE)
  BY DEF RestartWorkflow, listed
<1> QED
  BY <1>3, <1>4, <1>5, WalkJoins

(***************************************************************************)
(* The inductive invariant, and what follows.                              *)
(***************************************************************************)

(* A step that performs an operation goes as far as its walk, crash or not.   *)
LEMMA CommitWalk ==
  ASSUME db \in Good, NEW p \in Walk(db), Commit(p)
  PROVE  db' \in Reach(db)
BY WalkEnds DEF Commit

LEMMA StepReach ==
  ASSUME IInv, "rerun" \notin Admin, [Next]_vars
  PROVE  db' \in Reach(db)
<1>0. db \in Good
  BY DEF IInv
<1>1. CASE UNCHANGED db
  BY <1>0, <1>1, ReachItself
<1>2. CASE Start
  BY <1>0, <1>2, StartWalk, CommitWalk DEF Start
<1>3. ASSUME NEW t \in TaskId, Pop(t) \/ HandOut(t) PROVE db' \in Reach(db)
  <2>1. db' \in Good
    BY StepGood DEF IInv
  <2>2. db'.status = db.status
    BY <1>0, <1>3 DEF Pop, HandOut, Good, Database
  <2> QED
    BY <1>0, <2>1, <2>2, ReachItself
<1>4. ASSUME NEW t \in TaskId, NEW result \in Results, Report(t, result)
      PROVE  db' \in Reach(db)
  <2>1. PICK late \in CanBeLate, expired \in CanExpire :
          Commit(UpdateTask(db, t, result, late, expired))
    BY <1>4 DEF Report
  <2>2. UpdateTask(db, t, result, late, expired) \in Walk(db)
    BY <1>0, <1>4, TimeType, UpdateWalk DEF Report
  <2> QED
    BY <1>0, <2>1, <2>2, CommitWalk
<1>5. CASE SweepStep
  <2>1. PICK late \in CanBeLate, expired \in CanExpire : Commit(Sweep(db, late, expired))
    BY <1>5 DEF SweepStep
  <2>2. Sweep(db, late, expired) \in Walk(db)
    BY <1>0, TimeType, SweepWalk
  <2> QED
    BY <1>0, <2>1, <2>2, CommitWalk
<1>6. CASE TerminateRequest
  <2>1. Terminate(db, {}, {}, "TERMINATED") \in Walk(db)
    BY <1>0, TerminateWalk DEF WorkflowStatuses
  <2> QED
    BY <1>0, <1>6, <2>1, CommitWalk DEF TerminateRequest
<1>7. CASE PauseRequest
  BY <1>0, <1>7, PauseWalk, CommitWalk DEF PauseRequest
<1>8. CASE ResumeRequest
  BY <1>0, <1>8, ResumeWalk, CommitWalk DEF ResumeRequest
<1>9. CASE RetryRequest
  BY <1>0, <1>9, RetryWalk, CommitWalk DEF RetryRequest
<1>10. CASE RestartRequest
  BY <1>0, <1>10, RestartWalk, CommitWalk DEF RestartRequest
<1>11. ASSUME NEW r \in Ref, SkipRequest(r) PROVE db' \in Reach(db)
  <2>1. PICK late \in CanBeLate, expired \in CanExpire : Commit(SkipTask(db, r, late, expired))
    BY <1>11 DEF SkipRequest
  <2>2. SkipTask(db, r, late, expired) \in Walk(db)
    BY <1>0, <1>11, TimeType, SkipWalk DEF SkipRequest
  <2> QED
    BY <1>0, <2>1, <2>2, CommitWalk
<1>12. CASE Bootstrap
  <2>1. db' \in Good
    BY StepGood DEF IInv
  <2>2. db'.status = db.status
    BY <1>0, <1>12 DEF Bootstrap, SetDecider, Good, Database
  <2> QED
    BY <1>0, <2>1, <2>2, ReachItself
<1>13. ~ RerunRequest
  BY DEF RerunRequest
<1> QED
  BY <1>1, <1>2, <1>3, <1>4, <1>5, <1>6, <1>7, <1>8, <1>9, <1>10, <1>11, <1>12, <1>13
     DEF Next, AdminRequest, Crash, vars

(* While nothing is rerun, a task's outcome stays as it was written, through   *)
(* retries by hand, timeouts, late reports and whatever a crash cut short.    *)
THEOREM ResultsStayFinal ==
  ASSUME "rerun" \notin Admin
  PROVE  Spec => ResultsAreFinal
<1> DEFINE Stay == \A t \in TaskId :
                     db.status[t] \in TerminalTask =>
                       \/ db'.status[t] = db.status[t]
                       \/ /\ db'.status[t] = "COMPLETED_WITH_ERRORS"
                          /\ db.status[t] \in UnsuccessfulTask
                          /\ t[1] \in Optional
<1>1. IInv /\ [Next]_vars => [Stay]_vars
  BY StepReach DEF Reach, Stays
<1> QED
  BY <1>1, Invariant, PTL DEF Spec, ResultsAreFinal

(* While nothing is retried or rerun by hand, the rows form a chain.           *)
OInv == IInv /\ Chain(db)

THEOREM RowsFormChain ==
  ASSUME Orderly
  PROVE  Spec => []OInv
<1>1. Init => OInv
  <2> SUFFICES ASSUME Init PROVE Chain(db)
    BY InitGood DEF OInv
  <2>1. Rows(db) = {}
    BY DEF Init, EmptyDatabase, Rows
  <2> QED
    BY <2>1 DEF Chain
<1>2. OInv /\ [Next]_vars => OInv'
  <2> SUFFICES ASSUME OInv, [Next]_vars PROVE OInv'
    OBVIOUS
  <2>1. IInv'
    BY StepGood DEF OInv
  <2>2. db' \in Reach(db)
    BY StepReach DEF OInv, Orderly
  <2>3. Chain(db')
    BY <2>2 DEF Reach, OInv
  <2>4. Chain(db') => (Chain(db))'
    BY DEF Chain, Rows, RowsOf, Replaced, Passed
  <2> QED
    BY <2>1, <2>3, <2>4 DEF OInv
<1> QED
  BY <1>1, <1>2, PTL DEF Spec

LEMMA ChainOpensOne ==
  ASSUME NEW d, Chain(d)
  PROVE  \A t, u \in Live(d) : t = u
<1> SUFFICES ASSUME NEW t \in Live(d), NEW u \in Live(d) PROVE t = u
  OBVIOUS
<1>1. /\ t \in Rows(d) /\ d.status[t] \notin TerminalTask /\ d.status[t] # "SKIPPED"
      /\ u \in Rows(d) /\ d.status[u] \notin TerminalTask /\ d.status[u] # "SKIPPED"
  BY Statuses DEF Live
<1>2. /\ t[1] \in Int /\ t[2] \in Nat /\ t = <<t[1], t[2]>> /\ t[1] \in Ref
      /\ u[1] \in Int /\ u[2] \in Nat /\ u = <<u[1], u[2]>> /\ u[1] \in Ref
  BY <1>1, TaskIdType DEF Rows
<1>3. ASSUME NEW v \in Rows(d), d.status[v] \notin TerminalTask,
             NEW w \in Rows(d), w[1] = v[1]
      PROVE  ~ (v[2] < w[2])
  BY <1>3, Statuses DEF Chain, Replaced
<1>4. ASSUME NEW v \in Rows(d), d.status[v] \notin TerminalTask, v[1] \in Ref,
             NEW w \in Rows(d), d.status[w] # "SKIPPED"
      PROVE  ~ (v[1] < w[1])
  <2> SUFFICES ASSUME v[1] < w[1] PROVE FALSE
    OBVIOUS
  <2>1. PICK x \in RowsOf(d, v[1]) : Passed(d, x)
    BY <1>4 DEF Chain
  <2>2. x \in Rows(d) /\ x[1] = v[1] /\ d.status[x] \in TerminalTask /\ ~ Replaced(d, x)
    BY <2>1 DEF RowsOf, Passed, Replaced
  <2>3. ~ (x[2] < v[2])
    BY <1>4, <2>2 DEF Chain
  <2>4. ~ (v[2] < x[2])
    BY <1>3, <1>4, <2>2
  <2>5. x = v
    BY <1>4, <2>2, <2>3, <2>4, TaskIdType DEF Rows
  <2> QED
    BY <1>4, <2>2, <2>5
<1>5. t[1] = u[1]
  BY <1>1, <1>2, <1>4
<1>6. t[2] = u[2]
  BY <1>1, <1>2, <1>3, <1>5
<1> QED
  BY <1>2, <1>5, <1>6

(* While nothing is retried by hand, one task is open at a time, permissive    *)
(* tasks included, wherever crashes cut the decisions.                         *)
THEOREM OneTaskIsOpen ==
  ASSUME Orderly
  PROVE  Spec => []OneTaskAtATime
<1>1. OInv => OneTaskAtATime
  BY ChainOpensOne DEF OInv, OneTaskAtATime
<1> QED
  BY <1>1, RowsFormChain, PTL

LEMMA ChainInOrder ==
  ASSUME OInv
  PROVE  InOrder
<1> SUFFICES ASSUME NEW t \in Rows(db), NEW p \in Ref, p < t[1], db.status[t] # "SKIPPED"
             PROVE  /\ RowsOf(db, p) # {}
                    /\ \A u \in LatestOf(db, p) :
                          /\ db.status[u] \in TerminalTask
                          /\ db.status[u] \in SuccessfulTask \/ p \in Optional \cup Permissive
  BY DEF InOrder
<1>1. PICK x \in RowsOf(db, p) : Passed(db, x)
  BY DEF OInv, Chain
<1>2. /\ x \in Rows(db) /\ x[1] = p
      /\ db.status[x] \in TerminalTask
      /\ db.status[x] \in UnsuccessfulTask => p \in Optional \cup Permissive
      /\ ~ Replaced(db, x)
  BY <1>1 DEF RowsOf, Passed, Replaced
<1>3. ASSUME NEW u \in LatestOf(db, p) PROVE u = x
  <2>1. u \in Rows(db) /\ u[1] = p /\ x[2] <= u[2]
    BY <1>1, <1>3 DEF LatestOf, RowsOf
  <2>2. ~ (x[2] < u[2])
    BY <1>2, <2>1 DEF OInv, Chain
  <2> QED
    BY <1>2, <2>1, <2>2, TaskIdType DEF Rows
<1> QED
  BY <1>1, <1>2, <1>3 DEF UnsuccessfulTask

(* ... and the decider never runs ahead: a task that is begun comes after the  *)
(* success, or the tolerated failure, of the last attempt of every earlier one. *)
THEOREM TasksRunInOrder ==
  ASSUME Orderly
  PROVE  Spec => []InOrder
<1>1. OInv => InOrder
  BY ChainInOrder
<1> QED
  BY <1>1, RowsFormChain, PTL

(***************************************************************************)
(* The engine implements TaskSequence: whatever crashes cut short, the rows   *)
(* of a workflow that is left alone are those of tasks done one after another. *)
(*                                                                         *)
(* TaskSequence sees of a database only which rows there are, how the newest   *)
(* of each task stands and whether the workflow is open.  Onto(d) holds the     *)
(* databases that are, seen so, at most one step of TaskSequence after d, and   *)
(* an operation is a sequence of them.                                        *)
(***************************************************************************)

(* Nobody ends, skips, retries or reruns by hand, and a task that may fail     *)
(* does not end the workflow by being late.                                   *)
Linear ==
  /\ Admin \subseteq {"pause", "restart"}
  /\ ~ WorkflowTimeout
  /\ Permissive = {}
  /\ \A r \in Ref : /\ TimeoutPolicy[r] # "RETRY"
                    /\ TimeoutPolicy[r] = "TIME_OUT_WF" => r \notin Optional

LEMMA LinearIsOrderly ==
  ASSUME Linear
  PROVE  Orderly /\ NoRetryTimeout
BY DEF Linear, Orderly, NoRetryTimeout

(***************************************************************************)
(* What TaskSequence sees of a database.                                    *)
(***************************************************************************)

Open(d) == d.wf \notin TerminalWorkflow

(* r is the last task that was begun, 0 when none was.                        *)
Reached(d, r) ==
  /\ r = 0 \/ RowsOf(d, r) # {}
  /\ \A q \in Ref : RowsOf(d, q) # {} => q <= r

(* u is the first attempt of the next task ...                                *)
First(d, u) == u[2] = 0 /\ \A p \in Ref : (p < u[1] <=> RowsOf(d, p) # {})

(* ... or one more attempt of the last one, which has not lost its retry.      *)
Again(d, u) ==
  /\ u[2] > 0 /\ u[2] <= RetryLimit[u[1]]
  /\ <<u[1], u[2] - 1>> \in LatestOf(d, u[1])
  /\ Verdict(d, <<u[1], u[2] - 1>>) \in {"open", "failed"}
  /\ Reached(d, u[1])

(* An open attempt ends, a failed one may lose its retry.                      *)
Moved(d, e) ==
  \A t \in Rows(d) :
    \/ Verdict(e, t) = Verdict(d, t)
    \/ Verdict(d, t) = "open"
    \/ Verdict(d, t) = "failed" /\ Verdict(e, t) = "lost"

Same(d, e) ==
  /\ Rows(e) = Rows(d) /\ Moved(d, e)
  /\ \/ Open(d) /\ Open(e)
     \/ e.wf = d.wf /\ \A t \in Rows(d) : Verdict(e, t) = Verdict(d, t)

Extends(d, e) ==
  /\ Open(d) /\ Open(e)
  /\ \E u \in TaskId \ Rows(d) : /\ Rows(e) = Rows(d) \cup {u} /\ Verdict(e, u) = "open"
                                 /\ First(d, u) \/ Again(d, u)

(* The workflow may end as completed after t.                                  *)
Suffices(d, t) ==
  Verdict(d, t) \in {"passed", "lost"} \/ (Verdict(d, t) = "failed" /\ t[1] \in Optional)

Finishes(d, e) ==
  /\ Rows(e) = Rows(d) /\ Open(d) /\ e.wf = "COMPLETED"
  /\ RowsOf(d, N) # {} /\ \A t \in LatestOf(d, N) : Suffices(e, t)

GivesUp(d, e) ==
  /\ Rows(e) = Rows(d) /\ Open(d) /\ e.wf \in TerminalWorkflow \ {"COMPLETED"}
  /\ \E r \in Ref \ Optional : /\ RowsOf(d, r) # {} /\ Reached(d, r)
                               /\ \A t \in LatestOf(d, r) : Verdict(e, t) = "failed"

(* The flags fit the statuses: what was passed succeeded or was rewritten, and  *)
(* what was replaced failed with attempts left.                               *)
Flagged(d) ==
  /\ \A t \in d.executed : d.status[t] \in SuccessfulTask
  /\ \A t \in d.retried : Replaced(d, t)
  /\ \A t \in TaskId : d.status[t] = "COMPLETED_WITH_ERRORS" => t[1] \in Optional

(* No task is skipped.                                                        *)
Plain == {d \in Good : Chain(d) /\ Flagged(d) /\ \A t \in TaskId : d.status[t] # "SKIPPED"}

Onto(d) ==
  {e \in Plain : /\ Moved(d, e)
                 /\ Same(d, e) \/ Extends(d, e) \/ Finishes(d, e) \/ GivesUp(d, e)}

(* No task has lost its retry.                                                *)
Unlost(d) == \A r \in Ref : \A t \in LatestOf(d, r) : t \notin d.retried

(* The current step and attempt are a matter of the rows.                     *)
StepOf(R) == CHOOSE r \in 0..N : /\ r = 0 \/ {t \in R : t[1] = r} # {}
                                 /\ \A q \in Ref : {t \in R : t[1] = q} # {} => q <= r

AttemptOf(R) ==
  CHOOSE a \in 0..MaxAttempt :
    IF StepOf(R) = 0 THEN a = 0
    ELSE <<StepOf(R), a>> \in {t \in {u \in R : u[1] = StepOf(R)} :
                                 \A u \in {v \in R : v[1] = StepOf(R)} : u[2] <= t[2]}

LEMMA SeenIsRows ==
  /\ CurrentStep = StepOf(Rows(db)) /\ CurrentStep' = StepOf(Rows(db'))
  /\ CurrentAttempt = AttemptOf(Rows(db)) /\ CurrentAttempt' = AttemptOf(Rows(db'))
  /\ CurrentResult = [r \in 0..N |-> ResultOf(db, r)]
  /\ CurrentResult' = [r \in 0..N |-> ResultOf(db', r)]
<1>1. CurrentStep = StepOf(Rows(db)) /\ CurrentStep' = StepOf(Rows(db'))
  BY DEF CurrentStep, StepOf, RowsOf
<1>2. CurrentAttempt = AttemptOf(Rows(db)) /\ CurrentAttempt' = AttemptOf(Rows(db'))
  BY <1>1 DEF CurrentAttempt, AttemptOf, LatestOf, RowsOf
<1>3. /\ CurrentResult = [r \in 0..N |-> ResultOf(db, r)]
      /\ CurrentResult' = [r \in 0..N |-> ResultOf(db', r)]
  BY DEF CurrentResult, ResultOf, Verdict, LatestOf, RowsOf, Rows
<1> QED
  BY <1>1, <1>2, <1>3

LEMMA StepIs ==
  ASSUME NEW d, NEW r \in 0..N, Reached(d, r)
  PROVE  StepOf(Rows(d)) = r
<1> DEFINE P(q) == /\ q = 0 \/ {t \in Rows(d) : t[1] = q} # {}
                   /\ \A p \in Ref : {t \in Rows(d) : t[1] = p} # {} => p <= q
<1>1. P(r)
  BY DEF Reached, RowsOf
<1>2. ASSUME NEW q \in 0..N, P(q) PROVE q = r
  <2>1. q \in Nat /\ r \in Nat /\ N \in Nat
    BY SizeAssumption
  <2>2. q \in Ref => q <= r
    BY <1>1, <1>2 DEF Ref
  <2>3. r \in Ref => r <= q
    BY <1>1, <1>2 DEF Ref
  <2> QED
    BY <2>1, <2>2, <2>3 DEF Ref
<1>3. StepOf(Rows(d)) = CHOOSE q \in 0..N : P(q)
  BY DEF StepOf
<1> HIDE DEF P
<1> QED
  BY <1>1, <1>2, <1>3

LEMMA AttemptIs ==
  ASSUME NEW d, NEW r \in Ref, NEW a \in 0..MaxAttempt, Reached(d, r),
         <<r, a>> \in LatestOf(d, r)
  PROVE  AttemptOf(Rows(d)) = a
<1>0. r \in 0..N /\ r # 0
  BY SizeAssumption DEF Ref
<1>1. StepOf(Rows(d)) = r
  BY <1>0, StepIs
<1>2. AttemptOf(Rows(d)) = CHOOSE b \in 0..MaxAttempt : <<r, b>> \in LatestOf(d, r)
  BY <1>0, <1>1 DEF AttemptOf, LatestOf, RowsOf
<1>3. ASSUME NEW b \in 0..MaxAttempt, <<r, b>> \in LatestOf(d, r) PROVE b = a
  <2>1. a <= b /\ b <= a
    BY <1>3 DEF LatestOf
  <2> QED
    BY <2>1, SizeAssumption
<1> QED
  BY <1>2, <1>3

LEMMA EmptyIs ==
  ASSUME NEW d, Rows(d) = {}
  PROVE  StepOf(Rows(d)) = 0 /\ AttemptOf(Rows(d)) = 0
<1>1. Reached(d, 0) /\ 0 \in 0..N
  BY SizeAssumption DEF Reached, RowsOf
<1>2. StepOf(Rows(d)) = 0
  BY <1>1, StepIs
<1>3. AttemptOf(Rows(d)) = CHOOSE a \in 0..MaxAttempt : a = 0
  BY <1>2 DEF AttemptOf
<1>4. 0 \in 0..MaxAttempt
  BY SizeAssumption
<1> QED
  BY <1>2, <1>3, <1>4

(***************************************************************************)
(* The verdict on the newest row of a task is its result.                     *)
(***************************************************************************)

LEMMA UnreplacedIsLatest ==
  ASSUME NEW d \in Plain, NEW t \in Rows(d), ~ Replaced(d, t)
  PROVE  t \in LatestOf(d, t[1])
<1> SUFFICES ASSUME NEW u \in RowsOf(d, t[1]) PROVE u[2] <= t[2]
  BY DEF LatestOf, RowsOf
<1>1. u \in Rows(d) /\ u[1] = t[1] /\ u[2] \in Nat /\ t[2] \in Nat
  BY TaskIdType DEF RowsOf, Rows
<1>2. ~ (t[2] < u[2])
  BY <1>1 DEF Plain, Chain
<1> QED
  BY <1>1, <1>2

LEMMA VerdictIs ==
  ASSUME NEW d \in Good, NEW t \in TaskId
  PROVE  /\ Verdict(d, t) \in {"open", "passed", "lost", "failed"}
         /\ Verdict(d, t) = "open" <=> d.status[t] \notin TerminalTask
         /\ Verdict(d, t) = "lost" => t \in d.retried
         /\ d.status[t] \in UnsuccessfulTask /\ t \notin d.retried => Verdict(d, t) = "failed"
         /\ d.status[t] = "COMPLETED_WITH_ERRORS" => Verdict(d, t) = "failed"
         /\ Verdict(d, t) = "failed" =>
              d.status[t] \in UnsuccessfulTask \/ d.status[t] = "COMPLETED_WITH_ERRORS"
<1>1. d.status[t] \in TaskStatuses \cup {None}
  BY DEF Good, Database
<1> QED
  BY <1>1 DEF Verdict, TaskStatuses, TerminalTask, UnsuccessfulTask, SuccessfulTask, None

LEMMA LatestIsOne ==
  ASSUME NEW d, NEW r, NEW t \in LatestOf(d, r)
  PROVE  t \in Rows(d) /\ t \in TaskId /\ t[1] = r /\ \A u \in LatestOf(d, r) : u = t
<1>1. ASSUME NEW u \in LatestOf(d, r) PROVE u = t
  <2>1. /\ t[1] = r /\ t[2] \in Nat /\ t = <<t[1], t[2]>>
        /\ u[1] = r /\ u[2] \in Nat /\ u = <<u[1], u[2]>>
    BY TaskIdType DEF LatestOf, RowsOf, Rows
  <2>2. t[2] <= u[2] /\ u[2] <= t[2]
    BY DEF LatestOf
  <2> QED
    BY <2>1, <2>2
<1> QED
  BY <1>1 DEF LatestOf, RowsOf, Rows

LEMMA ResultIs ==
  ASSUME NEW d, NEW r \in Ref, NEW t \in LatestOf(d, r)
  PROVE  ResultOf(d, r) = Verdict(d, t)
<1>1. r # 0
  BY SizeAssumption DEF Ref
<1>2. RowsOf(d, r) # {}
  BY DEF LatestOf
<1>3. ResultOf(d, r) = Verdict(d, CHOOSE u \in LatestOf(d, r) : TRUE)
  BY <1>1, <1>2 DEF ResultOf
<1>4. (CHOOSE u \in LatestOf(d, r) : TRUE) = t
  BY LatestIsOne
<1> QED
  BY <1>3, <1>4

LEMMA PassedVerdict ==
  ASSUME NEW d \in Plain, Linear, NEW t \in Rows(d), Passed(d, t)
  PROVE  Verdict(d, t) = "passed" \/ (Verdict(d, t) = "failed" /\ t[1] \in Optional)
<1>1. t \in TaskId /\ d \in Good
  BY DEF Rows, Plain
<1>2. Verdict(d, t) # "open"
  BY <1>1, VerdictIs DEF Passed
<1>3. Verdict(d, t) # "lost"
  <2>1. ASSUME t \in d.retried PROVE FALSE
    BY <2>1 DEF Plain, Flagged, Replaced, Passed
  <2> QED
    BY <1>1, <2>1, VerdictIs
<1>4. ASSUME Verdict(d, t) = "failed" PROVE t[1] \in Optional
  <2>1. d.status[t] \in UnsuccessfulTask \/ d.status[t] = "COMPLETED_WITH_ERRORS"
    BY <1>1, <1>4, VerdictIs
  <2> QED
    BY <1>1, <2>1 DEF Passed, Linear, Plain, Flagged
<1> QED
  BY <1>1, <1>2, <1>3, <1>4, VerdictIs

(* A task before the last one has passed.                                     *)
LEMMA EarlierPassed ==
  ASSUME NEW d \in Plain, NEW q \in Ref, RowsOf(d, q) # {}, NEW r \in Ref, r < q
  PROVE  \E t \in LatestOf(d, r) : Passed(d, t)
<1>1. PICK w \in Rows(d) : w[1] = q
  BY DEF RowsOf
<1>2. d.status[w] # "SKIPPED"
  BY <1>1 DEF Plain, Rows
<1>3. PICK t \in RowsOf(d, r) : Passed(d, t)
  BY <1>1, <1>2 DEF Plain, Chain
<1>4. t \in Rows(d) /\ t[1] = r /\ ~ Replaced(d, t)
  BY <1>3 DEF RowsOf, Passed, Replaced
<1> QED
  BY <1>3, <1>4, UnreplacedIsLatest

LEMMA KeptResult ==
  ASSUME NEW d \in Plain, NEW e \in Plain, Linear, Moved(d, e),
         NEW r \in Ref, RowsOf(e, r) = RowsOf(d, r),
         RowsOf(d, r) = {} \/ \E q \in Ref : r < q /\ RowsOf(d, q) # {} /\ RowsOf(e, q) # {}
  PROVE  ResultOf(e, r) = ResultOf(d, r)
<1>1. CASE RowsOf(d, r) = {}
  <2>1. r # 0
    BY SizeAssumption DEF Ref
  <2> QED
    BY <1>1, <2>1 DEF ResultOf
<1>2. CASE RowsOf(d, r) # {}
  <2>1. PICK q \in Ref : r < q /\ RowsOf(d, q) # {} /\ RowsOf(e, q) # {}
    BY <1>2
  <2>2. PICK t \in LatestOf(d, r) : Passed(d, t)
    BY <2>1, EarlierPassed
  <2>3. PICK u \in LatestOf(e, r) : Passed(e, u)
    BY <2>1, EarlierPassed
  <2>4. LatestOf(e, r) = LatestOf(d, r)
    BY DEF LatestOf
  <2>5. u = t /\ t \in Rows(d) /\ t \in Rows(e)
    BY <2>3, <2>4, LatestIsOne
  <2>6. Verdict(d, t) # "open" /\ Verdict(e, t) # "lost"
    BY <2>2, <2>3, <2>5, PassedVerdict
  <2>7. Verdict(e, t) = Verdict(d, t)
    BY <2>5, <2>6 DEF Moved
  <2> QED
    BY <2>3, <2>5, <2>7, ResultIs
<1> QED
  BY <1>1, <1>2

(***************************************************************************)
(* A step to a database in Onto is a step of TaskSequence.                    *)
(***************************************************************************)

(* The row that is added is the current attempt afterwards.                    *)
LEMMA ExtendedIs ==
  ASSUME NEW d, NEW e, NEW u \in TaskId \ Rows(d), Rows(e) = Rows(d) \cup {u},
         \A q \in Ref : RowsOf(d, q) # {} => q <= u[1],
         \A t \in RowsOf(d, u[1]) : t[2] <= u[2]
  PROVE  StepOf(Rows(e)) = u[1] /\ AttemptOf(Rows(e)) = u[2] /\ u \in LatestOf(e, u[1])
<1>1. /\ u[1] \in Ref /\ u[1] \in 0..N /\ u[1] \in Int /\ u[2] \in 0..MaxAttempt /\ u[2] \in Nat
      /\ u = <<u[1], u[2]>>
  BY SizeAssumption DEF TaskId, Ref
<1>2. u \in RowsOf(e, u[1])
  BY DEF RowsOf
<1>3. ASSUME NEW q \in Ref, RowsOf(e, q) # {} PROVE q <= u[1]
  <2>1. CASE q = u[1]
    BY <1>1, <2>1
  <2>2. CASE q # u[1]
    BY <1>3, <2>2 DEF RowsOf
  <2> QED
    BY <2>1, <2>2
<1>4. Reached(e, u[1])
  BY <1>2, <1>3 DEF Reached
<1>5. \A t \in RowsOf(e, u[1]) : t[2] <= u[2]
  BY <1>1 DEF RowsOf
<1>6. <<u[1], u[2]>> \in LatestOf(e, u[1])
  BY <1>1, <1>2, <1>5 DEF LatestOf
<1> QED
  BY <1>1, <1>4, <1>6, StepIs, AttemptIs

LEMMA FirstIs ==
  ASSUME NEW d, NEW u \in TaskId, First(d, u)
  PROVE  /\ StepOf(Rows(d)) < N /\ u[1] = StepOf(Rows(d)) + 1
         /\ \A q \in Ref : RowsOf(d, q) # {} => q <= u[1]
         /\ \A t \in RowsOf(d, u[1]) : t[2] <= u[2]
<1>1. u[1] \in Ref /\ u[1] \in Nat /\ 1 <= u[1] /\ u[1] <= N /\ N \in Nat
  BY SizeAssumption DEF TaskId, Ref
<1>2. u[1] - 1 \in 0..N
  BY <1>1
<1>3. u[1] - 1 = 0 \/ RowsOf(d, u[1] - 1) # {}
  <2>1. u[1] - 1 # 0 => u[1] - 1 \in Ref /\ u[1] - 1 < u[1]
    BY <1>1 DEF Ref
  <2> QED
    BY <2>1 DEF First
<1>4. \A q \in Ref : RowsOf(d, q) # {} => q < u[1]
  BY DEF First
<1>5. \A q \in Ref : RowsOf(d, q) # {} => q <= u[1] - 1 /\ q <= u[1]
  BY <1>1, <1>4 DEF Ref
<1>6. StepOf(Rows(d)) = u[1] - 1
  BY <1>2, <1>3, <1>5, StepIs DEF Reached
<1>7. RowsOf(d, u[1]) = {}
  BY <1>1, <1>4
<1> QED
  BY <1>1, <1>5, <1>6, <1>7

LEMMA AgainIs ==
  ASSUME NEW d, NEW u \in TaskId, Again(d, u)
  PROVE  /\ StepOf(Rows(d)) = u[1] /\ u[1] > 0
         /\ AttemptOf(Rows(d)) = u[2] - 1 /\ u[2] - 1 < RetryLimit[u[1]]
         /\ \A q \in Ref : RowsOf(d, q) # {} => q <= u[1]
         /\ \A t \in RowsOf(d, u[1]) : t[2] <= u[2]
<1>1. /\ u[1] \in Ref /\ u[1] \in 0..N /\ u[1] > 0 /\ u[2] \in 0..MaxAttempt
      /\ RetryLimit[u[1]] \in 0..MaxAttempt
  BY SizeAssumption, DefinitionAssumption DEF TaskId, Ref
<1>2. u[2] \in Nat /\ u[2] - 1 \in 0..MaxAttempt /\ RetryLimit[u[1]] \in Nat
      /\ u[2] - 1 < RetryLimit[u[1]]
  BY <1>1, SizeAssumption DEF Again
<1>3. StepOf(Rows(d)) = u[1] /\ AttemptOf(Rows(d)) = u[2] - 1
  BY <1>1, <1>2, StepIs, AttemptIs DEF Again
<1>4. ASSUME NEW t \in RowsOf(d, u[1]) PROVE t[2] <= u[2]
  <2>1. t[2] <= u[2] - 1 /\ t[2] \in Nat
    BY TaskIdType DEF Again, LatestOf, RowsOf, Rows
  <2> QED
    BY <1>2, <2>1
<1> QED
  BY <1>1, <1>2, <1>3, <1>4 DEF Again, Reached

LEMMA GivesUpIs ==
  ASSUME NEW d, NEW r \in Ref \ Optional, Reached(d, r)
  PROVE  StepOf(Rows(d)) > 0 /\ StepOf(Rows(d)) \notin Optional
<1>1. r \in 0..N /\ r > 0
  BY SizeAssumption DEF Ref
<1> QED
  BY <1>1, StepIs

LEMMA FinishesIs ==
  ASSUME NEW d, RowsOf(d, N) # {}
  PROVE  StepOf(Rows(d)) = N
<1>1. N \in 0..N /\ \A q \in Ref : q <= N
  BY SizeAssumption DEF Ref
<1> QED
  BY <1>1, StepIs DEF Reached

LEMMA SameRowsOf ==
  ASSUME NEW d, NEW e, Rows(e) = Rows(d)
  PROVE  /\ \A r : RowsOf(e, r) = RowsOf(d, r) /\ LatestOf(e, r) = LatestOf(d, r)
         /\ \A r : Reached(e, r) <=> Reached(d, r)
         /\ \A u : First(e, u) <=> First(d, u)
<1>1. \A r : RowsOf(e, r) = RowsOf(d, r)
  BY DEF RowsOf
<1>2. \A r : LatestOf(e, r) = LatestOf(d, r)
  BY <1>1 DEF LatestOf
<1>3. \A r : Reached(e, r) <=> Reached(d, r)
  BY <1>1 DEF Reached
<1>4. \A u : First(e, u) <=> First(d, u)
  BY <1>1 DEF First
<1> QED
  BY <1>1, <1>2, <1>3, <1>4

(* The verdict on the current attempt is one it may end with.                  *)
LEMMA EndsHolds ==
  ASSUME db \in Plain, NEW e \in Plain, Moved(db, e), NEW r \in Ref, Reached(db, r),
         NEW t \in LatestOf(db, r), t \in LatestOf(e, r), Verdict(e, t) # "open",
         MaxCrashes > 0 \/ Unlost(e)
  PROVE  Verdict(e, t) \in Sequential!Ends
<1>1. /\ t \in Rows(db) /\ t \in TaskId /\ t[1] = r /\ t = <<r, t[2]>> /\ t[2] \in 0..MaxAttempt
      /\ r \in 0..N
  BY LatestIsOne, SizeAssumption DEF TaskId, Ref
<1>2. CurrentStep = r /\ CurrentAttempt = t[2] /\ CurrentResult[r] = Verdict(db, t)
  BY <1>1, SeenIsRows, StepIs, AttemptIs, ResultIs
<1>3. ASSUME Verdict(e, t) = "lost" PROVE "lost" \in Sequential!Lost
  <2>1. t \in e.retried
    BY <1>1, <1>3, VerdictIs DEF Plain
  <2>2. t[2] < RetryLimit[r]
    BY <1>1, <2>1 DEF Plain, Flagged, Replaced
  <2>3. MaxCrashes > 0
    BY <2>1 DEF Unlost
  <2> QED
    BY <1>2, <2>2, <2>3 DEF Sequential!Lost
<1>4. Verdict(e, t) \in {"passed", "lost", "failed"}
  BY <1>1, VerdictIs DEF Plain
<1>5. CASE Verdict(db, t) = "open"
  BY <1>2, <1>3, <1>4, <1>5 DEF Sequential!Ends
<1>6. CASE Verdict(db, t) = "failed"
  <2>1. Verdict(e, t) = "failed" \/ Verdict(e, t) = "lost"
    BY <1>1, <1>6 DEF Moved
  <2> QED
    BY <1>2, <1>3, <1>6, <2>1 DEF Sequential!Ends
<1>7. CASE Verdict(db, t) \notin {"open", "failed"}
  <2>1. Verdict(e, t) = Verdict(db, t)
    BY <1>1, <1>7 DEF Moved
  <2> QED
    BY <1>2, <1>7, <2>1 DEF Sequential!Ends
<1> QED
  BY <1>5, <1>6, <1>7

(* Only the current result changes while no row is added.                      *)
LEMMA OneResult ==
  ASSUME Linear, NEW d \in Plain, NEW e \in Plain, Moved(d, e), Rows(e) = Rows(d),
         NEW r \in 0..N, r # StepOf(Rows(d)), NEW s \in 0..N, Reached(d, s)
  PROVE  ResultOf(e, r) = ResultOf(d, r)
<1>1. StepOf(Rows(d)) = s
  BY StepIs
<1>2. \A q : RowsOf(e, q) = RowsOf(d, q)
  BY SameRowsOf
<1>3. CASE r = 0
  BY <1>3 DEF ResultOf
<1>4. CASE r # 0 /\ r < s
  <2>1. r \in Ref /\ s \in Ref /\ RowsOf(d, s) # {}
    BY <1>4, SizeAssumption DEF Ref, Reached
  <2> QED
    BY <1>2, <1>4, <2>1, KeptResult
<1>5. CASE s < r
  <2>1. r \in Ref /\ ~ (r <= s)
    BY <1>5, SizeAssumption DEF Ref
  <2>2. RowsOf(d, r) = {}
    BY <2>1 DEF Reached
  <2> QED
    BY <1>2, <2>1, <2>2, KeptResult
<1>6. r = 0 \/ (r # 0 /\ r < s) \/ s < r
  BY <1>1, SizeAssumption
<1> QED
  BY <1>3, <1>4, <1>5, <1>6

(* The last task that was begun.                                              *)
LEMMA SomeReached ==
  ASSUME NEW d
  PROVE  \E s \in 0..N : Reached(d, s)
<1> DEFINE T == {r \in 0..N : r = 0 \/ RowsOf(d, r) # {}}
<1>1. N \in Nat /\ T \in SUBSET (0..N) /\ 0 \in T
  BY SizeAssumption
<1>2. PICK s \in T : \A p \in T : p <= s
  <2> HIDE DEF T
  <2> QED
    BY <1>1, GreatestExists
<1>3. \A q \in Ref : q \in 0..N
  BY SizeAssumption DEF Ref
<1> QED
  BY <1>2, <1>3 DEF Reached

LEMMA OntoIsStep ==
  ASSUME Linear, db \in Plain, db' \in Onto(db), MaxCrashes > 0 \/ Unlost(db')
  PROVE  [Sequential!SeqNext]_(Sequential!seqVars)
<1> DEFINE s    == StepOf(Rows(db))
           a    == AttemptOf(Rows(db))
           R(r) == ResultOf(db, r)
           Q(r) == ResultOf(db', r)
<1>0. db' \in Plain /\ Moved(db, db') /\ db \in Good /\ db' \in Good
  BY DEF Onto, Plain
<1>1. /\ CurrentStep = s /\ CurrentStep' = StepOf(Rows(db'))
      /\ CurrentAttempt = a /\ CurrentAttempt' = AttemptOf(Rows(db'))
      /\ CurrentResult = [r \in 0..N |-> R(r)] /\ CurrentResult' = [r \in 0..N |-> Q(r)]
  BY SeenIsRows
<1>2. /\ Open(db) => Outcome = "running"
      /\ Open(db') => Outcome' = "running"
      /\ db'.wf = "COMPLETED" => Outcome' = "completed"
      /\ db'.wf \in TerminalWorkflow \ {"COMPLETED"} => Outcome' = "failed"
      /\ db'.wf = db.wf => Outcome' = Outcome
  BY DEF Open, Outcome, TerminalWorkflow, WorkflowStatuses
<1>7. s \in 0..N /\ Reached(db, s)
  BY SomeReached, StepIs
<1>8. s = 0 => R(0) = "passed" /\ Q(0) = "passed"
  BY DEF ResultOf
<1>9. ASSUME s # 0
      PROVE  /\ s \in Ref
             /\ \E t \in LatestOf(db, s) : /\ t \in Rows(db) /\ R(s) = Verdict(db, t)
                                           /\ s = t[1] /\ a = t[2]
  <2>1. s \in Ref /\ RowsOf(db, s) # {}
    BY <1>7, <1>9, SizeAssumption DEF Ref, Reached
  <2>2. PICK t \in LatestOf(db, s) : TRUE
    BY <2>1, LatestExists
  <2>3. t \in Rows(db) /\ t[1] = s /\ t = <<s, t[2]>> /\ t[2] \in 0..MaxAttempt
    BY <2>2, LatestIsOne DEF TaskId
  <2>4. a = t[2]
    BY <1>7, <2>1, <2>2, <2>3, AttemptIs
  <2>5. R(s) = Verdict(db, t)
    BY <2>1, <2>2, ResultIs
  <2> QED
    BY <2>1, <2>2, <2>3, <2>4, <2>5
<1>10. ASSUME s # 0, NEW t \in LatestOf(db, s), LatestOf(db', s) = LatestOf(db, s)
       PROVE  /\ Q(s) = Verdict(db', t)
              /\ Verdict(db', t) # "open" => Verdict(db', t) \in Sequential!Ends
  <2>1. Q(s) = Verdict(db', t)
    BY <1>9, <1>10, ResultIs
  <2>2. Verdict(db', t) # "open" => Verdict(db', t) \in Sequential!Ends
    BY <1>0, <1>7, <1>9, <1>10, EndsHolds
  <2> QED
    BY <2>1, <2>2
<1>11. ASSUME Rows(db') = Rows(db)
       PROVE  /\ CurrentStep' = CurrentStep /\ CurrentAttempt' = CurrentAttempt
              /\ CurrentResult' = [CurrentResult EXCEPT ![s] = Q(s)]
              /\ Q(s) = R(s) => CurrentResult' = CurrentResult
              /\ \A r : LatestOf(db', r) = LatestOf(db, r)
  <2>1. \A r \in 0..N : r # s => Q(r) = R(r)
    BY <1>0, <1>7, <1>11, OneResult
  <2>2. \A r : LatestOf(db', r) = LatestOf(db, r)
    BY <1>11, SameRowsOf
  <2>5. StepOf(Rows(db')) = s /\ AttemptOf(Rows(db')) = a
    BY <1>11
  <2> HIDE DEF s, a, R, Q
  <2>3. CurrentResult' = [CurrentResult EXCEPT ![s] = Q(s)]
    BY <1>1, <1>7, <2>1
  <2>4. Q(s) = R(s) => CurrentResult' = CurrentResult
    BY <1>1, <2>1
  <2> QED
    BY <1>1, <2>2, <2>3, <2>4, <2>5
<1>3. CASE Same(db, db')
  <2>1. CASE Q(s) = R(s)
    <3>1. Outcome' = Outcome
      BY <1>2, <1>3 DEF Same
    <3> QED
      BY <1>3, <1>11, <2>1, <3>1 DEF Sequential!seqVars, Same
  <2>2. CASE Q(s) # R(s)
    <3>1. s # 0
      BY <1>8, <2>2
    <3>2. PICK t \in LatestOf(db, s) : t \in Rows(db) /\ R(s) = Verdict(db, t)
      BY <1>9, <3>1
    <3>3. /\ Q(s) = Verdict(db', t)
          /\ Verdict(db', t) # "open" => Verdict(db', t) \in Sequential!Ends
      BY <1>3, <1>10, <1>11, <3>1, <3>2 DEF Same
    <3>4. Verdict(db', t) # Verdict(db, t) /\ Verdict(db', t) # "open"
      BY <1>0, <2>2, <3>2, <3>3 DEF Moved
    <3>5. Outcome = "running" /\ Outcome' = "running"
      BY <1>2, <1>3, <3>2, <3>4 DEF Same
    <3>6. Sequential!Conclude
      BY <1>1, <1>3, <1>11, <3>3, <3>4, <3>5 DEF Sequential!Conclude, Same
    <3> QED
      BY <3>6 DEF Sequential!SeqNext
  <2> QED
    BY <2>1, <2>2
<1>4. CASE Extends(db, db')
  <2>1. PICK u \in TaskId \ Rows(db) : /\ Rows(db') = Rows(db) \cup {u}
                                       /\ Verdict(db', u) = "open"
                                       /\ First(db, u) \/ Again(db, u)
    BY <1>4 DEF Extends
  <2>2. Outcome = "running" /\ Outcome' = "running"
    BY <1>2, <1>4 DEF Extends
  <2>5. u[1] \in Ref /\ \A r : r # u[1] => RowsOf(db', r) = RowsOf(db, r)
    BY <2>1, TaskIdType DEF RowsOf
  <2>6. u \in RowsOf(db', u[1])
    BY <2>1 DEF RowsOf
  <2>7. ASSUME NEW r \in Ref, r # u[1], r # s PROVE Q(r) = R(r)
    <3>1. RowsOf(db', r) = RowsOf(db, r)
      BY <2>5, <2>7
    <3>2. CASE r < s
      <4>1. s \in Ref /\ RowsOf(db, s) # {}
        BY <1>7, <3>2, SizeAssumption DEF Ref, Reached
      <4>2. RowsOf(db', s) # {}
        BY <2>5, <2>6, <4>1
      <4> QED
        BY <1>0, <3>1, <3>2, <4>1, <4>2, KeptResult
    <3>3. CASE ~ (r < s)
      <4>1. ~ (r <= s)
        BY <1>7, <2>7, <3>3, SizeAssumption DEF Ref
      <4>2. RowsOf(db, r) = {}
        BY <1>7, <4>1 DEF Reached
      <4> QED
        BY <1>0, <3>1, <4>2, KeptResult
    <3> QED
      BY <3>2, <3>3
  <2>8. Q(0) = R(0)
    BY DEF ResultOf
  <2>9. \A r \in 0..N : r # u[1] /\ r # s => Q(r) = R(r)
    <3>1. \A r \in 0..N : r = 0 \/ r \in Ref
      BY SizeAssumption DEF Ref
    <3> HIDE DEF Q, R, s
    <3> QED
      BY <2>7, <2>8, <3>1
  <2>3. CASE First(db, u)
    <3>1. /\ s < N /\ u[1] = s + 1 /\ u[2] = 0
          /\ \A q \in Ref : RowsOf(db, q) # {} => q <= u[1]
          /\ \A t \in RowsOf(db, u[1]) : t[2] <= u[2]
      BY <2>3, FirstIs DEF First
    <3>2. /\ StepOf(Rows(db')) = s + 1 /\ AttemptOf(Rows(db')) = 0
          /\ u \in LatestOf(db', u[1])
      BY <2>1, <3>1, ExtendedIs
    <3>3. Q(s + 1) = "open"
      BY <2>1, <2>5, <3>1, <3>2, ResultIs
    <3>4. Q(s) \in Sequential!Ends /\ (Q(s) = "passed" \/ (Q(s) = "failed" /\ s \in Optional))
      <4>1. CASE s = 0
        <5>1. CurrentResult[s] = "passed"
          BY <1>1, <1>7, <1>8, <4>1
        <5> QED
          BY <1>1, <1>8, <4>1, <5>1 DEF Sequential!Ends
      <4>2. CASE s # 0
        <5>1. PICK t \in LatestOf(db, s) : t \in Rows(db) /\ s = t[1]
          BY <1>9, <4>2
        <5>2. s \in Ref /\ s < u[1] /\ s # u[1]
          BY <1>9, <3>1, <4>2 DEF Ref
        <5>3. RowsOf(db', s) = RowsOf(db, s)
          BY <2>5, <5>2
        <5>4. LatestOf(db', s) = LatestOf(db, s)
          BY <5>3 DEF LatestOf
        <5>5. PICK w \in LatestOf(db', s) : Passed(db', w)
          BY <1>0, <2>5, <2>6, <5>2, EarlierPassed
        <5>6. w = t /\ t \in Rows(db')
          BY <5>1, <5>4, <5>5, LatestIsOne
        <5>7. Verdict(db', t) = "passed" \/ (Verdict(db', t) = "failed" /\ s \in Optional)
          BY <1>0, <5>1, <5>5, <5>6, PassedVerdict
        <5>8. Q(s) = Verdict(db', t) /\ Verdict(db', t) \in Sequential!Ends
          BY <1>10, <4>2, <5>1, <5>4, <5>7
        <5> QED
          BY <5>7, <5>8
      <4> QED
        BY <4>1, <4>2
    <3>5. CurrentResult' = [CurrentResult EXCEPT ![s] = Q(s), ![s + 1] = "open"]
      <4> HIDE DEF Q, R, s
      <4> QED
        BY <1>1, <1>7, <2>9, <3>1, <3>3
    <3>6. Sequential!BeginTask
      <4> HIDE DEF Q, R, s
      <4> QED
        BY <1>1, <2>2, <3>1, <3>2, <3>4, <3>5 DEF Sequential!BeginTask, Sequential!Enough
    <3> QED
      BY <3>6 DEF Sequential!SeqNext
  <2>4. CASE Again(db, u)
    <3>1. /\ s = u[1] /\ s > 0 /\ a = u[2] - 1 /\ a < RetryLimit[s]
          /\ \A q \in Ref : RowsOf(db, q) # {} => q <= u[1]
          /\ \A t \in RowsOf(db, u[1]) : t[2] <= u[2]
      BY <2>4, AgainIs
    <3>2. u[2] \in Nat
      BY TaskIdType
    <3>5. /\ StepOf(Rows(db')) = u[1] /\ AttemptOf(Rows(db')) = u[2]
          /\ u \in LatestOf(db', u[1])
      BY <2>1, <3>1, ExtendedIs
    <3>3. StepOf(Rows(db')) = s /\ AttemptOf(Rows(db')) = a + 1
      BY <3>1, <3>2, <3>5
    <3>6. Q(s) = "open"
      BY <2>1, <2>5, <3>1, <3>5, ResultIs
    <3>7. R(s) \in {"open", "failed"}
      BY <2>4, <2>5, <3>1, ResultIs DEF Again
    <3>8. "failed" \in Sequential!Ends
      <4> HIDE DEF R, s
      <4> QED
        BY <1>1, <1>7, <3>7 DEF Sequential!Ends
    <3>9. CurrentResult' = [CurrentResult EXCEPT ![s] = "open"]
      <4> HIDE DEF Q, R, s
      <4> QED
        BY <1>1, <1>7, <2>9, <3>1, <3>6
    <3>4. Sequential!TryAgain
      <4> HIDE DEF s, a
      <4> QED
        BY <1>1, <2>2, <3>1, <3>3, <3>8, <3>9 DEF Sequential!TryAgain
    <3> QED
      BY <3>4 DEF Sequential!SeqNext
  <2> QED
    BY <2>1, <2>3, <2>4
<1>5. CASE Finishes(db, db')
  <2>1. s = N /\ s # 0 /\ Outcome = "running" /\ Outcome' = "completed"
    BY <1>2, <1>5, FinishesIs, SizeAssumption DEF Finishes
  <2>2. PICK t \in LatestOf(db, s) : t[1] = s
    BY <1>9, <2>1
  <2>3. Q(s) = Verdict(db', t) /\ (Verdict(db', t) # "open" => Verdict(db', t) \in Sequential!Ends)
    BY <1>5, <1>10, <1>11, <2>1, <2>2 DEF Finishes
  <2>4. Suffices(db', t)
    BY <1>5, <2>1, <2>2 DEF Finishes
  <2>5. Q(s) \in Sequential!Ends
    BY <2>3, <2>4 DEF Suffices
  <2>6. Q(s) = "passed" \/ (Q(s) = "failed" /\ s \in Optional) \/ Q(s) = "lost"
    BY <2>2, <2>3, <2>4 DEF Suffices
  <2>7. /\ CurrentStep' = CurrentStep /\ CurrentAttempt' = CurrentAttempt
        /\ CurrentResult' = [CurrentResult EXCEPT ![s] = Q(s)]
    BY <1>5, <1>11 DEF Finishes
  <2>8. Sequential!Finish
    <3> HIDE DEF s, Q
    <3> QED
      BY <1>1, <2>1, <2>5, <2>6, <2>7 DEF Sequential!Finish, Sequential!Enough
  <2> QED
    BY <2>8 DEF Sequential!SeqNext
<1>6. CASE GivesUp(db, db')
  <2>1. Outcome = "running" /\ Outcome' = "failed"
    BY <1>2, <1>6 DEF GivesUp
  <2>2. PICK r \in Ref \ Optional : /\ RowsOf(db, r) # {} /\ Reached(db, r)
                                    /\ \A t \in LatestOf(db, r) : Verdict(db', t) = "failed"
    BY <1>6 DEF GivesUp
  <2>3. s = r /\ s # 0
    BY <2>2, GivesUpIs, StepIs, SizeAssumption DEF Ref
  <2>4. PICK t \in LatestOf(db, s) : t[1] = s
    BY <1>9, <2>3
  <2>5. Q(s) = Verdict(db', t) /\ (Verdict(db', t) # "open" => Verdict(db', t) \in Sequential!Ends)
    BY <1>6, <1>10, <1>11, <2>3, <2>4 DEF GivesUp
  <2>6. Q(s) = "failed" /\ "failed" \in Sequential!Ends /\ s \notin Optional
    BY <2>2, <2>3, <2>4, <2>5
  <2>7. /\ CurrentStep' = CurrentStep /\ CurrentAttempt' = CurrentAttempt
        /\ CurrentResult' = [CurrentResult EXCEPT ![s] = Q(s)]
    BY <1>6, <1>11 DEF GivesUp
  <2>8. Sequential!GiveUp
    <3> HIDE DEF s, Q
    <3> QED
      BY <1>1, <2>1, <2>6, <2>7 DEF Sequential!GiveUp
  <2> QED
    BY <2>8 DEF Sequential!SeqNext
<1> QED
  BY <1>3, <1>4, <1>5, <1>6 DEF Onto

(***************************************************************************)
(* Writes.                                                                 *)
(***************************************************************************)

Steps(d) == Seq(Onto(d)) \ {<< >>}

LEMMA SeqEnds ==
  ASSUME NEW S, NEW p \in Seq(S) \ {<< >>}
  PROVE  Final(p) \in S /\ \A i \in 1..(Len(p) - 1) : p[i] \in S
BY DEF Final

LEMMA ShortSeqs ==
  ASSUME NEW S, NEW e \in S, NEW f \in S, NEW g \in S
  PROVE  /\ <<e>> \in Seq(S) \ {<< >>} /\ <<e, f>> \in Seq(S) \ {<< >>}
         /\ <<e, f, g>> \in Seq(S) \ {<< >>}
OBVIOUS

LEMMA SeqJoins ==
  ASSUME NEW S, NEW p \in Seq(S) \ {<< >>}, NEW q \in Seq(S) \ {<< >>}
  PROVE  p \o q \in Seq(S) \ {<< >>}
<1>1. p \o q \in Seq(S) /\ Len(p \o q) = Len(p) + Len(q) /\ Len(p) > 0 /\ Len(q) \in Nat
  BY ConcatProperties
<1> QED
  BY <1>1

(* The attempts move on.                                                      *)
LEMMA MovedOn ==
  ASSUME NEW d, NEW e, NEW f, Moved(d, e), Moved(e, f), Rows(d) \subseteq Rows(e)
  PROVE  Moved(d, f)
BY DEF Moved

(* Writes that leave the statuses alone and at most clear executed flags.      *)
Still(d, e) ==
  e.status = d.status /\ e.executed \subseteq d.executed /\ e.retried = d.retried

LEMMA FlagWrite ==
  ASSUME NEW d \in Plain, Linear, NEW e \in Good, Still(d, e)
  PROVE  /\ e \in Plain /\ Rows(e) = Rows(d)
         /\ \A t : Verdict(e, t) = Verdict(d, t)
<1>1. e \in Reach(d)
  BY ReachItself DEF Plain, Still
<1>2. Flagged(e)
  BY DEF Plain, Flagged, Still, Replaced
<1>3. Rows(e) = Rows(d) /\ \A t : Verdict(e, t) = Verdict(d, t)
  BY DEF Still, Rows, Verdict
<1>4. e \in Plain
  BY <1>1, <1>2, LinearIsOrderly DEF Plain, Reach, Still
<1> QED
  BY <1>3, <1>4

(* Writes of a status other than SKIPPED to open rows.                         *)
LEMMA StatusWrite ==
  ASSUME NEW d \in Plain, Linear, NEW e \in Good, NEW T \in SUBSET Live(d),
         NEW s \in TaskStatuses \ {"SKIPPED", "COMPLETED_WITH_ERRORS"},
         \A t \in TaskId : e.status[t] = IF t \in T THEN s ELSE d.status[t],
         e.executed \subseteq d.executed, e.retried = d.retried
  PROVE  /\ e \in Plain /\ Rows(e) = Rows(d) /\ Moved(d, e)
         /\ \A t \in Rows(d) \ T : Verdict(e, t) = Verdict(d, t)
         /\ s \in {"TIMED_OUT", "CANCELED"} => \A t \in T : Verdict(e, t) = "failed"
<1>0. d \in Good /\ d \in Database /\ s \in TaskStatuses \ {"SKIPPED"}
  BY DEF Plain, Good
<1>1. e \in Reach(d) /\ Rows(e) = Rows(d)
  <2>1. ASSUME NEW v \in TaskStatuses \ {"SKIPPED"},
               \A t \in TaskId : e.status[t] = IF t \in T THEN v ELSE d.status[t]
        PROVE  e \in Reach(d) /\ Rows(e) = Rows(d)
    BY <1>0, <2>1, LiveReach
  <2> QED
    BY <1>0, <2>1
<1>2. \A t \in TaskId : e.status[t] # "SKIPPED"
  BY DEF Plain
<1>3. ASSUME NEW t \in T
      PROVE  /\ t \in TaskId /\ t \notin d.retried /\ t \notin d.executed
             /\ d.status[t] \notin TerminalTask
  <2>1. t \in TaskId /\ d.status[t] \notin TerminalTask
    BY DEF Live, Rows
  <2>2. "retry" \notin Admin
    BY DEF Linear
  <2> QED
    BY <1>0, <2>1, <2>2 DEF Good, Processed, Marked
<1>4. Flagged(e)
  <2>1. \A t \in e.executed : e.status[t] \in SuccessfulTask
    BY <1>0, <1>3 DEF Plain, Flagged, Database
  <2>2. \A t \in e.retried : t \in TaskId /\ e.status[t] = d.status[t] /\ Replaced(d, t)
    BY <1>0, <1>3 DEF Plain, Flagged, Database
  <2>3. \A t \in TaskId : e.status[t] = "COMPLETED_WITH_ERRORS" => t[1] \in Optional
    BY DEF Plain, Flagged
  <2> QED
    BY <2>1, <2>2, <2>3 DEF Flagged, Replaced
<1>5. e \in Plain
  BY <1>1, <1>2, <1>4, LinearIsOrderly DEF Plain, Reach
<1>6. ASSUME NEW t \in Rows(d) \ T PROVE Verdict(e, t) = Verdict(d, t)
  <2>1. t \in TaskId /\ e.status[t] = d.status[t]
    BY DEF Rows
  <2> QED
    BY <2>1 DEF Verdict
<1>7. \A t \in T : Verdict(d, t) = "open"
  BY <1>0, <1>3, VerdictIs
<1>8. Moved(d, e)
  BY <1>6, <1>7 DEF Moved
<1>9. ASSUME s \in {"TIMED_OUT", "CANCELED"}, NEW t \in T PROVE Verdict(e, t) = "failed"
  <2>1. e.status[t] \in UnsuccessfulTask /\ t \notin e.retried /\ t \in TaskId
    BY <1>3, <1>9 DEF UnsuccessfulTask, TerminalTask, SuccessfulTask, TaskStatuses
  <2> QED
    BY <2>1, VerdictIs
<1> QED
  BY <1>1, <1>5, <1>6, <1>8, <1>9

LEMMA FinalWrite ==
  ASSUME NEW d \in Plain, Linear, NEW T \in SUBSET Live(d), NEW s \in {"TIMED_OUT", "CANCELED"}
  PROVE  /\ SetStatus(d, T, s) \in Plain /\ Rows(SetStatus(d, T, s)) = Rows(d)
         /\ SetStatus(d, T, s).wf = d.wf /\ Moved(d, SetStatus(d, T, s))
         /\ \A t \in Rows(d) \ T : Verdict(SetStatus(d, T, s), t) = Verdict(d, t)
         /\ \A t \in T : Verdict(SetStatus(d, T, s), t) = "failed"
<1> DEFINE e == SetStatus(d, T, s)
<1>1. /\ T \subseteq Rows(d) /\ s \in TerminalTask /\ d \in Good
      /\ s \in TaskStatuses \ {"SKIPPED", "COMPLETED_WITH_ERRORS"}
  BY DEF Live, TerminalTask, TaskStatuses, Plain
<1>2. e \in Good /\ \A t \in TaskId : e.status[t] = IF t \in T THEN s ELSE d.status[t]
  BY <1>1, SetFinalGood
<1>3. e.wf = d.wf /\ e.executed = d.executed /\ e.retried = d.retried
  BY <1>1 DEF SetStatus, Good, Database
<1> HIDE DEF e
<1>4. /\ e \in Plain /\ Rows(e) = Rows(d) /\ Moved(d, e)
      /\ \A t \in Rows(d) \ T : Verdict(e, t) = Verdict(d, t)
      /\ \A t \in T : Verdict(e, t) = "failed"
  BY <1>1, <1>2, <1>3, StatusWrite
<1> QED
  BY <1>3, <1>4 DEF e

(* What is seen does not change before a step ...                              *)
LEMMA OntoAfterSame ==
  ASSUME NEW d, NEW e, Same(d, e)
  PROVE  Onto(e) \subseteq Onto(d)
<1> SUFFICES ASSUME NEW f \in Onto(e) PROVE f \in Onto(d)
  OBVIOUS
<1>1. /\ Rows(e) = Rows(d) /\ (Open(e) <=> Open(d)) /\ Moved(d, e)
      /\ \/ Open(d) /\ Open(e)
         \/ e.wf = d.wf /\ \A t \in Rows(d) : Verdict(e, t) = Verdict(d, t)
  BY DEF Same, Open
<1>2. f \in Plain /\ Moved(d, f)
  BY <1>1, MovedOn DEF Onto
<1>3. CASE Same(e, f)
  <2>1. Rows(f) = Rows(d) /\ Moved(d, f)
    BY <1>1, <1>2, <1>3 DEF Same
  <2>2. CASE Open(d) /\ Open(e)
    BY <1>2, <1>3, <2>1, <2>2 DEF Same, Open, Onto
  <2>3. CASE ~ Open(e)
    <3>1. e.wf = d.wf /\ \A t \in Rows(d) : Verdict(e, t) = Verdict(d, t)
      BY <1>1, <2>3
    <3>2. f.wf = e.wf /\ \A t \in Rows(e) : Verdict(f, t) = Verdict(e, t)
      BY <1>3, <2>3 DEF Same
    <3> QED
      BY <1>1, <1>2, <2>1, <3>1, <3>2 DEF Same, Onto
  <2> QED
    BY <1>1, <2>2, <2>3
<1>4. CASE Extends(e, f)
  <2>1. PICK u \in TaskId \ Rows(e) : /\ Rows(f) = Rows(e) \cup {u} /\ Verdict(f, u) = "open"
                                      /\ First(e, u) \/ Again(e, u)
    BY <1>4 DEF Extends
  <2>2. ASSUME Again(e, u) PROVE Again(d, u)
    <3> DEFINE v == <<u[1], u[2] - 1>>
    <3>1. v \in LatestOf(e, u[1]) /\ Verdict(e, v) \in {"open", "failed"}
      BY <2>2 DEF Again
    <3>2. v \in LatestOf(d, u[1]) /\ v \in Rows(d)
      BY <1>1, <3>1, SameRowsOf, LatestIsOne
    <3> HIDE DEF v
    <3>3. Verdict(d, v) \in {"open", "failed"}
      BY <1>1, <3>1, <3>2 DEF Moved
    <3>4. Reached(d, u[1])
      BY <1>1, <2>2, SameRowsOf DEF Again
    <3> QED
      BY <2>2, <3>2, <3>3, <3>4 DEF Again, v
  <2>3. First(d, u) \/ Again(d, u)
    BY <1>1, <2>1, <2>2, SameRowsOf
  <2>4. Extends(d, f)
    BY <1>1, <1>4, <2>1, <2>3 DEF Extends
  <2> QED
    BY <1>2, <2>4 DEF Onto
<1>5. CASE Finishes(e, f)
  BY <1>1, <1>2, <1>5, SameRowsOf DEF Finishes, Onto
<1>6. CASE GivesUp(e, f)
  BY <1>1, <1>2, <1>6, SameRowsOf DEF GivesUp, Onto
<1> QED
  BY <1>3, <1>4, <1>5, <1>6 DEF Onto

(* ... nor after it: open attempts stay open, and what has ended stays.        *)
Calmly(e, f) ==
  /\ Rows(f) = Rows(e) /\ f.wf = e.wf /\ Moved(e, f)
  /\ \A t \in Rows(e) : Verdict(e, t) = "open" => Verdict(f, t) = "open"
  /\ ~ Open(e) => \A t \in Rows(e) : Verdict(f, t) = Verdict(e, t)

LEMMA OntoThenSame ==
  ASSUME NEW d, NEW e \in Onto(d), NEW f \in Plain, Calmly(e, f)
  PROVE  f \in Onto(d)
<1>1. Rows(d) \subseteq Rows(e) /\ Rows(f) = Rows(e) /\ (Open(f) <=> Open(e))
  BY DEF Onto, Same, Extends, Finishes, GivesUp, Calmly, Open
<1>2. Moved(d, f)
  BY <1>1, MovedOn DEF Onto, Calmly
<1>3. CASE Same(d, e)
  BY <1>1, <1>2, <1>3 DEF Same, Calmly, Open, Onto
<1>4. CASE Extends(d, e)
  <2>1. Extends(d, f)
    BY <1>1, <1>4 DEF Extends, Calmly
  <2> QED
    BY <1>2, <2>1 DEF Onto
<1>5. CASE Finishes(d, e)
  <2>1. ~ Open(e) /\ \A t \in Rows(e) : Verdict(f, t) = Verdict(e, t)
    BY <1>5 DEF Finishes, Open, Calmly, TerminalWorkflow, WorkflowStatuses
  <2>2. \A t \in LatestOf(d, N) : t \in Rows(e)
    BY <1>1, LatestIsOne
  <2>3. Finishes(d, f)
    BY <1>1, <1>5, <2>1, <2>2 DEF Finishes, Suffices, Calmly
  <2> QED
    BY <1>2, <2>3 DEF Onto
<1>6. CASE GivesUp(d, e)
  <2>1. ~ Open(e) /\ \A t \in Rows(e) : Verdict(f, t) = Verdict(e, t)
    BY <1>6 DEF GivesUp, Open, Calmly
  <2>2. \A r : \A t \in LatestOf(d, r) : t \in Rows(e)
    BY <1>1, LatestIsOne
  <2>3. GivesUp(d, f)
    BY <1>1, <1>6, <2>1, <2>2 DEF GivesUp, Calmly
  <2> QED
    BY <1>2, <2>3 DEF Onto
<1> QED
  BY <1>3, <1>4, <1>5, <1>6 DEF Onto

(* Writes that are not seen at all.                                           *)
LEMMA QuietWrite ==
  ASSUME NEW d, NEW e \in Onto(d), Linear, NEW f \in Good, Still(e, f), f.wf = e.wf
  PROVE  f \in Onto(d) /\ Rows(f) = Rows(e)
<1>1. e \in Plain
  BY DEF Onto
<1>2. f \in Plain /\ Rows(f) = Rows(e) /\ \A t : Verdict(f, t) = Verdict(e, t)
  BY <1>1, FlagWrite
<1>3. Calmly(e, f)
  BY <1>2 DEF Calmly, Moved
<1> QED
  BY <1>2, <1>3, OntoThenSame

LEMMA SameItself ==
  ASSUME NEW d, NEW e, Rows(e) = Rows(d), e.wf = d.wf \/ (Open(d) /\ Open(e)),
         \A t : Verdict(e, t) = Verdict(d, t)
  PROVE  Same(d, e) /\ Moved(d, e)
BY DEF Same, Moved

LEMMA OntoItself ==
  ASSUME NEW d \in Plain
  PROVE  d \in Onto(d)
BY DEF Onto, Same, Moved

(***************************************************************************)
(* What the decider finds, seen as TaskSequence sees it.                     *)
(***************************************************************************)

(* No later task is begun before the last attempt of one has passed.           *)
LEMMA LastIsReached ==
  ASSUME NEW d \in Plain, NEW t \in Rows(d), t \in LatestOf(d, t[1]), ~ Passed(d, t)
  PROVE  RowsOf(d, t[1]) # {} /\ Reached(d, t[1])
<1>1. t[1] \in Ref /\ t[1] \in Int /\ t[2] \in Nat /\ t = <<t[1], t[2]>> /\ t \in RowsOf(d, t[1])
  BY TaskIdType DEF RowsOf, Rows
<1>2. ASSUME NEW q \in Ref, RowsOf(d, q) # {}, t[1] < q PROVE FALSE
  <2>1. PICK w \in Rows(d) : w[1] = q
    BY <1>2 DEF RowsOf
  <2>2. d.status[w] # "SKIPPED"
    BY <2>1 DEF Plain, Rows
  <2>3. PICK x \in RowsOf(d, t[1]) : Passed(d, x)
    BY <1>1, <1>2, <2>1, <2>2 DEF Plain, Chain
  <2>4. /\ x \in Rows(d) /\ x[1] = t[1] /\ x[2] \in Nat /\ x = <<x[1], x[2]>>
        /\ x[2] <= t[2]
    BY <2>3, TaskIdType DEF RowsOf, Rows, LatestOf
  <2>5. ~ Replaced(d, x)
    BY <2>3 DEF Passed, Replaced
  <2>6. ~ (x[2] < t[2])
    BY <2>4, <2>5 DEF Plain, Chain
  <2>7. x[2] = t[2]
    BY <1>1, <2>4, <2>6
  <2> QED
    BY <1>1, <2>3, <2>4, <2>7
<1>3. \A q \in Ref : RowsOf(d, q) # {} => q <= t[1]
  BY <1>1, <1>2 DEF Ref
<1> QED
  BY <1>1, <1>3 DEF Reached

LEMMA HaltingGivesUp ==
  ASSUME NEW d \in Plain, Linear, NEW late, NEW t \in Halting(d, late)
  PROVE  /\ t[1] \in Ref \ Optional /\ RowsOf(d, t[1]) # {} /\ Reached(d, t[1])
         /\ t \in LatestOf(d, t[1]) /\ Verdict(d, t) \in {"open", "failed"}
<1>0. d \in Good /\ NoRetryTimeout
  BY LinearIsOrderly DEF Plain
<1>1. t \in Rows(d) /\ t \in TaskId /\ t[1] \in Ref
  <2>1. t \in Rows(d)
    BY <1>0, VisitedRows DEF Halting
  <2> QED
    BY <2>1, TaskIdType DEF Rows
<1>2. /\ t[1] \notin Optional /\ ~ Replaced(d, t) /\ ~ Passed(d, t)
      /\ Verdict(d, t) \in {"open", "failed"}
  <2>1. CASE t \in Overdue(d, late)
    <3>1. t \in Live(d) /\ TimeoutPolicy[t[1]] = "TIME_OUT_WF"
      BY <1>0, <2>1, LateIsLive DEF Overdue, IsLate
    <3>2. d.status[t] \notin TerminalTask
      BY <3>1 DEF Live
    <3>3. Verdict(d, t) = "open"
      BY <1>0, <1>1, <3>2, VerdictIs
    <3> QED
      BY <1>1, <3>1, <3>2, <3>3, Statuses DEF Linear, Replaced, Passed
  <2>2. CASE t \in Unsuccessful(d, late) \ (Retryable(d, late) \cup Tolerated(d, late))
    <3>1. d.status[t] \in UnsuccessfulTask /\ StatusNow(d, late, t) = d.status[t]
      BY <1>0, <1>1, <2>2, StatusIsNow DEF Unsuccessful
    <3>2. ~ Replaced(d, t)
      BY <2>2, <3>1 DEF Retryable, Replaced
    <3>3. t[1] \notin Optional \cup Permissive
      BY <2>2 DEF Tolerated
    <3>4. t \notin d.retried
      BY <2>2 DEF Unsuccessful, Pending, IsPending
    <3>5. Verdict(d, t) = "failed"
      BY <1>0, <1>1, <3>1, <3>4, VerdictIs
    <3> QED
      BY <3>1, <3>2, <3>3, <3>5 DEF Passed
  <2> QED
    BY <2>1, <2>2 DEF Halting
<1>3. t \in LatestOf(d, t[1])
  BY <1>1, <1>2, UnreplacedIsLatest
<1> QED
  BY <1>1, <1>2, <1>3, LastIsReached

LEMMA BeginsIsFirst ==
  ASSUME NEW d \in Plain, NEW u \in TaskId, Begins(d, u)
  PROVE  First(d, u)
<1>1. u[1] \in Ref /\ u[1] \in Int
  BY TaskIdType
<1>2. ASSUME NEW p \in Ref, RowsOf(d, p) # {} PROVE p < u[1]
  <2>1. PICK w \in Rows(d) : w[1] = p
    BY <1>2 DEF RowsOf
  <2>2. d.status[w] # "SKIPPED"
    BY <2>1 DEF Plain, Rows
  <2>3. ~ (u[1] < p)
    BY <1>1, <2>1, <2>2 DEF Plain, Chain, Begins
  <2>4. p # u[1]
    BY <1>2 DEF Begins
  <2> QED
    BY <1>1, <2>3, <2>4 DEF Ref
<1>3. \A p \in Ref : p < u[1] => RowsOf(d, p) # {}
  BY DEF Begins
<1> QED
  BY <1>2, <1>3 DEF First, Begins

LEMMA RepeatsIsAgain ==
  ASSUME NEW d \in Plain, NEW u \in TaskId, Repeats(d, u),
         Verdict(d, <<u[1], u[2] - 1>>) = "failed"
  PROVE  Again(d, u)
<1> DEFINE v == <<u[1], u[2] - 1>>
<1>1. v \in Rows(d) /\ Replaced(d, v) /\ v[1] = u[1] /\ v[2] = u[2] - 1 /\ u[2] > 0
      /\ u \notin Rows(d)
  BY DEF Repeats
<1>2. u[1] \in Ref /\ u[2] \in Nat /\ u = <<u[1], u[2]>>
  BY TaskIdType
<1>5. RetryLimit[u[1]] \in Nat
  BY <1>2, SizeAssumption, DefinitionAssumption
<1> HIDE DEF v
<1>3. ASSUME NEW t \in RowsOf(d, u[1]) PROVE t[2] <= v[2]
  <2>1. t \in Rows(d) /\ t[1] = u[1] /\ t[2] \in Nat /\ t = <<t[1], t[2]>>
    BY <1>3, TaskIdType DEF RowsOf, Rows
  <2>2. ASSUME ~ (t[2] <= v[2]) PROVE FALSE
    <3>1. t[2] # u[2]
      BY <1>1, <1>2, <2>1
    <3>2. u[2] \in 0..(t[2] - 1)
      BY <1>1, <1>2, <2>1, <2>2, <3>1
    <3>3. <<t[1], u[2]>> \in Rows(d)
      BY <2>1, <3>2 DEF Plain, Chain
    <3> QED
      BY <1>1, <1>2, <2>1, <3>3
  <2> QED
    BY <2>2
<1>4. v \in LatestOf(d, u[1])
  BY <1>1, <1>3 DEF LatestOf, RowsOf
<1>6. ~ Passed(d, v)
  BY <1>1 DEF Passed, Replaced
<1>7. Reached(d, u[1])
  BY <1>1, <1>4, <1>6, LastIsReached
<1>8. u[2] <= RetryLimit[u[1]]
  BY <1>1, <1>2, <1>5 DEF Replaced
<1> QED
  BY <1>1, <1>4, <1>7, <1>8 DEF Again, v

(* The decider repeats an attempt it has not dealt with before.                *)
LEMMA RepeatedHasFailed ==
  ASSUME NEW d \in Good, Linear, NEW late, NEW u \in New(d, late), u[2] > 0
  PROVE  Verdict(d, <<u[1], u[2] - 1>>) = "failed"
<1>1. u[2] # 0
  OBVIOUS
<1>2. u \in NextAttempts(d, late)
  BY <1>1, FirstAttemptsType DEF New, Proposals, StartProposals
<1>3. PICK t \in Retryable(d, late) : u = <<t[1], t[2] + 1>>
  BY <1>2 DEF NextAttempts
<1>4. t \in TaskId /\ t \notin d.retried /\ StatusNow(d, late, t) \in UnsuccessfulTask
  BY <1>3 DEF Retryable, Unsuccessful, Pending, IsPending
<1>5. d.status[t] \in UnsuccessfulTask
  BY <1>4, StatusIsNow, LinearIsOrderly
<1>6. <<u[1], u[2] - 1>> = t
  <2>1. t[2] \in Nat /\ t = <<t[1], t[2]>>
    BY <1>4, TaskIdType
  <2>2. u[1] = t[1] /\ u[2] = t[2] + 1
    BY <1>3
  <2>3. u[2] - 1 = t[2]
    BY <2>1, <2>2
  <2> QED
    BY <2>1, <2>2, <2>3
<1> QED
  BY <1>4, <1>5, <1>6, VerdictIs

(***************************************************************************)
(* The operations, as sequences of steps of TaskSequence.                    *)
(***************************************************************************)

(* Nothing is begun that is not new to a running workflow.                     *)
Goes(d, late) ==
  {e \in Onto(d) : Rows(e) = Rows(d) \/ (d.wf = "RUNNING" /\ New(d, late) # {})}

Trips(d, late) == Seq(Goes(d, late)) \ {<< >>}

LEMMA TerminateTrip ==
  ASSUME NEW d \in Plain, Linear, Open(d), NEW own \in SUBSET Live(d), NEW late,
         NEW s \in TerminalWorkflow \ {"COMPLETED"},
         NEW r \in Ref \ Optional, RowsOf(d, r) # {}, Reached(d, r),
         NEW t \in LatestOf(d, r), Verdict(d, t) \in {"open", "failed"}
  PROVE  Terminate(d, own, {}, s) \in Trips(d, late)
<1> DEFINE saved    == SetStatus(d, own, "TIMED_OUT")
           T        == Live(saved) \ {}
           canceled == SetStatus(saved, T, "CANCELED")
           unqueued == SetDecider(canceled, "absent")
           ended    == SetWorkflow(unqueued, s)
           settled  == SetPending(ended)
           removed  == Remove(settled, Rows(settled))
           last     == RemovePending(removed)
           path     == <<saved, canceled, unqueued, ended, settled, removed, last>>
<1>0. own \in SUBSET Rows(d) /\ s \in WorkflowStatuses /\ d \in Good
  BY DEF Live, TerminalWorkflow, Plain
<1>1. Terminate(d, own, {}, s) = path
  BY DEF Terminate
<1>2. path \in Path
  BY <1>0, <1>1, TerminatePath
<1>3. /\ saved \in Plain /\ Rows(saved) = Rows(d) /\ saved.wf = d.wf /\ Moved(d, saved)
      /\ \A u \in Rows(d) \ own : Verdict(saved, u) = Verdict(d, u)
      /\ \A u \in own : Verdict(saved, u) = "failed"
  BY FinalWrite
<1>4. T \in SUBSET Live(saved)
  OBVIOUS
<1>12. \A u \in Rows(saved) \ T : saved.status[u] \in TerminalTask
  BY DEF Live
<1> HIDE DEF saved, T
<1>13. /\ canceled \in Plain /\ Rows(canceled) = Rows(saved) /\ canceled.wf = saved.wf
       /\ Moved(saved, canceled)
       /\ \A u \in Rows(saved) \ T : Verdict(canceled, u) = Verdict(saved, u)
       /\ \A u \in T : Verdict(canceled, u) = "failed"
  BY <1>3, <1>4, FinalWrite
<1> HIDE DEF canceled
<1>5. /\ canceled \in Plain /\ Rows(canceled) = Rows(d) /\ canceled.wf = d.wf
      /\ Moved(d, canceled)
  BY <1>3, <1>13, MovedOn
<1>14. Verdict(canceled, t) = "failed"
  <2>1. t \in Rows(d) /\ t \in TaskId
    BY LatestIsOne
  <2>2. Verdict(saved, t) \in {"open", "failed"}
    BY <1>3, <2>1
  <2>3. CASE t \in T
    BY <1>13, <2>3
  <2>4. CASE t \notin T
    <3>1. saved.status[t] \in TerminalTask
      BY <1>3, <1>12, <2>1, <2>4
    <3>2. Verdict(saved, t) # "open"
      BY <1>3, <2>1, <3>1, VerdictIs DEF Plain
    <3> QED
      BY <1>3, <1>13, <2>1, <2>2, <2>4, <3>2
  <2> QED
    BY <2>3, <2>4
<1>6. /\ unqueued \in Good /\ ended \in Good /\ settled \in Good /\ removed \in Good
      /\ last \in Good
  <2> HIDE DEF unqueued, ended, settled, removed, last
  <2> QED
    BY <1>2 DEF Path
<1>7. /\ Still(canceled, unqueued) /\ unqueued.wf = d.wf
      /\ Still(canceled, ended) /\ ended.wf = s
      /\ Still(canceled, settled) /\ settled.wf = s
      /\ Still(canceled, removed) /\ removed.wf = s
      /\ Still(canceled, last) /\ last.wf = s
  <2>1. canceled \in Database
    BY <1>5 DEF Plain, Good
  <2>2. /\ unqueued \in Database /\ ended \in Database /\ settled \in Database
        /\ removed \in Database
    BY <1>6 DEF Good
  <2>3. Still(canceled, unqueued) /\ unqueued.wf = d.wf
    BY <1>5, <2>1 DEF SetDecider, Database, Still
  <2>4. Still(canceled, ended) /\ ended.wf = s
    BY <2>2, <2>3 DEF SetWorkflow, Database, Still
  <2>5. Still(canceled, settled) /\ settled.wf = s
    BY <2>2, <2>4 DEF SetPending, Database, Still
  <2>6. Still(canceled, removed) /\ removed.wf = s
    BY <2>2, <2>5 DEF Remove, Database, Still
  <2>7. Still(canceled, last) /\ last.wf = s
    BY <2>2, <2>6 DEF RemovePending, Database, Still
  <2> QED
    BY <2>3, <2>4, <2>5, <2>6, <2>7
<1> HIDE DEF unqueued, ended, settled, removed, last
<1>8. ASSUME NEW e \in {unqueued, ended, settled, removed, last}
      PROVE  /\ e \in Plain /\ Rows(e) = Rows(d) /\ Moved(d, e)
             /\ Verdict(e, t) = "failed"
  <2>1. e \in Good /\ Still(canceled, e)
    BY <1>6, <1>7
  <2>2. /\ e \in Plain /\ Rows(e) = Rows(canceled)
        /\ \A u : Verdict(e, u) = Verdict(canceled, u)
    BY <1>5, <2>1, FlagWrite
  <2> QED
    BY <1>5, <1>14, <2>2 DEF Moved
<1>9. {saved, canceled, unqueued} \subseteq Goes(d, late)
  BY <1>3, <1>5, <1>7, <1>8 DEF Goes, Onto, Same, Open
<1>10. ASSUME NEW e \in {ended, settled, removed, last} PROVE e \in Goes(d, late)
  <2>1. /\ e \in Plain /\ Rows(e) = Rows(d) /\ e.wf = s /\ Moved(d, e)
        /\ Verdict(e, t) = "failed"
    BY <1>7, <1>8
  <2>2. \A u \in LatestOf(d, r) : u = t
    BY LatestIsOne
  <2>3. GivesUp(d, e)
    BY <2>1, <2>2 DEF GivesUp
  <2> QED
    BY <2>1, <2>3 DEF Goes, Onto
<1>11. path \in Seq(Goes(d, late)) /\ path # << >>
  <2> DEFINE S == Goes(d, late)
  <2>1. saved \in S /\ canceled \in S /\ unqueued \in S
    BY <1>9
  <2>2. ended \in S /\ settled \in S /\ removed \in S /\ last \in S
    BY <1>10
  <2> HIDE DEF S
  <2>3. path \in Seq(S) /\ path # << >>
    BY <2>1, <2>2
  <2> QED
    BY <2>3 DEF S
<1> QED
  BY <1>1, <1>11 DEF Trips

LEMMA CompleteTrip ==
  ASSUME NEW d \in Plain, Linear, Open(d), NEW late, Live(d) = {}, RowsOf(d, N) # {},
         \A t \in LatestOf(d, N) : Suffices(d, t)
  PROVE  CompleteWorkflow(d) \in Trips(d, late)
<1> DEFINE ended   == SetWorkflow(d, "COMPLETED")
           settled == SetPending(ended)
           last    == SetDecider(settled, "absent")
<1>0. d \in Good /\ d \in Database
  BY DEF Plain, Good
<1>1. CompleteWorkflow(d) = <<ended, settled, last>>
  BY DEF CompleteWorkflow
<1>2. <<ended, settled, last>> \in Path
  BY <1>0, <1>1, CompletePath
<1>3. ended \in Good /\ settled \in Good /\ last \in Good
  <2> HIDE DEF ended, settled, last
  <2> QED
    BY <1>2 DEF Path
<1>4. /\ Still(d, ended) /\ ended.wf = "COMPLETED"
      /\ Still(d, settled) /\ settled.wf = "COMPLETED"
      /\ Still(d, last) /\ last.wf = "COMPLETED"
  <2>1. Still(d, ended) /\ ended.wf = "COMPLETED"
    BY <1>0 DEF SetWorkflow, Database, Still
  <2>2. Still(d, settled) /\ settled.wf = "COMPLETED"
    BY <1>3, <2>1 DEF SetPending, Good, Database, Still
  <2>3. Still(d, last) /\ last.wf = "COMPLETED"
    BY <1>3, <2>2 DEF SetDecider, Good, Database, Still
  <2> QED
    BY <2>1, <2>2, <2>3
<1> HIDE DEF ended, settled, last
<1>5. ASSUME NEW e \in {ended, settled, last} PROVE e \in Goes(d, late)
  <2>1. e \in Good /\ Still(d, e) /\ e.wf = "COMPLETED"
    BY <1>3, <1>4
  <2>2. e \in Plain /\ Rows(e) = Rows(d) /\ \A t : Verdict(e, t) = Verdict(d, t)
    BY <2>1, FlagWrite
  <2>3. Finishes(d, e) /\ Moved(d, e)
    BY <2>1, <2>2 DEF Finishes, Suffices, Moved
  <2> QED
    BY <2>2, <2>3 DEF Goes, Onto
<1> QED
  BY <1>1, <1>5 DEF Trips

(* At most one row is inserted: two would both be open.                        *)
LEMMA InsertExtends ==
  ASSUME NEW d \in Plain, Linear, NEW late, Halting(d, late) = {}, Open(d),
         NEW F \in SUBSET New(d, late), NEW e \in Reach(d), e.wf = d.wf,
         \A t \in TaskId : e.status[t] = IF t \in F THEN "SCHEDULED" ELSE d.status[t],
         e.executed = d.executed, e.retried = d.retried
  PROVE  e \in Onto(d) /\ Rows(e) = Rows(d) \cup F
<1>0. d \in Good /\ NoRetryTimeout /\ Orderly /\ Chain(d)
  BY LinearIsOrderly DEF Plain
<1>1. F \in SUBSET TaskId /\ F \cap Rows(d) = {}
  BY <1>0, NewType
<1>2. Rows(e) = Rows(d) \cup F
  BY <1>1 DEF Rows, None
<1>7. \A t \in Rows(d) : t \in TaskId /\ t \notin F /\ e.status[t] = d.status[t]
  BY <1>1 DEF Rows
<1>8. Flagged(e)
  <2>1. /\ \A t \in d.executed : t \in Rows(d) /\ d.status[t] \in SuccessfulTask
        /\ \A t \in d.retried : t \in Rows(d) /\ Replaced(d, t)
    BY <1>0, GoodStatus DEF Plain, Flagged
  <2>2. \A t \in TaskId : e.status[t] = "COMPLETED_WITH_ERRORS" => t[1] \in Optional
    BY DEF Plain, Flagged
  <2> QED
    BY <1>7, <2>1, <2>2 DEF Flagged, Replaced
<1>3. e \in Plain
  BY <1>0, <1>8 DEF Plain, Reach
<1>9. Moved(d, e) /\ \A t \in Rows(d) : Verdict(e, t) = Verdict(d, t)
  BY <1>7 DEF Moved, Verdict
<1>4. F \subseteq Live(e)
  BY <1>1, <1>2 DEF Live, TerminalTask
<1>5. CASE F = {}
  BY <1>2, <1>3, <1>5, <1>9 DEF Onto, Same
<1>6. CASE F # {}
  <2>1. PICK u \in F : TRUE
    BY <1>6
  <2>2. \A t \in F : t = u
    BY <1>3, <1>4, <2>1, ChainOpensOne DEF Plain
  <2>3. Rows(e) = Rows(d) \cup {u} /\ u \in TaskId \ Rows(d)
    BY <1>1, <1>2, <2>1, <2>2
  <2>4. Begins(d, u) \/ Repeats(d, u)
    BY <1>0, <2>1, NewIsNext
  <2>5. First(d, u) \/ Again(d, u)
    <3>1. Repeats(d, u) => Verdict(d, <<u[1], u[2] - 1>>) = "failed"
      BY <1>0, <2>1, RepeatedHasFailed DEF Repeats
    <3> QED
      BY <2>3, <2>4, <3>1, BeginsIsFirst, RepeatsIsAgain
  <2>7. Verdict(e, u) = "open"
    BY <1>3, <1>4, <2>1, <2>3, VerdictIs DEF Live, Plain
  <2>6. Extends(d, e)
    BY <2>3, <2>5, <2>7 DEF Extends, Open
  <2> QED
    BY <1>2, <1>3, <1>9, <2>6 DEF Onto
<1> QED
  BY <1>5, <1>6

(* What the decider has finished with, as it was and as it is written back.    *)
LEMMA FinishedRows ==
  ASSUME NEW d \in Plain, Linear, NEW late, Halting(d, late) = {}
  PROVE  /\ \A t \in Rewritten(d, late) :
              /\ t \in Rows(d) /\ t \in TaskId /\ t \notin d.executed \cup d.retried
              /\ d.status[t] \in UnsuccessfulTask
              /\ t[1] \in Optional /\ t \notin Retryable(d, late)
         /\ \A t \in Retryable(d, late) :
              /\ t \in Rows(d) /\ t \in TaskId /\ t \notin d.retried /\ Replaced(d, t)
         /\ \A t \in Done(d, late) :
              /\ t \in Rows(d) /\ t \in TaskId
              /\ d.status[t] \in SuccessfulTask \/ t \in Rewritten(d, late)
<1>0. d \in Good /\ NoRetryTimeout
  BY LinearIsOrderly DEF Plain
<1>1. \A t \in Pending(d) : /\ t \in Rows(d) /\ t \in TaskId
                            /\ t \notin d.executed \cup d.retried
                            /\ StatusNow(d, late, t) = d.status[t]
  BY <1>0, VisitedRows, StatusIsNow DEF Pending, IsPending
<1>2. \A t \in Rewritten(d, late) : /\ t \in Pending(d) /\ t[1] \in Optional
                                   /\ d.status[t] \in UnsuccessfulTask
                                   /\ t \notin Retryable(d, late)
  BY <1>1 DEF Rewritten, Tolerated, Unsuccessful
<1>3. \A t \in Retryable(d, late) : t \in Pending(d) /\ Replaced(d, t)
  BY <1>1 DEF Retryable, Unsuccessful, Replaced
<1>4. ASSUME NEW t \in Done(d, late)
      PROVE  t \in Pending(d) /\ (d.status[t] \in SuccessfulTask \/ t \in Rewritten(d, late))
  <2>1. t \in Pending(d) /\ d.status[t] \in TerminalTask /\ t \notin Retryable(d, late)
    BY <1>1 DEF Done
  <2>2. CASE d.status[t] \in UnsuccessfulTask
    <3>1. t \in Unsuccessful(d, late)
      BY <1>1, <2>1, <2>2 DEF Unsuccessful
    <3>2. t \in Tolerated(d, late)
      BY <2>1, <3>1 DEF Halting
    <3> QED
      BY <2>1, <3>2 DEF Rewritten, Tolerated, Linear
  <2> QED
    BY <2>1, <2>2 DEF UnsuccessfulTask
<1> QED
  BY <1>1, <1>2, <1>3, <1>4

(* e is d with the rows of F inserted, f is e with d's rows written back.       *)
Widened(d, F, e) ==
  /\ F \cap Rows(d) = {} /\ e.retried = d.retried
  /\ \A t \in TaskId : e.status[t] = IF t \in F THEN "SCHEDULED" ELSE d.status[t]

WrittenBack(d, late, e, f) ==
  /\ \A t \in TaskId :
       f.status[t] = IF t \in Rewritten(d, late) THEN "COMPLETED_WITH_ERRORS" ELSE e.status[t]
  /\ f.executed = d.executed \cup Done(d, late)
  /\ f.retried = d.retried \cup Retryable(d, late)

LEMMA ProcessedFlags ==
  ASSUME NEW d \in Plain, Linear, NEW late, Halting(d, late) = {},
         NEW F, NEW e, NEW f, Widened(d, F, e), WrittenBack(d, late, e, f)
  PROVE  Flagged(f)
<1> USE DEF Widened, WrittenBack
<1>1. \A t \in Rows(d) : t \in TaskId /\ e.status[t] = d.status[t]
  BY DEF Rows
<1>2. /\ \A t \in d.executed : t \in Rows(d) /\ d.status[t] \in SuccessfulTask
      /\ \A t \in d.retried : t \in Rows(d) /\ Replaced(d, t)
  BY GoodStatus DEF Plain, Flagged
<1>3. "COMPLETED_WITH_ERRORS" \in SuccessfulTask
  BY DEF SuccessfulTask
<1>4. \A t \in f.executed : f.status[t] \in SuccessfulTask
  BY <1>1, <1>2, <1>3, FinishedRows
<1>5. ASSUME NEW t \in f.retried PROVE Replaced(f, t)
  <2>1. t \in Rows(d) /\ Replaced(d, t) /\ t \notin Rewritten(d, late)
    BY <1>2, FinishedRows
  <2> QED
    BY <1>1, <2>1 DEF Replaced
<1>6. ASSUME NEW t \in TaskId, f.status[t] = "COMPLETED_WITH_ERRORS" PROVE t[1] \in Optional
  <2>1. t \in Rewritten(d, late) \/ d.status[t] = "COMPLETED_WITH_ERRORS"
    BY <1>6
  <2> QED
    BY <2>1, FinishedRows DEF Plain, Flagged
<1> QED
  BY <1>4, <1>5, <1>6 DEF Flagged

LEMMA ProcessedVerdicts ==
  ASSUME NEW d \in Plain, Linear, NEW late, Halting(d, late) = {},
         NEW F, NEW e \in Good, NEW f \in Good, Widened(d, F, e), WrittenBack(d, late, e, f),
         NEW t \in Rows(e)
  PROVE  \/ Verdict(f, t) = Verdict(e, t)
         \/ Verdict(e, t) = "failed" /\ Verdict(f, t) = "lost"
<1> USE DEF Widened, WrittenBack
<1>1. t \in TaskId /\ (t \in Rows(d) => e.status[t] = d.status[t])
  BY DEF Rows
<1>2. CASE t \in Rewritten(d, late)
  <2>1. /\ e.status[t] \in UnsuccessfulTask /\ t \notin e.retried
        /\ f.status[t] = "COMPLETED_WITH_ERRORS"
    BY <1>1, <1>2, FinishedRows
  <2> QED
    BY <1>1, <2>1, VerdictIs
<1>3. CASE t \in Retryable(d, late)
  <2>1. /\ e.status[t] \in UnsuccessfulTask /\ t \notin e.retried
        /\ f.status[t] = e.status[t] /\ t \in f.retried
    BY <1>1, <1>3, FinishedRows DEF Replaced
  <2>2. Verdict(e, t) = "failed"
    BY <1>1, <2>1, VerdictIs
  <2>3. Verdict(f, t) = "lost"
    BY <2>1 DEF Verdict, UnsuccessfulTask, SuccessfulTask
  <2> QED
    BY <2>2, <2>3
<1>4. CASE t \notin Rewritten(d, late) \cup Retryable(d, late)
  <2>1. f.status[t] = e.status[t] /\ (t \in f.retried <=> t \in e.retried)
    BY <1>1, <1>4
  <2> QED
    BY <2>1 DEF Verdict
<1> QED
  BY <1>2, <1>3, <1>4

LEMMA AdvanceTrip ==
  ASSUME NEW d \in Plain, Linear, NEW late, d.wf = "RUNNING", Halting(d, late) = {}
  PROVE  Advance(d, late) \in Trips(d, late)
<1> DEFINE new       == New(d, late)
           fresh     == new \ d.keys
           finished  == Done(d, late) \cup Retryable(d, late)
           keyed     == InsertKeys(d, new)
           inserted  == InsertRows(keyed, fresh)
           pushed    == Push(inserted, new)
           late1     == TimedOut(d, late)
           late2     == Rewritten(d, late)
           settled   == SetStatus(SetStatus(pushed, late1, "TIMED_OUT"), late2,
                                  "COMPLETED_WITH_ERRORS")
           processed == [settled EXCEPT !.executed = d.executed \cup Done(d, late),
                                        !.retried = d.retried \cup Retryable(d, late)]
           last      == SetPending(processed)
           path      == <<keyed, inserted, pushed, processed, last>>
<1>0. d \in Good /\ d \in Database /\ NoRetryTimeout /\ Orderly /\ Chain(d) /\ Open(d)
  BY LinearIsOrderly DEF Plain, Good, Open, TerminalWorkflow
<1>1. Advance(d, late) = IF new \cup finished = {} THEN <<d>> ELSE path
  BY DEF Advance
<1>2. CASE new \cup finished = {}
  <2>1. d \in Goes(d, late)
    BY OntoItself DEF Goes
  <2> QED
    BY <1>1, <1>2, <2>1 DEF Trips
<1>3. CASE new \cup finished # {}
  <2>1. path \in Walk(d)
    BY <1>0, <1>1, <1>3, AdvanceWalk
  <2>2. /\ keyed \in Reach(d) /\ inserted \in Reach(d) /\ pushed \in Reach(d)
        /\ processed \in Reach(d) /\ last \in Reach(d)
    <3> HIDE DEF keyed, inserted, pushed, processed, last
    <3> QED
      BY <2>1 DEF Walk
  <2>3. /\ keyed \in Good /\ inserted \in Good /\ pushed \in Good
        /\ processed \in Good /\ last \in Good
    BY <2>2 DEF Reach
  <2>4. fresh \in SUBSET New(d, late) /\ fresh \in SUBSET TaskId /\ late2 \subseteq Rows(d)
        /\ late1 = {} /\ fresh \cap Rows(d) = {}
    BY <1>0, NewType, VisitedRows
  <2>5. /\ keyed.status = d.status /\ keyed.wf = d.wf
        /\ keyed.executed = d.executed /\ keyed.retried = d.retried
    BY <1>0 DEF InsertKeys, Database
  <2>6. /\ \A t \in TaskId : inserted.status[t] = IF t \in fresh THEN "SCHEDULED" ELSE d.status[t]
        /\ inserted.wf = d.wf
    BY <2>3, <2>5 DEF InsertRows, Put, Good, Database
  <2>17. inserted.executed = d.executed /\ inserted.retried = d.retried
    BY <2>3, <2>5 DEF InsertRows, Good, Database
  <2>7. /\ pushed.status = inserted.status /\ pushed.wf = inserted.wf
        /\ pushed.executed = inserted.executed /\ pushed.retried = inserted.retried
    BY <2>3 DEF Push, Good, Database
  <2>8. /\ \A t \in TaskId : processed.status[t] =
             IF t \in late2 THEN "COMPLETED_WITH_ERRORS" ELSE pushed.status[t]
        /\ processed.wf = pushed.wf
        /\ processed.executed = d.executed \cup Done(d, late)
        /\ processed.retried = d.retried \cup Retryable(d, late)
    BY <2>3, <2>4 DEF SetStatus, Put, Good, Database
  <2>9. Still(processed, last) /\ last.wf = processed.wf
    BY <2>3 DEF SetPending, Good, Database, Still
  <2> HIDE DEF keyed, inserted, pushed, processed, settled, fresh, late1, last
  <2>10. keyed \in Onto(d) /\ Rows(keyed) = Rows(d)
    BY <2>3, <2>5, OntoItself, QuietWrite DEF Still
  <2>11. inserted \in Onto(d) /\ Rows(inserted) = Rows(d) \cup fresh
    BY <1>0, <2>2, <2>4, <2>6, <2>17, InsertExtends
  <2>12. pushed \in Onto(d) /\ Rows(pushed) = Rows(inserted)
    BY <2>3, <2>7, <2>11, QuietWrite DEF Still
  <2>13. processed \in Onto(d) /\ Rows(processed) = Rows(pushed)
    <3>1. Rows(processed) = Rows(pushed)
      <4>1. \A t \in late2 : t \in Rows(pushed)
        BY <2>4, <2>11, <2>12
      <4> QED
        BY <2>8, <4>1, Statuses DEF Rows
    <3>2. \A t \in TaskId : processed.status[t] # "SKIPPED"
      BY <2>8, <2>12 DEF Onto, Plain
    <3>8. Widened(d, fresh, pushed) /\ WrittenBack(d, late, pushed, processed)
      BY <2>4, <2>6, <2>7, <2>8, <2>17 DEF Widened, WrittenBack
    <3>3. Flagged(processed)
      BY <3>8, ProcessedFlags
    <3>4. processed \in Plain
      BY <1>0, <2>2, <3>2, <3>3 DEF Reach, Plain
    <3>5. /\ \A t \in Rows(pushed) : \/ Verdict(processed, t) = Verdict(pushed, t)
                                     \/ /\ Verdict(pushed, t) = "failed"
                                        /\ Verdict(processed, t) = "lost"
      BY <2>3, <3>8, ProcessedVerdicts
    <3>6. pushed.wf = "RUNNING" /\ Open(pushed)
      BY <2>6, <2>7 DEF Open, TerminalWorkflow
    <3>7. Calmly(pushed, processed)
      BY <2>8, <3>1, <3>5, <3>6 DEF Calmly, Moved
    <3> QED
      BY <2>12, <3>1, <3>4, <3>7, OntoThenSame
  <2>14. last \in Onto(d) /\ Rows(last) = Rows(processed)
    BY <2>3, <2>9, <2>13, QuietWrite
  <2>15. new = {} => fresh = {}
    BY <2>4
  <2> DEFINE S == Goes(d, late)
  <2>16. keyed \in S /\ inserted \in S /\ pushed \in S /\ processed \in S /\ last \in S
    BY <2>10, <2>11, <2>12, <2>13, <2>14, <2>15 DEF Goes
  <2> HIDE DEF S
  <2>18. path \in Seq(S) /\ path # << >>
    BY <2>16
  <2> QED
    BY <1>1, <1>3, <2>18 DEF S, Trips
<1> QED
  BY <1>2, <1>3

LEMMA CompleteSuffices ==
  ASSUME NEW d \in Plain, Linear, NEW late, Halting(d, late) = {}, Complete(d, late),
         NEW t \in LatestOf(d, N)
  PROVE  Suffices(d, t)
<1>0. d \in Good /\ NoRetryTimeout
  BY LinearIsOrderly DEF Plain
<1>1. t \in Rows(d) /\ t \in TaskId
  BY LatestIsOne
<1>2. Live(d) = {}
  BY <1>0, CompleteIsSettled
<1>3. d.status[t] \in TerminalTask /\ d.status[t] # None /\ d.status[t] # "SKIPPED"
  BY <1>1, <1>2 DEF Live, Rows, Plain
<1>4. Verdict(d, t) # "open"
  BY <1>0, <1>1, <1>3, VerdictIs
<1>5. ASSUME Verdict(d, t) = "failed" PROVE t[1] \in Optional
  <2>1. CASE d.status[t] = "COMPLETED_WITH_ERRORS"
    BY <1>1, <2>1 DEF Plain, Flagged
  <2>2. CASE d.status[t] \in UnsuccessfulTask
    <3>1. t \notin d.retried
      BY <1>3, <1>5, <2>2 DEF Verdict, UnsuccessfulTask, SuccessfulTask
    <3>2. t \notin d.executed
      BY <2>2 DEF Plain, Flagged, UnsuccessfulTask
    <3>3. t \in Pending(d)
      BY <1>1, <1>3, <3>1, <3>2 DEF Pending, IsPending
    <3>4. StatusNow(d, late, t) = d.status[t]
      BY <1>0, <1>1, StatusIsNow
    <3>5. t \in Unsuccessful(d, late)
      BY <2>2, <3>3, <3>4 DEF Unsuccessful
    <3>6. t \notin Retryable(d, late)
      <4> SUFFICES ASSUME t \in Retryable(d, late) PROVE FALSE
        OBVIOUS
      <4> DEFINE u == <<t[1], t[2] + 1>>
      <4>1. t[1] \in Ref /\ t[2] \in 0..MaxAttempt /\ RetryLimit[t[1]] \in 0..MaxAttempt
        BY <1>1, DefinitionAssumption DEF TaskId
      <4>2. t[2] < RetryLimit[t[1]]
        BY DEF Retryable
      <4>3. t[2] + 1 \in 0..MaxAttempt
        BY <4>1, <4>2, SizeAssumption
      <4>4. u \in TaskId
        BY <4>1, <4>3 DEF TaskId
      <4>5. u \in Proposals(d, late)
        BY <4>4 DEF Proposals, NextAttempts
      <4> QED
        BY <4>5 DEF Complete
    <3>7. t \in Tolerated(d, late)
      BY <3>5, <3>6 DEF Halting
    <3> QED
      BY <3>7 DEF Tolerated, Linear
  <2> QED
    BY <1>0, <1>1, <1>5, <2>1, <2>2, VerdictIs
<1> QED
  BY <1>0, <1>1, <1>4, <1>5, VerdictIs DEF Suffices

LEMMA EvaluateTrip ==
  ASSUME NEW d \in Plain, Linear, NEW late, d.wf = "RUNNING"
  PROVE  Evaluate(d, late) \in Trips(d, late)
<1>0. d \in Good /\ NoRetryTimeout /\ Open(d)
  BY LinearIsOrderly DEF Plain, Open, TerminalWorkflow
<1>1. CASE Halting(d, late) # {}
  <2> DEFINE first == FirstHalting(d, late)
             own   == Overdue(d, late) \cap {first}
             s     == HaltStatus(d, first)
  <2>1. own \in SUBSET Live(d)
    BY <1>0, LateIsLive
  <2>2. VisitedTimedOut(d, late) = {}
    BY <1>0, VisitedRows DEF VisitedTimedOut
  <2>3. s \in TerminalWorkflow \ {"COMPLETED"}
    BY DEF HaltStatus, TerminalWorkflow, WorkflowStatuses
  <2>4. Evaluate(d, late) = Terminate(d, own, {}, s)
    BY <1>1, <2>2 DEF Evaluate
  <2>5. PICK t \in Halting(d, late) : TRUE
    BY <1>1
  <2>6. /\ t[1] \in Ref \ Optional /\ RowsOf(d, t[1]) # {} /\ Reached(d, t[1])
        /\ t \in LatestOf(d, t[1]) /\ Verdict(d, t) \in {"open", "failed"}
    BY HaltingGivesUp
  <2> HIDE DEF own, s
  <2> QED
    BY <1>0, <2>1, <2>3, <2>4, <2>6, TerminateTrip
<1>2. CASE Halting(d, late) = {} /\ Complete(d, late)
  <2>1. ~ FailedPermissively(d, late)
    BY DEF FailedPermissively, Linear
  <2>2. Evaluate(d, late) = CompleteWorkflow(d)
    BY <1>2, <2>1 DEF Evaluate
  <2>3. Live(d) = {}
    BY <1>0, <1>2, CompleteIsSettled
  <2>4. RowsOf(d, N) # {}
    BY <1>2, SizeAssumption DEF Complete, Ref
  <2>5. \A t \in LatestOf(d, N) : Suffices(d, t)
    BY <1>2, CompleteSuffices
  <2> QED
    BY <1>0, <2>2, <2>3, <2>4, <2>5, CompleteTrip
<1>3. CASE Halting(d, late) = {} /\ ~ Complete(d, late)
  <2>1. Evaluate(d, late) = Advance(d, late)
    BY <1>3 DEF Evaluate
  <2> QED
    BY <1>3, <2>1, AdvanceTrip
<1> QED
  BY <1>1, <1>2, <1>3

LEMMA DecideTrip ==
  ASSUME NEW d \in Plain, Linear, NEW late
  PROVE  Decide(d, late, FALSE) \in Trips(d, late)
<1>0. d \in Good /\ d \in Onto(d) /\ d \in Goes(d, late)
  BY OntoItself DEF Plain, Goes
<1>1. CASE d.wf \in TerminalWorkflow \ SuccessfulWorkflow
  <2> DEFINE T        == Live(d)
             canceled == SetStatus(d, T, "CANCELED")
             last     == SetDecider(canceled, "absent")
  <2>7. T = {}
    BY <1>0, <1>1, LinearIsOrderly DEF Good, Settled
  <2>1. /\ canceled \in Plain /\ Rows(canceled) = Rows(d) /\ canceled.wf = d.wf
        /\ \A t \in Rows(d) \ T : Verdict(canceled, t) = Verdict(d, t)
    BY FinalWrite
  <2> HIDE DEF canceled, T
  <2>2. canceled \in Onto(d)
    <3>1. Calmly(d, canceled)
      BY <2>1, <2>7 DEF Calmly, Moved
    <3> QED
      BY <1>0, <2>1, <3>1, OntoThenSame
  <2>3. last \in Good /\ Still(canceled, last) /\ last.wf = canceled.wf
    <3>1. canceled \in Good /\ "absent" \in Message
      BY <2>1 DEF Plain, Message
    <3> QED
      BY <3>1, FlagsGood DEF SetDecider, Good, Database, Still
  <2> HIDE DEF last
  <2>4. last \in Onto(d) /\ Rows(last) = Rows(d)
    BY <2>1, <2>2, <2>3, QuietWrite
  <2>5. Decide(d, late, FALSE) = <<canceled, last>>
    BY <1>1 DEF Decide, canceled, T, last, TerminalWorkflow
  <2>6. canceled \in Goes(d, late) /\ last \in Goes(d, late)
    BY <2>1, <2>2, <2>4 DEF Goes
  <2> QED
    BY <2>5, <2>6, ShortSeqs DEF Trips
<1>2. CASE d.wf = "RUNNING"
  <2>1. Decide(d, late, FALSE) = Evaluate(d, late)
    BY <1>2 DEF Decide, TerminalWorkflow
  <2> QED
    BY <1>2, <2>1, EvaluateTrip
<1>3. CASE d.wf \notin TerminalWorkflow \ SuccessfulWorkflow /\ d.wf # "RUNNING"
  <2>1. Decide(d, late, FALSE) = <<d>>
    BY <1>3 DEF Decide
  <2> QED
    BY <1>0, <2>1, ShortSeqs DEF Trips
<1> QED
  BY <1>1, <1>2, <1>3

LEMMA TripIsSteps ==
  ASSUME NEW d, NEW e, NEW late, Same(d, e), NEW p \in Trips(e, late)
  PROVE  p \in Steps(d)
<1> DEFINE S == Goes(e, late)
           T == Onto(d)
<1>1. S \subseteq T
  BY OntoAfterSame DEF Goes
<1>2. p \in Seq(S) /\ p # << >>
  BY DEF Trips
<1> HIDE DEF S, T
<1>3. p \in Seq(T)
  BY <1>1, <1>2
<1> QED
  BY <1>2, <1>3 DEF Steps, T

(* What decides after writes that are not seen.                               *)
LEMMA DecideSteps ==
  ASSUME NEW d, NEW e \in Plain, Linear, Same(d, e), NEW late
  PROVE  Decide(e, late, FALSE) \in Steps(d)
BY DecideTrip, TripIsSteps

LEMMA StepsJoin ==
  ASSUME NEW d, NEW p \in Steps(d), NEW q \in Steps(d)
  PROVE  p \o q \in Steps(d)
BY SeqJoins DEF Steps

LEMMA ShortSteps ==
  ASSUME NEW d, NEW e \in Onto(d), NEW f \in Onto(d), NEW g \in Onto(d)
  PROVE  /\ <<e>> \in Steps(d) /\ <<e, f>> \in Steps(d) /\ <<e, f, g>> \in Steps(d)
BY ShortSeqs DEF Steps

LEMMA StartSteps ==
  ASSUME NEW d \in Plain, Linear, d.wf = None
  PROVE  StartWorkflow(d) \in Steps(d)
<1> DEFINE created == SetWorkflow(d, "RUNNING")
           listed  == SetPending(created)
<1>0. d \in Good /\ d \in Database /\ Open(d)
  BY DEF Plain, Good, Open, None, TerminalWorkflow, WorkflowStatuses
<1>1. created \in Good /\ Still(d, created) /\ created.wf = "RUNNING"
  <2>1. created \in Good
    BY <1>0, SetWorkflowGood DEF WorkflowStatuses, TerminalWorkflow
  <2> QED
    BY <1>0, <2>1 DEF SetWorkflow, Database, Still
<1> HIDE DEF created
<1>2. listed \in Good /\ Still(d, listed) /\ listed.wf = "RUNNING"
  <2>1. listed \in Good
    BY <1>1, FlagsGood DEF Message
  <2> QED
    BY <1>1, <2>1 DEF SetPending, Good, Database, Still
<1> HIDE DEF listed
<1>3. ASSUME NEW e \in {created, listed} PROVE e \in Plain /\ Same(d, e) /\ e \in Onto(d)
  <2>1. e \in Good /\ Still(d, e) /\ e.wf = "RUNNING"
    BY <1>1, <1>2
  <2>2. e \in Plain /\ Rows(e) = Rows(d) /\ \A t : Verdict(e, t) = Verdict(d, t)
    BY <2>1, FlagWrite
  <2>3. Same(d, e) /\ Moved(d, e)
    BY <1>0, <2>1, <2>2, SameItself DEF Open, TerminalWorkflow
  <2> QED
    BY <2>2, <2>3 DEF Onto
<1>4. Decide(listed, {}, FALSE) \in Steps(d)
  BY <1>3, DecideSteps
<1>5. <<created, listed>> \in Steps(d)
  BY <1>3, ShortSteps
<1>6. StartWorkflow(d) = <<created, listed>> \o Decide(listed, {}, FALSE)
  BY DEF StartWorkflow, created, listed
<1> QED
  BY <1>4, <1>5, <1>6, StepsJoin

(* What is left of e by writes that are not seen, on the way from d.           *)
Unseen(d, e) == {f \in Onto(d) : Rows(f) = Rows(e) /\ Still(e, f) /\ f.wf = e.wf}

LEMMA UnseenIsSame ==
  ASSUME NEW d \in Plain, NEW e \in Unseen(d, d)
  PROVE  e \in Plain /\ Same(d, e)
BY DEF Unseen, Onto, Same, Moved, Still, Verdict

LEMMA QuietWrites ==
  ASSUME NEW d, NEW e \in Onto(d), Linear
  PROVE  /\ \A m \in Message : SetDecider(e, m) \in Unseen(d, e)
         /\ SetPending(e) \in Unseen(d, e)
         /\ \A T : Push(e, T) \in Unseen(d, e) /\ Remove(e, T) \in Unseen(d, e)
         /\ ForceLast(e) \in Unseen(d, e)
         /\ \A t \in TaskId : Postpone(e, t) \in Unseen(d, e)
         /\ [e EXCEPT !.pending = TRUE] \in Unseen(d, e)
<1>0. e \in Good /\ e \in Database
  BY DEF Onto, Plain, Good
<1>8. ASSUME NEW f \in Good, Still(e, f), f.wf = e.wf
      PROVE  f \in Unseen(d, e)
  BY <1>8, QuietWrite DEF Unseen
<1>1. ASSUME NEW m \in Message PROVE SetDecider(e, m) \in Unseen(d, e)
  <2>1. SetDecider(e, m) \in Good
    BY <1>0, FlagsGood
  <2> QED
    BY <1>0, <1>8, <2>1 DEF SetDecider, Database, Still
<1>2. SetPending(e) \in Unseen(d, e)
  <2>1. SetPending(e) \in Good
    BY <1>0, FlagsGood DEF Message
  <2> QED
    BY <1>0, <1>8, <2>1 DEF SetPending, Database, Still
<1>3. ASSUME NEW T PROVE Push(e, T) \in Unseen(d, e) /\ Remove(e, T) \in Unseen(d, e)
  <2>1. Push(e, T) \in Good /\ Remove(e, T) \in Good
    BY <1>0, QueueGood
  <2>2. Still(e, Push(e, T)) /\ Push(e, T).wf = e.wf
    BY <1>0 DEF Push, Database, Still
  <2>3. Still(e, Remove(e, T)) /\ Remove(e, T).wf = e.wf
    BY <1>0 DEF Remove, Database, Still
  <2> QED
    BY <1>8, <2>1, <2>2, <2>3
<1>4. ForceLast(e) \in Unseen(d, e)
  <2>1. ForceLast(e) \in Good
    BY <1>0, ForceLastGood
  <2> QED
    BY <1>0, <1>8, <2>1 DEF ForceLast, Database, Still
<1>5. ASSUME NEW t \in TaskId PROVE Postpone(e, t) \in Unseen(d, e)
  <2>1. Postpone(e, t) \in Good
    BY <1>0, QueueGood
  <2> QED
    BY <1>0, <1>8, <2>1 DEF Postpone, Database, Still
<1>6. [e EXCEPT !.pending = TRUE] \in Unseen(d, e)
  <2>1. [e EXCEPT !.pending = TRUE] \in Good
    BY <1>0, FlagsGood DEF Message
  <2> QED
    BY <1>0, <1>8, <2>1 DEF Database, Still
<1> QED
  BY <1>1, <1>2, <1>3, <1>4, <1>5, <1>6

LEMMA SweepSteps ==
  ASSUME NEW d \in Plain, Linear, NEW late
  PROVE  Sweep(d, late, FALSE) \in Steps(d)
<1> DEFINE popped   == SetDecider(d, "popped")
           decided  == Decide(popped, late, FALSE)
           after    == Final(decided)
           repaired == IF Unchanged(popped, late) THEN Repair(after) ELSE after
           created  == IF popped.wf = "RUNNING" THEN New(popped, late) ELSE {}
           forced   == ForceLast(repaired)
           listed   == SetPending(forced)
           absent   == SetDecider(popped, "absent")
           ended    == SetDecider(after, "absent")
<1>0. "popped" \in Message /\ "absent" \in Message
  BY DEF Message
<1>1. /\ popped \in Onto(d) /\ Rows(popped) = Rows(d) /\ popped.wf = d.wf
      /\ popped \in Plain /\ Same(d, popped)
  <2>1. d \in Onto(d)
    BY OntoItself
  <2>2. popped \in Unseen(d, d)
    BY <1>0, <2>1, QuietWrites
  <2> QED
    BY <2>2, UnseenIsSame DEF Unseen
<1> HIDE DEF popped
<1>2. absent \in Onto(d)
  BY <1>0, <1>1, QuietWrites DEF Unseen
<1>4. decided \in Trips(popped, late) /\ decided \in Steps(d)
  BY <1>1, DecideTrip, DecideSteps
<1> HIDE DEF decided
<1>5. after \in Goes(popped, late) /\ after \in Onto(d)
  <2>1. after \in Goes(popped, late)
    BY <1>4, SeqEnds DEF Trips
  <2>2. after \in Onto(popped)
    BY <2>1 DEF Goes
  <2> QED
    BY <1>1, <2>1, <2>2, OntoAfterSame
<1> HIDE DEF after
<1>6. ended \in Onto(d)
  BY <1>0, <1>5, QuietWrites DEF Unseen
<1>7. repaired \in Onto(d) /\ Rows(repaired) = Rows(after) /\ repaired.wf = after.wf
  BY <1>0, <1>5, QuietWrites DEF Repair, Unseen
<1> HIDE DEF repaired
<1>8. forced \in Onto(d) /\ Rows(forced) = Rows(after) /\ forced.wf = after.wf
  BY <1>0, <1>7, QuietWrites DEF Unseen
<1> HIDE DEF forced
<1>9. listed \in Onto(d) /\ Rows(listed) = Rows(after) /\ listed.wf = after.wf
  BY <1>0, <1>8, QuietWrites DEF Unseen
<1> HIDE DEF listed, absent, ended
<1>10. CASE popped.wf \notin {"RUNNING", "PAUSED"}
  <2>1. Sweep(d, late, FALSE) = <<popped, absent>>
    BY <1>10 DEF Sweep, popped, absent
  <2> QED
    BY <1>1, <1>2, <2>1, ShortSteps
<1>11. CASE popped.wf \in {"RUNNING", "PAUSED"} /\ after.wf \in TerminalWorkflow
  <2>1. Sweep(d, late, FALSE) = <<popped>> \o decided \o <<ended>>
    BY <1>11 DEF Sweep, popped, decided, after, ended
  <2>2. <<popped>> \in Steps(d) /\ <<ended>> \in Steps(d)
    BY <1>1, <1>6, ShortSteps
  <2>3. <<popped>> \o decided \in Steps(d)
    BY <1>4, <2>2, StepsJoin
  <2> QED
    BY <2>1, <2>2, <2>3, StepsJoin
<1>12. CASE /\ popped.wf \in {"RUNNING", "PAUSED"} /\ after.wf \notin TerminalWorkflow
            /\ Live(after) \cup created # {}
  <2>1. Sweep(d, late, FALSE) = <<popped>> \o decided \o <<repaired>>
    BY <1>12 DEF Sweep, popped, decided, after, repaired, created
  <2>2. <<popped>> \in Steps(d) /\ <<repaired>> \in Steps(d)
    BY <1>1, <1>7, ShortSteps
  <2>3. <<popped>> \o decided \in Steps(d)
    BY <1>4, <2>2, StepsJoin
  <2> QED
    BY <2>1, <2>2, <2>3, StepsJoin
<1>13. CASE /\ popped.wf \in {"RUNNING", "PAUSED"} /\ after.wf \notin TerminalWorkflow
            /\ Live(after) \cup created = {}
  <2>1. Sweep(d, late, FALSE) = <<popped>> \o decided \o <<repaired, forced, listed>>
                                  \o Decide(listed, {}, FALSE)
    BY <1>13 DEF Sweep, popped, decided, after, repaired, created, forced, listed
  <2>2. Rows(after) = Rows(popped)
    BY <1>5, <1>13 DEF Goes
  <2>3. Same(d, listed) /\ listed \in Plain
    BY <1>1, <1>9, <1>13, <2>2 DEF Same, Open, TerminalWorkflow, Onto
  <2>4. Decide(listed, {}, FALSE) \in Steps(d)
    BY <2>3, DecideSteps
  <2>5. <<popped>> \in Steps(d) /\ <<repaired, forced, listed>> \in Steps(d)
    BY <1>1, <1>7, <1>8, <1>9, ShortSteps
  <2>6. <<popped>> \o decided \in Steps(d)
    BY <1>4, <2>5, StepsJoin
  <2>7. <<popped>> \o decided \o <<repaired, forced, listed>> \in Steps(d)
    BY <2>5, <2>6, StepsJoin
  <2> QED
    BY <2>1, <2>4, <2>7, StepsJoin
<1> QED
  BY <1>10, <1>11, <1>12, <1>13

LEMMA UpdateSteps ==
  ASSUME NEW d \in Plain, Linear, NEW t \in Rows(d), NEW result \in Results, NEW late
  PROVE  UpdateTask(d, t, result, late, FALSE) \in Steps(d)
<1>0. d \in Onto(d) /\ d \in Good /\ t \in TaskId
  BY OntoItself DEF Plain, Rows
<1>1. CASE d.status[t] \in TerminalTask \/ d.wf \in TerminalWorkflow
  <2> DEFINE removed == Remove(d, {t})
  <2>1. removed \in Unseen(d, d)
    BY <1>0, QuietWrites
  <2>2. UpdateTask(d, t, result, late, FALSE) = <<removed>>
    BY <1>1 DEF UpdateTask
  <2> QED
    BY <2>1, <2>2, ShortSteps DEF Unseen
<1>2. CASE d.status[t] \notin TerminalTask /\ d.wf \notin TerminalWorkflow
  <2> DEFINE s       == IF result = "IN_PROGRESS" THEN "SCHEDULED" ELSE result
             queued  == IF s = "SCHEDULED" THEN Postpone(d, t) ELSE Remove(d, {t})
             T       == {t}
             updated == SetStatus(queued, T, s)
  <2>1. s \in TaskStatuses \ {"SKIPPED", "COMPLETED_WITH_ERRORS"}
    BY EngineAssumption DEF TaskStatuses
  <2> HIDE DEF s
  <2>2. queued \in Unseen(d, d)
    <3>1. Postpone(d, t) \in Unseen(d, d)
      BY <1>0, QuietWrites
    <3>2. Remove(d, {t}) \in Unseen(d, d)
      BY <1>0, QuietWrites
    <3> QED
      BY <3>1, <3>2
  <2>3. /\ queued \in Onto(d) /\ queued \in Plain /\ queued \in Good
        /\ Rows(queued) = Rows(d) /\ queued.status = d.status /\ queued.wf = d.wf
        /\ Moved(d, queued)
    BY <2>2 DEF Unseen, Onto, Plain, Still
  <2>4. queued.keys = d.keys /\ queued.executed = d.executed /\ queued.retried = d.retried
    BY <1>0 DEF Postpone, Remove, Good, Database
  <2> HIDE DEF queued
  <2>5. T \in SUBSET Live(queued)
    BY <1>2, <2>3 DEF Live
  <2>6. Writable(queued, T, s)
    BY <1>0, <1>2, <2>1, <2>3, <2>4 DEF Writable, Good, Keyed, Budgeted, Processed, Marked
  <2> HIDE DEF T
  <2>7. /\ updated \in Good
        /\ \A u \in TaskId : updated.status[u] = IF u \in T THEN s ELSE queued.status[u]
    BY <2>3, <2>6, SetStatusGood
  <2>8. updated.wf = d.wf /\ updated.executed = queued.executed /\ updated.retried = queued.retried
    BY <2>3 DEF SetStatus, Good, Database
  <2> HIDE DEF updated
  <2>9. updated \in Plain /\ Rows(updated) = Rows(d) /\ Moved(d, updated)
    <3>1. queued \in Plain
      BY <2>3
    <3>2. \A u \in TaskId : updated.status[u] = IF u \in T THEN s ELSE queued.status[u]
      BY <2>7
    <3>3. updated \in Plain /\ Rows(updated) = Rows(queued) /\ Moved(queued, updated)
      BY <2>1, <2>5, <2>7, <2>8, <3>1, <3>2, StatusWrite
    <3> QED
      BY <2>3, <3>3, MovedOn
  <2>10. Same(d, updated) /\ updated \in Onto(d)
    BY <1>2, <2>8, <2>9 DEF Same, Onto, Open
  <2>11. Decide(updated, late, FALSE) \in Steps(d) /\ <<queued, updated>> \in Steps(d)
    BY <2>3, <2>9, <2>10, DecideSteps, ShortSteps
  <2>12. UpdateTask(d, t, result, late, FALSE)
           = <<queued, updated>> \o Decide(updated, late, FALSE)
    BY <1>2 DEF UpdateTask, s, queued, updated, T
  <2> QED
    BY <2>11, <2>12, StepsJoin
<1> QED
  BY <1>1, <1>2

LEMMA OpenWrite ==
  ASSUME NEW d, NEW e \in Onto(d), Linear, Open(e), e.wf # None,
         NEW s \in {"RUNNING", "PAUSED"}
  PROVE  /\ SetWorkflow(e, s) \in Onto(d) /\ Rows(SetWorkflow(e, s)) = Rows(e)
         /\ SetWorkflow(e, s).wf = s
<1> DEFINE f == SetWorkflow(e, s)
<1>0. e \in Good /\ e \in Database /\ e \in Plain
  BY DEF Onto, Plain, Good
<1>1. f \in Good
  BY <1>0, SetWorkflowGood DEF WorkflowStatuses, TerminalWorkflow
<1>2. Still(e, f) /\ f.wf = s /\ Open(f)
  BY <1>0 DEF SetWorkflow, Database, Still, Open, TerminalWorkflow
<1> HIDE DEF f
<1>3. f \in Plain /\ Rows(f) = Rows(e) /\ \A t : Verdict(f, t) = Verdict(e, t)
  BY <1>0, <1>1, <1>2, FlagWrite
<1>4. Moved(d, f)
  BY <1>3 DEF Onto, Moved
<1>5. f \in Onto(d)
  <2>1. CASE Same(d, e)
    <3>1. Same(d, f)
      BY <1>2, <1>3, <1>4, <2>1 DEF Same, Open
    <3> QED
      BY <1>3, <1>4, <3>1 DEF Onto
  <2>2. CASE Extends(d, e)
    <3>1. Extends(d, f)
      BY <1>2, <1>3, <2>2 DEF Extends
    <3> QED
      BY <1>3, <1>4, <3>1 DEF Onto
  <2>3. ~ Finishes(d, e) /\ ~ GivesUp(d, e)
    BY DEF Finishes, GivesUp, Open, TerminalWorkflow, WorkflowStatuses
  <2> QED
    BY <2>1, <2>2, <2>3 DEF Onto
<1> QED
  BY <1>2, <1>3, <1>5 DEF f

LEMMA PauseSteps ==
  ASSUME NEW d \in Plain, Linear, d.wf = "RUNNING"
  PROVE  PauseWorkflow(d) \in Steps(d)
<1> DEFINE paused == SetWorkflow(d, "PAUSED")
           listed == SetPending(paused)
           last   == SetDecider(listed, "absent")
<1>1. d \in Onto(d) /\ Open(d) /\ d.wf # None /\ "absent" \in Message
  BY OntoItself DEF Open, TerminalWorkflow, None, Message
<1>2. paused \in Onto(d)
  BY <1>1, OpenWrite
<1> HIDE DEF paused
<1>3. listed \in Unseen(d, paused)
  BY <1>2, QuietWrites
<1>4. listed \in Onto(d)
  BY <1>3 DEF Unseen
<1> HIDE DEF listed
<1>5. last \in Unseen(d, listed)
  BY <1>1, <1>4, QuietWrites
<1>6. last \in Onto(d)
  BY <1>5 DEF Unseen
<1> HIDE DEF last
<1>7. PauseWorkflow(d) = <<paused, listed, last>>
  BY DEF PauseWorkflow, paused, listed, last
<1> QED
  BY <1>2, <1>4, <1>6, <1>7, ShortSteps

LEMMA ResumeSteps ==
  ASSUME NEW d \in Plain, Linear, d.wf = "PAUSED", NEW late
  PROVE  ResumeWorkflow(d, late) \in Steps(d)
<1> DEFINE queued == SetDecider(d, "ready")
           opened == SetWorkflow(queued, "RUNNING")
           listed == SetPending(opened)
<1>1. d \in Onto(d) /\ "ready" \in Message
  BY OntoItself DEF Message
<1>2. queued \in Unseen(d, d)
  BY <1>1, QuietWrites
<1>3. /\ queued \in Onto(d) /\ Open(queued) /\ queued.wf # None /\ Rows(queued) = Rows(d)
  BY <1>2 DEF Unseen, Open, TerminalWorkflow, None
<1> HIDE DEF queued
<1>4. opened \in Onto(d) /\ Rows(opened) = Rows(d) /\ opened.wf = "RUNNING"
  BY <1>3, OpenWrite
<1> HIDE DEF opened
<1>5. listed \in Unseen(d, opened)
  BY <1>4, QuietWrites
<1>6. /\ listed \in Onto(d) /\ Rows(listed) = Rows(d) /\ listed.wf = "RUNNING"
      /\ listed \in Plain /\ Moved(d, listed)
  BY <1>4, <1>5 DEF Unseen, Onto
<1> HIDE DEF listed
<1>7. Reopen(d) = <<queued, opened, listed>> /\ Final(Reopen(d)) = listed
  BY DEF Reopen, Final, queued, opened, listed
<1>8. Same(d, listed)
  BY <1>6 DEF Same, Open, TerminalWorkflow
<1>9. Decide(listed, late, FALSE) \in Steps(d)
  BY <1>6, <1>8, DecideSteps
<1>10. Reopen(d) \in Steps(d)
  BY <1>3, <1>4, <1>6, <1>7, ShortSteps
<1> QED
  BY <1>7, <1>9, <1>10, StepsJoin DEF ResumeWorkflow

LEMMA RestartSteps ==
  ASSUME NEW d \in Plain, Linear
  PROVE  RestartWorkflow(d) \in Steps(d)
<1> DEFINE listed == [d EXCEPT !.pending = TRUE]
<1>1. listed \in Unseen(d, d)
  BY OntoItself, QuietWrites
<1> HIDE DEF listed
<1>2. listed \in Onto(d) /\ listed \in Plain /\ Same(d, listed)
  BY <1>1, UnseenIsSame DEF Unseen
<1>3. Decide(listed, {}, FALSE) \in Steps(d) /\ <<listed>> \in Steps(d)
  BY <1>2, DecideSteps, ShortSteps
<1>4. RestartWorkflow(d) = <<listed>> \o Decide(listed, {}, FALSE)
  BY DEF RestartWorkflow, listed
<1> QED
  BY <1>3, <1>4, StepsJoin

(***************************************************************************)
(* The refinement.                                                         *)
(***************************************************************************)

LEMMA CommitOnto ==
  ASSUME NEW p \in Steps(db), Commit(p)
  PROVE  db' \in Onto(db)
<1>1. Final(p) \in Onto(db) /\ \A i \in 1..(Len(p) - 1) : p[i] \in Onto(db)
  BY SeqEnds DEF Steps
<1> QED
  BY <1>1 DEF Commit

RInv == IInv /\ db \in Plain

LEMMA StepOnto ==
  ASSUME Linear, RInv, [Next]_vars
  PROVE  db' \in Onto(db)
<1>0. db \in Plain /\ db \in Good /\ db \in Onto(db)
  BY OntoItself DEF RInv, IInv
<1>1. CASE UNCHANGED db
  BY <1>0, <1>1
<1>2. CASE Start
  BY <1>0, <1>2, StartSteps, CommitOnto DEF Start
<1>3. ASSUME NEW t \in TaskId, Pop(t) \/ HandOut(t) PROVE db' \in Onto(db)
  <2>1. db' \in Good
    BY StepGood DEF RInv, IInv
  <2>2. Still(db, db') /\ db'.wf = db.wf
    BY <1>0, <1>3 DEF Pop, HandOut, Good, Database, Still
  <2> QED
    BY <1>0, <2>1, <2>2, QuietWrite
<1>4. CanExpire = {FALSE}
  BY DEF Linear, CanExpire
<1>5. ASSUME NEW t \in TaskId, NEW result \in Results, Report(t, result)
      PROVE  db' \in Onto(db)
  <2>1. PICK late \in CanBeLate : Commit(UpdateTask(db, t, result, late, FALSE))
    BY <1>4, <1>5 DEF Report
  <2>2. UpdateTask(db, t, result, late, FALSE) \in Steps(db)
    BY <1>0, <1>5, UpdateSteps DEF Report
  <2> QED
    BY <2>1, <2>2, CommitOnto
<1>6. CASE SweepStep
  <2>1. PICK late \in CanBeLate : Commit(Sweep(db, late, FALSE))
    BY <1>4, <1>6 DEF SweepStep
  <2>2. Sweep(db, late, FALSE) \in Steps(db)
    BY <1>0, SweepSteps
  <2> QED
    BY <2>1, <2>2, CommitOnto
<1>7. CASE PauseRequest
  BY <1>0, <1>7, PauseSteps, CommitOnto DEF PauseRequest
<1>8. CASE ResumeRequest
  BY <1>0, <1>8, ResumeSteps, CommitOnto DEF ResumeRequest
<1>9. CASE RestartRequest
  BY <1>0, <1>9, RestartSteps, CommitOnto DEF RestartRequest
<1>10. CASE Bootstrap
  <2>1. db' \in Good
    BY StepGood DEF RInv, IInv
  <2>2. Still(db, db') /\ db'.wf = db.wf
    BY <1>0, <1>10 DEF Bootstrap, SetDecider, Good, Database, Still
  <2> QED
    BY <1>0, <2>1, <2>2, QuietWrite
<1>11. ~ TerminateRequest /\ ~ RetryRequest /\ ~ RerunRequest /\ \A r \in Ref : ~ SkipRequest(r)
  BY DEF Linear, TerminateRequest, RetryRequest, RerunRequest, SkipRequest
<1> QED
  BY <1>1, <1>2, <1>3, <1>5, <1>6, <1>7, <1>8, <1>9, <1>10, <1>11
     DEF Next, AdminRequest, Crash, vars

LEMMA PlainIsInductive ==
  ASSUME Linear
  PROVE  /\ Init => RInv
         /\ RInv /\ [Next]_vars => RInv'
<1>1. ASSUME Init PROVE RInv
  <2>1. IInv
    BY <1>1, InitGood
  <2>2. /\ Rows(db) = {}
        /\ \A t \in TaskId : db.status[t] \notin {"SKIPPED", "COMPLETED_WITH_ERRORS"}
        /\ db.executed = {} /\ db.retried = {}
    BY <1>1 DEF Init, EmptyDatabase, Rows, None
  <2>3. Chain(db) /\ Flagged(db)
    BY <2>2 DEF Chain, Flagged
  <2> QED
    BY <2>1, <2>2, <2>3 DEF RInv, IInv, Plain
<1>2. ASSUME RInv, [Next]_vars PROVE RInv'
  <2>1. IInv'
    BY <1>2, StepGood DEF RInv
  <2>2. db' \in Plain
    BY <1>2, StepOnto DEF Onto
  <2>3. db' \in Plain => (db \in Plain)'
    BY DEF Plain, Flagged, Chain, Rows, RowsOf, Replaced, Passed, Good, Processed, Marked, Keyed,
           Settled, Live, Budgeted
  <2> QED
    BY <2>1, <2>2, <2>3 DEF RInv
<1> QED
  BY <1>1, <1>2

LEMMA InitSequence == Init => Sequential!SeqInit
<1> SUFFICES ASSUME Init PROVE Sequential!SeqInit
  OBVIOUS
<1>1. Rows(db) = {} /\ db.wf = None
  BY DEF Init, EmptyDatabase, Rows
<1>2. CurrentStep = 0 /\ CurrentAttempt = 0
  BY <1>1, EmptyIs, SeenIsRows
<1>3. \A r \in 0..N : ResultOf(db, r) = IF r = 0 THEN "passed" ELSE "none"
  BY <1>1 DEF ResultOf, RowsOf
<1>4. CurrentResult = [r \in 0..N |-> IF r = 0 THEN "passed" ELSE "none"]
  BY <1>3, SeenIsRows
<1>5. Outcome = "running"
  BY <1>1 DEF Outcome, None, TerminalWorkflow, WorkflowStatuses
<1> QED
  BY <1>2, <1>4, <1>5 DEF Sequential!SeqInit

(* A step of the engine is a step of TaskSequence or none.                     *)
LEMMA StepIsSequential ==
  ASSUME Linear, RInv, [Next]_vars, MaxCrashes > 0 \/ Unlost(db')
  PROVE  [Sequential!SeqNext]_(Sequential!seqVars)
BY StepOnto, OntoIsStep DEF RInv
================================================================================
