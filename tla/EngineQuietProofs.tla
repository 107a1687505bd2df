--------------------------- MODULE EngineQuietProofs ---------------------------
(***************************************************************************)
(* What the engine keeps while the process does not die in the middle of an   *)
(* operation: queue, rows, flags and workflow agree at the end of each, so     *)
(* that no workflow waits for nothing, no ended one is polled and COMPLETED    *)
(* means done.  Each of these is false after some crash, which is why the      *)
(* crash-free server is a hypothesis.  The refinement at the end is proved     *)
(* with and without crashes.                                                 *)
(***************************************************************************)
EXTENDS EngineOrderProofs

(* The process lives, nothing is rerun, no row times out in memory only.      *)
Quiet == MaxCrashes = 0 /\ "rerun" \notin Admin /\ NoRetryTimeout

(* Statuses a row may leave.                                                  *)
Unsettled == TaskStatuses \ {"COMPLETED", "COMPLETED_WITH_ERRORS", "SKIPPED"}

Superseded(d) == {t \in Rows(d) : \E u \in Rows(d) : u[1] = t[1] /\ t[2] < u[2]}

Counted(d) == \A t \in Rows(d) : \A a \in 0..(t[2] - 1) : <<t[1], a>> \in Rows(d)

(* What the decider passed was good enough ...                                *)
Judged(d) ==
  \A t \in d.executed \ d.retried :
    d.status[t] \notin Unsettled \/ t[1] \in Optional \cup Permissive

(* ... and what comes next has been begun.                                    *)
Followed(d) ==
  \A t \in d.executed \ d.retried : \A q \in NextRef(d, t[1]) : RowsOf(d, q) # {}

Preceded(d) ==
  \A t \in Rows(d), p \in Ref : d.status[t] # "SKIPPED" /\ p < t[1] => RowsOf(d, p) # {}

SkippedOnce(d) ==
  \A t, u \in Rows(d) : d.status[t] = "SKIPPED" /\ u[1] = t[1] => u = t

(* The task table between two operations.                                     *)
Tidy(d) ==
  /\ d.keys = Rows(d)
  /\ d.retried = Superseded(d)
  /\ Counted(d)
  /\ Judged(d)
  /\ Followed(d)
  /\ Preceded(d)
  /\ SkippedOnce(d)

(***************************************************************************)
(* The writes to the task table.                                           *)
(***************************************************************************)

(* Rows that are not settled change their status.                             *)
LEMMA RewriteTidy ==
  ASSUME NEW d \in Good, NEW e \in Good, Tidy(d),
         \A t \in TaskId : \/ e.status[t] = d.status[t]
                           \/ d.status[t] \in Unsettled /\ e.status[t] \in TaskStatuses \ {"SKIPPED"},
         e.keys = d.keys, e.executed \subseteq d.executed, e.retried = d.retried
  PROVE  Tidy(e) /\ Rows(e) = Rows(d)
<1>1. Rows(e) = Rows(d)
  BY DEF Rows, Unsettled, TaskStatuses, None
<1>2. Superseded(e) = Superseded(d)
  BY <1>1 DEF Superseded
<1>3. \A t \in Rows(d) : e.status[t] = "SKIPPED" <=> d.status[t] = "SKIPPED"
  BY DEF Rows, Unsettled
<1>4. \A r : RowsOf(e, r) = RowsOf(d, r)
  BY <1>1 DEF RowsOf
<1>5. \A r \in Ref : IsSkipped(e, r) <=> IsSkipped(d, r)
  BY <1>3, <1>4 DEF IsSkipped, RowsOf
<1>6. \A r : NextRef(e, r) = NextRef(d, r)
  BY <1>5 DEF NextRef
<1>7. \A t \in e.executed \ e.retried : t \in TaskId /\ t \in d.executed \ d.retried
  BY DEF Good, Database
<1>8. Judged(e)
  BY <1>7 DEF Tidy, Judged, Unsettled
<1>9. Followed(e)
  BY <1>4, <1>6, <1>7 DEF Tidy, Followed
<1>10. Counted(e) /\ Preceded(e) /\ SkippedOnce(e)
  BY <1>1, <1>3, <1>4 DEF Tidy, Counted, Preceded, SkippedOnce
<1> QED
  BY <1>1, <1>2, <1>8, <1>9, <1>10 DEF Tidy

(* Every writer of a live row is one.                                         *)
LEMMA LiveIsUnsettled ==
  ASSUME NEW d \in Good, NEW t \in Live(d)
  PROVE  t \in TaskId /\ d.status[t] \in Unsettled
BY DEF Live, Rows, Unsettled, TerminalTask, Good, Database

(***************************************************************************)
(* What the decider inserts.                                               *)
(***************************************************************************)

(* The first attempt of a task without rows, all earlier ones having some ... *)
Opens(d, u) ==
  u[2] = 0 /\ RowsOf(d, u[1]) = {} /\ \A p \in Ref : p < u[1] => RowsOf(d, p) # {}

(* ... or the attempt after one that is to be replaced.                       *)
Follows(R, u) == \E v \in R : u[1] = v[1] /\ u[2] = v[2] + 1

(* A reference without a first attempt has no row.                            *)
LEMMA CountedFromZero ==
  ASSUME NEW d \in Good, Counted(d), NEW q \in Ref, <<q, 0>> \notin Rows(d)
  PROVE  RowsOf(d, q) = {}
<1> SUFFICES ASSUME NEW t \in RowsOf(d, q) PROVE FALSE
  OBVIOUS
<1>1. t \in Rows(d) /\ t[1] = q /\ t[2] \in Nat /\ t = <<q, t[2]>>
  BY TaskIdType DEF RowsOf, Rows
<1>2. t[2] # 0
  BY <1>1
<1>3. 0 \in 0..(t[2] - 1)
  BY <1>1, <1>2
<1> QED
  BY <1>1, <1>3 DEF Counted

LEMMA FirstAttemptOpens ==
  ASSUME NEW d \in Good, Tidy(d), NEW r \in 0..N,
         \A p \in Ref : p <= r => RowsOf(d, p) # {},
         NEW u \in FirstAttempts(d, r), u \notin Rows(d)
  PROVE  Opens(d, u) /\ ~ IsSkipped(d, u[1])
<1>1. PICK q \in NextRef(d, r) : u = <<q, 0>>
  BY DEF FirstAttempts
<1>2. q \in Ref /\ r < q /\ u[1] = q /\ u[2] = 0 /\ ~ IsSkipped(d, q)
  BY <1>1 DEF NextRef
<1>3. RowsOf(d, q) = {}
  BY <1>1, <1>2, CountedFromZero DEF Tidy
<1>4. ASSUME NEW p \in Ref, p < q PROVE RowsOf(d, p) # {}
  <2>1. CASE p <= r
    BY <2>1
  <2>2. CASE ~ (p <= r)
    <3>1. r < p
      BY <2>2, SizeAssumption DEF Ref
    <3>2. IsSkipped(d, p)
      BY <1>1, <1>4, <3>1 DEF NextRef
    <3> QED
      BY <3>2 DEF IsSkipped
  <2> QED
    BY <2>1, <2>2
<1> QED
  BY <1>2, <1>3, <1>4 DEF Opens

LEMMA NewOpens ==
  ASSUME NEW d \in Good, NEW late, Tidy(d), NEW u \in New(d, late)
  PROVE  (Opens(d, u) /\ ~ IsSkipped(d, u[1])) \/ Follows(Retryable(d, late), u)
<1>0. u \notin Rows(d) /\ u \in TaskId
  BY NewType
<1>1. CASE u \in StartProposals(d)
  <2>1. 0 \in 0..N /\ \A p \in Ref : ~ (p <= 0)
    BY SizeAssumption DEF Ref
  <2>2. u \in FirstAttempts(d, 0)
    BY <1>1 DEF StartProposals
  <2> QED
    BY <1>0, <2>1, <2>2, FirstAttemptOpens
<1>2. CASE u \in NextAttempts(d, late)
  BY <1>2 DEF NextAttempts, Follows
<1>3. CASE u \in UNION {FirstAttempts(d, t[1]) : t \in Done(d, late)}
  <2>1. PICK t \in Done(d, late) : u \in FirstAttempts(d, t[1])
    BY <1>3
  <2>2. t \in Rows(d) /\ t \in TaskId /\ d.status[t] # "SKIPPED"
    BY VisitedRows DEF Rows, Done, Pending, IsPending
  <2>3. t[1] \in 0..N /\ t[1] \in Ref /\ t[1] \in Int
    BY <2>2, TaskIdType, SizeAssumption DEF Ref
  <2>4. ASSUME NEW p \in Ref, p <= t[1] PROVE RowsOf(d, p) # {}
    <3>1. CASE p = t[1]
      BY <2>2, <3>1 DEF RowsOf
    <3>2. CASE p < t[1]
      BY <2>2, <3>2 DEF Tidy, Preceded
    <3> QED
      BY <2>3, <2>4, <3>1, <3>2, SizeAssumption DEF Ref
  <2> QED
    BY <1>0, <2>1, <2>3, <2>4, FirstAttemptOpens
<1> QED
  BY <1>1, <1>2, <1>3 DEF New, Proposals

(* A row the decider looks at has not been replaced.                          *)
LEMMA PendingIsLatest ==
  ASSUME NEW d \in Good, Tidy(d), NEW t \in Pending(d)
  PROVE  /\ t \in Rows(d) /\ t \in LatestOf(d, t[1])
         /\ d.status[t] # "SKIPPED" /\ t \notin d.executed /\ t \notin d.retried
<1>1. t \in Rows(d) /\ t \notin d.retried /\ d.status[t] # "SKIPPED" /\ t \notin d.executed
  BY VisitedRows DEF Pending, IsPending, Rows
<1>2. ASSUME NEW u \in RowsOf(d, t[1]) PROVE u[2] <= t[2]
  <2>1. u \in Rows(d) /\ u[1] = t[1] /\ u[2] \in Nat /\ t[2] \in Nat
    BY <1>1, TaskIdType DEF RowsOf, Rows
  <2>2. ~ (t[2] < u[2])
    BY <1>1, <2>1 DEF Tidy, Superseded
  <2> QED
    BY <2>1, <2>2
<1> QED
  BY <1>1, <1>2 DEF LatestOf, RowsOf

(* With nothing TIMED_OUT in memory, what is done was good enough.            *)
LEMMA DoneIsJudged ==
  ASSUME NEW d \in Good, NEW late, NoRetryTimeout, Halting(d, late) = {},
         NEW t \in Done(d, late)
  PROVE  d.status[t] \notin Unsettled \/ t[1] \in Optional \cup Permissive
<1>1. Passed(d, t)
  BY DonePassed
<1> QED
  BY <1>1 DEF Passed, Unsettled, UnsuccessfulTask, SuccessfulTask, TerminalTask, TaskStatuses

LEMMA NextAttemptType ==
  ASSUME NEW d \in Good, NEW late, NEW t \in Retryable(d, late)
  PROVE  <<t[1], t[2] + 1>> \in NextAttempts(d, late) /\ <<t[1], t[2] + 1>> \in TaskId
<1>1. t \in TaskId /\ t[2] < RetryLimit[t[1]]
  BY VisitedRows DEF Retryable, Rows
<1>2. t[1] \in Ref /\ t[2] \in 0..MaxAttempt /\ RetryLimit[t[1]] \in 0..MaxAttempt
  BY <1>1, DefinitionAssumption DEF TaskId
<1>3. t[1] \in Ref /\ t[2] + 1 \in 0..MaxAttempt
  BY <1>1, <1>2, SizeAssumption
<1>4. <<t[1], t[2] + 1>> \in TaskId
  BY <1>3 DEF TaskId
<1> QED
  BY <1>4 DEF NextAttempts

(* Rows are inserted, R is what they replace.                                 *)
LEMMA InsertTidy ==
  ASSUME NEW d \in Good, NEW e \in Good, Tidy(d),
         NEW F \in SUBSET TaskId, F \cap Rows(d) = {}, NEW R,
         \A t \in R : /\ t \in Rows(d) /\ t \in LatestOf(d, t[1])
                      /\ d.status[t] # "SKIPPED"
                      /\ <<t[1], t[2] + 1>> \in Rows(d) \cup F,
         \A u \in F : (Opens(d, u) /\ ~ IsSkipped(d, u[1])) \/ Follows(R, u),
         Rows(e) = Rows(d) \cup F,
         \A t \in F : e.status[t] # "SKIPPED",
         \A t \in Rows(d) : e.status[t] = "SKIPPED" <=> d.status[t] = "SKIPPED",
         e.keys = d.keys \cup F,
         e.retried = d.retried \cup R,
         Judged(e), Followed(d) => Followed(e)
  PROVE  Tidy(e)
<1>2. Rows(e) = Rows(d) \cup F
  OBVIOUS
<1>5. ASSUME NEW u \in F PROVE (Opens(d, u) /\ ~ IsSkipped(d, u[1])) \/ Follows(R, u)
  OBVIOUS
<1>6. \A t \in R : /\ t \in Rows(d) /\ t \in LatestOf(d, t[1]) /\ d.status[t] # "SKIPPED"
                  /\ <<t[1], t[2] + 1>> \in Rows(d) \cup F
  OBVIOUS
<1>7. \A t \in Rows(e) : t \in TaskId /\ t[1] \in Ref /\ t[2] \in Nat /\ t = <<t[1], t[2]>>
  BY TaskIdType DEF Rows
<1>10. \A r : RowsOf(d, r) \subseteq RowsOf(e, r)
  BY <1>2 DEF RowsOf
<1>11. e.keys = Rows(e)
  BY <1>2 DEF Tidy
<1>12. e.retried = Superseded(e)
  <2>1. ASSUME NEW t \in d.retried PROVE t \in Superseded(e)
    BY <1>2 DEF Tidy, Superseded
  <2>2. ASSUME NEW t \in R PROVE t \in Superseded(e)
    <3> DEFINE u == <<t[1], t[2] + 1>>
    <3>1. u \in Rows(e)
      BY <1>2, <1>6
    <3>2. t \in Rows(e) /\ u[1] = t[1] /\ u[2] = t[2] + 1
      BY <1>2, <1>6
    <3> HIDE DEF u
    <3>3. t[2] < u[2]
      BY <1>7, <3>1, <3>2
    <3> QED
      BY <3>1, <3>2, <3>3 DEF Superseded
  <2>3. ASSUME NEW t \in Rows(e), NEW u \in Rows(e), u[1] = t[1], t[2] < u[2]
        PROVE  t \in e.retried
    <3>1. CASE u \in Rows(d) /\ t \in Rows(d)
      BY <2>3, <3>1 DEF Tidy, Superseded
    <3>2. CASE u \in F /\ t \in Rows(d)
      <4>1. Follows(R, u)
        BY <1>5, <2>3, <3>2 DEF Opens, RowsOf
      <4>2. PICK v \in R : u[1] = v[1] /\ u[2] = v[2] + 1
        BY <4>1 DEF Follows
      <4>3. v \in Rows(d) /\ t[2] <= v[2] /\ v[1] = t[1]
        BY <1>6, <2>3, <3>2, <4>2 DEF LatestOf, RowsOf
      <4>4. CASE t[2] = v[2]
        BY <1>2, <1>7, <4>2, <4>3, <4>4
      <4>5. CASE t[2] # v[2]
        BY <1>2, <1>7, <3>2, <4>3, <4>5 DEF Tidy, Superseded
      <4> QED
        BY <4>4, <4>5
    <3>3. CASE t \in F
      <4>1. CASE Opens(d, t)
        <5>1. RowsOf(d, u[1]) = {}
          BY <2>3, <4>1 DEF Opens
        <5>2. u \in F /\ ~ Follows(R, u)
          BY <1>2, <1>6, <5>1 DEF Follows, RowsOf
        <5> QED
          BY <1>5, <1>7, <2>3, <4>1, <5>2 DEF Opens
      <4>2. CASE Follows(R, t)
        <5>1. PICK v \in R : t[1] = v[1] /\ t[2] = v[2] + 1
          BY <4>2 DEF Follows
        <5>2. v \in Rows(d) /\ v \in LatestOf(d, v[1]) /\ v \in RowsOf(d, v[1])
          BY <1>6, <5>1 DEF RowsOf
        <5>3. CASE u \in Rows(d)
          <6>1. u[2] <= v[2]
            BY <2>3, <5>1, <5>2, <5>3 DEF LatestOf, RowsOf
          <6> QED
            BY <1>2, <1>7, <2>3, <5>1, <5>2, <5>3, <6>1
        <5>4. CASE u \in F
          <6>1. Follows(R, u)
            BY <1>5, <2>3, <5>1, <5>2, <5>4 DEF Opens
          <6>2. PICK w \in R : u[1] = w[1] /\ u[2] = w[2] + 1
            BY <6>1 DEF Follows
          <6>3. w \in Rows(d) /\ w[2] <= v[2]
            BY <1>6, <2>3, <5>1, <5>2, <6>2 DEF LatestOf, RowsOf
          <6> QED
            BY <1>2, <1>7, <2>3, <5>1, <5>2, <6>2, <6>3
        <5> QED
          BY <1>2, <5>3, <5>4
      <4> QED
        BY <1>5, <3>3, <4>1, <4>2
    <3> QED
      BY <1>2, <3>1, <3>2, <3>3
  <2> QED
    BY <2>1, <2>2, <2>3 DEF Superseded
<1>13. Counted(e)
  <2> SUFFICES ASSUME NEW t \in F, NEW a \in 0..(t[2] - 1) PROVE <<t[1], a>> \in Rows(e)
    BY <1>2 DEF Tidy, Counted
  <2>1. t \in Rows(e) /\ t[2] \in Nat /\ a \in Int /\ 0 <= a /\ a <= t[2] - 1
    BY <1>2, <1>7
  <2>2. Follows(R, t)
    BY <1>5, <2>1 DEF Opens
  <2>3. PICK v \in R : t[1] = v[1] /\ t[2] = v[2] + 1
    BY <2>2 DEF Follows
  <2>4. v \in Rows(d) /\ v[2] \in Nat /\ v = <<v[1], v[2]>>
    BY <1>2, <1>6, <1>7
  <2>5. CASE a = v[2]
    BY <1>2, <2>3, <2>4, <2>5
  <2>6. CASE a # v[2]
    <3>1. a \in 0..(v[2] - 1)
      BY <2>1, <2>3, <2>4, <2>6
    <3> QED
      BY <1>2, <2>3, <2>4, <3>1 DEF Tidy, Counted
  <2> QED
    BY <2>5, <2>6
<1>17. Preceded(e)
  <2> SUFFICES ASSUME NEW t \in Rows(e), NEW p \in Ref, e.status[t] # "SKIPPED", p < t[1]
               PROVE  RowsOf(d, p) # {}
    BY <1>10 DEF Preceded
  <2>1. CASE t \in Rows(d)
    BY <2>1 DEF Tidy, Preceded
  <2>2. CASE t \in F /\ Opens(d, t)
    BY <2>2 DEF Opens
  <2>3. CASE t \in F /\ Follows(R, t)
    <3>1. PICK v \in R : t[1] = v[1]
      BY <2>3 DEF Follows
    <3>2. v \in Rows(d) /\ d.status[v] # "SKIPPED"
      BY <1>6
    <3> QED
      BY <3>1, <3>2 DEF Tidy, Preceded
  <2> QED
    BY <1>2, <1>5, <2>1, <2>2, <2>3
<1>18. SkippedOnce(e)
  <2> SUFFICES ASSUME NEW t \in Rows(e), NEW u \in Rows(e), e.status[t] = "SKIPPED", u[1] = t[1]
               PROVE  u = t
    BY DEF SkippedOnce
  <2>1. t \in Rows(d) /\ d.status[t] = "SKIPPED"
    BY <1>2
  <2>2. CASE u \in Rows(d)
    BY <2>1, <2>2 DEF Tidy, SkippedOnce
  <2>3. CASE u \in F
    <3>1. ~ Opens(d, u)
      BY <2>1 DEF Opens, RowsOf
    <3>2. PICK v \in R : u[1] = v[1]
      BY <1>5, <2>3, <3>1 DEF Follows
    <3>3. v \in Rows(d) /\ d.status[v] # "SKIPPED"
      BY <1>6
    <3>4. v = t
      BY <2>1, <3>2, <3>3 DEF Tidy, SkippedOnce
    <3> QED
      BY <2>1, <3>3, <3>4
  <2> QED
    BY <1>2, <2>2, <2>3
<1> QED
  BY <1>11, <1>12, <1>13, <1>17, <1>18 DEF Tidy

(* The writes of an advance, put together.                                    *)
LEMMA AdvanceTidy ==
  ASSUME NEW d \in Good, NEW e \in Good, NEW late, Tidy(d), NoRetryTimeout,
         Halting(d, late) = {},
         \A t \in TaskId : e.status[t] =
           IF t \in New(d, late) THEN "SCHEDULED"
           ELSE IF t \in Rewritten(d, late) THEN "COMPLETED_WITH_ERRORS" ELSE d.status[t],
         e.keys = d.keys \cup New(d, late),
         e.executed = d.executed \cup Done(d, late),
         e.retried = d.retried \cup Retryable(d, late)
  PROVE  Tidy(e) /\ Rows(e) = Rows(d) \cup New(d, late)
<1> DEFINE F == New(d, late)
           W == Rewritten(d, late)
<1>1. /\ F \in SUBSET TaskId /\ F \cap Rows(d) = {}
      /\ \A t \in W : t \in Rows(d) /\ t \in TaskId /\ t \in Pending(d) /\ d.status[t] # "SKIPPED"
  BY NewType, VisitedRows, PendingIsLatest DEF Rows
<1>2. Rows(e) = Rows(d) \cup F
  BY <1>1 DEF Rows, None
<1>3. \A t \in Rows(d) : t \in TaskId /\ (e.status[t] = "SKIPPED" <=> d.status[t] = "SKIPPED")
  BY <1>1 DEF Rows
<1>4. \A t \in F : e.status[t] = "SCHEDULED" /\ e.status[t] # "SKIPPED"
  BY <1>1
<1>5. ASSUME NEW u \in F PROVE (Opens(d, u) /\ ~ IsSkipped(d, u[1])) \/ Follows(Retryable(d, late), u)
  BY <1>5, NewOpens
<1>6. \A t \in Retryable(d, late) :
        /\ t \in Rows(d) /\ t \in LatestOf(d, t[1]) /\ d.status[t] # "SKIPPED"
        /\ <<t[1], t[2] + 1>> \in Rows(d) \cup F
  BY VisitedRows, PendingIsLatest, NextAttemptType DEF New, Proposals
<1> HIDE DEF F
<1>8. ASSUME NEW r \in Ref PROVE IsSkipped(e, r) <=> IsSkipped(d, r)
  BY <1>2, <1>3, <1>4 DEF IsSkipped, RowsOf
<1>9. \A r : NextRef(e, r) = NextRef(d, r)
  BY <1>8 DEF NextRef
<1>10. \A r : RowsOf(d, r) \subseteq RowsOf(e, r)
  BY <1>2 DEF RowsOf
<1>14. ASSUME NEW t \in e.executed \ e.retried
       PROVE  /\ t \in d.executed \ d.retried \/ t \in Done(d, late)
              /\ t \in TaskId /\ t \in Rows(d) /\ t \notin F
  BY <1>1, GoodStatus, VisitedRows DEF Good, Database, F
<1>15. Judged(e)
  <2> SUFFICES ASSUME NEW t \in e.executed \ e.retried
               PROVE  e.status[t] \notin Unsettled \/ t[1] \in Optional \cup Permissive
    BY DEF Judged
  <2>1. d.status[t] \notin Unsettled \/ t[1] \in Optional \cup Permissive
    BY <1>14, DoneIsJudged DEF Tidy, Judged
  <2>2. e.status[t] = d.status[t] \/ e.status[t] = "COMPLETED_WITH_ERRORS"
    BY <1>14 DEF F
  <2> QED
    BY <2>1, <2>2 DEF Unsettled
<1>16. Followed(e)
  <2> SUFFICES ASSUME NEW t \in e.executed \ e.retried, NEW q \in NextRef(d, t[1])
               PROVE  RowsOf(e, q) # {}
    BY <1>9 DEF Followed
  <2>1. CASE t \in d.executed \ d.retried
    BY <1>10, <2>1 DEF Tidy, Followed
  <2>2. CASE t \in Done(d, late) /\ RowsOf(d, q) # {}
    BY <1>10, <2>2
  <2>3. CASE t \in Done(d, late) /\ RowsOf(d, q) = {}
    <3>1. <<q, 0>> \in FirstAttempts(d, t[1])
      BY <2>3 DEF FirstAttempts
    <3>2. <<q, 0>> \in Proposals(d, late)
      BY <2>3, <3>1 DEF Proposals
    <3>3. <<q, 0>> \in Rows(e)
      BY <1>2, <3>2 DEF New, F
    <3> QED
      BY <3>3 DEF RowsOf
  <2> QED
    BY <1>14, <2>1, <2>2, <2>3
<1>17. Tidy(e)
  <2>1. F \in SUBSET TaskId /\ F \cap Rows(d) = {}
    BY <1>1 DEF F
  <2>2. e.keys = d.keys \cup F
    BY DEF F
  <2> QED
    BY <1>2, <1>3, <1>4, <1>5, <1>6, <1>15, <1>16, <2>1, <2>2, InsertTidy
<1> QED
  BY <1>2, <1>17 DEF F

(* A task that is skipped had no row, so it came next after nothing executed.  *)
LEMMA SkipTidy ==
  ASSUME NEW d \in Good, NEW e \in Good, Tidy(d), NEW r \in Ref, RowsOf(d, r) = {},
         \A t \in TaskId : e.status[t] = IF t = <<r, 0>> THEN "SKIPPED" ELSE d.status[t],
         e.keys = d.keys \cup {<<r, 0>>}, e.executed = d.executed, e.retried = d.retried
  PROVE  Tidy(e)
<1> DEFINE s == <<r, 0>>
<1>1. s \in TaskId /\ s \notin Rows(d) /\ s[1] = r /\ s[2] = 0
  BY SizeAssumption DEF TaskId, RowsOf
<1>2. e.status[s] = "SKIPPED" /\ \A t \in TaskId : t # s => e.status[t] = d.status[t]
  BY <1>1
<1>3. e.keys = d.keys \cup {s}
  OBVIOUS
<1> HIDE DEF s
<1>4. Rows(e) = Rows(d) \cup {s}
  BY <1>1, <1>2 DEF Rows, None
<1>5. \A t \in Rows(d) : t \in TaskId /\ t[1] # r /\ t # s /\ e.status[t] = d.status[t]
  BY <1>1, <1>2 DEF Rows, RowsOf
<1>6. \A t \in Rows(e) : t[1] \in Ref /\ t[2] \in Nat
  BY <1>4, TaskIdType DEF Rows
<1>7. \A p : RowsOf(d, p) \subseteq RowsOf(e, p)
  BY <1>4 DEF RowsOf
<1>8. e.retried = Superseded(e)
  <2>1. Superseded(e) = Superseded(d)
    BY <1>1, <1>4, <1>5 DEF Superseded
  <2> QED
    BY <2>1 DEF Tidy
<1>9. Counted(e)
  <2> SUFFICES ASSUME NEW t \in Rows(e), NEW a \in 0..(t[2] - 1) PROVE <<t[1], a>> \in Rows(e)
    BY DEF Counted
  <2>1. t \in Rows(d)
    BY <1>1, <1>4, <1>6
  <2> QED
    BY <1>4, <2>1 DEF Tidy, Counted
<1>10. \A t \in d.executed : t \in Rows(d)
  BY GoodStatus
<1>11. Judged(e)
  BY <1>5, <1>10 DEF Tidy, Judged
<1>12. ASSUME NEW p \in Ref, p # r PROVE IsSkipped(e, p) <=> IsSkipped(d, p)
  BY <1>1, <1>4, <1>5, <1>12 DEF IsSkipped, RowsOf
<1>13. ~ IsSkipped(d, r)
  BY DEF IsSkipped
<1>14. Followed(e)
  <2> SUFFICES ASSUME NEW t \in d.executed \ d.retried, NEW q \in NextRef(e, t[1]), RowsOf(e, q) = {}
               PROVE  FALSE
    BY DEF Followed
  <2>1. /\ q \in Ref /\ t[1] < q /\ q # r /\ t[1] \in Ref
        /\ \A p \in Ref : t[1] < p /\ p < q => IsSkipped(e, p)
    <3>1. q # r
      BY <1>1, <1>4 DEF RowsOf
    <3>2. t[1] \in Ref
      BY <1>4, <1>6, <1>10
    <3> QED
      BY <3>1, <3>2 DEF NextRef
  <2>2. RowsOf(d, q) = {} /\ ~ IsSkipped(d, q)
    BY <1>7 DEF IsSkipped
  <2>3. CASE t[1] < r /\ r < q
    <3>1. \A p \in Ref : t[1] < p /\ p < r => p < q /\ p # r
      BY <2>1, <2>3, SizeAssumption DEF Ref
    <3>2. r \in NextRef(d, t[1])
      BY <1>12, <1>13, <2>1, <2>3, <3>1 DEF NextRef
    <3> QED
      BY <3>2 DEF Tidy, Followed
  <2>4. CASE ~ (t[1] < r /\ r < q)
    <3>1. q \in NextRef(d, t[1])
      BY <1>12, <2>1, <2>2, <2>4 DEF NextRef
    <3> QED
      BY <2>2, <3>1 DEF Tidy, Followed
  <2> QED
    BY <2>3, <2>4
<1>15. Preceded(e)
  <2> SUFFICES ASSUME NEW t \in Rows(e), NEW p \in Ref, e.status[t] # "SKIPPED", p < t[1]
               PROVE  RowsOf(e, p) # {}
    BY DEF Preceded
  <2>1. t \in Rows(d) /\ d.status[t] # "SKIPPED"
    BY <1>2, <1>4, <1>5
  <2> QED
    BY <1>7, <2>1 DEF Tidy, Preceded
<1>16. SkippedOnce(e)
  <2> SUFFICES ASSUME NEW t \in Rows(e), NEW u \in Rows(e), e.status[t] = "SKIPPED", u[1] = t[1]
               PROVE  u = t
    BY DEF SkippedOnce
  <2>1. CASE t \in Rows(d) /\ u \in Rows(d)
    BY <1>5, <2>1 DEF Tidy, SkippedOnce
  <2>2. CASE t = s \/ u = s
    BY <1>1, <1>4, <1>5, <2>2
  <2> QED
    BY <1>4, <2>1, <2>2
<1>17. e.keys = Rows(e)
  BY <1>3, <1>4 DEF Tidy
<1> QED
  BY <1>8, <1>9, <1>11, <1>14, <1>15, <1>16, <1>17 DEF Tidy

(* The rows that a retry by hand adds.                                        *)
Copies(d) == {u \in TaskId : \E t \in RetriableRows(d) : u = <<t[1], t[2] + 1>>}

(* A retry by hand replaces the newest rows; its copies inherit the flag of    *)
(* rows the decider had tolerated.                                            *)
LEMMA RetryTidy ==
  ASSUME NEW d \in Good, NEW e \in Good, Tidy(d),
         \A t \in RetriableRows(d) : t[2] < MaxAttempt,
         NEW I \in SUBSET Copies(d),
         \A u \in I : \E t \in RetriableRows(d) \cap d.executed : u = <<t[1], t[2] + 1>>,
         \A t \in TaskId : e.status[t] = IF t \in Copies(d) THEN "SCHEDULED" ELSE d.status[t],
         e.keys = d.keys \cup Copies(d),
         e.executed = d.executed \cup RetriableRows(d) \cup I,
         e.retried = d.retried \cup RetriableRows(d)
  PROVE  Tidy(e) /\ Rows(e) = Rows(d) \cup Copies(d)
<1> DEFINE R == RetriableRows(d)
           F == Copies(d)
<1>0. /\ F = {u \in TaskId : \E t \in R : u = <<t[1], t[2] + 1>>}
      /\ \A t \in TaskId : e.status[t] = IF t \in F THEN "SCHEDULED" ELSE d.status[t]
      /\ I \in SUBSET F
  BY DEF Copies
<1>20. F \in SUBSET TaskId /\ e.keys = d.keys \cup F
  BY DEF Copies
<1> HIDE DEF F
<1>1. ASSUME NEW t \in R
      PROVE  /\ t \in Rows(d) /\ t \in LatestOf(d, t[1]) /\ d.status[t] # "SKIPPED"
             /\ d.status[t] \in Unsettled
             /\ t \in TaskId /\ t[1] \in Ref /\ t[2] \in Nat /\ t = <<t[1], t[2]>>
             /\ <<t[1], t[2] + 1>> \in F
  <2>1. t \in Rows(d) /\ t \in LatestOf(d, t[1]) /\ d.status[t] \in Unsettled /\ t \in TaskId
    BY DEF RetriableRows, Unsettled, TaskStatuses, Rows
  <2>2. t[1] \in Ref /\ t[2] \in Nat /\ t = <<t[1], t[2]>> /\ t[2] + 1 \in 0..MaxAttempt
    BY <2>1, TaskIdType, SizeAssumption
  <2>3. <<t[1], t[2] + 1>> \in TaskId
    BY <2>2 DEF TaskId
  <2> QED
    BY <1>0, <2>1, <2>2, <2>3 DEF Unsettled
<1>2. ASSUME NEW u \in F
      PROVE  \E t \in R : u = <<t[1], t[2] + 1>>
  BY <1>0
<1>3. ASSUME NEW u \in F PROVE Follows(R, u)
  BY <1>2 DEF Follows
<1> HIDE DEF R
<1>4. F \cap Rows(d) = {}
  <2> SUFFICES ASSUME NEW u \in F, u \in Rows(d) PROVE FALSE
    OBVIOUS
  <2>1. PICK t \in R : u[1] = t[1] /\ u[2] = t[2] + 1
    BY <1>3 DEF Follows
  <2>2. u[2] <= t[2] /\ t[2] \in Nat
    BY <1>1, <2>1 DEF LatestOf, RowsOf
  <2> QED
    BY <2>1, <2>2
<1>5. Rows(e) = Rows(d) \cup F
  BY <1>0, <1>4, <1>20 DEF Rows, None
<1>6. \A t \in F : e.status[t] = "SCHEDULED"
  BY <1>0, <1>20
<1>7. \A t \in Rows(d) : t \in TaskId /\ e.status[t] = d.status[t]
  BY <1>0, <1>4 DEF Rows
<1>8. d.retried \subseteq Rows(d) /\ d.executed \subseteq Rows(d)
  BY GoodStatus
<1>9. e.executed = d.executed \cup R \cup I /\ e.retried = d.retried \cup R
  BY DEF R
<1>10. ASSUME NEW t \in e.executed \ e.retried
       PROVE  \/ t \in d.executed \ d.retried
              \/ t \in F /\ \E v \in R \cap (d.executed \ d.retried) : t[1] = v[1]
  <2>1. CASE t \in d.executed \ d.retried
    BY <2>1
  <2>2. CASE t \in I
    <3>1. PICK v \in R \cap d.executed : t = <<v[1], v[2] + 1>>
      BY <2>2 DEF R
    <3>2. v \notin d.retried
      <4> SUFFICES ASSUME v \in d.retried PROVE FALSE
        OBVIOUS
      <4>1. PICK u \in Rows(d) : u[1] = v[1] /\ v[2] < u[2]
        BY DEF Tidy, Superseded
      <4>2. u[2] <= v[2] /\ v[2] \in Nat /\ u[2] \in Nat
        BY <1>1, <3>1, <4>1, TaskIdType DEF LatestOf, RowsOf, Rows
      <4> QED
        BY <4>1, <4>2
    <3> QED
      BY <1>0, <2>2, <3>1, <3>2
  <2> QED
    BY <1>9, <2>1, <2>2
<1>11. Judged(e)
  <2> SUFFICES ASSUME NEW t \in e.executed \ e.retried
               PROVE  e.status[t] \notin Unsettled \/ t[1] \in Optional \cup Permissive
    BY DEF Judged
  <2>1. CASE t \in d.executed \ d.retried
    BY <1>7, <1>8, <2>1 DEF Tidy, Judged
  <2>2. CASE t \in F /\ \E v \in R \cap (d.executed \ d.retried) : t[1] = v[1]
    BY <1>1, <2>2 DEF Tidy, Judged
  <2> QED
    BY <1>10, <2>1, <2>2
<1>12. ASSUME NEW p \in Ref PROVE IsSkipped(e, p) <=> IsSkipped(d, p)
  BY <1>5, <1>6, <1>7 DEF IsSkipped, RowsOf
<1>13. \A p : NextRef(e, p) = NextRef(d, p)
  BY <1>12 DEF NextRef
<1>14. \A p : RowsOf(d, p) \subseteq RowsOf(e, p)
  BY <1>5 DEF RowsOf
<1>15. Followed(e)
  <2> SUFFICES ASSUME NEW t \in e.executed \ e.retried, NEW q \in NextRef(d, t[1])
               PROVE  RowsOf(d, q) # {}
    BY <1>13, <1>14 DEF Followed
  <2>1. \E v \in d.executed \ d.retried : v[1] = t[1]
    BY <1>10
  <2> QED
    BY <2>1 DEF Tidy, Followed
<1>16. \A t \in R : <<t[1], t[2] + 1>> \in Rows(d) \cup F
  BY <1>1
<1>17. \A t \in Rows(d) : e.status[t] = "SKIPPED" <=> d.status[t] = "SKIPPED"
  BY <1>7
<1>18. \A t \in F : e.status[t] # "SKIPPED"
  BY <1>6
<1>19. Tidy(e)
  <2>1. \A t \in R : t \in Rows(d) /\ t \in LatestOf(d, t[1]) /\ d.status[t] # "SKIPPED"
                     /\ <<t[1], t[2] + 1>> \in Rows(d) \cup F
    BY <1>1
  <2>2. \A u \in F : (Opens(d, u) /\ ~ IsSkipped(d, u[1])) \/ Follows(R, u)
    BY <1>3
  <2> QED
    BY <1>4, <1>5, <1>9, <1>11, <1>15, <1>17, <1>18, <1>20, <2>1, <2>2, InsertTidy
<1> QED
  BY <1>5, <1>19 DEF F

(***************************************************************************)
(* When the decider finds nothing to do.                                   *)
(***************************************************************************)

(* Every task is over, none ends the workflow and none is proposed: then every *)
(* task of the definition has run.                                            *)
LEMMA NothingIsLeft ==
  ASSUME NEW d \in Good, NEW late, Tidy(d), NoRetryTimeout,
         Live(d) = {}, Halting(d, late) = {}, New(d, late) = {}
  PROVE  Complete(d, late)
<1>1. \A t \in Rows(d) : d.status[t] \in TerminalTask /\ StatusNow(d, late, t) = d.status[t]
  BY StatusIsNow DEF Live, Rows
<1>3. \A t \in Rows(d) : t \in TaskId /\ t[1] \in Ref /\ t[2] \in Nat /\ t = <<t[1], t[2]>>
  BY TaskIdType DEF Rows
<1>2. ASSUME NEW r, NEW u \in FirstAttempts(d, r) PROVE u \notin Rows(d)
  <2>1. PICK q \in NextRef(d, r) : u = <<q, 0>> /\ RowsOf(d, q) \subseteq Live(d) \ d.executed
    BY <1>2 DEF FirstAttempts
  <2> QED
    BY <2>1 DEF RowsOf
<1>4. ASSUME NEW t \in Retryable(d, late) PROVE FALSE
  <2> DEFINE u == <<t[1], t[2] + 1>>
  <2>1. u \in NextAttempts(d, late) /\ u[1] = t[1] /\ u[2] = t[2] + 1
    BY <1>4, NextAttemptType
  <2> HIDE DEF u
  <2>2. u \in Rows(d)
    BY <2>1 DEF New, Proposals
  <2>3. t \in Rows(d) /\ t \in LatestOf(d, t[1])
    BY <1>4, VisitedRows, PendingIsLatest
  <2>4. u[2] <= t[2] /\ t[2] \in Nat
    BY <1>3, <2>1, <2>2, <2>3 DEF LatestOf, RowsOf
  <2> QED
    BY <2>1, <2>4
<1>5. Proposals(d, late) = {}
  <2> SUFFICES ASSUME NEW u \in Proposals(d, late) PROVE FALSE
    OBVIOUS
  <2>1. u \in Rows(d)
    BY DEF New
  <2>2. u \notin NextAttempts(d, late)
    BY <1>4 DEF NextAttempts
  <2>3. u \notin StartProposals(d)
    BY <1>2, <2>1 DEF StartProposals
  <2>4. u \notin UNION {FirstAttempts(d, t[1]) : t \in Done(d, late)}
    BY <1>2, <2>1
  <2> QED
    BY <2>2, <2>3, <2>4 DEF Proposals
<1>6. \A t \in Rows(d) : StatusAfter(d, late, t) \in TerminalTask
  BY <1>1, Statuses DEF StatusAfter
<1>7. ASSUME NEW q \in Ref, RowsOf(d, q) = {}, NEW r, q \in NextRef(d, r)
      PROVE  <<q, 0>> \in FirstAttempts(d, r)
  BY <1>7 DEF FirstAttempts
<1>8. ASSUME NEW q0 \in Ref, RowsOf(d, q0) = {} PROVE FALSE
  <2> DEFINE T == {p \in Ref : RowsOf(d, p) = {}}
  <2>1. Ref \subseteq Nat /\ \A p \in Ref : 0 < p /\ p <= N
    BY SizeAssumption DEF Ref
  <2>2. PICK q \in Ref : RowsOf(d, q) = {} /\ \A p \in T : q <= p
    <3>1. T \in SUBSET Nat /\ T # {}
      BY <1>8, <2>1
    <3> HIDE DEF T
    <3>2. PICK q \in T : \A p \in T : q <= p
      BY <3>1, LeastExists
    <3> QED
      BY <3>2 DEF T
  <2>3. \A p \in Ref : p < q => RowsOf(d, p) # {}
    BY <2>1, <2>2
  <2>4. ~ IsSkipped(d, q)
    BY <2>2 DEF IsSkipped
  <2> DEFINE S == {p \in Ref : p < q /\ ~ IsSkipped(d, p)}
  <2>5. CASE S = {}
    <3>1. \A p \in Ref : p < q => IsSkipped(d, p)
      BY <2>5
    <3>2. q \in NextRef(d, 0)
      BY <2>1, <2>4, <3>1 DEF NextRef
    <3>3. ASSUME NEW t \in Rows(d) PROVE d.status[t] = "SKIPPED"
      <4> SUFFICES ASSUME d.status[t] # "SKIPPED" PROVE FALSE
        OBVIOUS
      <4>1. t[1] \in Ref /\ t[1] # q
        BY <1>3, <2>2 DEF RowsOf
      <4>2. ~ (q < t[1])
        BY <2>2 DEF Tidy, Preceded
      <4>3. IsSkipped(d, t[1])
        BY <2>1, <3>1, <4>1, <4>2
      <4>4. PICK u \in Rows(d) : u[1] = t[1] /\ d.status[u] = "SKIPPED"
        BY <4>3 DEF IsSkipped, RowsOf
      <4> QED
        BY <4>4 DEF Tidy, SkippedOnce
    <3>4. <<q, 0>> \in StartProposals(d)
      BY <1>7, <2>2, <3>2, <3>3 DEF StartProposals
    <3> QED
      BY <1>5, <3>4 DEF Proposals
  <2>6. CASE S # {}
    <3>1. PICK p \in S : \A r \in S : r <= p
      <4>1. S \in SUBSET (0..N) /\ N \in Nat
        <5>1. \A r \in Ref : r \in 0..N
          BY <2>1, SizeAssumption
        <5> QED
          BY <5>1, SizeAssumption
      <4> HIDE DEF S
      <4> QED
        BY <2>6, <4>1, GreatestExists
    <3>2. p \in Ref /\ p < q /\ ~ IsSkipped(d, p)
      BY <3>1
    <3>3. \A r \in Ref : p < r /\ r < q => IsSkipped(d, r)
      BY <2>1, <3>1, <3>2
    <3>4. q \in NextRef(d, p)
      BY <2>4, <3>2, <3>3 DEF NextRef
    <3>5. PICK t \in LatestOf(d, p) : TRUE
      BY <2>3, <3>2, LatestExists
    <3>6. t \in Rows(d) /\ t[1] = p /\ d.status[t] # "SKIPPED"
      BY <3>2, <3>5 DEF LatestOf, RowsOf, IsSkipped
    <3>7. t \notin d.retried
      <4> SUFFICES ASSUME t \in d.retried PROVE FALSE
        OBVIOUS
      <4>1. PICK u \in Rows(d) : u[1] = t[1] /\ t[2] < u[2]
        BY DEF Tidy, Superseded
      <4>2. u[2] <= t[2]
        BY <3>5, <3>6, <4>1 DEF LatestOf, RowsOf
      <4> QED
        BY <1>3, <3>6, <4>1, <4>2
    <3>8. t \notin d.executed
      BY <2>2, <3>4, <3>6, <3>7 DEF Tidy, Followed
    <3>9. t \in Done(d, late)
      BY <1>1, <1>4, <3>6, <3>7, <3>8 DEF Done, Pending, IsPending, Rows
    <3>10. <<q, 0>> \in Proposals(d, late)
      BY <1>7, <2>2, <3>4, <3>6, <3>9 DEF Proposals
    <3> QED
      BY <1>5, <3>10
  <2> QED
    BY <2>5, <2>6
<1> QED
  BY <1>5, <1>6, <1>8 DEF Complete

(* What a complete workflow without permissive failures amounts to.            *)
AllPassed(d) ==
  \A r \in Ref : /\ RowsOf(d, r) # {}
                 /\ \A t \in LatestOf(d, r) :
                      /\ d.status[t] \in TerminalTask
                      /\ d.status[t] \in SuccessfulTask \/ r \in Optional

LEMMA CompleteIsPassed ==
  ASSUME NEW d \in Good, NEW late, Tidy(d), NoRetryTimeout,
         Halting(d, late) = {}, Complete(d, late), ~ FailedPermissively(d, late)
  PROVE  AllPassed(d)
<1> SUFFICES ASSUME NEW r \in Ref, NEW t \in LatestOf(d, r), d.status[t] \notin SuccessfulTask
             PROVE  r \in Optional
  BY CompleteIsSettled DEF AllPassed, Complete, Live, LatestOf, RowsOf
<1>1. t \in Rows(d) /\ t \in TaskId /\ t[1] = r /\ \A u \in RowsOf(d, r) : u[2] <= t[2]
  BY DEF LatestOf, RowsOf, Rows
<1>2. d.status[t] \in UnsuccessfulTask /\ d.status[t] \in Unsettled /\ d.status[t] # "SKIPPED"
  BY <1>1, CompleteIsSettled
     DEF Live, UnsuccessfulTask, Unsettled, SuccessfulTask, TerminalTask
<1>3. StatusNow(d, late, t) = d.status[t]
  BY <1>1, StatusIsNow
<1>4. t \notin d.retried
  <2> SUFFICES ASSUME t \in d.retried PROVE FALSE
    OBVIOUS
  <2>1. PICK u \in Rows(d) : u[1] = t[1] /\ t[2] < u[2]
    BY DEF Tidy, Superseded
  <2>2. u[2] <= t[2] /\ u[2] \in Nat /\ t[2] \in Nat
    BY <1>1, <2>1, TaskIdType DEF RowsOf, Rows
  <2> QED
    BY <2>1, <2>2
<1>5. r \in Optional \cup Permissive
  <2>1. CASE t \in d.executed
    BY <1>1, <1>2, <1>4, <2>1 DEF Tidy, Judged
  <2>2. CASE t \notin d.executed
    <3>1. t \in Unsuccessful(d, late)
      BY <1>1, <1>2, <1>3, <1>4, <2>2 DEF Unsuccessful, Pending, IsPending, Rows
    <3>2. t \notin Retryable(d, late)
      BY NextAttemptType DEF Complete, Proposals
    <3> QED
      BY <1>1, <3>1, <3>2 DEF Halting, Tolerated
  <2> QED
    BY <2>1, <2>2
<1>6. ~ (r \in Permissive \ Optional)
  <2> SUFFICES ASSUME r \in Permissive \ Optional PROVE FALSE
    OBVIOUS
  <2>1. t \notin Rewritten(d, late)
    BY <1>1 DEF Rewritten
  <2> QED
    BY <1>2, <1>3, <2>1 DEF FailedPermissively, StatusAfter
<1> QED
  BY <1>5, <1>6

(***************************************************************************)
(* Databases between two operations.                                       *)
(***************************************************************************)

(* A task has a message as long as it is open.                                *)
Queued(d) == \A t \in TaskId : d.msg[t] # "absent" <=> t \in Live(d)

Finished(d) == d.wf = "COMPLETED" => AllPassed(d)

(* A restart lists the ended workflow as open.                                *)
Listed(d) ==
  "restart" \notin Admin =>
    /\ d.wf \in {"RUNNING", "PAUSED"} => d.pending = TRUE
    /\ d.wf \notin {"RUNNING", "PAUSED"} => d.pending = FALSE

Calm == {d \in Good : Tidy(d) /\ Queued(d) /\ Finished(d) /\ Listed(d)}

(* Nothing is handed out.                                                     *)
Onward(d) == {e \in Calm : \A t \in TaskId : e.msg[t] = "popped" => d.msg[t] = "popped"}

LEMMA OnwardItself ==
  ASSUME NEW d \in Calm
  PROVE  d \in Onward(d) /\ d \in Good
BY DEF Onward, Calm

LEMMA OnwardOn ==
  ASSUME NEW d, NEW e \in Onward(d)
  PROVE  Onward(e) \subseteq Onward(d) /\ e \in Calm /\ e \in Good
BY DEF Onward, Calm

(* What the writes leave alone.                                               *)
SameTable(d, e) ==
  e.status = d.status /\ e.keys = d.keys /\ e.executed = d.executed /\ e.retried = d.retried

LEMMA WorkflowFields ==
  ASSUME NEW d \in Good, NEW s
  PROVE  /\ SameTable(d, SetWorkflow(d, s)) /\ SetWorkflow(d, s).msg = d.msg
         /\ SetWorkflow(d, s).wf = s /\ SetWorkflow(d, s).decider = d.decider
         /\ SetWorkflow(d, s).pending = d.pending
BY DEF Good, Database, SameTable, SetWorkflow

LEMMA PendingFields ==
  ASSUME NEW d \in Good
  PROVE  /\ SameTable(d, SetPending(d)) /\ SetPending(d).msg = d.msg
         /\ SetPending(d).wf = d.wf /\ SetPending(d).decider = d.decider
         /\ d.wf \in {"RUNNING", "PAUSED"} => SetPending(d).pending = TRUE
         /\ d.wf \notin {"RUNNING", "PAUSED"} => SetPending(d).pending = FALSE
<1> DEFINE v == d.wf \in {"RUNNING", "PAUSED"}
           e == SetPending(d)
<1>1. SameTable(d, e) /\ e.msg = d.msg /\ e.wf = d.wf /\ e.decider = d.decider
  BY DEF Good, Database, SameTable, SetPending
<1>2. e = [d EXCEPT !.pending = v]
  BY DEF SetPending
<1> HIDE DEF e, v
<1>3. ASSUME v PROVE e.pending = TRUE
  <2>1. v = TRUE
    BY <1>3
  <2> QED
    BY <1>2, <2>1 DEF Good, Database
<1>4. ASSUME ~ v PROVE e.pending = FALSE
  <2>1. v = FALSE
    BY <1>4 DEF v
  <2> QED
    BY <1>2, <2>1 DEF Good, Database
<1> QED
  BY <1>1, <1>3, <1>4 DEF e, v

LEMMA UnlistedFields ==
  ASSUME NEW d \in Good
  PROVE  /\ SameTable(d, RemovePending(d)) /\ RemovePending(d).msg = d.msg
         /\ RemovePending(d).wf = d.wf /\ RemovePending(d).decider = d.decider
         /\ RemovePending(d).pending = FALSE
BY DEF Good, Database, SameTable, RemovePending

LEMMA DeciderFields ==
  ASSUME NEW d \in Good, NEW m
  PROVE  /\ SameTable(d, SetDecider(d, m)) /\ SetDecider(d, m).msg = d.msg
         /\ SetDecider(d, m).wf = d.wf /\ SetDecider(d, m).decider = m
         /\ SetDecider(d, m).pending = d.pending
BY DEF Good, Database, SameTable, SetDecider

LEMMA QueueFields ==
  ASSUME NEW d \in Good, NEW T
  PROVE  /\ SameTable(d, Push(d, T)) /\ Push(d, T).msg = Put(d.msg, T, "ready")
         /\ Push(d, T).wf = d.wf /\ Push(d, T).decider = d.decider
         /\ Push(d, T).pending = d.pending
         /\ SameTable(d, Remove(d, T)) /\ Remove(d, T).msg = Put(d.msg, T, "absent")
         /\ Remove(d, T).wf = d.wf /\ Remove(d, T).decider = d.decider
         /\ Remove(d, T).pending = d.pending
BY DEF Good, Database, SameTable, Push, Remove

LEMMA StatusFields ==
  ASSUME NEW d \in Good, NEW T, NEW s
  PROVE  /\ SetStatus(d, T, s).keys = d.keys /\ SetStatus(d, T, s).executed = d.executed
         /\ SetStatus(d, T, s).retried = d.retried /\ SetStatus(d, T, s).msg = d.msg
         /\ SetStatus(d, T, s).wf = d.wf /\ SetStatus(d, T, s).decider = d.decider
         /\ SetStatus(d, T, s).pending = d.pending
BY DEF Good, Database, SetStatus

(* Writes that leave the task table and the messages alone.                   *)
LEMMA FlagsCalm ==
  ASSUME NEW d \in Calm, NEW e \in Good, SameTable(d, e), e.msg = d.msg,
         e.wf = "COMPLETED" => d.wf = "COMPLETED", Listed(e)
  PROVE  e \in Onward(d) /\ Live(e) = Live(d) /\ Rows(e) = Rows(d)
<1>0. d \in Good /\ Tidy(d) /\ Queued(d) /\ Finished(d)
  BY DEF Calm
<1>1. Tidy(e) /\ Rows(e) = Rows(d)
  BY <1>0, RewriteTidy DEF SameTable
<1>2. Live(e) = Live(d)
  BY <1>1 DEF Live, SameTable
<1>3. Queued(e)
  BY <1>0, <1>2 DEF Queued
<1>4. Finished(e)
  BY <1>0, <1>1 DEF Finished, AllPassed, LatestOf, RowsOf, SameTable
<1> QED
  BY <1>1, <1>2, <1>3, <1>4 DEF Calm, Onward

LEMMA FinalJoins ==
  ASSUME NEW p \in Path, NEW q \in Path
  PROVE  Final(p \o q) = Final(q) /\ Final(q) \in Good
<1>1. p \in Seq(Good) /\ q \in Seq(Good) /\ q # << >>
  BY DEF Path
<1>2. Len(q) \in Nat /\ Len(p) \in Nat /\ Len(q) > 0 /\ Len(p \o q) = Len(p) + Len(q)
  BY <1>1, ConcatProperties
<1>3. (p \o q)[Len(p) + Len(q)] = q[Len(p) + Len(q) - Len(p)]
  BY <1>1, <1>2, ConcatProperties
<1> QED
  BY <1>2, <1>3, PathEnds DEF Final

(***************************************************************************)
(* The operations.                                                         *)
(***************************************************************************)

LEMMA TerminateCalm ==
  ASSUME NEW d \in Calm, NoRetryTimeout, NEW own \in SUBSET Live(d),
         NEW s \in TerminalWorkflow \ {"COMPLETED"}
  PROVE  /\ Final(Terminate(d, own, {}, s)) \in Onward(d)
         /\ Final(Terminate(d, own, {}, s)).wf = s
<1> DEFINE saved    == SetStatus(d, own, "TIMED_OUT")
           canceled == SetStatus(saved, Live(saved) \ {}, "CANCELED")
           unqueued == SetDecider(canceled, "absent")
           ended    == SetWorkflow(unqueued, s)
           settled  == SetPending(ended)
           removed  == Remove(settled, Rows(settled))
           last     == RemovePending(removed)
           path     == <<saved, canceled, unqueued, ended, settled, removed, last>>
<1>0. /\ d \in Good /\ own \in SUBSET Rows(d) /\ s \in WorkflowStatuses
      /\ {"TIMED_OUT", "CANCELED"} \subseteq TerminalTask /\ TerminalTask \subseteq TaskStatuses
      /\ Tidy(d) /\ Queued(d)
  BY DEF Live, TerminalTask, TaskStatuses, TerminalWorkflow, Calm
<1>1. path \in Path
  BY <1>0, TerminatePath DEF Terminate
<1>2. Terminate(d, own, {}, s) = path
  BY DEF Terminate
<1>3. Final(path) = last
  BY DEF Final
<1>4. /\ saved \in Good /\ canceled \in Good /\ unqueued \in Good /\ ended \in Good
      /\ settled \in Good /\ removed \in Good /\ last \in Good
  <2> HIDE DEF saved, canceled, unqueued, ended, settled, removed, last
  <2> QED
    BY <1>1 DEF Path
<1>5. /\ Live(saved) = Live(d) \ own /\ Rows(saved) = Rows(d)
      /\ \A t \in TaskId : saved.status[t] = IF t \in own THEN "TIMED_OUT" ELSE d.status[t]
  BY <1>0, SetFinalGood
<1>6. saved.keys = d.keys /\ saved.executed = d.executed /\ saved.retried = d.retried
      /\ saved.msg = d.msg
  BY <1>0, StatusFields
<1> HIDE DEF saved, path
<1>7. /\ Live(canceled) = {}
      /\ \A t \in TaskId : canceled.status[t] = IF t \in Live(saved) THEN "CANCELED" ELSE saved.status[t]
  <2> DEFINE T == Live(saved) \ {}
  <2>1. T = Live(saved) /\ T \subseteq Rows(saved)
    BY DEF Live
  <2> HIDE DEF T
  <2>2. /\ Live(SetStatus(saved, T, "CANCELED")) = Live(saved) \ T
        /\ \A t \in TaskId : SetStatus(saved, T, "CANCELED").status[t] =
             IF t \in T THEN "CANCELED" ELSE saved.status[t]
    BY <1>0, <1>4, <2>1, SetFinalGood
  <2> QED
    BY <2>1, <2>2 DEF T
<1>8. canceled.keys = d.keys /\ canceled.executed = d.executed /\ canceled.retried = d.retried
      /\ canceled.msg = d.msg
  BY <1>4, <1>6, StatusFields
<1> HIDE DEF canceled
<1>9. SameTable(canceled, unqueued) /\ unqueued.msg = canceled.msg
  BY <1>4, DeciderFields
<1> HIDE DEF unqueued
<1>10. SameTable(unqueued, ended) /\ ended.msg = unqueued.msg /\ ended.wf = s
  BY <1>4, WorkflowFields
<1> HIDE DEF ended
<1>11. SameTable(ended, settled) /\ settled.msg = ended.msg /\ settled.wf = s
  BY <1>4, <1>10, PendingFields
<1> HIDE DEF settled
<1>12. /\ SameTable(settled, removed) /\ removed.msg = Put(settled.msg, Rows(settled), "absent")
       /\ removed.wf = s
  BY <1>4, <1>11, QueueFields
<1> HIDE DEF removed
<1>13. SameTable(removed, last) /\ last.msg = removed.msg /\ last.wf = s /\ last.pending = FALSE
  BY <1>4, <1>12, UnlistedFields
<1> HIDE DEF last
<1>14. SameTable(canceled, last) /\ settled.status = last.status
  BY <1>9, <1>10, <1>11, <1>12, <1>13 DEF SameTable
<1>15. Rows(settled) = Rows(last) /\ Live(last) = {}
  BY <1>7, <1>14 DEF Rows, Live, SameTable
<1>16. \A t \in TaskId : last.msg[t] = IF t \in Rows(last) THEN "absent" ELSE d.msg[t]
  BY <1>8, <1>9, <1>10, <1>11, <1>12, <1>13, <1>15 DEF Put
<1>17. Tidy(last) /\ Rows(last) = Rows(d)
  <2>1. \A t \in Live(d) : t \in TaskId /\ d.status[t] \in Unsettled
    BY <1>0, LiveIsUnsettled
  <2>2. ASSUME NEW t \in TaskId
        PROVE  \/ last.status[t] = d.status[t]
               \/ d.status[t] \in Unsettled /\ last.status[t] \in TaskStatuses \ {"SKIPPED"}
    <3>1. last.status[t] = canceled.status[t]
      BY <1>14 DEF SameTable
    <3>2. \/ last.status[t] = d.status[t]
          \/ t \in Live(d) /\ last.status[t] \in {"TIMED_OUT", "CANCELED"}
      BY <1>5, <1>7, <3>1
    <3> QED
      BY <1>0, <2>1, <3>2
  <2>3. last.keys = d.keys /\ last.executed = d.executed /\ last.retried = d.retried
    BY <1>8, <1>14 DEF SameTable
  <2> QED
    BY <1>0, <1>4, <2>2, <2>3, RewriteTidy
<1>18. Queued(last)
  BY <1>0, <1>15, <1>16, <1>17 DEF Queued, Live
<1>19. Finished(last) /\ Listed(last)
  BY <1>13 DEF Finished, Listed, TerminalWorkflow
<1>20. last \in Onward(d)
  BY <1>4, <1>16, <1>17, <1>18, <1>19 DEF Onward, Calm
<1> QED
  BY <1>2, <1>3, <1>13, <1>20

LEMMA CompleteCalm ==
  ASSUME NEW d \in Calm, Live(d) = {}, AllPassed(d)
  PROVE  /\ Final(CompleteWorkflow(d)) \in Onward(d)
         /\ Final(CompleteWorkflow(d)).wf = "COMPLETED"
<1> DEFINE ended   == SetWorkflow(d, "COMPLETED")
           settled == SetPending(ended)
           last    == SetDecider(settled, "absent")
<1>0. d \in Good /\ Tidy(d) /\ Queued(d)
  BY DEF Calm
<1>1. CompleteWorkflow(d) = <<ended, settled, last>> /\ Final(<<ended, settled, last>>) = last
  BY DEF CompleteWorkflow, Final
<1>2. ended \in Good
  BY <1>0, SetWorkflowGood DEF WorkflowStatuses
<1>3. SameTable(d, ended) /\ ended.msg = d.msg /\ ended.wf = "COMPLETED"
  BY <1>0, WorkflowFields
<1> HIDE DEF ended
<1>4. settled \in Good
  BY <1>2, FlagsGood DEF Message
<1>5. /\ SameTable(ended, settled) /\ settled.msg = d.msg /\ settled.wf = "COMPLETED"
      /\ settled.pending = FALSE
  BY <1>2, <1>3, PendingFields
<1> HIDE DEF settled
<1>6. last \in Good
  BY <1>4, FlagsGood DEF Message
<1>7. /\ SameTable(settled, last) /\ last.msg = d.msg /\ last.wf = "COMPLETED"
      /\ last.pending = FALSE
  BY <1>4, <1>5, DeciderFields
<1> HIDE DEF last
<1>8. SameTable(d, last)
  BY <1>3, <1>5, <1>7 DEF SameTable
<1>9. Tidy(last) /\ Rows(last) = Rows(d)
  BY <1>0, <1>6, <1>8, RewriteTidy DEF SameTable
<1>10. Live(last) = Live(d)
  BY <1>8, <1>9 DEF Live, SameTable
<1>11. Queued(last)
  BY <1>0, <1>7, <1>10 DEF Queued
<1>12. Finished(last) /\ Listed(last)
  BY <1>7, <1>8, <1>9 DEF Finished, Listed, AllPassed, LatestOf, RowsOf, SameTable
<1>13. last \in Onward(d)
  BY <1>6, <1>7, <1>9, <1>11, <1>12 DEF Onward, Calm
<1> QED
  BY <1>1, <1>7, <1>13

LEMMA AdvanceCalm ==
  ASSUME NEW d \in Calm, NEW late, NoRetryTimeout, d.wf = "RUNNING",
         Halting(d, late) = {}, ~ Complete(d, late)
  PROVE  /\ Final(Advance(d, late)) \in Onward(d)
         /\ Live(Final(Advance(d, late))) # {}
<1> DEFINE new       == New(d, late)
           fresh     == new \ d.keys
           finished  == Done(d, late) \cup Retryable(d, late)
           keyed     == InsertKeys(d, new)
           inserted  == InsertRows(keyed, fresh)
           pushed    == Push(inserted, new)
           late1     == TimedOut(d, late)
           late2     == Rewritten(d, late)
           settled   == SetStatus(SetStatus(pushed, late1, "TIMED_OUT"), late2,
                                  "COMPLETED_WITH_ERRORS")
           processed == [settled EXCEPT !.executed = d.executed \cup Done(d, late),
                                        !.retried = d.retried \cup Retryable(d, late)]
           last      == SetPending(processed)
           path      == <<keyed, inserted, pushed, processed, last>>
<1>0. d \in Good /\ Tidy(d) /\ Queued(d)
  BY DEF Calm
<1>1. Advance(d, late) = IF new \cup finished = {} THEN <<d>> ELSE path
  BY DEF Advance
<1>2. Live(d) # {} \/ new # {}
  BY <1>0, NothingIsLeft
<1>3. CASE new \cup finished = {}
  <2>1. Final(Advance(d, late)) = d
    BY <1>1, <1>3 DEF Final
  <2> QED
    BY <1>2, <1>3, <2>1, OnwardItself
<1>4. CASE new \cup finished # {}
  <2>1. path \in Path
    BY <1>0, <1>1, <1>4, AdvancePath
  <2>2. /\ keyed \in Good /\ inserted \in Good /\ pushed \in Good /\ processed \in Good
        /\ last \in Good
    <3> HIDE DEF keyed, inserted, pushed, processed, last
    <3> QED
      BY <2>1 DEF Path
  <2>3. Final(Advance(d, late)) = last
    BY <1>1, <1>4 DEF Final
  <2>4. /\ fresh = new /\ new \in SUBSET TaskId /\ new \cap Rows(d) = {}
        /\ late1 = {} /\ late2 \subseteq Rows(d)
    BY <1>0, NewType, VisitedRows DEF Tidy
  <2>5. /\ keyed.status = d.status /\ keyed.msg = d.msg /\ keyed.wf = d.wf
        /\ keyed.keys = d.keys \cup new
    BY <1>0 DEF InsertKeys, Good, Database
  <2>6. /\ \A t \in TaskId : inserted.status[t] = IF t \in new THEN "SCHEDULED" ELSE d.status[t]
        /\ inserted.msg = d.msg /\ inserted.wf = d.wf /\ inserted.keys = d.keys \cup new
    BY <2>2, <2>4, <2>5 DEF InsertRows, Put, Good, Database
  <2>7. /\ pushed.status = inserted.status /\ pushed.msg = Put(d.msg, new, "ready")
        /\ pushed.wf = d.wf /\ pushed.keys = d.keys \cup new
    <3> HIDE DEF keyed, inserted, new, fresh
    <3> QED
      BY <2>2, <2>6, QueueFields DEF SameTable
  <2>8. /\ \A t \in TaskId : settled.status[t] =
             IF t \in late2 THEN "COMPLETED_WITH_ERRORS" ELSE pushed.status[t]
        /\ settled.msg = pushed.msg /\ settled.wf = pushed.wf /\ settled.keys = pushed.keys
    BY <2>2, <2>4 DEF SetStatus, Put, Good, Database
  <2>9. /\ processed.status = settled.status /\ processed.msg = settled.msg
        /\ processed.wf = settled.wf /\ processed.keys = settled.keys
        /\ processed.executed = d.executed \cup Done(d, late)
        /\ processed.retried = d.retried \cup Retryable(d, late)
    BY <2>2 DEF SetStatus, Good, Database
  <2>10. /\ SameTable(processed, last) /\ last.msg = processed.msg /\ last.wf = processed.wf
         /\ processed.wf \in {"RUNNING", "PAUSED"} => last.pending = TRUE
    BY <2>2, PendingFields
  <2> HIDE DEF keyed, inserted, pushed, processed, settled, new, fresh, last, late1
  <2>11. /\ \A t \in TaskId : last.status[t] =
              IF t \in new THEN "SCHEDULED"
              ELSE IF t \in late2 THEN "COMPLETED_WITH_ERRORS" ELSE d.status[t]
         /\ last.keys = d.keys \cup new
         /\ last.executed = d.executed \cup Done(d, late)
         /\ last.retried = d.retried \cup Retryable(d, late)
         /\ last.wf = "RUNNING" /\ last.pending = TRUE
         /\ last.msg = Put(d.msg, new, "ready")
    BY <2>4, <2>6, <2>7, <2>8, <2>9, <2>10 DEF SameTable
  <2>12. Tidy(last) /\ Rows(last) = Rows(d) \cup new
    BY <1>0, <2>2, <2>11, AdvanceTidy DEF new
  <2>13. Live(last) = Live(d) \cup new
    <3>1. \A t \in late2 : t \in TaskId /\ t \notin Live(d)
      <4>1. ASSUME NEW t \in late2 PROVE t \in TaskId /\ t \notin Live(d)
        <5>1. t \in Rows(d) /\ t \in TaskId /\ StatusNow(d, late, t) \in UnsuccessfulTask
          BY <1>0, <2>4 DEF Rewritten, Tolerated, Unsuccessful, Rows
        <5> QED
          BY <1>0, <5>1, StatusIsNow, Statuses DEF Live
      <4> QED
        BY <4>1
    <3>2. "SCHEDULED" \notin TerminalTask /\ "COMPLETED_WITH_ERRORS" \in TerminalTask
      BY DEF TerminalTask, TaskStatuses
    <3>3. \A t \in Rows(d) : t \in TaskId /\ t \notin new
      BY <2>4 DEF Rows
    <3> QED
      BY <2>4, <2>11, <2>12, <3>1, <3>2, <3>3 DEF Live
  <2>14. \A t \in TaskId : last.msg[t] = IF t \in new THEN "ready" ELSE d.msg[t]
    BY <2>11 DEF Put
  <2>15. Queued(last)
    BY <1>0, <2>13, <2>14 DEF Queued
  <2>16. Finished(last) /\ Listed(last)
    BY <2>11 DEF Finished, Listed
  <2>17. last \in Onward(d)
    BY <2>2, <2>12, <2>14, <2>15, <2>16 DEF Onward, Calm
  <2> QED
    BY <1>2, <2>3, <2>13, <2>17
<1> QED
  BY <1>3, <1>4

LEMMA EvaluateCalm ==
  ASSUME NEW d \in Calm, NEW late, NoRetryTimeout, d.wf = "RUNNING"
  PROVE  /\ Final(Evaluate(d, late)) \in Onward(d)
         /\ Final(Evaluate(d, late)).wf = "RUNNING" => Live(Final(Evaluate(d, late))) # {}
<1>0. d \in Good /\ Tidy(d) /\ "RUNNING" \notin TerminalWorkflow
  BY DEF Calm, TerminalWorkflow
<1>1. CASE Halting(d, late) # {}
  <2> DEFINE first == FirstHalting(d, late)
             own   == Overdue(d, late) \cap {first}
             s     == HaltStatus(d, first)
  <2>1. own \in SUBSET Live(d)
    BY <1>0, LateIsLive
  <2>2. VisitedTimedOut(d, late) = {}
    BY <1>0, VisitedRows DEF VisitedTimedOut
  <2>3. s \in TerminalWorkflow \ {"COMPLETED"}
    BY DEF HaltStatus, TerminalWorkflow, WorkflowStatuses
  <2>4. Evaluate(d, late) = Terminate(d, own, {}, s)
    BY <1>1, <2>2 DEF Evaluate
  <2> HIDE DEF own, s
  <2> QED
    BY <1>0, <2>1, <2>3, <2>4, TerminateCalm
<1>2. CASE Halting(d, late) = {} /\ Complete(d, late) /\ FailedPermissively(d, late)
  <2>1. TimedOut(d, late) = {}
    BY <1>0, VisitedRows
  <2>2. Evaluate(d, late) = Terminate(d, {}, {}, "FAILED")
    BY <1>2, <2>1 DEF Evaluate
  <2>3. "FAILED" \in TerminalWorkflow \ {"COMPLETED"}
    BY DEF TerminalWorkflow, WorkflowStatuses
  <2> QED
    BY <1>0, <2>2, <2>3, TerminateCalm
<1>3. CASE Halting(d, late) = {} /\ Complete(d, late) /\ ~ FailedPermissively(d, late)
  <2>1. Evaluate(d, late) = CompleteWorkflow(d)
    BY <1>3 DEF Evaluate
  <2>2. Live(d) = {} /\ AllPassed(d)
    BY <1>0, <1>3, CompleteIsSettled, CompleteIsPassed
  <2> QED
    BY <2>1, <2>2, CompleteCalm
<1>4. CASE Halting(d, late) = {} /\ ~ Complete(d, late)
  <2>1. Evaluate(d, late) = Advance(d, late)
    BY <1>4 DEF Evaluate
  <2> QED
    BY <1>4, <2>1, AdvanceCalm
<1> QED
  BY <1>1, <1>2, <1>3, <1>4

(* After a decision a RUNNING workflow has an open task.                      *)
LEMMA DecideCalm ==
  ASSUME NEW d \in Calm, NEW late, NEW expired \in BOOLEAN, NoRetryTimeout
  PROVE  /\ Final(Decide(d, late, expired)) \in Onward(d)
         /\ Final(Decide(d, late, expired)).wf = "RUNNING" =>
              Live(Final(Decide(d, late, expired))) # {}
<1>0. d \in Good /\ Tidy(d) /\ Queued(d) /\ Listed(d) /\ Finished(d)
  BY DEF Calm
<1>1. CASE d.wf \in TerminalWorkflow \ SuccessfulWorkflow
  <2> DEFINE T        == Live(d)
             canceled == SetStatus(d, T, "CANCELED")
             last     == SetDecider(canceled, "absent")
  <2>1. Live(d) = {}
    BY <1>0, <1>1 DEF Good, Settled
  <2>2. Decide(d, late, expired) = <<canceled, last>> /\ Final(<<canceled, last>>) = last
    BY <1>1 DEF Decide, Final, TerminalWorkflow
  <2> HIDE DEF T
  <2>3. /\ canceled \in Good
        /\ \A t \in TaskId : canceled.status[t] = IF t \in T THEN "CANCELED" ELSE d.status[t]
    BY <1>0, <2>1, SetFinalGood DEF T, TerminalTask, TaskStatuses
  <2>4. /\ canceled.keys = d.keys /\ canceled.executed = d.executed
        /\ canceled.retried = d.retried /\ canceled.msg = d.msg /\ canceled.wf = d.wf
        /\ canceled.pending = d.pending
    BY <1>0, StatusFields
  <2> HIDE DEF canceled
  <2>5. SameTable(d, canceled)
    <3>1. canceled.status \in [TaskId -> TaskStatuses \cup {None}]
          /\ d.status \in [TaskId -> TaskStatuses \cup {None}]
      BY <1>0, <2>3 DEF Good, Database
    <3>2. canceled.status = d.status
      BY <2>1, <2>3, <3>1 DEF T
    <3> QED
      BY <2>4, <3>2 DEF SameTable
  <2>6. last \in Good
    BY <2>3, FlagsGood DEF Message
  <2>7. SameTable(canceled, last) /\ last.msg = canceled.msg /\ last.wf = canceled.wf
        /\ last.pending = canceled.pending
    BY <2>3, DeciderFields
  <2> HIDE DEF last
  <2>8. SameTable(d, last) /\ last.msg = d.msg /\ last.wf = d.wf /\ last.pending = d.pending
    BY <2>4, <2>5, <2>7 DEF SameTable
  <2>9. Listed(last)
    BY <1>0, <2>8 DEF Listed
  <2>10. last \in Onward(d)
    BY <2>6, <2>8, <2>9, FlagsCalm
  <2> QED
    BY <1>1, <2>2, <2>8, <2>10 DEF TerminalWorkflow
<1>2. CASE d.wf \in {"RUNNING", "PAUSED"} /\ expired
  <2>1. Decide(d, late, expired) = Terminate(d, {}, {}, "TIMED_OUT")
    BY <1>2 DEF Decide, TerminalWorkflow
  <2>2. "TIMED_OUT" \in TerminalWorkflow \ {"COMPLETED"} /\ "RUNNING" \notin TerminalWorkflow
    BY DEF TerminalWorkflow, WorkflowStatuses
  <2> QED
    BY <2>1, <2>2, TerminateCalm
<1>3. CASE d.wf = "RUNNING" /\ ~ expired
  <2>1. Decide(d, late, expired) = Evaluate(d, late)
    BY <1>3 DEF Decide, TerminalWorkflow
  <2> QED
    BY <1>3, <2>1, EvaluateCalm
<1>4. CASE /\ d.wf \notin TerminalWorkflow \ SuccessfulWorkflow
           /\ ~ (d.wf \in {"RUNNING", "PAUSED"} /\ expired)
           /\ ~ (d.wf = "RUNNING" /\ ~ expired)
  <2>1. Decide(d, late, expired) = <<d>> /\ Final(<<d>>) = d
    BY <1>4 DEF Decide, Final
  <2> QED
    BY <1>4, <2>1, OnwardItself
<1> QED
  BY <1>1, <1>2, <1>3, <1>4

(* A RUNNING workflow waits for the sweeper or for an open task.               *)
Moves(d) == d.wf = "RUNNING" => d.decider = "ready" \/ Live(d) # {}

(* Where an operation may end that began in d.                                *)
Ends(d) == {e \in Onward(d) : Moves(e)}

(* Writes that keep the rows and, of the flags, at most clear executed.         *)
LEMMA TableCalm ==
  ASSUME NEW d \in Calm, NEW e \in Good,
         e.status = d.status, e.keys = d.keys, e.executed \subseteq d.executed,
         e.retried = d.retried,
         \A t \in TaskId : (e.msg[t] # "absent" <=> t \in Live(d)),
         \A t \in TaskId : e.msg[t] = "popped" => d.msg[t] = "popped",
         e.wf = "COMPLETED" => d.wf = "COMPLETED", Listed(e)
  PROVE  e \in Onward(d) /\ Live(e) = Live(d)
<1>0. d \in Good /\ Tidy(d) /\ Finished(d)
  BY DEF Calm
<1>1. Tidy(e) /\ Rows(e) = Rows(d)
  BY <1>0, RewriteTidy
<1>2. Live(e) = Live(d)
  BY <1>1 DEF Live
<1>3. Queued(e)
  BY <1>2 DEF Queued
<1>4. Finished(e)
  BY <1>0, <1>1 DEF Finished, AllPassed, LatestOf, RowsOf
<1> QED
  BY <1>1, <1>2, <1>3, <1>4 DEF Calm, Onward

(* The operations that decide in the end.                                     *)
LEMMA DecideEnds ==
  ASSUME NEW d, NEW e \in Onward(d), NEW p \in Path, NEW late, NEW expired \in BOOLEAN,
         NoRetryTimeout
  PROVE  Final(p \o Decide(e, late, expired)) \in Ends(d)
<1> DEFINE q == Decide(e, late, expired)
<1>1. e \in Calm /\ e \in Good /\ Onward(e) \subseteq Onward(d)
  BY OnwardOn
<1>2. q \in Path
  BY <1>1, DecidePath
<1>3. Final(q) \in Onward(e) /\ (Final(q).wf = "RUNNING" => Live(Final(q)) # {})
  BY <1>1, DecideCalm
<1> HIDE DEF q
<1>4. Final(p \o q) = Final(q)
  BY <1>2, FinalJoins
<1> QED
  BY <1>1, <1>3, <1>4 DEF Ends, Moves, q

LEMMA StartEnds ==
  ASSUME NEW d \in Calm, NoRetryTimeout
  PROVE  Final(StartWorkflow(d)) \in Ends(d)
<1> DEFINE created == SetWorkflow(d, "RUNNING")
           listed  == SetPending(created)
<1>0. d \in Good
  BY DEF Calm
<1>1. created \in Good
  BY <1>0, SetWorkflowGood DEF WorkflowStatuses, TerminalWorkflow
<1>2. SameTable(d, created) /\ created.msg = d.msg /\ created.wf = "RUNNING"
  BY <1>0, WorkflowFields
<1> HIDE DEF created
<1>3. listed \in Good
  BY <1>1, FlagsGood DEF Message
<1>4. /\ SameTable(created, listed) /\ listed.msg = created.msg /\ listed.wf = "RUNNING"
      /\ listed.pending = TRUE
  BY <1>1, <1>2, PendingFields
<1> HIDE DEF listed
<1>5. SameTable(d, listed) /\ Listed(listed)
  BY <1>2, <1>4 DEF SameTable, Listed
<1>6. listed \in Onward(d)
  BY <1>2, <1>3, <1>4, <1>5, FlagsCalm
<1>7. <<created, listed>> \in Path
  BY <1>1, <1>3 DEF Path
<1>8. StartWorkflow(d) = <<created, listed>> \o Decide(listed, {}, FALSE)
  BY DEF StartWorkflow, created, listed
<1> QED
  BY <1>6, <1>7, <1>8, DecideEnds

LEMMA PauseEnds ==
  ASSUME NEW d \in Calm
  PROVE  Final(PauseWorkflow(d)) \in Ends(d)
<1> DEFINE paused == SetWorkflow(d, "PAUSED")
           listed == SetPending(paused)
           last   == SetDecider(listed, "absent")
<1>0. d \in Good
  BY DEF Calm
<1>1. paused \in Good
  BY <1>0, SetWorkflowGood DEF WorkflowStatuses, TerminalWorkflow
<1>2. SameTable(d, paused) /\ paused.msg = d.msg /\ paused.wf = "PAUSED"
  BY <1>0, WorkflowFields
<1> HIDE DEF paused
<1>3. listed \in Good
  BY <1>1, FlagsGood DEF Message
<1>4. /\ SameTable(paused, listed) /\ listed.msg = d.msg /\ listed.wf = "PAUSED"
      /\ listed.pending = TRUE
  BY <1>1, <1>2, PendingFields
<1> HIDE DEF listed
<1>5. last \in Good
  BY <1>3, FlagsGood DEF Message
<1>6. /\ SameTable(listed, last) /\ last.msg = d.msg /\ last.wf = "PAUSED"
      /\ last.pending = TRUE
  BY <1>3, <1>4, DeciderFields
<1>9. Final(PauseWorkflow(d)) = last
  BY DEF PauseWorkflow, Final, listed, paused
<1> HIDE DEF last
<1>7. SameTable(d, last) /\ Listed(last)
  BY <1>2, <1>4, <1>6 DEF SameTable, Listed
<1>8. last \in Onward(d)
  BY <1>5, <1>6, <1>7, FlagsCalm
<1> QED
  BY <1>6, <1>8, <1>9 DEF Ends, Moves

(* What resume and retry begin with.                                          *)
LEMMA ReopenCalm ==
  ASSUME NEW d \in Calm
  PROVE  /\ Final(Reopen(d)) \in Onward(d)
         /\ SameTable(d, Final(Reopen(d))) /\ Final(Reopen(d)).msg = d.msg
         /\ Final(Reopen(d)).wf = "RUNNING" /\ Final(Reopen(d)).decider = "ready"
         /\ Final(Reopen(d)).pending = TRUE
<1> DEFINE queued == SetDecider(d, "ready")
           opened == SetWorkflow(queued, "RUNNING")
           listed == SetPending(opened)
<1>0. d \in Good
  BY DEF Calm
<1>1. queued \in Good
  BY <1>0, FlagsGood DEF Message
<1>2. SameTable(d, queued) /\ queued.msg = d.msg /\ queued.decider = "ready"
  BY <1>0, DeciderFields
<1> HIDE DEF queued
<1>3. opened \in Good
  BY <1>1, SetWorkflowGood DEF WorkflowStatuses, TerminalWorkflow
<1>4. /\ SameTable(queued, opened) /\ opened.msg = d.msg /\ opened.wf = "RUNNING"
      /\ opened.decider = "ready"
  BY <1>1, <1>2, WorkflowFields
<1> HIDE DEF opened
<1>5. listed \in Good
  BY <1>3, FlagsGood DEF Message
<1>6. /\ SameTable(opened, listed) /\ listed.msg = d.msg /\ listed.wf = "RUNNING"
      /\ listed.decider = "ready" /\ listed.pending = TRUE
  BY <1>3, <1>4, PendingFields
<1>9. Final(Reopen(d)) = listed
  BY DEF Reopen, Final, opened, queued
<1> HIDE DEF listed
<1>7. SameTable(d, listed) /\ Listed(listed)
  BY <1>2, <1>4, <1>6 DEF SameTable, Listed
<1>8. listed \in Onward(d)
  BY <1>5, <1>6, <1>7, FlagsCalm
<1> QED
  BY <1>6, <1>7, <1>8, <1>9

LEMMA ResumeEnds ==
  ASSUME NEW d \in Calm, NEW late, NoRetryTimeout
  PROVE  Final(ResumeWorkflow(d, late)) \in Ends(d)
<1>1. d \in Good /\ Final(Reopen(d)) \in Onward(d)
  BY ReopenCalm DEF Calm
<1>2. Reopen(d) \in Path
  BY <1>1, ReopenPath
<1> QED
  BY <1>1, <1>2, DecideEnds DEF ResumeWorkflow

LEMMA RestartEnds ==
  ASSUME NEW d \in Calm, "restart" \in Admin, NoRetryTimeout
  PROVE  Final(RestartWorkflow(d)) \in Ends(d)
<1> DEFINE listed == [d EXCEPT !.pending = TRUE]
<1>0. d \in Good
  BY DEF Calm
<1>1. listed \in Good
  BY <1>0, FlagsGood DEF Message
<1>2. SameTable(d, listed) /\ listed.msg = d.msg /\ listed.wf = d.wf
  BY <1>0 DEF SameTable, Good, Database
<1>3. RestartWorkflow(d) = <<listed>> \o Decide(listed, {}, FALSE)
  BY DEF RestartWorkflow
<1> HIDE DEF listed
<1>4. Listed(listed)
  BY DEF Listed
<1>5. listed \in Onward(d)
  BY <1>1, <1>2, <1>4, FlagsCalm
<1>6. <<listed>> \in Path
  BY <1>1 DEF Path
<1> QED
  BY <1>3, <1>5, <1>6, DecideEnds

LEMMA TerminateEnds ==
  ASSUME NEW d \in Calm, NoRetryTimeout
  PROVE  Final(Terminate(d, {}, {}, "TERMINATED")) \in Ends(d)
<1>1. "TERMINATED" \in TerminalWorkflow \ {"COMPLETED"}
  BY DEF TerminalWorkflow, WorkflowStatuses
<1>2. /\ Final(Terminate(d, {}, {}, "TERMINATED")) \in Onward(d)
      /\ Final(Terminate(d, {}, {}, "TERMINATED")).wf = "TERMINATED"
  BY <1>1, TerminateCalm
<1> QED
  BY <1>2 DEF Ends, Moves

(* A report that is dropped takes no message away: the row is not open.        *)
LEMMA DroppedEnds ==
  ASSUME NEW d \in Calm, Moves(d), NoRetryTimeout, NEW t \in Rows(d),
         d.status[t] \in TerminalTask \/ d.wf \in TerminalWorkflow
  PROVE  Remove(d, {t}) \in Ends(d)
<1> DEFINE last == Remove(d, {t})
<1>0. d \in Good /\ Queued(d) /\ Listed(d) /\ t \in TaskId
  BY DEF Calm, Rows
<1>1. t \notin Live(d)
  BY <1>0 DEF Good, Settled, Live
<1>2. last \in Good
  BY <1>0, QueueGood
<1>3. /\ SameTable(d, last) /\ last.msg = Put(d.msg, {t}, "absent") /\ last.wf = d.wf
      /\ last.decider = d.decider /\ last.pending = d.pending
  BY <1>0, QueueFields
<1> HIDE DEF last
<1>4. \A u \in TaskId : last.msg[u] = d.msg[u]
  BY <1>0, <1>1, <1>3 DEF Put, Queued
<1>5. Listed(last)
  BY <1>0, <1>3 DEF Listed
<1>6. last \in Onward(d) /\ Live(last) = Live(d)
  BY <1>0, <1>2, <1>3, <1>4, <1>5, TableCalm DEF Queued, SameTable
<1>7. Moves(last)
  BY <1>3, <1>6 DEF Moves
<1> QED
  BY <1>6, <1>7 DEF Ends, last

(* A result is saved together with the message's removal or return.            *)
LEMMA ReportCalm ==
  ASSUME NEW d \in Calm, NEW t \in Live(d), d.wf \notin TerminalWorkflow,
         NEW s \in TaskStatuses \ {"SKIPPED"}, s \in TerminalTask \/ s = "SCHEDULED",
         NEW e \in Good,
         \A u \in TaskId : e.status[u] = IF u = t THEN s ELSE d.status[u],
         e.keys = d.keys, e.executed = d.executed, e.retried = d.retried,
         e.wf = d.wf, e.pending = d.pending,
         \A u \in TaskId : e.msg[u] = IF u = t THEN IF s = "SCHEDULED" THEN "ready" ELSE "absent"
                                               ELSE d.msg[u]
  PROVE  e \in Onward(d)
<1>0. d \in Good /\ Tidy(d) /\ Queued(d) /\ Listed(d)
  BY DEF Calm
<1>1. t \in TaskId /\ d.status[t] \in Unsettled
  BY <1>0, LiveIsUnsettled
<1>2. Tidy(e) /\ Rows(e) = Rows(d)
  BY <1>0, <1>1, RewriteTidy
<1>3. Queued(e)
  <2> SUFFICES ASSUME NEW u \in TaskId PROVE (e.msg[u] # "absent" <=> u \in Live(e))
    BY DEF Queued
  <2>1. CASE u = t
    BY <1>1, <1>2, <2>1 DEF Live, TerminalTask, TaskStatuses
  <2>2. CASE u # t
    BY <1>0, <1>2, <2>2 DEF Queued, Live
  <2> QED
    BY <2>1, <2>2
<1>4. Finished(e) /\ Listed(e)
  BY <1>0 DEF Finished, Listed, TerminalWorkflow, WorkflowStatuses
<1>5. \A u \in TaskId : e.msg[u] = "popped" => d.msg[u] = "popped"
  OBVIOUS
<1> QED
  BY <1>2, <1>3, <1>4, <1>5 DEF Calm, Onward

LEMMA UpdateEnds ==
  ASSUME NEW d \in Calm, Moves(d), NoRetryTimeout, NEW t \in Rows(d), NEW result \in Results,
         NEW late, NEW expired \in BOOLEAN
  PROVE  Final(UpdateTask(d, t, result, late, expired)) \in Ends(d)
<1>0. d \in Good /\ Queued(d)
  BY DEF Calm
<1>1. CASE d.status[t] \in TerminalTask \/ d.wf \in TerminalWorkflow
  <2>1. UpdateTask(d, t, result, late, expired) = <<Remove(d, {t})>>
    BY <1>1 DEF UpdateTask
  <2>2. Remove(d, {t}) \in Ends(d)
    BY <1>1, DroppedEnds
  <2> QED
    BY <2>1, <2>2 DEF Final
<1>2. CASE d.status[t] \notin TerminalTask /\ d.wf \notin TerminalWorkflow
  <2> DEFINE s       == IF result = "IN_PROGRESS" THEN "SCHEDULED" ELSE result
             queued  == IF s = "SCHEDULED" THEN Postpone(d, t) ELSE Remove(d, {t})
             updated == SetStatus(queued, {t}, s)
  <2>1. /\ t \in TaskId /\ s \in TaskStatuses \ {"SKIPPED"} /\ t \in Live(d)
        /\ s \in TerminalTask \/ s = "SCHEDULED"
    BY <1>2, EngineAssumption DEF Rows, Live, TerminalTask, TaskStatuses
  <2> HIDE DEF s
  <2>2. queued \in Good
    BY <1>0, <2>1, QueueGood
  <2>3. /\ queued.status = d.status /\ queued.keys = d.keys /\ queued.wf = d.wf
        /\ queued.executed = d.executed /\ queued.retried = d.retried
        /\ queued.pending = d.pending
    BY <1>0 DEF Postpone, Remove, Good, Database
  <2>4. \A u \in TaskId : queued.msg[u] =
          IF u = t THEN IF s = "SCHEDULED" THEN "ready" ELSE "absent" ELSE d.msg[u]
    <3>1. CASE s = "SCHEDULED"
      <4>1. queued = Postpone(d, t) /\ d.msg[t] # "absent"
        BY <1>0, <2>1, <3>1 DEF Queued
      <4> QED
        BY <1>0, <2>1, <3>1, <4>1 DEF Postpone, Good, Database
    <3>2. CASE s # "SCHEDULED"
      <4>1. queued = Remove(d, {t})
        BY <3>2
      <4>2. queued.msg = Put(d.msg, {t}, "absent")
        BY <1>0, <4>1 DEF Remove, Good, Database
      <4> QED
        BY <3>2, <4>2 DEF Put
    <3> QED
      BY <3>1, <3>2
  <2> HIDE DEF queued
  <2>5. Writable(queued, {t}, s)
    BY <1>0, <1>2, <2>1, <2>3 DEF Writable, Good, Keyed, Budgeted, Processed, Marked
  <2>6. /\ updated \in Good
        /\ \A u \in TaskId : updated.status[u] = IF u = t THEN s ELSE d.status[u]
    <3> DEFINE T == {t}
    <3> HIDE DEF T
    <3>1. Writable(queued, T, s)
      BY <2>5 DEF T
    <3>2. /\ SetStatus(queued, T, s) \in Good
          /\ \A u \in TaskId : SetStatus(queued, T, s).status[u] =
               IF u \in T THEN s ELSE queued.status[u]
      BY <2>2, <3>1, SetStatusGood
    <3>3. \A u \in TaskId : queued.status[u] = d.status[u]
      BY <2>3
    <3> QED
      BY <3>2, <3>3 DEF T
  <2>7. /\ updated.keys = d.keys /\ updated.executed = d.executed /\ updated.retried = d.retried
        /\ updated.wf = d.wf /\ updated.pending = d.pending /\ updated.msg = queued.msg
    BY <2>2, <2>3, StatusFields
  <2> HIDE DEF updated
  <2>8. updated \in Onward(d)
    BY <1>2, <2>1, <2>4, <2>6, <2>7, ReportCalm
  <2>9. <<queued, updated>> \in Path
    BY <2>2, <2>6 DEF Path
  <2>10. UpdateTask(d, t, result, late, expired)
          = <<queued, updated>> \o Decide(updated, late, expired)
    BY <1>2 DEF UpdateTask, s, queued, updated
  <2> QED
    BY <2>8, <2>9, <2>10, DecideEnds
<1> QED
  BY <1>1, <1>2

(* What a sweep does after it has decided.                                    *)
LEMMA RepairCalm ==
  ASSUME NEW d \in Calm
  PROVE  Repair(d) \in Onward(d) /\ Live(Repair(d)) = Live(d) /\ Repair(d).wf = d.wf
<1> DEFINE T    == {t \in Live(d) : d.msg[t] # "ready"}
           last == Push(d, T)
<1>0. d \in Good /\ Queued(d) /\ Listed(d)
  BY DEF Calm
<1>1. Repair(d) = last
  BY DEF Repair
<1> HIDE DEF T
<1>2. last \in Good
  BY <1>0, QueueGood
<1>3. /\ SameTable(d, last) /\ last.msg = Put(d.msg, T, "ready") /\ last.wf = d.wf
      /\ last.pending = d.pending
  BY <1>0, QueueFields
<1> HIDE DEF last
<1>4. ASSUME NEW u \in TaskId PROVE (last.msg[u] # "absent" <=> u \in Live(d))
  BY <1>0, <1>3 DEF Put, T, Queued
<1>5. \A u \in TaskId : last.msg[u] = "popped" => d.msg[u] = "popped"
  BY <1>3 DEF Put
<1>6. Listed(last)
  BY <1>0, <1>3 DEF Listed
<1>7. last \in Onward(d) /\ Live(last) = Live(d)
  BY <1>0, <1>2, <1>3, <1>4, <1>5, <1>6, TableCalm DEF SameTable
<1> QED
  BY <1>1, <1>3, <1>7

LEMMA ForceCalm ==
  ASSUME NEW d \in Calm
  PROVE  SetPending(ForceLast(d)) \in Onward(d)
<1> DEFINE forced == ForceLast(d)
           last   == SetPending(forced)
<1>0. d \in Good /\ Queued(d) /\ Listed(d)
  BY DEF Calm
<1>1. forced \in Good
  BY <1>0, ForceLastGood
<1>2. /\ forced.status = d.status /\ forced.keys = d.keys /\ forced.executed \subseteq d.executed
      /\ forced.retried = d.retried /\ forced.msg = d.msg /\ forced.wf = d.wf
  BY <1>0 DEF ForceLast, Good, Database
<1> HIDE DEF forced
<1>3. last \in Good
  BY <1>1, FlagsGood DEF Message
<1>4. /\ SameTable(forced, last) /\ last.msg = d.msg /\ last.wf = d.wf
      /\ last.wf \in {"RUNNING", "PAUSED"} => last.pending = TRUE
      /\ last.wf \notin {"RUNNING", "PAUSED"} => last.pending = FALSE
  BY <1>1, <1>2, PendingFields
<1> HIDE DEF last
<1>5. Listed(last)
  BY <1>4 DEF Listed
<1>6. last \in Onward(d)
  BY <1>0, <1>2, <1>3, <1>4, <1>5, TableCalm DEF SameTable, Queued
<1> QED
  BY <1>6 DEF last, forced

LEMMA SweepEnds ==
  ASSUME NEW d \in Calm, NEW late, NEW expired \in BOOLEAN, NoRetryTimeout
  PROVE  Final(Sweep(d, late, expired)) \in Ends(d)
<1> DEFINE popped   == SetDecider(d, "popped")
           decided  == Decide(popped, late, expired)
           after    == Final(decided)
           repaired == IF Unchanged(popped, late) THEN Repair(after) ELSE after
           created  == IF popped.wf = "RUNNING" THEN New(popped, late) ELSE {}
           forced   == ForceLast(repaired)
           listed   == SetPending(forced)
           absent   == SetDecider(popped, "absent")
           ended    == SetDecider(after, "absent")
<1>0. d \in Good /\ Listed(d)
  BY DEF Calm
<1>1. /\ popped \in Good /\ SameTable(d, popped) /\ popped.msg = d.msg /\ popped.wf = d.wf
      /\ popped.pending = d.pending
  BY <1>0, FlagsGood, DeciderFields DEF Message
<1>2. popped \in Onward(d) /\ popped \in Calm
  <2>1. Listed(popped)
    BY <1>0, <1>1 DEF Listed
  <2>2. popped \in Onward(d)
    BY <1>1, <2>1, FlagsCalm
  <2> QED
    BY <2>2, OnwardOn
<1> HIDE DEF popped
<1>3. /\ absent \in Good /\ SameTable(popped, absent) /\ absent.msg = popped.msg
      /\ absent.wf = popped.wf /\ absent.pending = popped.pending
  BY <1>1, FlagsGood, DeciderFields DEF Message
<1>4. decided \in Path
  BY <1>1, DecidePath
<1>5. after \in Onward(popped) /\ (after.wf = "RUNNING" => Live(after) # {})
  BY <1>2, DecideCalm
<1> HIDE DEF decided
<1>6. after \in Onward(d) /\ after \in Calm /\ after \in Good /\ Listed(after)
  <2>1. after \in Onward(d)
    BY <1>2, <1>5, OnwardOn
  <2> QED
    BY <2>1 DEF Onward, Calm
<1> HIDE DEF after
<1>7. /\ ended \in Good /\ SameTable(after, ended) /\ ended.msg = after.msg
      /\ ended.wf = after.wf /\ ended.pending = after.pending
  BY <1>6, FlagsGood, DeciderFields DEF Message
<1>8. repaired \in Onward(d) /\ Live(repaired) = Live(after) /\ repaired.wf = after.wf
  BY <1>6, RepairCalm, OnwardOn
<1> HIDE DEF repaired
<1>9. listed \in Onward(d)
  BY <1>8, ForceCalm, OnwardOn
<1>10. repaired \in Good /\ forced \in Good /\ listed \in Good
  BY <1>8, <1>9, ForceLastGood DEF Onward, Calm
<1> HIDE DEF forced, listed, absent, ended, created
<1>11. /\ <<popped>> \in Path /\ <<ended>> \in Path /\ <<repaired>> \in Path
       /\ <<repaired, forced, listed>> \in Path
       /\ Final(<<popped, absent>>) = absent /\ Final(<<ended>>) = ended
       /\ Final(<<repaired>>) = repaired
  BY <1>1, <1>7, <1>10 DEF Path, Final
<1>12. <<popped>> \o decided \in Path
  BY <1>4, <1>11, PathJoins
<1>13. Sweep(d, late, expired) =
         CASE popped.wf \notin {"RUNNING", "PAUSED"} -> <<popped, absent>>
           [] popped.wf \in {"RUNNING", "PAUSED"} /\ after.wf \in TerminalWorkflow ->
                <<popped>> \o decided \o <<ended>>
           [] /\ popped.wf \in {"RUNNING", "PAUSED"} /\ after.wf \notin TerminalWorkflow
              /\ Live(after) \cup created # {} ->
                <<popped>> \o decided \o <<repaired>>
           [] OTHER ->
                <<popped>> \o decided \o <<repaired, forced, listed>>
                  \o Decide(listed, {}, FALSE)
  BY DEF Sweep, popped, decided, after, repaired, created, forced, listed, absent, ended
<1>14. CASE popped.wf \notin {"RUNNING", "PAUSED"}
  <2>1. Sweep(d, late, expired) = <<popped, absent>>
    BY <1>13, <1>14
  <2>2. Listed(absent)
    BY <1>0, <1>1, <1>3 DEF Listed
  <2>3. absent \in Onward(d) /\ absent.wf # "RUNNING"
    BY <1>2, <1>3, <1>14, <2>2, FlagsCalm, OnwardOn
  <2> QED
    BY <1>11, <2>1, <2>3 DEF Ends, Moves
<1>15. CASE popped.wf \in {"RUNNING", "PAUSED"} /\ after.wf \in TerminalWorkflow
  <2>1. Sweep(d, late, expired) = (<<popped>> \o decided) \o <<ended>>
    BY <1>13, <1>15
  <2>2. Listed(ended)
    BY <1>6, <1>7 DEF Listed
  <2>3. ended \in Onward(d) /\ ended.wf # "RUNNING"
    BY <1>6, <1>7, <1>15, <2>2, FlagsCalm, OnwardOn DEF TerminalWorkflow
  <2>4. Final(Sweep(d, late, expired)) = ended
    BY <1>11, <1>12, <2>1, FinalJoins
  <2> QED
    BY <2>3, <2>4 DEF Ends, Moves
<1>16. CASE /\ popped.wf \in {"RUNNING", "PAUSED"} /\ after.wf \notin TerminalWorkflow
            /\ Live(after) \cup created # {}
  <2>1. Sweep(d, late, expired) = (<<popped>> \o decided) \o <<repaired>>
    BY <1>13, <1>16
  <2>2. Final(Sweep(d, late, expired)) = repaired
    BY <1>11, <1>12, <2>1, FinalJoins
  <2> QED
    BY <1>5, <1>8, <2>2 DEF Ends, Moves
<1>17. CASE /\ popped.wf \in {"RUNNING", "PAUSED"} /\ after.wf \notin TerminalWorkflow
            /\ Live(after) \cup created = {}
  <2>1. Sweep(d, late, expired) =
          ((<<popped>> \o decided) \o <<repaired, forced, listed>>) \o Decide(listed, {}, FALSE)
    BY <1>13, <1>17
  <2>2. (<<popped>> \o decided) \o <<repaired, forced, listed>> \in Path
    BY <1>11, <1>12, PathJoins
  <2> QED
    BY <1>9, <2>1, <2>2, DecideEnds
<1> QED
  BY <1>14, <1>15, <1>16, <1>17

LEMMA SkipEnds ==
  ASSUME NEW d \in Calm, NEW r \in Ref, RowsOf(d, r) = {}, d.wf = "RUNNING",
         NEW late, NEW expired \in BOOLEAN, NoRetryTimeout
  PROVE  Final(SkipTask(d, r, late, expired)) \in Ends(d)
<1> DEFINE t       == <<r, 0>>
           keyed   == InsertKeys(d, {t})
           fresh   == {t} \ d.keys
           skipped == InsertSkipped(keyed, fresh)
<1>0. d \in Good /\ Tidy(d) /\ Queued(d) /\ Listed(d)
  BY DEF Calm
<1>1. t \in TaskId /\ t[1] = r /\ t[2] = 0 /\ 0 <= RetryLimit[r]
  BY SizeAssumption, DefinitionAssumption DEF TaskId
<1>2. t \notin Rows(d)
  BY <1>1 DEF RowsOf
<1>3. fresh = {t}
  BY <1>0, <1>2 DEF Tidy
<1> HIDE DEF fresh
<1>4. keyed \in Good
  BY <1>0, <1>1, InsertKeysGood
<1>5. /\ keyed.status = d.status /\ keyed.keys = d.keys \cup {t} /\ keyed.executed = d.executed
      /\ keyed.retried = d.retried /\ keyed.msg = d.msg /\ keyed.wf = d.wf
      /\ keyed.pending = d.pending /\ Rows(keyed) = Rows(d)
  BY <1>0 DEF InsertKeys, Rows, Good, Database
<1>6. /\ fresh \in SUBSET keyed.keys /\ fresh \cap Rows(keyed) = {}
      /\ "retry" \notin Admin => \A u \in fresh : u[2] <= RetryLimit[u[1]]
  BY <1>1, <1>2, <1>3, <1>5
<1>10. SkipTask(d, r, late, expired) = <<keyed, skipped>> \o Decide(skipped, late, expired)
  BY DEF SkipTask, keyed, skipped, fresh, t
<1> HIDE DEF keyed, t
<1>7. skipped \in Good
  BY <1>4, <1>6, InsertRowsGood
<1>8. /\ skipped.keys = keyed.keys /\ skipped.executed = keyed.executed
      /\ skipped.retried = keyed.retried /\ skipped.msg = keyed.msg /\ skipped.wf = keyed.wf
      /\ skipped.pending = keyed.pending
      /\ \A u \in TaskId : skipped.status[u] = IF u = t THEN "SKIPPED" ELSE d.status[u]
  BY <1>3, <1>4, <1>5 DEF InsertSkipped, Put, Good, Database
<1> HIDE DEF skipped
<1>9. skipped \in Onward(d)
  <2>1. Tidy(skipped)
    BY <1>0, <1>5, <1>7, <1>8, SkipTidy DEF t
  <2>2. Live(skipped) = Live(d)
    BY <1>2, <1>8, Statuses DEF Live, Rows
  <2>3. Queued(skipped)
    BY <1>0, <1>5, <1>8, <2>2 DEF Queued
  <2>4. Finished(skipped) /\ Listed(skipped)
    BY <1>0, <1>5, <1>8 DEF Finished, Listed
  <2> QED
    BY <1>5, <1>7, <1>8, <2>1, <2>3, <2>4 DEF Onward, Calm
<1>11. <<keyed, skipped>> \in Path
  BY <1>4, <1>7 DEF Path
<1> QED
  BY <1>9, <1>10, <1>11, DecideEnds

LEMMA RetryEnds ==
  ASSUME NEW d \in Calm, "retry" \in Admin, NoRetryTimeout, d.wf \in TerminalWorkflow,
         \A t \in RetriableRows(d) : t[2] < MaxAttempt
  PROVE  Final(RetryWorkflow(d)) \in Ends(d)
<1> DEFINE failed    == RetriableRows(d)
           new       == Copies(d)
           fresh     == new \ d.keys
           inherited == {u \in fresh : \E t \in failed \cap d.executed : u = <<t[1], t[2] + 1>>}
           opened    == Final(Reopen(d))
           replaced  == [opened EXCEPT !.executed = d.executed \cup failed,
                                       !.retried  = d.retried \cup failed]
           keyed     == InsertKeys(replaced, new)
           copied    == InsertRows(keyed, fresh)
           inserted  == [copied EXCEPT !.executed = keyed.executed \cup inherited]
           pushed    == Push(inserted, new)
           rest      == <<replaced, keyed, inserted, pushed>>
<1>0. d \in Good /\ Tidy(d) /\ Queued(d) /\ Live(d) = {}
  BY DEF Calm, Good, Settled
<1>1. RetryWorkflow(d) = Reopen(d) \o rest
  BY DEF RetryWorkflow, Copies
<1>2. RetryWorkflow(d) \in Path /\ Reopen(d) \in Path
  BY <1>0, RetryPath, ReopenPath
<1>3. /\ rest \in Path
      /\ replaced \in Good /\ keyed \in Good /\ inserted \in Good /\ pushed \in Good
  <2> HIDE DEF replaced, keyed, inserted, pushed
  <2>1. rest \in Seq({replaced, keyed, inserted, pushed}) /\ rest # << >>
    OBVIOUS
  <2>2. rest \in Path
    <3> HIDE DEF rest
    <3> QED
      BY <1>1, <1>2, <2>1, PathRest
  <2> QED
    BY <2>2 DEF Path
<1>4. Final(RetryWorkflow(d)) = pushed
  <2>1. Final(rest) = pushed
    BY DEF Final
  <2> HIDE DEF rest
  <2> QED
    BY <1>1, <1>2, <1>3, <2>1, FinalJoins
<1>5. /\ opened \in Good /\ SameTable(d, opened) /\ opened.msg = d.msg
      /\ opened.wf = "RUNNING" /\ opened.decider = "ready" /\ opened.pending = TRUE
  BY <1>0, ReopenCalm, OnwardOn
<1> HIDE DEF opened, rest
<1>6. /\ replaced.status = d.status /\ replaced.keys = d.keys
      /\ replaced.executed = d.executed \cup failed /\ replaced.retried = d.retried \cup failed
      /\ replaced.msg = d.msg /\ replaced.wf = "RUNNING" /\ replaced.decider = "ready"
      /\ replaced.pending = TRUE
  BY <1>5 DEF Good, Database, SameTable
<1> HIDE DEF replaced, failed
<1>7. /\ keyed.status = d.status /\ keyed.keys = d.keys \cup new
      /\ keyed.executed = d.executed \cup failed /\ keyed.retried = d.retried \cup failed
      /\ keyed.msg = d.msg /\ keyed.wf = "RUNNING" /\ keyed.decider = "ready"
      /\ keyed.pending = TRUE
  BY <1>3, <1>6 DEF InsertKeys, Good, Database
<1>8. fresh = new
  <2>1. ASSUME NEW u \in Copies(d) PROVE u \notin d.keys
    <3>1. PICK t \in failed : u = <<t[1], t[2] + 1>>
      BY <2>1 DEF Copies, failed
    <3>2. t \in TaskId /\ t[2] \in Nat /\ t \in LatestOf(d, t[1])
      BY TaskIdType DEF failed, RetriableRows, Rows
    <3>3. u \notin Rows(d)
      BY <3>1, <3>2 DEF LatestOf, RowsOf
    <3> QED
      BY <1>0, <3>3 DEF Tidy
  <2> QED
    BY <2>1
<1>9. new \in SUBSET TaskId /\ inherited \in SUBSET new
  BY DEF Copies
<1> HIDE DEF keyed, fresh, inherited
<1>10. /\ \A t \in TaskId : copied.status[t] = IF t \in new THEN "SCHEDULED" ELSE d.status[t]
       /\ copied.keys = d.keys \cup new /\ copied.retried = d.retried \cup failed
       /\ copied.msg = d.msg /\ copied.wf = "RUNNING" /\ copied.decider = "ready"
       /\ copied.pending = TRUE
       /\ inserted = [copied EXCEPT !.executed = (d.executed \cup failed) \cup inherited]
  BY <1>3, <1>7, <1>8 DEF InsertRows, Put, Good, Database
<1>11. /\ inserted.status = copied.status /\ inserted.keys = d.keys \cup new
       /\ inserted.executed = d.executed \cup failed \cup inherited
       /\ inserted.retried = d.retried \cup failed
       /\ inserted.msg = d.msg /\ inserted.wf = "RUNNING" /\ inserted.decider = "ready"
       /\ inserted.pending = TRUE
  BY <1>3, <1>10 DEF InsertRows, Good, Database
<1> HIDE DEF copied, inserted
<1>12. /\ pushed.status = copied.status /\ pushed.keys = d.keys \cup new
       /\ pushed.executed = d.executed \cup failed \cup inherited
       /\ pushed.retried = d.retried \cup failed
       /\ pushed.msg = Put(d.msg, new, "ready") /\ pushed.wf = "RUNNING"
       /\ pushed.decider = "ready" /\ pushed.pending = TRUE
  BY <1>3, <1>11, QueueFields DEF SameTable
<1> HIDE DEF pushed
<1>13. Tidy(pushed) /\ Rows(pushed) = Rows(d) \cup new
  <2>1. \A u \in inherited : \E t \in RetriableRows(d) \cap d.executed : u = <<t[1], t[2] + 1>>
    BY DEF inherited, failed
  <2>2. \A t \in TaskId : pushed.status[t] = IF t \in new THEN "SCHEDULED" ELSE d.status[t]
    BY <1>10, <1>12
  <2>3. /\ pushed.executed = d.executed \cup RetriableRows(d) \cup inherited
        /\ pushed.retried = d.retried \cup RetriableRows(d)
    BY <1>12 DEF failed
  <2>4. pushed \in Good /\ d \in Good /\ Tidy(d) /\ pushed.keys = d.keys \cup new
    BY <1>0, <1>3, <1>12
  <2> QED
    BY <1>9, <2>1, <2>2, <2>3, <2>4, RetryTidy
<1> HIDE DEF new
<1>14. Live(pushed) = new
  <2>1. \A t \in TaskId : pushed.status[t] = IF t \in new THEN "SCHEDULED" ELSE d.status[t]
    BY <1>10, <1>12
  <2>2. "SCHEDULED" \notin TerminalTask
    BY DEF TerminalTask
  <2>3. ASSUME NEW t \in Rows(d) \ new PROVE pushed.status[t] \in TerminalTask
    BY <1>0, <2>1 DEF Live, Rows
  <2> QED
    BY <1>9, <1>13, <2>1, <2>2, <2>3 DEF Live
<1>15. \A t \in TaskId : pushed.msg[t] = IF t \in new THEN "ready" ELSE d.msg[t]
  BY <1>12 DEF Put
<1>16. Queued(pushed)
  BY <1>0, <1>14, <1>15 DEF Queued
<1>17. Finished(pushed) /\ Listed(pushed)
  BY <1>12 DEF Finished, Listed
<1>18. pushed \in Onward(d)
  BY <1>3, <1>13, <1>15, <1>16, <1>17 DEF Onward, Calm
<1> QED
  BY <1>4, <1>12, <1>18 DEF Ends, Moves

(***************************************************************************)
(* The inductive invariant.                                                *)
(***************************************************************************)

QInv ==
  /\ IInv
  /\ db \in Calm
  /\ Moves(db)
  /\ \A t \in TaskId : db.msg[t] = "popped" => t \in taken \cup held

(* A server that does not die ends what it begins.                            *)
LEMMA CommitEnds ==
  ASSUME QInv, Quiet, NEW p, Final(p) \in Ends(db), Commit(p)
  PROVE  db' \in Ends(db) /\ taken' = taken
<1>1. ~ (crashes < MaxCrashes)
  BY DEF QInv, IInv, Quiet
<1> QED
  BY <1>1 DEF Commit

LEMMA RequestEnds ==
  ASSUME QInv, Quiet, AdminRequest
  PROVE  db' \in Ends(db) /\ taken' = taken /\ held' = held
<1>0. db \in Calm /\ NoRetryTimeout /\ "RUNNING" \notin TerminalWorkflow
  BY DEF QInv, Quiet, TerminalWorkflow
<1>1. CASE TerminateRequest
  <2>1. Commit(Terminate(db, {}, {}, "TERMINATED"))
    BY <1>1 DEF TerminateRequest
  <2> QED
    BY <1>0, <1>1, <2>1, TerminateEnds, CommitEnds DEF TerminateRequest
<1>2. CASE PauseRequest
  <2>1. Commit(PauseWorkflow(db))
    BY <1>2 DEF PauseRequest
  <2> QED
    BY <1>0, <1>2, <2>1, PauseEnds, CommitEnds DEF PauseRequest
<1>3. CASE ResumeRequest
  <2>1. PICK late \in CanBeLate : Commit(ResumeWorkflow(db, late))
    BY <1>3 DEF ResumeRequest
  <2> QED
    BY <1>0, <1>3, <2>1, ResumeEnds, CommitEnds DEF ResumeRequest
<1>4. CASE RetryRequest
  <2>1. /\ Commit(RetryWorkflow(db)) /\ db.wf \in TerminalWorkflow /\ "retry" \in Admin
        /\ \A t \in RetriableRows(db) : t[2] < MaxAttempt
    BY <1>4 DEF RetryRequest
  <2>2. Final(RetryWorkflow(db)) \in Ends(db)
    BY <1>0, <2>1, RetryEnds
  <2> QED
    BY <1>4, <2>1, <2>2, CommitEnds DEF RetryRequest
<1>5. CASE RerunRequest
  BY <1>5 DEF RerunRequest, Quiet
<1>6. CASE RestartRequest
  <2>1. Commit(RestartWorkflow(db)) /\ "restart" \in Admin
    BY <1>6 DEF RestartRequest
  <2> QED
    BY <1>0, <1>6, <2>1, RestartEnds, CommitEnds DEF RestartRequest
<1>7. CASE \E r \in Ref : SkipRequest(r)
  <2>1. PICK r \in Ref : SkipRequest(r)
    BY <1>7
  <2>2. PICK late \in CanBeLate, expired \in CanExpire :
          Commit(SkipTask(db, r, late, expired))
    BY <2>1 DEF SkipRequest
  <2>3. RowsOf(db, r) = {} /\ db.wf = "RUNNING" /\ expired \in BOOLEAN
    BY <2>1, TimeType DEF SkipRequest
  <2>4. Final(SkipTask(db, r, late, expired)) \in Ends(db)
    BY <1>0, <2>3, SkipEnds
  <2> QED
    BY <2>1, <2>2, <2>4, CommitEnds DEF SkipRequest
<1> QED
  BY <1>1, <1>2, <1>3, <1>4, <1>5, <1>6, <1>7 DEF AdminRequest

(* A poll pops the message of one row, which is open then.                     *)
LEMMA PopCalm ==
  ASSUME QInv, NEW t \in TaskId, Pop(t)
  PROVE  /\ db' \in Calm /\ Moves(db') /\ held' = held /\ taken' = taken \cup {t}
         /\ \A u \in TaskId : db'.msg[u] = IF u = t THEN "popped" ELSE db.msg[u]
<1>0. db \in Calm /\ db \in Good /\ Queued(db) /\ Tidy(db) /\ Listed(db) /\ Finished(db)
      /\ Moves(db)
  BY DEF QInv, Calm
<1>1. db.msg[t] = "ready" /\ db' = [db EXCEPT !.msg[t] = "popped"]
      /\ held' = held /\ taken' = taken \cup {t}
  BY DEF Pop
<1>2. t \in Live(db) /\ t \in Rows(db)
  BY <1>0, <1>1 DEF Queued, Live
<1>3. /\ db'.status = db.status /\ db'.keys = db.keys /\ db'.executed = db.executed
      /\ db'.retried = db.retried /\ db'.wf = db.wf /\ db'.pending = db.pending
      /\ db'.decider = db.decider
      /\ \A u \in TaskId : db'.msg[u] = IF u = t THEN "popped" ELSE db.msg[u]
  BY <1>0, <1>1 DEF Good, Database
<1>4. db' \in Good
  <2>1. db' \in Database
    BY <1>0, <1>1 DEF Good, Database, Message
  <2> QED
    BY <1>0, <1>3, <2>1, SameRows
<1>5. Tidy(db') /\ Rows(db') = Rows(db)
  BY <1>0, <1>3, <1>4, RewriteTidy
<1>6. Live(db') = Live(db)
  BY <1>3, <1>5 DEF Live
<1>7. Queued(db') /\ Moves(db')
  BY <1>0, <1>2, <1>3, <1>6 DEF Queued, Moves
<1>8. Finished(db') /\ Listed(db')
  BY <1>0, <1>3, <1>5 DEF Finished, Listed, AllPassed, LatestOf, RowsOf
<1> QED
  BY <1>1, <1>2, <1>3, <1>4, <1>5, <1>7, <1>8 DEF Calm

LEMMA StepCalm ==
  ASSUME QInv, Quiet, [Next]_vars
  PROVE  QInv'
<1>0. db \in Calm /\ Moves(db) /\ NoRetryTimeout /\ db \in Good
  BY DEF QInv, Quiet, Calm
<1>1. IInv'
  BY StepGood DEF QInv
<1>2. ASSUME db' \in Ends(db), taken' = taken, held' = held PROVE QInv'
  <2>1. db' \in Calm /\ Moves(db')
    BY <1>2 DEF Ends, Onward
  <2>2. \A t \in TaskId : db'.msg[t] = "popped" => t \in taken' \cup held'
    BY <1>2 DEF Ends, Onward, QInv
  <2> QED
    BY <1>1, <2>1, <2>2 DEF QInv
<1>3. CASE Start
  <2>1. Commit(StartWorkflow(db)) /\ held' = held
    BY <1>3 DEF Start
  <2> QED
    BY <1>0, <1>2, <2>1, StartEnds, CommitEnds
<1>4. ASSUME NEW t \in TaskId, Pop(t) PROVE QInv'
  <2>1. /\ db' \in Calm /\ Moves(db') /\ held' = held /\ taken' = taken \cup {t}
        /\ \A u \in TaskId : db'.msg[u] = IF u = t THEN "popped" ELSE db.msg[u]
    BY <1>4, PopCalm
  <2>2. \A u \in TaskId : db'.msg[u] = "popped" => u \in taken' \cup held'
    BY <2>1 DEF QInv
  <2> QED
    BY <1>1, <2>1, <2>2 DEF QInv
<1>11. ASSUME NEW t \in TaskId, HandOut(t) PROVE QInv'
  <2>1. db' = db /\ taken' = taken \ {t} /\ held' = held \cup ({t} \cap Rows(db))
    BY <1>11 DEF HandOut
  <2>2. \A u \in TaskId : db.msg[u] = "popped" => u \in Rows(db)
    BY <1>0 DEF Calm, Queued, Live
  <2>3. \A u \in TaskId : db.msg[u] = "popped" => u \in taken' \cup held'
    BY <2>1, <2>2 DEF QInv
  <2> QED
    BY <1>0, <1>1, <2>1, <2>3 DEF QInv
<1>5. CASE \E t \in TaskId, result \in Results : Report(t, result)
  <2>1. PICK t \in TaskId, result \in Results : Report(t, result)
    BY <1>5
  <2>2. PICK late \in CanBeLate, expired \in CanExpire :
          Commit(UpdateTask(db, t, result, late, expired))
    BY <2>1 DEF Report
  <2>3. t \in Rows(db) /\ expired \in BOOLEAN /\ held' = held
    BY <2>1, TimeType DEF Report
  <2>4. Final(UpdateTask(db, t, result, late, expired)) \in Ends(db)
    BY <1>0, <2>3, UpdateEnds
  <2> QED
    BY <1>2, <2>2, <2>3, <2>4, CommitEnds
<1>6. CASE SweepStep
  <2>1. PICK late \in CanBeLate, expired \in CanExpire : Commit(Sweep(db, late, expired))
    BY <1>6 DEF SweepStep
  <2>2. expired \in BOOLEAN /\ held' = held
    BY <1>6, TimeType DEF SweepStep
  <2>3. Final(Sweep(db, late, expired)) \in Ends(db)
    BY <1>0, <2>2, SweepEnds
  <2> QED
    BY <1>2, <2>1, <2>2, <2>3, CommitEnds
<1>7. CASE AdminRequest
  BY <1>2, <1>7, RequestEnds
<1>8. CASE Crash
  BY <1>8 DEF Crash, QInv, IInv, Quiet
<1>9. CASE Bootstrap
  <2>1. \/ db' = db
        \/ db' = SetDecider(db, "ready")
    BY <1>9 DEF Bootstrap
  <2>2. taken' = taken /\ held' = held
    BY <1>9 DEF Bootstrap
  <2>3. CASE db' = db
    BY <1>0, <1>2, <2>2, <2>3, OnwardItself DEF Ends
  <2>4. CASE db' = SetDecider(db, "ready")
    <3>1. /\ db' \in Good /\ SameTable(db, db') /\ db'.msg = db.msg /\ db'.wf = db.wf
          /\ db'.pending = db.pending /\ db'.decider = "ready"
      BY <1>0, <2>4, FlagsGood, DeciderFields DEF Message
    <3>2. Listed(db')
      BY <1>0, <3>1 DEF Listed, Calm
    <3>3. db' \in Onward(db)
      BY <1>0, <3>1, <3>2, FlagsCalm
    <3> QED
      BY <1>2, <2>2, <3>1, <3>3 DEF Ends, Moves
  <2> QED
    BY <2>1, <2>3, <2>4
<1>10. CASE UNCHANGED vars
  BY <1>10 DEF vars, QInv, IInv, Calm
<1> QED
  BY <1>3, <1>4, <1>5, <1>6, <1>7, <1>8, <1>9, <1>10, <1>11 DEF Next

LEMMA InitCalm == Init => QInv
<1> SUFFICES ASSUME Init PROVE QInv
  OBVIOUS
<1>1. IInv /\ db \in Good
  BY InitGood DEF IInv
<1>2. /\ db.wf = None /\ db.pending = FALSE /\ db.executed = {} /\ db.retried = {}
      /\ db.keys = {} /\ \A t \in TaskId : db.status[t] = None /\ db.msg[t] = "absent"
  BY DEF Init, EmptyDatabase
<1>3. Rows(db) = {} /\ Live(db) = {}
  BY <1>2 DEF Rows, Live
<1>4. Tidy(db)
  BY <1>2, <1>3 DEF Tidy, Superseded, Counted, Judged, Followed, Preceded, SkippedOnce
<1>5. Queued(db) /\ Finished(db) /\ Listed(db) /\ Moves(db)
  BY <1>2, <1>3 DEF Queued, Finished, Listed, Moves, None
<1> QED
  BY <1>1, <1>2, <1>4, <1>5 DEF QInv, Calm

(* While the server does not die, the tables of a workflow agree with each     *)
(* other after every operation, requests by hand but reruns included.           *)
THEOREM TablesAgree ==
  ASSUME Quiet
  PROVE  Spec => []QInv
<1>1. QInv /\ [Next]_vars => QInv'
  BY StepCalm
<1> QED
  BY <1>1, InitCalm, PTL DEF Spec

LEMMA LiveIsDelivered ==
  ASSUME QInv
  PROVE  Live(db) \subseteq TaskId /\ \A t \in Live(db) : Delivered(t)
<1>1. Live(db) \subseteq TaskId
  BY DEF Live, Rows
<1>2. ASSUME NEW t \in Live(db) PROVE Delivered(t)
  <2>1. db.msg[t] # "absent" /\ db.msg[t] \in Message
    BY <1>1, <1>2 DEF QInv, Calm, Queued, Good, Database
  <2> QED
    BY <1>1, <2>1 DEF QInv, Message, Delivered
<1> QED
  BY <1>1, <1>2

(* Then every open task can be polled, or has been and is on its way to a       *)
(* worker or held by one, and no message waits for a task that has ended ...    *)
THEOREM TasksStayDelivered ==
  ASSUME Quiet
  PROVE  Spec => []TasksAreDelivered
<1>1. ASSUME QInv PROVE TasksAreDelivered
  <2>1. \A t \in TaskId : db.msg[t] = "ready" => t \in Live(db)
    BY <1>1 DEF QInv, Calm, Queued
  <2> QED
    BY <1>1, <2>1, LiveIsDelivered DEF TasksAreDelivered
<1> QED
  BY <1>1, TablesAgree, PTL

(* ... so a RUNNING workflow never waits for nothing: it has an open task, or    *)
(* the sweeper is about to look ...                                            *)
THEOREM WorkflowNeverStuck ==
  ASSUME Quiet
  PROVE  Spec => []NeverStuck
<1>1. ASSUME QInv PROVE NeverStuck
  <2>1. \A t \in Live(db) : Delivered(t)
    BY <1>1, LiveIsDelivered
  <2> QED
    BY <1>1, <2>1 DEF QInv, Moves, NeverStuck
<1> QED
  BY <1>1, TablesAgree, PTL

(* ... an ended one leaves no message for a worker to poll ...                 *)
THEOREM EndEmptiesQueue ==
  ASSUME Quiet
  PROVE  Spec => []EndedIsUnqueued
<1>1. ASSUME QInv PROVE EndedIsUnqueued
  BY <1>1 DEF QInv, Calm, Queued, Good, Settled, Quiet, EndedIsUnqueued
<1> QED
  BY <1>1, TablesAgree, PTL

(* ... and a COMPLETED one has done every task of its definition.              *)
THEOREM CompletedIsDone ==
  ASSUME Quiet
  PROVE  Spec => []CompletedMeansDone
<1>1. ASSUME QInv PROVE CompletedMeansDone
  BY <1>1 DEF QInv, Calm, Finished, AllPassed, CompletedMeansDone
<1> QED
  BY <1>1, TablesAgree, PTL

(* While nobody restarts it either, what a recovery would read lists exactly    *)
(* the workflows that have not ended.                                          *)
THEOREM PendingListsOpen ==
  ASSUME Quiet, "restart" \notin Admin
  PROVE  Spec => []PendingIsOpen
<1>1. ASSUME QInv PROVE PendingIsOpen
  <2>1. /\ db.wf \in {"RUNNING", "PAUSED"} => db.pending = TRUE
        /\ db.wf \notin {"RUNNING", "PAUSED"} => db.pending = FALSE
    BY <1>1 DEF QInv, Calm, Listed
  <2> QED
    BY <2>1 DEF PendingIsOpen
<1> QED
  BY <1>1, TablesAgree, PTL

(***************************************************************************)
(* The engine implements TaskSequence.                                       *)
(***************************************************************************)

(* No retry is lost: a row that was replaced is not the newest of its task.     *)
LEMMA TidyIsUnlost ==
  ASSUME NEW d \in Calm
  PROVE  Unlost(d)
<1> SUFFICES ASSUME NEW r \in Ref, NEW t \in LatestOf(d, r), t \in d.retried PROVE FALSE
  BY DEF Unlost
<1>1. PICK u \in Rows(d) : u[1] = t[1] /\ t[2] < u[2]
  BY DEF Calm, Tidy, Superseded
<1>2. t[1] = r /\ t \in TaskId
  BY LatestIsOne
<1>3. u[2] <= t[2] /\ u[2] \in Nat /\ t[2] \in Nat
  BY <1>1, <1>2, TaskIdType DEF LatestOf, RowsOf, Rows
<1> QED
  BY <1>1, <1>3

(* Left alone, a workflow does its tasks one after another, each only after    *)
(* one that succeeded or is optional, repeats each at most as often as its      *)
(* definition allows and only after a failure, and gives up only over a failed  *)
(* task that is not optional: every step of the engine, every prefix of an       *)
(* operation that a crash leaves, is one step of TaskSequence or none.  Only     *)
(* where the process may die can a retry be lost, and completion stand over the  *)
(* failure of a required task.                                                *)
THEOREM ImplementsSequence ==
  ASSUME Linear
  PROVE  Spec => SequentialSpec
<1>1. RInv /\ [Next]_vars => RInv'
  BY PlainIsInductive
<1>2. Init => RInv
  BY PlainIsInductive
<1>3. CASE MaxCrashes > 0
  <2>1. RInv /\ [Next]_vars => [Sequential!SeqNext]_(Sequential!seqVars)
    BY <1>3, StepIsSequential
  <2> QED
    BY <1>1, <1>2, <2>1, InitSequence, PTL DEF Spec, SequentialSpec, Sequential!SeqSpec
<1>4. CASE ~ (MaxCrashes > 0)
  <2>1. Quiet
    BY <1>4, EngineAssumption, LinearIsOrderly DEF Quiet, Linear
  <2>2. QInv /\ [Next]_vars => QInv'
    BY <2>1, StepCalm
  <2>3. RInv /\ QInv /\ [Next]_vars => [Sequential!SeqNext]_(Sequential!seqVars)
    <3> SUFFICES ASSUME RInv, QInv, [Next]_vars
                 PROVE  [Sequential!SeqNext]_(Sequential!seqVars)
      OBVIOUS
    <3>1. db' \in Calm
      BY <2>2 DEF QInv, Calm, Good, Tidy, Queued, Finished, Listed
    <3> QED
      BY <3>1, TidyIsUnlost, StepIsSequential
  <2> QED
    BY <1>1, <1>2, <2>2, <2>3, InitCalm, InitSequence, PTL
       DEF Spec, SequentialSpec, Sequential!SeqSpec
<1> QED
  BY <1>3, <1>4
================================================================================
