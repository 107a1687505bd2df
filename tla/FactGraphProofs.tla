---------------------------- MODULE FactGraphProofs ----------------------------
(* What FactGraph guarantees for every set of facts and requests, every value, date   *)
(* and authority, and any number of requests, resent facts, rebuilds and failures. *)
EXTENDS FactGraph, TLAPS

IsFact(w)     == w[2] = "fact"
Retires(w, f) == IsFact(w) /\ w[3] = f /\ w[4] \in Gone
Settled(f)    == f \in reposted \/ Past(f)
Target(w)     == IF w[2] \in Edges THEN w[4] ELSE w[3]

(* A fact is stored by the request that was given its id: once, before anybody else   *)
(* writes it, and only then as current.                                          *)
UsedInv ==
  /\ Stored \subseteq used
  /\ \A p \in Request : \A w \in todo[p] : IsFact(w) => w[3] \in used
RankInv ==
  \A p \in Request : \A w \in todo[p] : IsFact(w) =>
    \/ w[1] = 1 /\ w[4] \in Gone /\ w[3] \in Stored
    \/ w[1] = 2 /\ w[4] \in Gone \cup {"current"}
CreateInv ==
  \A p, q \in Request : \A w \in todo[p], v \in todo[q] :
    IsFact(w) /\ w[1] = 2 /\ w[3] \notin reposted =>
      /\ w[3] \notin Stored
      /\ IsFact(v) /\ v[1] = 2 /\ v[3] = w[3] => p = q /\ v = w

(* What says that a fact is past comes after the write that makes it so; an edge comes *)
(* after both its ends, a record of an update after the edge.                    *)
OrderInv ==
  \A p \in Request : \A w \in todo[p] : w[2] \in Edges \cup {"delete", "record"} =>
    Settled(Target(w)) \/ \E v \in todo[p] : v[1] < w[1] /\ Retires(v, Target(w))
EndInv ==
  \A p \in Request : \A w \in todo[p] : w[2] \in Edges =>
    /\ w[4] \in Stored
    /\ w[3] \in Stored \/ \E v \in todo[p] : v[1] < w[1] /\ IsFact(v) /\ v[3] = w[3]
RecordInv ==
  \A p \in Request : \A w \in todo[p] : w[2] = "record" /\ w[4] # w[3] =>
    \/ <<"FACT_SUPERSEDES_FACT", w[4], w[3]>> \in edge
    \/ \E v \in todo[p] :
         v[1] < w[1] /\ v[2] = "FACT_SUPERSEDES_FACT" /\ v[3] = w[4] /\ v[4] = w[3]

PastInv ==
  \A e \in edge : {e[2], e[3]} \subseteq Stored /\ Settled(e[3])
LogInv ==
  \A c \in log :
    /\ Settled(c[1])
    /\ c[2] # c[1] => <<"FACT_SUPERSEDES_FACT", c[2], c[1]>> \in edge

Inv == /\ TypeOK /\ UsedInv /\ RankInv /\ CreateInv /\ OrderInv /\ EndInv /\ RecordInv
       /\ PastInv /\ LogInv

LEMMA InitInv == ASSUME Init PROVE Inv
  BY FactAssumption DEF Init, Inv, TypeOK, UsedInv, RankInv, CreateInv, OrderInv, EndInv, RecordInv,
     PastInv, LogInv, Stored, Status

-----------------------------------------------------------------------------
(* A request that begins.  Its writes: at most one fact of rank 2, whose id is new or  *)
(* sent again; retirements of stored facts; then the rest, each after what it needs. *)
WellOrdered(W, n) ==
  /\ W \subseteq Writes
  /\ \A w \in W : IsFact(w) =>
       \/ w[1] = 1 /\ w[4] \in Gone /\ w[3] \in Stored
       \/ w[1] = 2 /\ w[4] \in Gone \cup {"current"} /\ w[3] = n
  /\ \A v, w \in W : IsFact(w) /\ w[1] = 2 /\ IsFact(v) /\ v[1] = 2 => v = w
  /\ \A w \in W : w[2] \in Edges \cup {"delete", "record"} =>
       \E v \in W : v[1] < w[1] /\ Retires(v, Target(w))
  /\ \A w \in W : w[2] \in Edges =>
       w[4] \in Stored /\ \E v \in W : v[1] < w[1] /\ IsFact(v) /\ v[3] = w[3]
  /\ \A w \in W : w[2] = "record" /\ w[4] # w[3] =>
       \E v \in W :
         v[1] < w[1] /\ v[2] = "FACT_SUPERSEDES_FACT" /\ v[3] = w[4] /\ v[4] = w[3]

LEMMA BeginInv ==
  ASSUME Inv, NEW p \in Request, NEW W, NEW n, Begin(p, W), WellOrdered(W, n),
         \/ used' = used \cup {n} /\ n \in Fact \ used /\ reposted' = reposted
         \/ used' = used /\ n \in used /\ reposted' = reposted \cup {n}
         \/ UNCHANGED <<used, reposted>> /\ \A w \in W : IsFact(w) => w[1] = 1,
         UNCHANGED <<fact, edge, index, log, failures>>, rebuilds' \in 0..MaxRebuilds
  PROVE  Inv'
  <1>1. /\ todo' = [todo EXCEPT ![p] = W] /\ requests' \in 0..MaxRequests
        /\ reposted \subseteq reposted' /\ used \subseteq used'
    BY FactAssumption DEF Begin, Inv, TypeOK
  <1>2. /\ \A q \in Request : todo'[q] = IF q = p THEN W ELSE todo[q]
        /\ Stored' = Stored /\ \A f : Settled(f) => Settled(f)'
    BY <1>1 DEF Inv, TypeOK, Stored, Settled, Past
  <1>3. TypeOK'
    BY <1>1, <1>2 DEF Inv, TypeOK, WellOrdered
  <1>4. UsedInv'
    BY <1>1, <1>2 DEF Inv, TypeOK, UsedInv, WellOrdered, Stored, IsFact
  <1>5. RankInv'
    BY <1>1, <1>2 DEF Inv, RankInv, WellOrdered
  <1>6. CreateInv'
    BY <1>1, <1>2 DEF Inv, CreateInv, UsedInv, RankInv, WellOrdered
  <1>7. OrderInv'
    BY <1>1, <1>2 DEF Inv, OrderInv, WellOrdered
  <1>8. EndInv'
    BY <1>1, <1>2 DEF Inv, EndInv, WellOrdered
  <1>9. RecordInv'
    BY <1>1, <1>2 DEF Inv, RecordInv, WellOrdered
  <1>10. PastInv' /\ LogInv'
    BY <1>1, <1>2 DEF Inv, PastInv, LogInv
  <1>. QED BY <1>3, <1>4, <1>5, <1>6, <1>7, <1>8, <1>9, <1>10 DEF Inv

LEMMA IngestionOrdered ==
  ASSUME Inv, NEW n \in Fact, NEW status \in Verdicts(n)
  PROVE  WellOrdered(Ingestion(n, status), n)
  <1>. DEFINE W == Ingestion(n, status)
  <1>1. /\ Beaten(n) \subseteq Stored /\ Tied(n) \subseteq Stored /\ Stored \subseteq Fact
        /\ status \in {"contradicted", "superseded", "current"}
    BY DEF Beaten, Tied, Rivals, Current, Stored, Verdicts
  <1>2. \A w \in W :
          \/ \E f \in Beaten(n) : w = <<1, "fact", f, "superseded">>
          \/ \E f \in Tied(n) : w = <<1, "fact", f, "contradicted">>
          \/ w = <<2, "fact", n, status>>
          \/ \E f \in Beaten(n) : w = <<3, "FACT_SUPERSEDES_FACT", n, f>>
          \/ \E f \in Tied(n) : w = <<3, "FACT_CONTRADICTS_FACT", n, f>>
          \/ w = <<4, "history", n, n>>
    BY DEF Ingestion, Retired, Linked, Listed, Set
  <1>3. /\ \A f \in Beaten(n) : <<1, "fact", f, "superseded">> \in W
        /\ \A f \in Tied(n) : <<1, "fact", f, "contradicted">> \in W
        /\ <<2, "fact", n, status>> \in W
    BY DEF Ingestion, Retired, Set
  <1>. HIDE DEF W
  <1>4. \A w \in W : w \in Writes
    BY <1>1, <1>2 DEF Writes, Edges, Status, Gone
  <1>5. \A w \in W : IsFact(w) =>
          \/ w[1] = 1 /\ w[4] \in Gone /\ w[3] \in Stored
          \/ w[1] = 2 /\ w[4] \in Gone \cup {"current"} /\ w[3] = n /\ w = <<2, "fact", n, status>>
    BY <1>1, <1>2 DEF IsFact, Gone
  <1>6. \A w \in W : w[2] \in Edges \cup {"delete", "record"} =>
          /\ w[2] \in Edges /\ w[1] = 3 /\ w[3] = n
          /\ w[4] \in Beaten(n) \cup Tied(n)
    BY <1>2 DEF Edges
  <1>7. \A w \in W : w[2] \in Edges \cup {"delete", "record"} =>
          \E v \in W : v[1] < w[1] /\ Retires(v, Target(w))
    <2>. TAKE w \in W
    <2>. HAVE w[2] \in Edges \cup {"delete", "record"}
    <2>1. w[1] = 3 /\ Target(w) = w[4]
      BY <1>6 DEF Target
    <2>2. CASE w[4] \in Beaten(n)
      <3>. DEFINE v == <<1, "fact", w[4], "superseded">>
      <3>1. v \in W
        BY <1>3, <2>2
      <3>2. v[1] = 1 /\ Retires(v, w[4])
        BY DEF Retires, IsFact, Gone
      <3>3. v[1] < w[1] /\ Retires(v, Target(w))
        BY <2>1, <3>2
      <3>. QED BY <3>1, <3>3
    <2>3. CASE w[4] \in Tied(n)
      <3>. DEFINE v == <<1, "fact", w[4], "contradicted">>
      <3>1. v \in W
        BY <1>3, <2>3
      <3>2. v[1] = 1 /\ Retires(v, w[4])
        BY DEF Retires, IsFact, Gone
      <3>3. v[1] < w[1] /\ Retires(v, Target(w))
        BY <2>1, <3>2
      <3>. QED BY <3>1, <3>3
    <2>. QED BY <1>6, <2>2, <2>3
  <1>8. \A w \in W : w[2] \in Edges =>
          w[4] \in Stored /\ \E v \in W : v[1] < w[1] /\ IsFact(v) /\ v[3] = w[3]
    BY <1>1, <1>3, <1>6 DEF IsFact
  <1>9. \A w \in W : w[2] # "record"
    BY <1>2
  <1>. QED BY <1>4, <1>5, <1>7, <1>8, <1>9 DEF WellOrdered, W

LEMMA InvalidationOrdered ==
  ASSUME NEW f \in Stored
  PROVE  WellOrdered(Invalidation(f), f) /\ \A w \in Invalidation(f) : IsFact(w) => w[1] = 1
  <1>1. f \in Fact
    BY DEF Stored
  <1>2. \A w \in Invalidation(f) :
          \/ w = <<1, "fact", f, "invalidated">>
          \/ w = <<2, "delete", f, f>>
          \/ w = <<3, "record", f, f>>
    BY DEF Invalidation, Set
  <1>3. <<1, "fact", f, "invalidated">> \in Invalidation(f)
    BY DEF Invalidation, Set
  <1>. QED BY <1>1, <1>2, <1>3 DEF WellOrdered, Writes, Edges, Status, Gone, IsFact, Retires, Target

LEMMA ReplacementOrdered ==
  ASSUME NEW f \in Stored, NEW g \in Fact, f # g
  PROVE  WellOrdered(Replacement(f, g), g)
  <1>. DEFINE W == Replacement(f, g)
  <1>1. f \in Fact
    BY DEF Stored
  <1>2. \A w \in W :
          \/ w = <<1, "fact", f, "superseded">>
          \/ w = <<2, "fact", g, "current">>
          \/ w = <<3, "delete", f, f>>
          \/ w = <<3, "index", g, g>>
          \/ w = <<4, "FACT_SUPERSEDES_FACT", g, f>>
          \/ w = <<5, "record", f, g>>
    BY DEF Replacement, Sync, Set
  <1>3. /\ <<1, "fact", f, "superseded">> \in W
        /\ <<2, "fact", g, "current">> \in W
        /\ <<4, "FACT_SUPERSEDES_FACT", g, f>> \in W
    BY DEF Replacement, Set
  <1>. HIDE DEF W
  <1>4. \A w \in W : w \in Writes
    BY <1>1, <1>2 DEF Writes, Edges, Status, Gone
  <1>5. \A w \in W : IsFact(w) =>
          \/ w[1] = 1 /\ w[4] \in Gone /\ w[3] \in Stored
          \/ w[1] = 2 /\ w[4] \in Gone \cup {"current"} /\ w[3] = g /\ w = <<2, "fact", g, "current">>
    BY <1>2 DEF IsFact, Gone
  <1>6. \A w \in W : w[2] \in Edges \cup {"delete", "record"} => Target(w) = f /\ 1 < w[1]
    BY <1>2 DEF Edges, Target
  <1>7. \A w \in W : w[2] \in Edges => w[4] = f /\ w[3] = g /\ w[1] = 4
    BY <1>2 DEF Edges
  <1>8. \A w \in W : w[2] = "record" => w[1] = 5 /\ w[3] = f /\ w[4] = g
    BY <1>2
  <1>. QED BY <1>3, <1>4, <1>5, <1>6, <1>7, <1>8 DEF WellOrdered, W, IsFact, Retires, Gone

LEMMA BeginningInv ==
  ASSUME Inv, NEW p \in Request, NEW n \in Fact,
         \/ Ingest(p, n) \/ Repost(p, n) \/ Invalidate(p, n)
         \/ \E g \in Fact : Update(p, n, g)
  PROVE  Inv'
  <1>0. UNCHANGED rebuilds => rebuilds' \in 0..MaxRebuilds
    BY DEF Inv, TypeOK
  <1>1. CASE Ingest(p, n)
    <2>1. PICK status \in Verdicts(n) : Begin(p, Ingestion(n, status))
      BY <1>1 DEF Ingest
    <2>. QED BY <1>0, <1>1, <2>1, IngestionOrdered, BeginInv DEF Ingest
  <1>2. CASE Repost(p, n)
    <2>1. PICK status \in Verdicts(n) : Begin(p, Ingestion(n, status))
      BY <1>2 DEF Repost
    <2>. QED BY <1>0, <1>2, <2>1, IngestionOrdered, BeginInv DEF Repost
  <1>3. CASE Invalidate(p, n)
    BY <1>0, <1>3, InvalidationOrdered, BeginInv DEF Invalidate
  <1>4. CASE \E g \in Fact : Update(p, n, g)
    <2>1. PICK g \in Fact : Update(p, n, g)
      BY <1>4
    <2>2. n # g
      BY <2>1 DEF Update, Inv, UsedInv
    <2>. QED BY <1>0, <2>1, <2>2, ReplacementOrdered, BeginInv DEF Update
  <1>. QED BY <1>1, <1>2, <1>3, <1>4

LEMMA ReindexInv ==
  ASSUME Inv, NEW p \in Request, Reindex(p)
  PROVE  Inv'
  <1>. DEFINE W == {<<1, "replace", Current, Current>>}
  <1>1. WellOrdered(W, p) /\ \A w \in W : ~ IsFact(w)
    <2>1. \A w \in W : w = <<1, "replace", Current, Current>>
      OBVIOUS
    <2>2. Current \in SUBSET Fact
      BY DEF Current
    <2>3. \A w \in W : w \in Writes
      BY <2>1, <2>2 DEF Writes
    <2>4. \A w \in W : w[2] = "replace"
      BY <2>1
    <2>. HIDE DEF W
    <2>. QED BY <2>3, <2>4 DEF WellOrdered, Edges, IsFact
  <1>2. Begin(p, W) /\ rebuilds' \in 0..MaxRebuilds
    BY FactAssumption DEF Reindex, Inv, TypeOK
  <1>. HIDE DEF W
  <1>. QED BY <1>1, <1>2, BeginInv DEF Reindex

-----------------------------------------------------------------------------
(* Nothing comes before an awaited write, so what it needs has happened.            *)
LEMMA AwaitedReady ==
  ASSUME Inv, NEW p \in Request, NEW w \in Awaited(p)
  PROVE  /\ w \in todo[p] /\ w \in Writes
         /\ ~ \E v \in todo[p] : v[1] < w[1]
         /\ w[2] \in Edges \cup {"delete", "record"} => Settled(Target(w))
         /\ w[2] \in Edges => {w[3], w[4]} \subseteq Stored
         /\ w[2] = "record" /\ w[4] # w[3] => <<"FACT_SUPERSEDES_FACT", w[4], w[3]>> \in edge
  <1>1. w \in todo[p] /\ todo[p] \subseteq Writes
    BY DEF Awaited, Inv, TypeOK
  <1>2. \A v \in Writes : v[1] \in Nat
    BY DEF Writes
  <1>3. ~ \E v \in todo[p] : v[1] < w[1]
    BY <1>1, <1>2 DEF Awaited
  <1>. QED BY <1>1, <1>3 DEF Inv, OrderInv, EndInv, RecordInv

LEMMA WriteFactInv ==
  ASSUME Inv, NEW p \in Request, NEW w \in Awaited(p), WriteFact(p, w),
         UNCHANGED <<used, reposted, requests, rebuilds, failures>>
  PROVE  /\ Inv'
         /\ \A f \in Fact : Past(f) /\ fact'[f] = "current" => f \in reposted'
  <1>1. /\ IsFact(w) /\ w \in todo[p] /\ w \in Writes
        /\ fact' = [fact EXCEPT ![w[3]] = w[4]]
        /\ todo' = [todo EXCEPT ![p] = @ \ {w}]
        /\ UNCHANGED <<edge, index, log, used, reposted, requests, rebuilds, failures>>
    BY AwaitedReady DEF WriteFact, Done, IsFact
  <1>2. w[3] \in Fact /\ w[4] \in Gone \cup {"current"}
    <2>1. w[3] \in Fact
      BY <1>1 DEF Writes, IsFact, Edges
    <2>. QED BY <1>1, <2>1 DEF Inv, RankInv
  <1>3. /\ \A f \in Fact : fact'[f] = IF f = w[3] THEN w[4] ELSE fact[f]
        /\ \A q \in Request : todo'[q] \subseteq todo[q]
        /\ \A q \in Request : \A v \in todo[q] : v \in todo'[q] \/ (q = p /\ v = w)
        /\ w \notin todo'[p]
    BY <1>1, <1>2 DEF Inv, TypeOK
  <1>4. Stored' = Stored \cup {w[3]}
    BY <1>2, <1>3 DEF Stored, Gone
  <1>5. w[4] = "current" /\ w[3] \notin reposted => w[1] = 2 /\ w[3] \notin Stored
    BY <1>1 DEF Inv, RankInv, CreateInv, Gone
  <1>6. \A f \in Fact : Settled(f) => Settled(f)'
    BY <1>1, <1>2, <1>3, <1>5 DEF Settled, Past, Stored, Gone
  <1>7. TypeOK'
    <2>1. fact' \in [Fact -> Status]
      BY <1>1, <1>2 DEF Inv, TypeOK, Status
    <2>. QED BY <1>1, <2>1 DEF Inv, TypeOK
  <1>8. UsedInv'
    BY <1>1, <1>3, <1>4 DEF Inv, UsedInv
  <1>9. RankInv'
    BY <1>3, <1>4 DEF Inv, RankInv
  <1>10. CreateInv'
    <2>. SUFFICES ASSUME NEW a \in Request, NEW b \in Request, NEW u \in todo'[a], NEW v \in todo'[b],
                         IsFact(u), u[1] = 2, u[3] \notin reposted
                  PROVE  /\ u[3] \notin Stored'
                         /\ IsFact(v) /\ v[1] = 2 /\ v[3] = u[3] => a = b /\ v = u
      BY <1>1 DEF CreateInv
    <2>1. u \in todo[a] /\ v \in todo[b]
      BY <1>3
    <2>2. /\ u[3] \notin Stored
          /\ IsFact(v) /\ v[1] = 2 /\ v[3] = u[3] => a = b /\ v = u
          /\ w[1] = 2 /\ w[3] = u[3] => a = p /\ w = u
      BY <1>1, <2>1 DEF Inv, CreateInv
    <2>3. w[1] = 1 => w[3] \in Stored
      BY <1>1 DEF Inv, RankInv
    <2>4. w[1] \in {1, 2}
      BY <1>1 DEF Inv, RankInv
    <2>. QED BY <1>3, <1>4, <2>2, <2>3, <2>4
  <1>11. OrderInv'
    <2>. SUFFICES ASSUME NEW q \in Request, NEW u \in todo'[q], u[2] \in Edges \cup {"delete", "record"}
                  PROVE  Settled(Target(u))' \/ \E v \in todo'[q] : v[1] < u[1] /\ Retires(v, Target(u))
      BY DEF OrderInv, Target, Retires, IsFact
    <2>1. u \in todo[q]
      BY <1>3
    <2>2. Target(u) \in Fact
      <3>1. u \in Writes
        BY <2>1 DEF Inv, TypeOK
      <3>. QED BY <3>1 DEF Writes, Target, Edges
    <2>3. CASE Settled(Target(u))
      BY <1>6, <2>2, <2>3 DEF Settled, Past
    <2>4. CASE \E v \in todo[q] : v[1] < u[1] /\ Retires(v, Target(u))
      <3>1. PICK v \in todo[q] : v[1] < u[1] /\ Retires(v, Target(u))
        BY <2>4
      <3>2. CASE v = w
        <4>1. fact'[Target(u)] \in Gone
          BY <1>3, <2>2, <3>1, <3>2 DEF Retires
        <4>. QED BY <4>1 DEF Settled, Past
      <3>. QED BY <1>3, <3>1, <3>2
    <2>. QED BY <2>1, <2>3, <2>4 DEF Inv, OrderInv
  <1>12. EndInv'
    BY <1>3, <1>4 DEF Inv, EndInv
  <1>13. RecordInv'
    BY <1>1, <1>3 DEF Inv, RecordInv, IsFact
  <1>14. PastInv' /\ LogInv'
    <2>1. \A e \in edge : e[3] \in Fact
      BY DEF Inv, TypeOK
    <2>2. \A c \in log : c[1] \in Fact
      BY DEF Inv, TypeOK
    <2>. QED BY <1>1, <1>4, <1>6, <2>1, <2>2 DEF Inv, PastInv, LogInv
  <1>15. \A f \in Fact : Past(f) /\ fact'[f] = "current" => f \in reposted'
    BY <1>1, <1>6 DEF Settled, Past, Gone
  <1>. QED BY <1>7, <1>8, <1>9, <1>10, <1>11, <1>12, <1>13, <1>14, <1>15 DEF Inv

(* The other writes leave the facts alone: what was settled and stored still is.     *)
LEMMA OtherWriteInv ==
  ASSUME Inv, NEW p \in Request, NEW w \in Awaited(p), ~ IsFact(w), Done(p, w),
         UNCHANGED <<fact, used, reposted, requests, rebuilds, failures>>,
         index' \subseteq Fact, edge \subseteq edge', edge' \subseteq Edges \X Fact \X Fact,
         log' \subseteq Fact \X Fact,
         w[2] = "FACT_SUPERSEDES_FACT" => <<w[2], w[3], w[4]>> \in edge',
         PastInv', LogInv'
  PROVE  Inv'
  <1>1. /\ todo' = [todo EXCEPT ![p] = @ \ {w}]
        /\ \A q \in Request : todo'[q] \subseteq todo[q]
        /\ \A q \in Request : \A v \in todo[q] : v \in todo'[q] \/ (q = p /\ v = w)
    BY DEF Done, Inv, TypeOK
  <1>2. Stored' = Stored /\ \A f : Settled(f)' <=> Settled(f)
    BY DEF Stored, Settled, Past
  <1>3. TypeOK'
    BY <1>1 DEF Inv, TypeOK
  <1>4. UsedInv' /\ RankInv'
    BY <1>1, <1>2 DEF Inv, UsedInv, RankInv
  <1>5. CreateInv'
    BY <1>1, <1>2 DEF Inv, CreateInv
  <1>6. OrderInv' /\ EndInv'
    BY <1>1, <1>2 DEF Inv, OrderInv, EndInv, Retires
  <1>7. RecordInv'
    <2>. SUFFICES ASSUME NEW q \in Request, NEW u \in todo'[q], u[2] = "record", u[4] # u[3]
                  PROVE  \/ <<"FACT_SUPERSEDES_FACT", u[4], u[3]>> \in edge'
                         \/ \E v \in todo'[q] : v[1] < u[1] /\ v[2] = "FACT_SUPERSEDES_FACT"
                                                 /\ v[3] = u[4] /\ v[4] = u[3]
      BY DEF RecordInv
    <2>. QED BY <1>1 DEF Inv, RecordInv
  <1>. QED BY <1>3, <1>4, <1>5, <1>6, <1>7 DEF Inv

LEMMA WriteInv ==
  ASSUME Inv, NEW p \in Request, NEW w \in Awaited(p),
         WriteEdge(p, w) \/ WriteIndex(p, w) \/ WriteLog(p, w),
         UNCHANGED <<used, reposted, requests, rebuilds, failures>>
  PROVE  Inv'
  <1>1. Stored' = Stored /\ \A f : Settled(f)' <=> Settled(f)
    BY DEF WriteEdge, WriteIndex, WriteLog, Stored, Settled, Past
  <1>2. ~ IsFact(w)
    BY DEF WriteEdge, WriteIndex, WriteLog, IsFact, Edges
  <1>3. CASE WriteEdge(p, w)
    <2>1. /\ w[2] \in Edges /\ w[3] \in Fact /\ w[4] \in Fact
          /\ {w[3], w[4]} \subseteq Stored /\ Settled(w[4])
      BY <1>3, AwaitedReady DEF WriteEdge, Writes, Edges, Target
    <2>2. edge' = edge \cup {<<w[2], w[3], w[4]>>} /\ UNCHANGED <<fact, index, log>> /\ Done(p, w)
      BY <1>3, <2>1 DEF WriteEdge
    <2>3. PastInv'
      BY <1>1, <2>1, <2>2 DEF Inv, PastInv
    <2>4. LogInv'
      BY <1>1, <2>2 DEF Inv, LogInv
    <2>5. log' \subseteq Fact \X Fact /\ index' \subseteq Fact
      BY <2>2 DEF Inv, TypeOK
    <2>6. edge \subseteq edge' /\ edge' \subseteq Edges \X Fact \X Fact
      BY <2>1, <2>2 DEF Inv, TypeOK
    <2>7. w[2] = "FACT_SUPERSEDES_FACT" => <<w[2], w[3], w[4]>> \in edge'
      BY <2>2
    <2>. QED BY <1>2, <2>2, <2>3, <2>4, <2>5, <2>6, <2>7, OtherWriteInv
  <1>4. CASE WriteIndex(p, w)
    <2>1. w \in Writes /\ w[2] \in {"index", "delete", "replace"}
      BY <1>4, AwaitedReady DEF WriteIndex
    <2>2. w[2] # "FACT_SUPERSEDES_FACT"
      BY <2>1
    <2>3. index' \subseteq Fact
      BY <1>4, <2>1 DEF WriteIndex, Writes, Edges, Inv, TypeOK
    <2>4. Done(p, w) /\ UNCHANGED <<fact, edge, log>>
      BY <1>4 DEF WriteIndex
    <2>5. PastInv' /\ LogInv'
      BY <1>1, <2>4 DEF Inv, PastInv, LogInv
    <2>. QED BY <1>2, <2>2, <2>3, <2>4, <2>5, OtherWriteInv DEF Inv, TypeOK
  <1>5. CASE WriteLog(p, w)
    <2>1. /\ w[2] = "record" /\ w[3] \in Fact /\ w[4] \in Fact /\ Settled(w[3])
          /\ w[4] # w[3] => <<"FACT_SUPERSEDES_FACT", w[4], w[3]>> \in edge
      BY <1>5, AwaitedReady DEF WriteLog, Writes, Edges, Target
    <2>2. log' \subseteq log \cup {<<w[3], w[4]>>} /\ UNCHANGED <<fact, edge, index>> /\ Done(p, w)
      BY <1>5 DEF WriteLog
    <2>3. LogInv'
      <3>. SUFFICES ASSUME NEW c \in log'
                    PROVE  /\ Settled(c[1])
                           /\ c[2] # c[1] => <<"FACT_SUPERSEDES_FACT", c[2], c[1]>> \in edge
        BY <1>1, <2>2 DEF LogInv
      <3>1. CASE c \in log
        BY <3>1 DEF Inv, LogInv
      <3>2. CASE c = <<w[3], w[4]>>
        <4>1. c[1] = w[3] /\ c[2] = w[4]
          BY <3>2
        <4>. QED BY <2>1, <4>1
      <3>. QED BY <2>2, <3>1, <3>2
    <2>4. PastInv'
      BY <1>1, <2>2 DEF Inv, PastInv
    <2>5. log' \subseteq Fact \X Fact /\ index' \subseteq Fact /\ edge' \subseteq Edges \X Fact \X Fact
      BY <2>1, <2>2 DEF Inv, TypeOK
    <2>6. w[2] # "FACT_SUPERSEDES_FACT" /\ edge \subseteq edge'
      BY <2>1, <2>2
    <2>. QED BY <1>2, <2>2, <2>3, <2>4, <2>5, <2>6, OtherWriteInv
  <1>. QED BY <1>3, <1>4, <1>5

LEMMA ReadHistoryInv ==
  ASSUME Inv, NEW p \in Request, NEW w, ReadHistory(p, w),
         UNCHANGED <<used, reposted, requests, rebuilds, failures>>
  PROVE  Inv'
  <1>. DEFINE W == UNION {Sync(5, f, fact[f]) : f \in Stored}
  <1>1. /\ todo' = [todo EXCEPT ![p] = W]
        /\ UNCHANGED <<fact, edge, index, log, used, reposted, requests, rebuilds, failures>>
    BY DEF ReadHistory
  <1>2. \A v \in W :
          \E f \in Stored : \/ v = <<5, "index", f, f>>
                            \/ v = <<5, "delete", f, f>> /\ fact[f] # "current"
    BY DEF Sync
  <1>. HIDE DEF W
  <1>3. \A q \in Request : todo'[q] = IF q = p THEN W ELSE todo[q]
    BY <1>1 DEF Inv, TypeOK
  <1>4. Stored' = Stored /\ \A f : Settled(f)' <=> Settled(f)
    BY <1>1 DEF Stored, Settled, Past
  <1>5. \A v \in W : v \in Writes
    BY <1>2 DEF Writes, Stored
  <1>6. \A v \in W : v[2] \in {"index", "delete"}
    BY <1>2
  <1>7. \A v \in W : v[2] = "delete" => Settled(Target(v))
    <2>. SUFFICES ASSUME NEW f \in Stored, fact[f] # "current" PROVE Settled(f)
      BY <1>2 DEF Target, Edges
    <2>. QED BY DEF Inv, TypeOK, Stored, Status, Settled, Past
  <1>8. TypeOK'
    BY <1>1, <1>5 DEF Inv, TypeOK
  <1>9. UsedInv' /\ RankInv' /\ CreateInv'
    BY <1>1, <1>3, <1>4, <1>6 DEF Inv, UsedInv, RankInv, CreateInv, IsFact
  <1>10. OrderInv'
    BY <1>3, <1>4, <1>6, <1>7 DEF Inv, OrderInv, Retires, Edges
  <1>11. EndInv' /\ RecordInv'
    BY <1>1, <1>3, <1>4, <1>6 DEF Inv, EndInv, RecordInv, Edges
  <1>12. PastInv' /\ LogInv'
    BY <1>1, <1>4 DEF Inv, PastInv, LogInv
  <1>. QED BY <1>8, <1>9, <1>10, <1>11, <1>12 DEF Inv

(* What is left of a request that failed or of a server that died needs nothing more. *)
LEMMA StopInv ==
  ASSUME Inv, Crash \/ \E p \in Request : Fail(p)
  PROVE  Inv'
  <1>1. /\ UNCHANGED <<fact, edge, index, log, used, reposted, requests, rebuilds>>
        /\ failures' \in 0..MaxFailures
        /\ todo' \in [Request -> SUBSET Writes]
        /\ \A q \in Request : \/ todo'[q] = todo[q]
                              \/ todo'[q] \subseteq Awaited(q)
    <2>1. CASE Crash
      BY <2>1, FactAssumption DEF Crash, Inv, TypeOK
    <2>2. CASE \E p \in Request : Fail(p)
      <3>1. PICK p \in Request : Fail(p)
        BY <2>2
      <3>. QED BY <3>1, FactAssumption DEF Fail, Awaited, Inv, TypeOK
    <2>. QED BY <2>1, <2>2
  <1>2. Stored' = Stored /\ \A f : Settled(f)' <=> Settled(f)
    BY <1>1 DEF Stored, Settled, Past
  <1>3. \A q \in Request : \A v \in todo'[q] : v \in todo[q]
    BY <1>1 DEF Awaited
  <1>4. TypeOK'
    BY <1>1 DEF Inv, TypeOK
  <1>5. UsedInv' /\ RankInv' /\ CreateInv'
    BY <1>1, <1>2, <1>3 DEF Inv, UsedInv, RankInv, CreateInv
  <1>6. OrderInv' /\ EndInv' /\ RecordInv'
    <2>. SUFFICES ASSUME NEW q \in Request, NEW w \in todo'[q]
                  PROVE  /\ w[2] \in Edges \cup {"delete", "record"} =>
                              Settled(Target(w)) \/ \E v \in todo'[q] : v[1] < w[1] /\ Retires(v, Target(w))
                         /\ w[2] \in Edges =>
                              /\ w[4] \in Stored
                              /\ w[3] \in Stored \/ \E v \in todo'[q] : v[1] < w[1] /\ IsFact(v) /\ v[3] = w[3]
                         /\ w[2] = "record" /\ w[4] # w[3] =>
                              \/ <<"FACT_SUPERSEDES_FACT", w[4], w[3]>> \in edge
                              \/ \E v \in todo'[q] : v[1] < w[1] /\ v[2] = "FACT_SUPERSEDES_FACT"
                                                      /\ v[3] = w[4] /\ v[4] = w[3]
      <3>1. Stored' = Stored /\ UNCHANGED <<fact, edge, reposted>>
        BY <1>1, <1>2
      <3>2. OrderInv'
        BY <3>1 DEF OrderInv, Target, Retires, IsFact, Settled, Past
      <3>3. EndInv' /\ RecordInv'
        BY <3>1 DEF EndInv, RecordInv, IsFact
      <3>. QED BY <3>2, <3>3
    <2>1. CASE todo'[q] = todo[q]
      BY <2>1 DEF Inv, OrderInv, EndInv, RecordInv
    <2>2. CASE todo'[q] \subseteq Awaited(q)
      BY <2>2, AwaitedReady
    <2>. QED BY <1>1, <2>1, <2>2
  <1>7. PastInv' /\ LogInv'
    BY <1>1, <1>2 DEF Inv, PastInv, LogInv
  <1>. QED BY <1>4, <1>5, <1>6, <1>7 DEF Inv

LEMMA NextInv ==
  ASSUME Inv, [Next]_vars
  PROVE  /\ Inv'
         /\ \A f \in Fact : Past(f) /\ fact'[f] = "current" => f \in reposted'
  <1>1. UNCHANGED fact => \A f \in Fact : ~ (Past(f) /\ fact'[f] = "current")
    BY DEF Past, Gone
  <1>2. CASE \E p \in Request, n \in Fact : Ingest(p, n) \/ Repost(p, n) \/ Invalidate(p, n)
    BY <1>1, <1>2, BeginningInv DEF Ingest, Repost, Invalidate
  <1>3. CASE \E p \in Request, f, g \in Fact : Update(p, f, g)
    BY <1>1, <1>3, BeginningInv DEF Update
  <1>4. CASE \E p \in Request : Reindex(p)
    BY <1>1, <1>4, ReindexInv DEF Reindex
  <1>5. CASE \E p \in Request : Step(p)
    <2>1. PICK p \in Request : Step(p)
      BY <1>5
    <2>2. PICK w \in Awaited(p) :
            \/ WriteFact(p, w) \/ WriteEdge(p, w) \/ ReadHistory(p, w)
            \/ WriteIndex(p, w) \/ WriteLog(p, w)
      BY <2>1 DEF Step
    <2>3. UNCHANGED <<used, reposted, requests, rebuilds, failures>>
      BY <2>1 DEF Step
    <2>4. CASE WriteFact(p, w)
      BY <2>3, <2>4, WriteFactInv
    <2>5. CASE WriteEdge(p, w) \/ WriteIndex(p, w) \/ WriteLog(p, w)
      BY <1>1, <2>3, <2>5, WriteInv DEF WriteEdge, WriteIndex, WriteLog
    <2>6. CASE ReadHistory(p, w)
      BY <1>1, <2>3, <2>6, ReadHistoryInv DEF ReadHistory
    <2>. QED BY <2>2, <2>4, <2>5, <2>6
  <1>6. CASE Crash \/ \E p \in Request : Fail(p)
    BY <1>1, <1>6, StopInv DEF Crash, Fail
  <1>7. CASE UNCHANGED vars
    BY <1>1, <1>7 DEF vars, Inv, TypeOK, UsedInv, RankInv, CreateInv, OrderInv, EndInv, RecordInv,
       PastInv, LogInv, Stored, Settled, Past
  <1>. QED BY <1>2, <1>3, <1>4, <1>5, <1>6, <1>7 DEF Next

(* The types, and the order of the writes to come, in every state.                   *)
THEOREM FactInvariant == Spec => []Inv
  <1>1. Init => Inv
    BY InitInv
  <1>2. Inv /\ [Next]_vars => Inv'
    BY NextInv
  <1>. QED BY <1>1, <1>2, PTL DEF Spec

(* Every edge of the graph is grounded, with any requests and failures.              *)
THEOREM EdgesHold == Spec => []EdgesAreGrounded
  <1>1. Inv => EdgesAreGrounded
    BY DEF Inv, PastInv, EdgesAreGrounded, Settled
  <1>. QED BY <1>1, FactInvariant, PTL

(* Every logged correction is applied, with any requests and failures.               *)
THEOREM LogHolds == Spec => []LoggedIsApplied
  <1>1. Inv => LoggedIsApplied
    BY DEF Inv, PastInv, LogInv, LoggedIsApplied, Settled
  <1>. QED BY <1>1, FactInvariant, PTL

(* No write of a stale copy makes a fact current again.                              *)
THEOREM PastStays == Spec => NeverRevived
  <1>1. Inv /\ [Next]_vars =>
          [\A f \in Fact : Past(f) /\ fact'[f] = "current" => f \in reposted']_vars
    BY NextInv
  <1>. QED BY <1>1, FactInvariant, PTL DEF Spec, NeverRevived

-----------------------------------------------------------------------------
(* What keeps current facts findable: who creates a current fact has its place in the *)
(* index still to write, and only what is past is deleted.                        *)
Clean      == failures = 0 /\ rebuilds = 0 /\ reposted = {}
Brings(w, f) == w[2] = "history" \/ (w[2] = "index" /\ w[3] = f)
Covered(f) == \E p \in Request : \E w \in todo[p] : Brings(w, f)
FindInv ==
  Clean =>
    /\ \A f \in Current \ index : Covered(f)
    /\ \A p \in Request : \A w \in todo[p] : w[2] # "replace"
    /\ \A p \in Request : \A w \in todo[p] : IsFact(w) /\ w[4] = "current" =>
         \E v \in todo[p] : v[1] > w[1] /\ Brings(v, w[3])

(* A request that begins brings to the index what it will store as current.           *)
LEMMA BeginFind ==
  ASSUME Inv, FindInv, NEW p \in Request, NEW W, Begin(p, W),
         UNCHANGED <<fact, index, reposted, rebuilds, failures>>,
         \A w \in W : w[2] # "replace",
         \A w \in W : IsFact(w) /\ w[4] = "current" =>
           \E v \in W : v[1] > w[1] /\ Brings(v, w[3])
  PROVE  FindInv'
  <1>1. /\ todo[p] = {}
        /\ \A q \in Request : todo'[q] = IF q = p THEN W ELSE todo[q]
    BY DEF Begin, Inv, TypeOK
  <1>2. Current' = Current /\ (Clean' <=> Clean)
    BY DEF Current, Clean
  <1>3. \A f : Covered(f) => \E q \in Request : \E w \in todo'[q] : Brings(w, f)
    BY <1>1 DEF Covered
  <1>. QED BY <1>1, <1>2, <1>3 DEF FindInv, Covered, Brings, IsFact

LEMMA BeginningFind ==
  ASSUME Inv, FindInv, NEW p \in Request, NEW n \in Fact,
         \/ Ingest(p, n) \/ Repost(p, n) \/ Invalidate(p, n) \/ Reindex(p)
         \/ \E g \in Fact : Update(p, n, g)
  PROVE  FindInv'
  <1>1. CASE Ingest(p, n)
    <2>1. PICK status \in Verdicts(n) : Begin(p, Ingestion(n, status))
      BY <1>1 DEF Ingest
    <2>. DEFINE W == Ingestion(n, status)
    <2>2. /\ \A w \in W : \/ w[2] \in Edges \cup {"history"}
                          \/ w[1] = 1 /\ w[4] \in {"superseded", "contradicted"}
                          \/ w[1] = 2 /\ w[2] = "fact"
          /\ <<4, "history", n, n>> \in W
          /\ \A w \in W : w[2] # "replace"
      BY DEF Ingestion, Retired, Linked, Listed, Set, Edges
    <2>. HIDE DEF W
    <2>3. \A w \in W : IsFact(w) /\ w[4] = "current" => w[1] = 2
      BY <2>2 DEF IsFact, Edges
    <2>4. \A w \in W : IsFact(w) /\ w[4] = "current" => \E v \in W : v[1] > w[1] /\ Brings(v, w[3])
      BY <2>2, <2>3 DEF Brings
    <2>. QED BY <1>1, <2>1, <2>2, <2>4, BeginFind DEF Ingest, W
  <1>2. CASE Repost(p, n)
    BY <1>2 DEF Repost, FindInv, Clean
  <1>3. CASE Invalidate(p, n)
    <2>. DEFINE W == Invalidation(n)
    <2>1. \A w \in W : w[2] # "replace" /\ ~ (IsFact(w) /\ w[4] = "current")
      BY DEF Invalidation, Set, IsFact
    <2>. HIDE DEF W
    <2>. QED BY <1>3, <2>1, BeginFind DEF Invalidate, W
  <1>4. CASE \E g \in Fact : Update(p, n, g)
    <2>1. PICK g \in Fact : Update(p, n, g)
      BY <1>4
    <2>. DEFINE W == Replacement(n, g)
    <2>2. /\ \A w \in W : w[2] # "replace"
          /\ \A w \in W : IsFact(w) /\ w[4] = "current" => w[1] = 2 /\ w[3] = g
          /\ <<3, "index", g, g>> \in W
      BY DEF Replacement, Sync, Set, IsFact
    <2>. HIDE DEF W
    <2>3. \A w \in W : IsFact(w) /\ w[4] = "current" => \E v \in W : v[1] > w[1] /\ Brings(v, w[3])
      BY <2>2 DEF Brings
    <2>. QED BY <2>1, <2>2, <2>3, BeginFind DEF Update, W
  <1>5. CASE Reindex(p)
    BY <1>5 DEF Reindex, FindInv, Clean, Inv, TypeOK
  <1>. QED BY <1>1, <1>2, <1>3, <1>4, <1>5

LEMMA StepFind ==
  ASSUME Inv, FindInv, Clean, NEW p \in Request, NEW w \in Awaited(p),
         \/ WriteFact(p, w) \/ WriteEdge(p, w) \/ ReadHistory(p, w)
         \/ WriteIndex(p, w) \/ WriteLog(p, w),
         UNCHANGED <<reposted, rebuilds, failures>>
  PROVE  FindInv'
  <1>1. /\ w \in todo[p] /\ w \in Writes /\ w[2] # "replace"
        /\ ~ \E v \in todo[p] : v[1] < w[1]
        /\ \A q \in Request : \A v \in todo[q] : v[1] \in Nat
    <2>1. \A v \in Writes : v[1] \in Nat
      BY DEF Writes
    <2>. QED BY <2>1, AwaitedReady DEF FindInv, Inv, TypeOK
  <1>2. Current \subseteq Fact /\ Current \subseteq Stored
    BY DEF Current, Stored
  <1>3. CASE ReadHistory(p, w)
    <2>. DEFINE W == UNION {Sync(5, f, fact[f]) : f \in Stored}
    <2>1. UNCHANGED <<fact, index>> /\ \A q \in Request : todo'[q] = IF q = p THEN W ELSE todo[q]
      BY <1>3 DEF ReadHistory, Inv, TypeOK
    <2>2. \A f \in Current : <<5, "index", f, f>> \in W
      BY <1>2 DEF Sync, Current
    <2>3. \A v \in W : v[2] \in {"index", "delete"}
      BY DEF Sync
    <2>. HIDE DEF W
    <2>4. \A f \in Current : Covered(f)'
      BY <2>1, <2>2 DEF Covered, Brings
    <2>5. Current' = Current
      BY <2>1 DEF Current
    <2>. QED BY <2>1, <2>3, <2>4, <2>5 DEF FindInv, Brings, IsFact
  <1>4. CASE ~ ReadHistory(p, w)
    <2>1. /\ Done(p, w) /\ w[2] # "history"
          /\ w[2] = "index" => index' = index \cup {w[3]}
          /\ w[2] = "delete" => index' = index \ {w[3]}
          /\ w[2] \notin {"index", "delete"} => index' = index
          /\ ~ IsFact(w) => fact' = fact
          /\ IsFact(w) => fact' = [fact EXCEPT ![w[3]] = w[4]]
      BY <1>1, <1>4 DEF WriteFact, WriteEdge, WriteIndex, WriteLog, IsFact, Edges
    <2>2. /\ \A q \in Request : todo'[q] \subseteq todo[q]
          /\ \A q \in Request : \A v \in todo[q] : v \in todo'[q] \/ (q = p /\ v = w)
      BY <2>1 DEF Done, Inv, TypeOK
    <2>3. \A f \in Current' : f \in Current \/ (IsFact(w) /\ w[4] = "current" /\ f = w[3])
      BY <2>1 DEF Current, Inv, TypeOK
    <2>4. \A q \in Request : \A u \in todo'[q] : IsFact(u) /\ u[4] = "current" =>
            \E v \in todo'[q] : v[1] > u[1] /\ Brings(v, u[3])
      <3>. SUFFICES ASSUME NEW q \in Request, NEW u \in todo'[q], IsFact(u), u[4] = "current"
                    PROVE  \E v \in todo'[q] : v[1] > u[1] /\ Brings(v, u[3])
        OBVIOUS
      <3>1. PICK v \in todo[q] : v[1] > u[1] /\ Brings(v, u[3])
        BY <2>2 DEF FindInv
      <3>2. ~ (q = p /\ v = w)
        BY <1>1, <2>2, <3>1
      <3>. QED BY <2>2, <3>1, <3>2
    <2>5. \A f \in Current' \ index' : Covered(f)'
      <3>. SUFFICES ASSUME NEW f \in Current', f \notin index'
                    PROVE  \E q \in Request : \E v \in todo'[q] : Brings(v, f)
        BY DEF Covered, Brings
      <3>1. CASE IsFact(w) /\ w[4] = "current" /\ f = w[3]
        <4>1. PICK v \in todo[p] : v[1] > w[1] /\ Brings(v, f)
          BY <1>1, <3>1 DEF FindInv
        <4>2. v # w
          BY <1>1, <4>1
        <4>. QED BY <2>2, <4>1, <4>2
      <3>2. CASE f \in Current
        <4>1. f \notin index
          <5>1. CASE w[2] = "delete" /\ w[3] = f
            <6>1. Settled(f)
              BY <5>1, AwaitedReady DEF Target, Edges
            <6>. QED BY <3>2, <6>1 DEF Settled, Past, Current, Clean, Gone
          <5>. QED BY <2>1, <5>1
        <4>2. PICK q \in Request : \E v \in todo[q] : Brings(v, f)
          BY <3>2, <4>1 DEF FindInv, Covered
        <4>3. PICK v \in todo[q] : Brings(v, f)
          BY <4>2
        <4>4. ~ (q = p /\ v = w)
          BY <2>1, <4>1, <4>3 DEF Brings
        <4>. QED BY <2>2, <4>3, <4>4
      <3>. QED BY <2>3, <3>1, <3>2
    <2>. QED BY <2>2, <2>4, <2>5 DEF FindInv, Brings, IsFact
  <1>. QED BY <1>3, <1>4

LEMMA NextFind ==
  ASSUME Inv, FindInv, [Next]_vars
  PROVE  FindInv'
  <1>1. CASE ~ Clean
    <2>1. ~ Clean'
      BY <1>1 DEF Clean, Next, vars, Ingest, Repost, Invalidate, Update, Reindex, Step, Fail, Crash, Inv, TypeOK
    <2>. QED BY <2>1 DEF FindInv
  <1>2. CASE Clean
    <2>1. CASE \E p \in Request, n \in Fact : Ingest(p, n) \/ Repost(p, n) \/ Invalidate(p, n)
      BY <2>1, BeginningFind
    <2>2. CASE \E p \in Request, f, g \in Fact : Update(p, f, g)
      BY <2>2, BeginningFind
    <2>3. CASE \E p \in Request : Reindex(p)
      BY <2>3 DEF Reindex, FindInv, Clean, Inv, TypeOK
    <2>4. CASE \E p \in Request : Step(p)
      <3>1. PICK p \in Request : Step(p)
        BY <2>4
      <3>. QED BY <1>2, <3>1, StepFind DEF Step
    <2>5. CASE Crash \/ \E p \in Request : Fail(p)
      <3>1. failures' = failures + 1 /\ failures \in Nat
        BY <2>5 DEF Crash, Fail, Inv, TypeOK
      <3>. QED BY <3>1 DEF FindInv, Clean
    <2>6. CASE UNCHANGED vars
      BY <2>6 DEF vars, FindInv, Clean, Covered, Brings, Current, IsFact
    <2>. QED BY <2>1, <2>2, <2>3, <2>4, <2>5, <2>6 DEF Next
  <1>. QED BY <1>1, <1>2

(* Without failures, rebuilds and resent facts no current fact is lost to the index.  *)
THEOREM CurrentIsFound == Spec => []CurrentIsFindable
  <1>1. Init => FindInv
    BY DEF Init, FindInv, Current, IsFact
  <1>2. Inv /\ FindInv /\ [Next]_vars => FindInv'
    BY NextFind
  <1>3. FindInv => CurrentIsFindable
    BY DEF FindInv, CurrentIsFindable, Clean, Covered, Brings
  <1>. QED BY <1>1, <1>2, <1>3, FactInvariant, PTL DEF Spec
==============================================================================
