------------------------------- MODULE FactGraph -------------------------------
(***************************************************************************)
(* The facts about one property of one entity, as GraphService keeps them:   *)
(* the graph, the edges between facts, the search index and the log of       *)
(* corrections.  Requests run concurrently.  A request reads the graph once, *)
(* decides from what it read, and then performs one write per await; so      *)
(* `todo` holds, per request, the writes it has still to make, each with its *)
(* rank.  Writes of one rank are awaited together and happen in any order    *)
(* (a loop over listed facts has the order of the list, which is any).       *)
(***************************************************************************)
EXTENDS Integers

CONSTANTS Fact, Request,
          Value,       \* the value every fact states
          From,        \* its valid_from, 0 when it has none
          Now,         \* the time a fact without valid_from is given when it is new
          Authority,   \* the authority of its source, in hundredths
          Resent,      \* facts a client sends again, each at most once
          MaxRequests, MaxRebuilds, MaxFailures \* bounds

ASSUME FactAssumption ==
  /\ From \in [Fact -> Nat]
  /\ Now \in Nat
  /\ Authority \in [Fact -> 0..100]
  /\ Resent \subseteq Fact
  /\ {MaxRequests, MaxRebuilds, MaxFailures} \subseteq Nat

Gone   == {"superseded", "contradicted", "invalidated"}
Status == {"NONE", "current"} \cup Gone

VARIABLES fact,     \* every fact's status in the graph
          edge,     \* <<type, newer fact, older fact>>
          index,    \* the facts the search index holds
          log,      \* corrections: <<corrected fact, its replacement or itself>>
          todo,     \* per request: the writes to come
          used,     \* fact ids given out
          reposted, \* facts that a client sent again
          requests, rebuilds, failures
vars == <<fact, edge, index, log, todo, used, reposted, requests, rebuilds, failures>>

Edges  == {"FACT_SUPERSEDES_FACT", "FACT_CONTRADICTS_FACT"}
Set(rank, f, status) == <<rank, "fact", f, status>>
Stored  == {f \in Fact : fact[f] # "NONE"}
Current == {f \in Fact : fact[f] = "current"}
Begin(p, writes) ==
  /\ requests < MaxRequests /\ requests' = requests + 1
  /\ todo[p] = {} /\ todo' = [todo EXCEPT ![p] = writes]

(* A set of writes that syncFactIndex makes for a fact read with this status.   *)
Sync(rank, f, status) ==
  {<<rank, IF status = "current" THEN "index" ELSE "delete", f, f>>}

Writes ==
       (Nat \X {"fact"} \X Fact \X Status)
  \cup (Nat \X (Edges \cup {"index", "delete", "record", "history"}) \X Fact \X Fact)
  \cup (Nat \X {"replace"} \X (SUBSET Fact) \X (SUBSET Fact))

Init ==
  /\ fact = [f \in Fact |-> "NONE"]
  /\ edge = {} /\ index = {} /\ log = {} /\ used = {} /\ reposted = {}
  /\ todo = [p \in Request |-> {}]
  /\ requests = 0 /\ rebuilds = 0 /\ failures = 0
-----------------------------------------------------------------------------
(* detectSupersession                                                         *)
NewTime(n)  == IF From[n] = 0 THEN Now ELSE From[n]
Rivals(n)   == {f \in Current \ {n} : Value[f] # Value[n]}
Beats(n, f) ==
  NewTime(n) > From[f] \/ (NewTime(n) < From[f] /\ Authority[n] > Authority[f])
Ties(n, f)  ==
  /\ NewTime(n) = From[f]
  /\ Authority[n] - Authority[f] \in -4..4
Beaten(n) == {f \in Rivals(n) : Beats(n, f)}
Tied(n)   == {f \in Rivals(n) : Ties(n, f)}
Better(n) == Rivals(n) \ (Beaten(n) \cup Tied(n))

(* The loop's last assignment to newFact.status is the one that is stored.     *)
Verdicts(n) ==
       (IF Tied(n) # {} THEN {"contradicted"} ELSE {})
  \cup (IF Better(n) # {} THEN {"superseded"} ELSE {})
  \cup (IF Tied(n) \cup Better(n) = {} THEN {"current"} ELSE {})

Retired(rank, n) ==
       {Set(rank, f, "superseded") : f \in Beaten(n)}
  \cup {Set(rank, f, "contradicted") : f \in Tied(n)}
Linked(n) ==
       {<<3, "FACT_SUPERSEDES_FACT", n, f>> : f \in Beaten(n)}
  \cup {<<3, "FACT_CONTRADICTS_FACT", n, f>> : f \in Tied(n)}
Listed(n) == {<<4, "history", n, n>>}

(* Variants: the old facts are written last; facts that agree are stored again.    *)
IngestionOldLast(n, status) == {Set(2, n, status)} \cup Linked(n) \cup Retired(4, n)
IngestionRefreshing(n, status) ==
       Retired(1, n) \cup {Set(1, f, "current") : f \in (Current \ {n}) \ Rivals(n)}
  \cup {Set(2, n, status)} \cup Linked(n) \cup Listed(n)

(* The old facts, the new one, its edges; then the entity's facts are listed.  *)
Ingestion(n, status) ==
  Retired(1, n) \cup {Set(2, n, status)} \cup Linked(n) \cup Listed(n)

Ingest(p, n) ==
  /\ n \notin used
  /\ used' = used \cup {n}
  /\ \E status \in Verdicts(n) : Begin(p, Ingestion(n, status))
  /\ UNCHANGED <<fact, edge, index, log, reposted, rebuilds, failures>>

(* A client posts a fact it has posted before, as after a timeout.              *)
Repost(p, n) ==
  /\ n \in (Resent \cap used) \ reposted
  /\ reposted' = reposted \cup {n}
  /\ \E status \in Verdicts(n) : Begin(p, Ingestion(n, status))
  /\ UNCHANGED <<fact, edge, index, log, used, rebuilds, failures>>

(* applyCorrection, FACT_INVALIDATE                                           *)
Invalidation(f) ==
  {Set(1, f, "invalidated"), <<2, "delete", f, f>>, <<3, "record", f, f>>}

Invalidate(p, f) ==
  /\ f \in Stored
  /\ Begin(p, Invalidation(f))
  /\ UNCHANGED <<fact, edge, index, log, used, reposted, rebuilds, failures>>

(* Variants of Replacement: the edge is written before its newer end; only the old  *)
(* fact is brought to the index.                                                *)
ReplacementEdgeFirst(f, g) ==
       {Set(1, f, "superseded"), <<1, "FACT_SUPERSEDES_FACT", g, f>>, Set(2, g, "current")}
  \cup Sync(3, f, "superseded") \cup Sync(3, g, "current") \cup {<<5, "record", f, g>>}
ReplacementUnindexed(f, g) ==
       {Set(1, f, "superseded"), Set(2, g, "current")} \cup Sync(3, f, "superseded")
  \cup {<<4, "FACT_SUPERSEDES_FACT", g, f>>, <<5, "record", f, g>>}

(* applyCorrection, FACT_UPDATE: g is the fact that replaces f.                *)
Replacement(f, g) ==
       {Set(1, f, "superseded"), Set(2, g, "current")}
  \cup Sync(3, f, "superseded") \cup Sync(3, g, "current")
  \cup {<<4, "FACT_SUPERSEDES_FACT", g, f>>, <<5, "record", f, g>>}

Update(p, f, g) ==
  /\ f \in Stored /\ g \notin used
  /\ used' = used \cup {g}
  /\ Begin(p, Replacement(f, g))
  /\ UNCHANGED <<fact, edge, index, log, reposted, rebuilds, failures>>

(* reindexSearch: the facts listed now replace the index once they are embedded. *)
Reindex(p) ==
  /\ rebuilds < MaxRebuilds
  /\ rebuilds' = rebuilds + 1
  /\ Begin(p, {<<1, "replace", Current, Current>>})
  /\ UNCHANGED <<fact, edge, index, log, used, reposted, failures>>
-----------------------------------------------------------------------------
(* The writes that are awaited now.                                           *)
Awaited(p) == {w \in todo[p] : \A v \in todo[p] : w[1] <= v[1]}
Done(p, w) == todo' = [todo EXCEPT ![p] = @ \ {w}]

WriteFact(p, w) ==
  /\ w[2] = "fact"
  /\ fact' = [fact EXCEPT ![w[3]] = w[4]]
  /\ Done(p, w)
  /\ UNCHANGED <<edge, index, log>>

(* Nothing is created when an endpoint is missing.                             *)
WriteEdge(p, w) ==
  /\ w[2] \in Edges
  /\ edge' = IF {w[3], w[4]} \subseteq Stored THEN edge \cup {<<w[2], w[3], w[4]>>} ELSE edge
  /\ Done(p, w)
  /\ UNCHANGED <<fact, index, log>>

(* ingestFact lists the facts again and brings the index up to date with them.  *)
ReadHistory(p, w) ==
  /\ w[2] = "history"
  /\ todo' = [todo EXCEPT ![p] = UNION {Sync(5, f, fact[f]) : f \in Stored}]
  /\ UNCHANGED <<fact, edge, index, log>>

WriteIndex(p, w) ==
  /\ \/ w[2] = "index"   /\ index' = index \cup {w[3]}
     \/ w[2] = "delete"  /\ index' = index \ {w[3]}
     \/ w[2] = "replace" /\ index' = w[3]
  /\ Done(p, w)
  /\ UNCHANGED <<fact, edge, log>>

(* insertCorrection swallows the error of a failed write.                       *)
WriteLog(p, w) ==
  /\ w[2] = "record"
  /\ log' \in {log, log \cup {<<w[3], w[4]>>}}
  /\ Done(p, w)
  /\ UNCHANGED <<fact, edge, index>>

Step(p) ==
  /\ \E w \in Awaited(p) :
       \/ WriteFact(p, w) \/ WriteEdge(p, w) \/ ReadHistory(p, w)
       \/ WriteIndex(p, w) \/ WriteLog(p, w)
  /\ UNCHANGED <<used, reposted, requests, rebuilds, failures>>

(* A write fails: its request ends, and those awaited with it still happen.      *)
Fail(p) ==
  /\ failures < MaxFailures /\ failures' = failures + 1
  /\ \E w \in Awaited(p) : todo' = [todo EXCEPT ![p] = Awaited(p) \ {w}]
  /\ UNCHANGED <<fact, edge, index, log, used, reposted, requests, rebuilds>>

Crash ==
  /\ failures < MaxFailures /\ failures' = failures + 1
  /\ todo' = [p \in Request |-> {}]
  /\ UNCHANGED <<fact, edge, index, log, used, reposted, requests, rebuilds>>

Next ==
  \/ \E p \in Request, n \in Fact : Ingest(p, n) \/ Repost(p, n) \/ Invalidate(p, n)
  \/ \E p \in Request, f, g \in Fact : Update(p, f, g)
  \/ \E p \in Request : Reindex(p) \/ Step(p) \/ Fail(p)
  \/ Crash

Spec == Init /\ [][Next]_vars
-----------------------------------------------------------------------------
Past(f) == fact[f] \in Gone

(* The variables keep their types.                                             *)
TypeOK ==
  /\ fact \in [Fact -> Status]
  /\ edge \subseteq Edges \X Fact \X Fact
  /\ index \subseteq Fact /\ used \subseteq Fact /\ reposted \subseteq Fact
  /\ log \subseteq Fact \X Fact
  /\ todo \in [Request -> SUBSET Writes]
  /\ requests \in 0..MaxRequests /\ rebuilds \in 0..MaxRebuilds /\ failures \in 0..MaxFailures

(* A fact that an edge says was superseded or contradicted is not current, and the  *)
(* fact that did it is stored, whatever other requests wrote from older copies and  *)
(* wherever a request stopped (detectSupersession).                              *)
EdgesAreGrounded ==
  \A e \in edge : {e[2], e[3]} \subseteq Stored /\ (e[3] \notin reposted => Past(e[3]))

(* A correction that is in the log has been made and is not undone: the fact is not  *)
(* current, and its replacement and the edge to it exist (applyCorrection).      *)
LoggedIsApplied ==
  \A c \in log :
    /\ c[1] \notin reposted => Past(c[1])
    /\ c[2] # c[1] => c[2] \in Stored /\ <<"FACT_SUPERSEDES_FACT", c[2], c[1]>> \in edge

(* A fact that stopped being current is not current again, unless its client sends it *)
(* again: a request that writes back its copy of a fact never revives it.         *)
NeverRevived ==
  [][\A f \in Fact : Past(f) /\ fact'[f] = "current" => f \in reposted']_vars

(* Until a request fails, a rebuild replaces the index or a fact is sent again, a    *)
(* current fact can be found, or a request that will make it so is under way (ingestFact, syncFactIndex). *)
CurrentIsFindable ==
  failures = 0 /\ rebuilds = 0 /\ reposted = {} =>
    \A f \in Current \ index :
      \E p \in Request : \E w \in todo[p] : w[2] = "history" \/ (w[2] = "index" /\ w[3] = f)
==============================================================================
