----------------------------- MODULE MessageQueue -----------------------------
(***************************************************************************)
(* One queue of the table queue_message as SqliteQueueDAO and AMQPQueueDAO   *)
(* use it: producers that push, consumers that poll, and whoever moves,      *)
(* returns or deletes messages meanwhile.  Every action is one SQL statement *)
(* or one await; a push and a poll are several.                              *)
(*                                                                         *)
(* deliver_on matters by its order only: a row is delayed, or due with an    *)
(* age, 0 for the current second and the more the longer it has been due.    *)
(***************************************************************************)
EXTENDS Integers, FiniteSets

CONSTANTS Msg, Producer, Consumer,
          Prio,      \* the priority of every message
          Count,     \* how many messages a poll asks for
          Steady,    \* messages pushed with pushIfNotExists and never moved
          Amqp,      \* AMQPQueueDAO wraps the table's DAO
          MaxReturns \* bound: how often popped rows are returned with their old time

None == "NONE"

ASSUME QueueAssumption ==
  /\ None \notin Msg
  /\ IsFiniteSet(Msg)
  /\ Prio \in [Msg -> Int]
  /\ Count \in Nat
  /\ Steady \subseteq Msg
  /\ Amqp \in BOOLEAN
  /\ MaxReturns \in Nat

VARIABLES row,      \* every message's row: absent, delayed or due
          popped,   \* the rows with popped = 1
          age,      \* how long due rows have been due
          pushing,  \* per producer: what is left of its push, and of which message
          wanted,   \* per consumer: what its poll still asks for, 0 when it has returned
          held,     \* per consumer: messages it was handed and has not finished
          rearmed,  \* held messages that were made available again
          returns   \* how often popped rows were returned
vars == <<row, popped, age, pushing, wanted, held, rearmed, returns>>

Present   == {m \in Msg : row[m] # "absent"}
Due       == {m \in Msg : row[m] = "due"}
Available == Present \ popped
Held(m)   == \E c \in Consumer : m \in held[c]
Idle      == <<"idle", None>>

Init ==
  /\ row = [m \in Msg |-> "absent"]
  /\ popped = {}
  /\ age = [m \in Msg |-> 0]
  /\ pushing = [p \in Producer |-> Idle]
  /\ wanted = [c \in Consumer |-> 0]
  /\ held = [c \in Consumer |-> {}]
  /\ rearmed = {}
  /\ returns = 0

(* The row is inserted, or made available again, at its time.                 *)
Arm(m, when) ==
  /\ row' = [row EXCEPT ![m] = when]
  /\ age' = [age EXCEPT ![m] = 0]
  /\ popped' = popped \ {m}
  /\ rearmed' = IF Held(m) THEN rearmed \cup {m} ELSE rearmed
  /\ UNCHANGED returns

(* Popped rows become available again and keep their time.                    *)
Unpop(M) ==
  /\ returns < MaxReturns
  /\ returns' = returns + 1
  /\ popped' = popped \ M
  /\ rearmed' = rearmed \cup {m \in M : Held(m)}
  /\ UNCHANGED <<row, age>>

Delete(M) ==
  /\ row' = [m \in Msg |-> IF m \in M THEN "absent" ELSE row[m]]
  /\ popped' = popped \ M
  /\ age' = [m \in Msg |-> IF m \in M THEN 0 ELSE age[m]]
-----------------------------------------------------------------------------
(* push: an update, and an insert when the update found no row.                *)
PushUpdate(p, m) ==
  /\ \/ pushing[p] = Idle /\ m \notin Steady
     \/ pushing[p] = <<"push", m>>
  /\ \/ /\ m \in Present
        /\ \E when \in {"delayed", "due"} : Arm(m, when)
        /\ pushing' = [pushing EXCEPT ![p] = Idle]
     \/ /\ m \notin Present
        /\ pushing' = [pushing EXCEPT ![p] = <<"insert", m>>]
        /\ UNCHANGED <<row, age, popped, rearmed, returns>>
  /\ UNCHANGED <<wanted, held>>

PushInsert(p, m) ==
  /\ pushing[p] = <<"insert", m>>
  /\ \E when \in {"delayed", "due"} : Arm(m, when)
  /\ pushing' = [pushing EXCEPT ![p] = Idle]
  /\ UNCHANGED <<wanted, held>>

(* AMQPQueueDAO pushes once more what its delegate has pushed.                  *)
PushAgain(p, m) == pushing' = IF Amqp THEN [pushing EXCEPT ![p] = <<"push", m>>] ELSE pushing

(* pushMessages, message by message                                            *)
PushMessage(p, m) ==
  /\ pushing[p] = Idle /\ m \notin Steady
  /\ Arm(m, "due")
  /\ PushAgain(p, m)
  /\ UNCHANGED <<wanted, held>>

(* pushIfNotExists: a row that is there and not popped is left alone; a popped   *)
(* one is made available and keeps its time.                                   *)
PushIfNotExists(p, m) ==
  /\ pushing[p] = Idle
  /\ \/ /\ m \notin Present
        /\ \E when \in {"delayed", "due"} : Arm(m, when)
        /\ PushAgain(p, m)
     \/ /\ m \in Present \cap popped
        /\ Unpop({m})
        /\ PushAgain(p, m)
  /\ UNCHANGED <<wanted, held>>

(* pollMessages begins                                                          *)
Poll(c) ==
  /\ wanted[c] = 0
  /\ wanted' = [wanted EXCEPT ![c] = Count]
  /\ UNCHANGED <<row, popped, age, pushing, held, rearmed, returns>>

(* deliver_on, then priority; created_on decides among equals.                  *)
Before(m, n) == age[m] > age[n] \/ (age[m] = age[n] /\ Prio[m] >= Prio[n])

(* Variants of Slice: one orders by priority only, one does not look at popped.  *)
SliceByPriority(k) ==
  {S \in SUBSET (Due \cap Available) :
     /\ Cardinality(S) <= k
     /\ Cardinality(S) = k \/ S = Due \cap Available
     /\ \A m \in S, n \in (Due \cap Available) \ S : Prio[m] >= Prio[n]}
SlicePopped(k) ==
  {S \in SUBSET Due :
     /\ Cardinality(S) <= k
     /\ Cardinality(S) = k \/ S = Due
     /\ \A m \in S, n \in Due \ S : Before(m, n)}

(* What _popMessages may take: the first k rows that are due and not popped.     *)
Slice(k) ==
  {S \in SUBSET (Due \cap Available) :
     /\ Cardinality(S) <= k
     /\ Cardinality(S) = k \/ S = Due \cap Available
     /\ \A m \in S, n \in (Due \cap Available) \ S : Before(m, n)}

PopMessages(c) ==
  /\ wanted[c] > 0
  /\ \E S \in Slice(wanted[c]) :
       /\ S # {}
       /\ popped' = popped \cup S
       /\ wanted' = [wanted EXCEPT ![c] = @ - Cardinality(S)]
       /\ held' = [held EXCEPT ![c] = @ \cup S]
  /\ UNCHANGED <<row, age, pushing, rearmed, returns>>

(* The poll's time is up.                                                       *)
PollEnds(c) ==
  /\ wanted[c] > 0
  /\ wanted' = [wanted EXCEPT ![c] = 0]
  /\ UNCHANGED <<row, popped, age, pushing, held, rearmed, returns>>

StillHeld(h) == {m \in rearmed : \E c \in Consumer : m \in h[c]}

(* ack, or remove, by a consumer that is done with the message                  *)
Ack(c, m) ==
  /\ wanted[c] = 0 /\ m \in held[c]
  /\ Delete({m})
  /\ held' = [held EXCEPT ![c] = @ \ {m}]
  /\ rearmed' = StillHeld(held')
  /\ UNCHANGED <<pushing, wanted, returns>>

(* A consumer dies, in the middle of a poll or of its work.                     *)
ConsumerDies(c) ==
  /\ held' = [held EXCEPT ![c] = {}]
  /\ wanted' = [wanted EXCEPT ![c] = 0]
  /\ rearmed' = StillHeld(held')
  /\ UNCHANGED <<row, popped, age, pushing, returns>>

(* A producer dies between the statements of its push.                          *)
ProducerDies(p) ==
  /\ pushing[p] # Idle
  /\ pushing' = [pushing EXCEPT ![p] = Idle]
  /\ UNCHANGED <<row, popped, age, wanted, held, rearmed, returns>>

(* postpone makes the row available, setUnackTimeout and resetOffsetTime leave   *)
(* popped alone.                                                                *)
Postpone(m) ==
  /\ m \in Present \ Steady
  /\ \E when \in {"delayed", "due"} : Arm(m, when)
  /\ UNCHANGED <<pushing, wanted, held>>

SetUnackTimeout(m) ==
  /\ m \in Present \ Steady
  /\ \E when \in {"delayed", "due"} : row' = [row EXCEPT ![m] = when]
  /\ age' = [age EXCEPT ![m] = 0]
  /\ UNCHANGED <<popped, pushing, wanted, held, rearmed, returns>>

(* processUnacks: the popped rows that have been due for long; how long the      *)
(* others have been is any age.                                                 *)
ProcessUnacks ==
  /\ \E a \in {age[m] : m \in Due \cap popped} \ {0} :
       Unpop({m \in Due \cap popped : age[m] >= a})
  /\ UNCHANGED <<pushing, wanted, held>>

Flush ==
  /\ Present # {}
  /\ Delete(Msg)
  /\ UNCHANGED <<pushing, wanted, held, rearmed, returns>>

(* The time of a delayed row comes, and a second passes.                          *)
ComeDue(m) ==
  /\ row[m] = "delayed"
  /\ row' = [row EXCEPT ![m] = "due"]
  /\ UNCHANGED <<popped, age, pushing, wanted, held, rearmed, returns>>

Tick ==
  /\ age' = [m \in Msg |-> IF m \in Due
                           THEN Cardinality({age[n] : n \in {k \in Due : age[k] < age[m]}}) + 1
                           ELSE 0]
  /\ UNCHANGED <<row, popped, pushing, wanted, held, rearmed, returns>>

Next ==
  \/ \E p \in Producer, m \in Msg :
       PushUpdate(p, m) \/ PushInsert(p, m) \/ PushMessage(p, m) \/ PushIfNotExists(p, m)
  \/ \E c \in Consumer : Poll(c) \/ PopMessages(c) \/ PollEnds(c) \/ ConsumerDies(c)
  \/ \E c \in Consumer, m \in Msg : Ack(c, m)
  \/ \E p \in Producer : ProducerDies(p)
  \/ \E m \in Msg : Postpone(m) \/ SetUnackTimeout(m) \/ ComeDue(m)
  \/ ProcessUnacks \/ Flush \/ Tick

Spec == Init /\ [][Next]_vars

(* Consumers poll again and again, a poll with messages to take takes them in the  *)
(* end although others come between its attempts, and time passes.               *)
Fairness ==
  /\ \A c \in Consumer : WF_vars(Poll(c)) /\ SF_vars(PopMessages(c))
  /\ \A m \in Msg : WF_vars(ComeDue(m))
  /\ WF_vars(Tick)
FairSpec == Spec /\ Fairness
-----------------------------------------------------------------------------
(* The variables keep their types.                                              *)
TypeOK ==
  /\ row \in [Msg -> {"absent", "delayed", "due"}]
  /\ popped \subseteq Msg
  /\ age \in [Msg -> Nat]
  /\ pushing \in [Producer -> {Idle} \cup ({"push", "insert"} \X Msg)]
  /\ wanted \in [Consumer -> 0..Count]
  /\ held \in [Consumer -> SUBSET Msg]
  /\ rearmed \subseteq Msg
  /\ returns \in 0..MaxReturns

(* Two consumers hold one message only if somebody made it available while the     *)
(* first still held it, whatever polls, pushes and deletions came between         *)
(* (_popMessages, push, processUnacks, ack).                                      *)
SharedOnlyIfRearmed ==
  \A c, d \in Consumer : \A m \in held[c] \cap held[d] : c # d => m \in rearmed

(* A message that nobody moves is handed out in the end, however often producers   *)
(* push others of higher priority, as long as popped rows are not returned to     *)
(* their old place for ever (the order of _popMessages, push, pushIfNotExists).    *)
NoStarvation ==
  \A m \in Steady : m \in Available ~> m \notin Available
===============================================================================
