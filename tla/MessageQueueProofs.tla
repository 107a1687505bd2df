-------------------------- MODULE MessageQueueProofs --------------------------
(* What MessageQueue guarantees for every set of messages, producers and          *)
(* consumers, every batch size and with or without AMQP.                         *)
EXTENDS MessageQueue, FiniteSetTheorems, TLAPS

(* What somebody holds can be taken again only if it was made available again.     *)
HeldIsTaken == \A c \in Consumer : \A m \in held[c] \cap Available : m \in rearmed

QInv == TypeOK /\ HeldIsTaken /\ SharedOnlyIfRearmed

LEMMA InitQInv == ASSUME Init PROVE QInv
  BY QueueAssumption DEF Init, QInv, TypeOK, HeldIsTaken, SharedOnlyIfRearmed, Idle, None

(* Making a row available again marks it when somebody holds it.                  *)
LEMMA ArmQInv ==
  ASSUME QInv, NEW m \in Msg, NEW when \in {"delayed", "due"}, Arm(m, when),
         UNCHANGED held, UNCHANGED wanted,
         pushing' \in [Producer -> {Idle} \cup ({"push", "insert"} \X Msg)]
  PROVE  QInv'
  <1>1. TypeOK'
    BY DEF QInv, TypeOK, Arm, Idle
  <1>2. HeldIsTaken'
    BY DEF QInv, TypeOK, Arm, HeldIsTaken, Available, Present, Held
  <1>3. SharedOnlyIfRearmed'
    BY DEF QInv, TypeOK, Arm, SharedOnlyIfRearmed
  <1>. QED BY <1>1, <1>2, <1>3 DEF QInv

LEMMA UnpopQInv ==
  ASSUME QInv, NEW M \in SUBSET Msg, Unpop(M), UNCHANGED held, UNCHANGED wanted,
         pushing' \in [Producer -> {Idle} \cup ({"push", "insert"} \X Msg)]
  PROVE  QInv'
  <1>1. TypeOK'
    BY QueueAssumption DEF QInv, TypeOK, Unpop, Idle
  <1>2. HeldIsTaken'
    BY DEF QInv, TypeOK, Unpop, HeldIsTaken, Available, Present, Held
  <1>3. SharedOnlyIfRearmed'
    BY DEF QInv, TypeOK, Unpop, SharedOnlyIfRearmed
  <1>. QED BY <1>1, <1>2, <1>3 DEF QInv

(* Deleted rows are not available; what is held shrinks at most.                  *)
LEMMA DropQInv ==
  ASSUME QInv, NEW M \in SUBSET Msg, NEW h \in [Consumer -> SUBSET Msg],
         \A c \in Consumer : h[c] \subseteq held[c],
         held' = h, rearmed' = StillHeld(h) \/ (rearmed' = rearmed),
         Delete(M) \/ UNCHANGED <<row, popped, age>>,
         wanted' \in [Consumer -> 0..Count], UNCHANGED <<pushing, returns>>
  PROVE  QInv'
  <1>1. TypeOK'
    BY DEF QInv, TypeOK, Delete, StillHeld
  <1>2. HeldIsTaken'
    BY DEF QInv, TypeOK, Delete, HeldIsTaken, Available, Present, StillHeld
  <1>3. SharedOnlyIfRearmed'
    BY DEF QInv, TypeOK, SharedOnlyIfRearmed, StillHeld
  <1>. QED BY <1>1, <1>2, <1>3 DEF QInv

(* A poll takes only what is available, so what another holds is marked.           *)
LEMMA PopQInv ==
  ASSUME QInv, NEW c \in Consumer, PopMessages(c)
  PROVE  QInv'
  <1>1. PICK S \in Slice(wanted[c]) :
             /\ popped' = popped \cup S
             /\ wanted' = [wanted EXCEPT ![c] = @ - Cardinality(S)]
             /\ held' = [held EXCEPT ![c] = @ \cup S]
             /\ UNCHANGED <<row, age, pushing, rearmed, returns>>
    BY DEF PopMessages
  <1>2. S \subseteq Msg /\ S \subseteq Available /\ Cardinality(S) <= wanted[c]
    BY <1>1 DEF Slice, Due
  <1>3. Cardinality(S) \in Nat
    BY <1>2, QueueAssumption, FS_Subset, FS_CardinalityType
  <1>4. TypeOK'
    <2>1. wanted[c] - Cardinality(S) \in 0..Count
      BY <1>2, <1>3, QueueAssumption DEF QInv, TypeOK
    <2>. QED BY <1>1, <1>2, <2>1 DEF QInv, TypeOK
  <1>5. HeldIsTaken'
    BY <1>1, <1>2 DEF QInv, TypeOK, HeldIsTaken, Available, Present
  <1>6. SharedOnlyIfRearmed'
    BY <1>1, <1>2 DEF QInv, TypeOK, HeldIsTaken, SharedOnlyIfRearmed
  <1>. QED BY <1>4, <1>5, <1>6 DEF QInv

LEMMA TimeQInv ==
  ASSUME QInv, Tick \/ (\E m \in Msg : SetUnackTimeout(m) \/ ComeDue(m))
  PROVE  QInv'
  <1>1. CASE Tick
    <2>1. \A m \in Msg : Cardinality({age[n] : n \in {k \in Due : age[k] < age[m]}}) \in Nat
      <3>. TAKE m \in Msg
      <3>. DEFINE D == {k \in Due : age[k] < age[m]}
      <3>1. IsFiniteSet(D)
        BY QueueAssumption, FS_Subset DEF Due
      <3>2. IsFiniteSet({age[n] : n \in D})
        <4>. DEFINE A == {age[n] : n \in D}
                    f == [n \in D |-> age[n]]
        <4>1. f \in Surjection(D, A)
          BY DEF Surjection
        <4>. QED BY <3>1, <4>1, FS_Surjection
      <3>. QED BY <3>2, FS_CardinalityType
    <2>2. age' \in [Msg -> Nat]
      BY <1>1, <2>1 DEF Tick
    <2>. QED BY <1>1, <2>2 DEF Tick, QInv, TypeOK, HeldIsTaken, SharedOnlyIfRearmed, Available, Present
  <1>2. CASE \E m \in Msg : SetUnackTimeout(m) \/ ComeDue(m)
    <2>1. PICK m \in Msg : SetUnackTimeout(m) \/ ComeDue(m)
      BY <1>2
    <2>2. m \in Present
      BY <2>1 DEF SetUnackTimeout, ComeDue, Present
    <2>3. /\ \E when \in {"delayed", "due"} : row' = [row EXCEPT ![m] = when]
          /\ age' \in [Msg -> Nat]
          /\ UNCHANGED <<popped, pushing, wanted, held, rearmed, returns>>
      BY <2>1 DEF SetUnackTimeout, ComeDue, QInv, TypeOK
    <2>4. TypeOK'
      BY <2>3 DEF QInv, TypeOK
    <2>5. Available' = Available
      BY <2>2, <2>3 DEF Available, Present, QInv, TypeOK
    <2>. QED BY <2>3, <2>4, <2>5 DEF QInv, HeldIsTaken, SharedOnlyIfRearmed
  <1>. QED BY <1>1, <1>2

LEMMA PushQInv ==
  ASSUME QInv, NEW p \in Producer, NEW m \in Msg,
         PushUpdate(p, m) \/ PushInsert(p, m) \/ PushMessage(p, m) \/ PushIfNotExists(p, m)
  PROVE  QInv'
  <1>1. pushing' \in [Producer -> {Idle} \cup ({"push", "insert"} \X Msg)]
    BY DEF QInv, TypeOK, PushUpdate, PushInsert, PushMessage, PushIfNotExists, PushAgain
  <1>2. CASE \E when \in {"delayed", "due"} : Arm(m, when) /\ UNCHANGED <<wanted, held>>
    BY <1>1, <1>2, ArmQInv
  <1>3. CASE Unpop({m}) /\ UNCHANGED <<wanted, held>>
    BY <1>1, <1>3, UnpopQInv
  <1>4. CASE UNCHANGED <<row, age, popped, rearmed, returns, wanted, held>>
    BY <1>1, <1>4 DEF QInv, TypeOK, HeldIsTaken, SharedOnlyIfRearmed, Available, Present
  <1>. QED BY <1>2, <1>3, <1>4 DEF PushUpdate, PushInsert, PushMessage, PushIfNotExists

LEMMA StepQInv == ASSUME QInv, [Next]_vars PROVE QInv'
  <1>1. CASE UNCHANGED vars
    BY <1>1 DEF vars, QInv, TypeOK, HeldIsTaken, SharedOnlyIfRearmed, Available, Present
  <1>2. CASE \E p \in Producer, m \in Msg :
               PushUpdate(p, m) \/ PushInsert(p, m) \/ PushMessage(p, m) \/ PushIfNotExists(p, m)
    BY <1>2, PushQInv
  <1>3. CASE \E c \in Consumer : PopMessages(c)
    BY <1>3, PopQInv
  <1>4. ASSUME NEW c \in Consumer, Poll(c) \/ PollEnds(c) \/ ConsumerDies(c)
        PROVE  QInv'
    <2>1. wanted' \in [Consumer -> 0..Count]
      BY <1>4, QueueAssumption DEF Poll, PollEnds, ConsumerDies, QInv, TypeOK
    <2>2. CASE ConsumerDies(c)
      <3>. DEFINE h == [held EXCEPT ![c] = {}]
      <3>1. h \in [Consumer -> SUBSET Msg] /\ \A d \in Consumer : h[d] \subseteq held[d]
        BY DEF QInv, TypeOK
      <3>2. held' = h /\ rearmed' = StillHeld(h) /\ UNCHANGED <<row, popped, age, pushing, returns>>
        BY <2>2 DEF ConsumerDies
      <3>. HIDE DEF h
      <3>. QED BY <2>1, <3>1, <3>2, DropQInv
    <2>3. CASE Poll(c) \/ PollEnds(c)
      BY <2>1, <2>3 DEF Poll, PollEnds, QInv, TypeOK, HeldIsTaken, SharedOnlyIfRearmed, Available, Present
    <2>. QED BY <1>4, <2>2, <2>3
  <1>5. ASSUME NEW c \in Consumer, NEW m \in Msg, Ack(c, m)
        PROVE  QInv'
    <2>. DEFINE h == [held EXCEPT ![c] = @ \ {m}]
    <2>1. h \in [Consumer -> SUBSET Msg] /\ \A d \in Consumer : h[d] \subseteq held[d]
      BY DEF QInv, TypeOK
    <2>2. held' = h /\ rearmed' = StillHeld(h) /\ Delete({m}) /\ UNCHANGED <<pushing, wanted, returns>>
      BY <1>5 DEF Ack
    <2>3. wanted' \in [Consumer -> 0..Count]
      BY <2>2 DEF QInv, TypeOK
    <2>. HIDE DEF h
    <2>. QED BY <2>1, <2>2, <2>3, DropQInv
  <1>6. ASSUME NEW p \in Producer, ProducerDies(p)
        PROVE  QInv'
    BY <1>6 DEF ProducerDies, QInv, TypeOK, HeldIsTaken, SharedOnlyIfRearmed, Available, Present
  <1>7. CASE \E m \in Msg : Postpone(m)
    BY <1>7, ArmQInv DEF Postpone, QInv, TypeOK
  <1>8. CASE ProcessUnacks
    <2>1. PICK a \in {age[m] : m \in Due \cap popped} \ {0} :
               Unpop({m \in Due \cap popped : age[m] >= a})
      BY <1>8 DEF ProcessUnacks
    <2>2. {m \in Due \cap popped : age[m] >= a} \in SUBSET Msg
      BY DEF Due
    <2>3. UNCHANGED <<pushing, wanted, held>>
      BY <1>8 DEF ProcessUnacks
    <2>4. pushing' \in [Producer -> {Idle} \cup ({"push", "insert"} \X Msg)]
      BY <2>3 DEF QInv, TypeOK
    <2>. QED BY <2>1, <2>2, <2>3, <2>4, UnpopQInv
  <1>9. CASE Flush
    <2>1. held \in [Consumer -> SUBSET Msg] /\ \A c \in Consumer : held[c] \subseteq held[c]
      BY DEF QInv, TypeOK
    <2>2. wanted' \in [Consumer -> 0..Count]
      BY <1>9 DEF Flush, QInv, TypeOK
    <2>. QED BY <1>9, <2>1, <2>2, DropQInv DEF Flush
  <1>10. CASE Tick \/ \E m \in Msg : SetUnackTimeout(m) \/ ComeDue(m)
    BY <1>10, TimeQInv
  <1>. QED BY <1>1, <1>2, <1>3, <1>4, <1>5, <1>6, <1>7, <1>8, <1>9, <1>10 DEF Next

(* The table, the pushes under way and what consumers hold keep their types, and    *)
(* nothing available is held unmarked, after any pushes, polls, acks, returns and   *)
(* deaths.                                                                        *)
THEOREM QueueInvariant == Spec => []QInv
  BY InitQInv, StepQInv, PTL DEF Spec

(* A message is in the hands of two consumers only if it was made available again    *)
(* while the first held it (push, pushIfNotExists, processUnacks, _popMessages).    *)
THEOREM OneHolder == Spec => []SharedOnlyIfRearmed
  <1>1. QInv => SharedOnlyIfRearmed
    BY DEF QInv
  <1>. QED BY <1>1, QueueInvariant, PTL
===============================================================================
