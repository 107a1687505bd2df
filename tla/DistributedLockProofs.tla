------------------------ MODULE DistributedLockProofs ------------------------
(***************************************************************************)
(* Mutual exclusion of withLock for any number of calls, keys and servers,   *)
(* with either backend and with failures.                                    *)
(***************************************************************************)
EXTENDS DistributedLock, TLAPS

(* A stored token is of a call that has not released it, and in the in-process *)
(* map of one that knows it was granted its key ...                           *)
OwnersWereGranted ==
  \A o \in owners : /\ phase[o] # "released"
                    /\ ~ Shared => phase[o] \in {"granted", "ran", "failed"}

(* ... and stays stored while the call is inside and its ttl has not elapsed.  *)
InsideOwns == \A c \in Call : Inside(c) /\ c \notin lapsed => c \in owners

LockInv == TypeOK /\ OwnersWereGranted /\ InsideOwns

LEMMA DeletedIsOwn == \A c : Deleted(c) \subseteq {c}
BY DEF Deleted

LEMMA LockInit == Init => LockInv
BY DEF Init, LockInv, TypeOK, OwnersWereGranted, InsideOwns, Inside, Phase

(* The inductive step, one case per action.                                   *)
LEMMA LockStep == LockInv /\ [Next]_vars => LockInv'
<1> SUFFICES ASSUME LockInv, [Next]_vars PROVE LockInv'
  OBVIOUS
<1> USE DEF LockInv, TypeOK, OwnersWereGranted, InsideOwns, Inside, Phase
<1>1. CASE UNCHANGED vars
  BY <1>1 DEF vars, SlotOf
<1>2. ASSUME NEW c \in Call, Acquire(c) PROVE LockInv'
  <2>1. CASE Free(c)
    BY <1>2, <2>1 DEF Acquire, Free, SlotOf
  <2>2. CASE ~ Free(c)
    BY <1>2, <2>2 DEF Acquire, SlotOf
  <2> QED
    BY <2>1, <2>2
<1>3. ASSUME NEW c \in Call, LoseReply(c) PROVE LockInv'
  BY <1>3 DEF LoseReply, Free, SlotOf
<1>4. ASSUME NEW c \in Call, Run(c) PROVE LockInv'
  BY <1>4 DEF Run, SlotOf
<1>5. ASSUME NEW c \in Call, Release(c) PROVE LockInv'
  BY <1>5, DeletedIsOwn DEF Release, SlotOf, Deleted
<1>6. ASSUME NEW c \in Call, Expire(c) PROVE LockInv'
  BY <1>6 DEF Expire, SlotOf
<1>7. ASSUME NEW c \in Call, ConnectionFails(c) PROVE LockInv'
  <2>1. CASE phase[c] = "ran"
    BY <1>7, <2>1, DeletedIsOwn DEF ConnectionFails, SlotOf
  <2>2. CASE phase[c] = "waiting" /\ Free(c)
    BY <1>7, <2>2 DEF ConnectionFails, Free, SlotOf
  <2>3. CASE phase[c] = "waiting" /\ ~ Free(c)
    BY <1>7, <2>3 DEF ConnectionFails, SlotOf
  <2> QED
    BY <1>7, <2>1, <2>2, <2>3 DEF ConnectionFails
<1>8. ASSUME NEW c \in Call, ServerDies(c) PROVE LockInv'
  <2>1. /\ phase' \in [Call -> Phase]
        /\ \A o \in Call : phase'[o] \in {phase[o], "failed"}
        /\ \A o \in Call : phase'[o] # "failed" /\ Inside(o) => ServerOf[o] # ServerOf[c]
    BY <1>8 DEF ServerDies
  <2>2. owners' \subseteq owners
    BY <1>8 DEF ServerDies
  <2>3. OwnersWereGranted'
    BY <2>1, <2>2
  <2>4. InsideOwns'
    BY <1>8, <2>1 DEF ServerDies
  <2>5. TypeOK'
    BY <1>8, <2>1, <2>2 DEF ServerDies, SlotOf
  <2> QED
    BY <2>3, <2>4, <2>5
<1> QED
  BY <1>1, <1>2, <1>3, <1>4, <1>5, <1>6, <1>7, <1>8 DEF Next, Step

THEOREM LockInvariant == Spec => []LockInv
BY LockInit, LockStep, PTL DEF Spec

(* The variables keep their types: every token stored is a call's, and no slot   *)
(* holds two.                                                                *)
THEOREM LockTypeCorrect == Spec => []TypeOK
<1>1. LockInv => TypeOK
  BY DEF LockInv
<1> QED
  BY <1>1, LockInvariant, PTL

(* No two calls of one slot are inside fn unless one outlived its ttl.         *)
THEOREM Exclusion == Spec => []MutualExclusion
<1>1. LockInv => MutualExclusion
  BY DEF LockInv, TypeOK, InsideOwns, MutualExclusion
<1> QED
  BY <1>1, LockInvariant, PTL

(* Only its owner, its expiry or its server's death takes a token away.        *)
THEOREM OnlyTheOwnerReleases == Spec => ForeignReleaseIsNoop
<1> DEFINE Kept ==
      \A o \in owners \ owners' : o \in lapsed' \/ phase'[o] \in {"released", "failed"}
<1>1. LockInv /\ [Next]_vars => [Kept]_vars
  <2> SUFFICES ASSUME LockInv, Next PROVE Kept
    OBVIOUS
  <2> USE DEF LockInv, TypeOK, OwnersWereGranted, Inside, Phase
  <2>1. ASSUME NEW c \in Call, Step(c) PROVE Kept
    BY <2>1, DeletedIsOwn DEF Step, Acquire, Run, Release
  <2>2. ASSUME NEW c \in Call, Expire(c) PROVE Kept
    BY <2>2 DEF Expire
  <2>3. ASSUME NEW c \in Call, ConnectionFails(c) PROVE Kept
    BY <2>3, DeletedIsOwn DEF ConnectionFails
  <2>4. ASSUME NEW c \in Call, ServerDies(c) PROVE Kept
    BY <2>4 DEF ServerDies
  <2>5. ASSUME NEW c \in Call, LoseReply(c) PROVE Kept
    BY <2>5 DEF LoseReply
  <2> QED
    BY <2>1, <2>2, <2>3, <2>4, <2>5 DEF Next
<1> QED
  BY <1>1, LockInvariant, PTL DEF Spec, ForeignReleaseIsNoop
=============================================================================
