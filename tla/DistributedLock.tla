--------------------------- MODULE DistributedLock ---------------------------
(***************************************************************************)
(* redis-lock: withLock(key, ttl, fn) takes the key if nobody has it, runs fn *)
(* and gives the key back.  acquire and release are awaited, so the calls of *)
(* all servers interleave between them; the key may expire at any time; a     *)
(* server may die, and its connection to Redis may fail, between any two       *)
(* steps.  Each call has a token of its own (randomUUID), so a call names its *)
(* token.                                                                   *)
(*                                                                         *)
(* The cron scheduler of server-lite is such a caller: each server makes one *)
(* call per due schedule, with a key made of the schedule and the poll window, *)
(* and fn starts the workflow.                                               *)
(***************************************************************************)
CONSTANTS Call,       \* the executions of withLock
          KeyOf,      \* the key each asks for
          ServerOf,   \* the server process each runs in
          Shared,     \* the backend is Redis, not the in-process fallback
          Failures    \* servers die and connections fail

ASSUME LockAssumption ==
  /\ KeyOf = [c \in Call |-> KeyOf[c]]
  /\ ServerOf = [c \in Call |-> ServerOf[c]]
  /\ Shared \in BOOLEAN
  /\ Failures \in BOOLEAN

(* Where a call's token is kept: under its key, in Redis or in its server.     *)
SlotOf(c) == IF Shared THEN <<"redis", KeyOf[c]>> ELSE <<ServerOf[c], KeyOf[c]>>

VARIABLES owners,  \* the tokens stored: none or one for a slot
          phase,   \* how far each call is
          lapsed,  \* the tokens that expired
          fired    \* the calls whose fn has run

vars == <<owners, phase, lapsed, fired>>

Phase == {"waiting", "skipped", "granted", "ran", "released", "failed"}

(* From the grant to the end of release the caller believes it has the key.    *)
Inside(c) == phase[c] \in {"granted", "ran"}

(* A variant of Free: SET without NX.                                         *)
FreeAlways(c) == c \notin owners

Free(c) == \A o \in owners : SlotOf(o) # SlotOf(c)

Init ==
  /\ owners = {}
  /\ phase = [c \in Call |-> "waiting"]
  /\ lapsed = {}
  /\ fired = {}

(* acquire: SET NX, or the in-process map's check and set, and its answer.     *)
Acquire(c) ==
  /\ phase[c] = "waiting"
  /\ \/ /\ Free(c)
        /\ owners' = owners \cup {c}
        /\ lapsed' = lapsed \ {c}
        /\ phase' = [phase EXCEPT ![c] = "granted"]
     \/ /\ ~ Free(c)
        /\ phase' = [phase EXCEPT ![c] = "skipped"]
        /\ UNCHANGED <<owners, lapsed>>
  /\ UNCHANGED fired

(* Redis stores c's token and the connection is lost before the answer.  The   *)
(* client sends the SET NX once more (maxRetriesPerRequest is 1 and resending  *)
(* is the client's default): Acquire(c) then is that resend, which c's own     *)
(* token turns away unless it has expired.  A repeated release deletes nothing *)
(* more and needs no action.                                                *)
LoseReply(c) ==
  /\ Failures /\ Shared
  /\ phase[c] = "waiting" /\ c \notin lapsed
  /\ Free(c)
  /\ owners' = owners \cup {c}
  /\ UNCHANGED <<phase, lapsed, fired>>

(* A variant of Run that checks the lock again before fn.                     *)
RunIfOwned(c) ==
  /\ phase[c] = "granted"
  /\ phase' = [phase EXCEPT ![c] = "ran"]
  /\ fired' = IF c \in owners THEN fired \cup {c} ELSE fired
  /\ UNCHANGED <<owners, lapsed>>

(* fn, which may have been started after the key expired.                     *)
Run(c) ==
  /\ phase[c] = "granted"
  /\ phase' = [phase EXCEPT ![c] = "ran"]
  /\ fired' = fired \cup {c}
  /\ UNCHANGED <<owners, lapsed>>

(* A variant of Deleted: DEL without comparing the token.                     *)
DeletedByKey(c) == {o \in owners : SlotOf(o) = SlotOf(c)}

(* The tokens release(key, token) deletes: the stored one, if it is still c's. *)
Deleted(c) == {o \in owners : SlotOf(o) = SlotOf(c) /\ o = c}

(* release, in the finally block.                                             *)
Release(c) ==
  /\ phase[c] = "ran"
  /\ owners' = owners \ Deleted(c)
  /\ phase' = [phase EXCEPT ![c] = "released"]
  /\ UNCHANGED <<lapsed, fired>>

(* PX, or expiresAt.                                                          *)
Expire(c) ==
  /\ c \in owners
  /\ owners' = owners \ {c}
  /\ lapsed' = lapsed \cup {c}
  /\ UNCHANGED <<phase, fired>>

(* A command to Redis fails for good: acquire or release throws and withLock   *)
(* with it, whether Redis carried the command out or not.                      *)
ConnectionFails(c) ==
  /\ Failures /\ Shared
  /\ phase[c] \in {"waiting", "ran"}
  /\ owners' \in {owners, IF phase[c] = "ran" THEN owners \ Deleted(c)
                          ELSE IF Free(c) THEN owners \cup {c} ELSE owners}
  /\ phase' = [phase EXCEPT ![c] = "failed"]
  /\ UNCHANGED <<lapsed, fired>>

(* The server of c dies, with every call it is in; its own map dies too.      *)
ServerDies(c) ==
  /\ Failures
  /\ Inside(c)
  /\ phase' = [o \in Call |-> IF ServerOf[o] = ServerOf[c] /\ Inside(o)
                              THEN "failed" ELSE phase[o]]
  /\ owners' = IF Shared THEN owners ELSE {o \in owners : ServerOf[o] # ServerOf[c]}
  /\ UNCHANGED <<lapsed, fired>>

Step(c) == Acquire(c) \/ Run(c) \/ Release(c)

Next ==
  \E c \in Call :
    Step(c) \/ LoseReply(c) \/ Expire(c) \/ ConnectionFails(c) \/ ServerDies(c)

Spec == Init /\ [][Next]_vars

(* A scheduled call is made, and its promises settle.                         *)
FairSpec == Spec /\ \A c \in Call : WF_vars(Step(c))

(* The tables of both sides have their types, and a token is stored at most   *)
(* once per slot.                                                            *)
TypeOK ==
  /\ owners \subseteq Call
  /\ phase \in [Call -> Phase]
  /\ lapsed \subseteq Call
  /\ fired \subseteq Call
  /\ \A c, o \in owners : SlotOf(c) = SlotOf(o) => c = o

(* Two calls are inside fn for the same key at once only when the lock of one  *)
(* has outlived its ttl: in Redis across all servers, in the fallback within   *)
(* one server.                                                               *)
MutualExclusion ==
  \A c, o \in Call :
    Inside(c) /\ Inside(o) /\ SlotOf(c) = SlotOf(o) /\ c \notin lapsed /\ o \notin lapsed
      => c = o

(* A stored token goes only when it expires, when its own call releases it, or *)
(* with the process: a slow holder never releases a lock it no longer owns.    *)
ForeignReleaseIsNoop ==
  [][\A o \in owners \ owners' : o \in lapsed' \/ phase'[o] \in {"released", "failed"}]_vars

(* A call turned away by its own token: only a lost reply explains it.         *)
TurnedAwayByItself(c) == phase[c] = "skipped" /\ c \in owners \cup lapsed

(* Every key that is asked for is served: some call runs fn, even if every     *)
(* other one is turned away, unless a call for the key fails or, its reply     *)
(* lost, is turned away by its own token (withLock, acquire).                  *)
EveryKeyIsServed ==
  LET Settles(o) == o \in fired \/ phase[o] = "failed" \/ TurnedAwayByItself(o)
  IN \A c \in Call : <>(\E o \in Call : KeyOf[o] = KeyOf[c] /\ Settles(o))

=============================================================================
