----------------------------- MODULE GlobalLock -----------------------------
(***************************************************************************)
(* One key of the redis locker (modules/globallock/redis_locker.go), as    *)
(* the processes of a cluster use it.  A session is one call of Lock or    *)
(* TryLock; redis keeps the key with the session's token until it is       *)
(* deleted or its time runs out; each process keeps a map from the key to  *)
(* the session whose lock it extends, and runs a round of extensions every *)
(* half expiry.                                                            *)
(*                                                                         *)
(* Time is counted in periods of the rounds.  "round" is the time left to  *)
(* the next round of the process of the current owner: the rounds of the   *)
(* other processes find no live lock of theirs.  A round with work to do   *)
(* is not late (Tick waits for it); an extension may fail all the same.    *)
(* The memory locker (modules/globallock/memory_locker.go) is the case in  *)
(* which time stands still and there is one process.                       *)
(***************************************************************************)
EXTENDS Integers, FiniteSets

CONSTANTS
  Sessions,     \* calls of Lock or TryLock
  Nodes,        \* processes
  NodeOf,       \* the process of each actor, the sessions among them
  None,         \* no session
  Expiry,       \* redisLockExpiry, in periods
  MaxFailures   \* bound: extensions and unlocks that fail

ASSUME NodeOfAssumption == \A s \in Sessions : NodeOf[s] \in Nodes
ASSUME ExpiryAssumption == Expiry \in Nat \ {0} /\ MaxFailures \in Nat
ASSUME NoneAssumption == None \notin Sessions

VARIABLES
  owner,     \* the session whose token is stored under the key in redis
  ttl,       \* periods until redis deletes the key
  round,     \* periods until the owner's process runs its extensions
  entry,     \* mutexM[key] of each process
  held,      \* sessions between the return of Lock and their release
  failures,  \* extensions and unlocks that failed so far
  expired    \* history: sessions whose last lock ran out while they held it

lockVars == <<owner, ttl, round, entry, held, failures, expired>>

\* startExtend runs again half an expiry after it ended.
Period == Expiry \div 2

LockInit ==
  /\ owner = None /\ ttl = 0 /\ round = 0
  /\ entry = [n \in Nodes |-> None]
  /\ held = {} /\ failures = 0 /\ expired = {}

Free == owner = None

\* The phase of the rounds at the time of the call is any.
Acquire(s) ==
  /\ Free /\ s \notin held
  /\ owner' = s /\ ttl' = Expiry /\ round' \in 0 .. Period
  /\ entry' = [entry EXCEPT ![NodeOf[s]] = s]
  /\ held' = held \cup {s}
  /\ expired' = expired \ {s}
  /\ UNCHANGED failures

\* A mutant: DEL of the key whoever holds it.
ReleaseAnyones(s) ==
  /\ entry' = [entry EXCEPT ![NodeOf[s]] = None]
  /\ held' = held \ {s}
  /\ owner' = None /\ ttl' = 0 /\ round' = 0
  /\ UNCHANGED <<failures, expired>>

\* The entry is deleted by the name of the key: it may be that of a later
\* session of the process.  Redis compares the token before it deletes; a
\* failed unlock is ignored, and the key stays until its time is up.
Release(s) ==
  /\ entry' = [entry EXCEPT ![NodeOf[s]] = None]
  /\ held' = held \ {s}
  /\ \/ /\ owner = s /\ owner' = None /\ ttl' = 0 /\ round' = 0
        /\ UNCHANGED failures
     \/ owner # s /\ UNCHANGED <<owner, ttl, round, failures>>
     \/ /\ owner = s /\ failures < MaxFailures
        /\ failures' = failures + 1 /\ UNCHANGED <<owner, ttl, round>>
  /\ UNCHANGED expired

\* A mutant: the next round waits for a whole expiry.
ExtendSeldom ==
  /\ ~Free /\ round = 0
  /\ IF entry[NodeOf[owner]] = owner
     THEN \/ ttl' = Expiry /\ UNCHANGED failures
          \/ /\ failures < MaxFailures
             /\ failures' = failures + 1 /\ UNCHANGED ttl
     ELSE UNCHANGED <<ttl, failures>>
  /\ round' = Expiry
  /\ UNCHANGED <<owner, entry, held, expired>>

\* A round of the owner's process extends the lock if the map still has it;
\* a failed extension is ignored.
Extend ==
  /\ ~Free /\ round = 0
  /\ IF entry[NodeOf[owner]] = owner
     THEN \/ ttl' = Expiry /\ UNCHANGED failures
          \/ /\ failures < MaxFailures
             /\ failures' = failures + 1 /\ UNCHANGED ttl
     ELSE UNCHANGED <<ttl, failures>>
  /\ round' = Period
  /\ UNCHANGED <<owner, entry, held, expired>>

\* A period passes; redis deletes a key whose time is up.
Tick ==
  /\ ~Free /\ round > 0
  /\ ttl' = ttl - 1
  /\ IF ttl = 1
     THEN /\ owner' = None /\ round' = 0
          /\ expired' = expired \cup (held \cap {owner})
     ELSE round' = round - 1 /\ UNCHANGED <<owner, expired>>
  /\ UNCHANGED <<entry, held, failures>>

\* The process dies: redis keeps the key, nobody extends it.
LockCrash(n) ==
  /\ entry' = [entry EXCEPT ![n] = None]
  /\ held' = {s \in held : NodeOf[s] # n}
  /\ UNCHANGED <<owner, ttl, round, failures, expired>>

LockTypeOK ==
  /\ owner \in Sessions \cup {None}
  /\ ttl \in 0 .. Expiry /\ round \in 0 .. Expiry
  /\ (owner = None) = (ttl = 0)
  /\ entry \in [Nodes -> Sessions \cup {None}]
  /\ held \subseteq Sessions /\ expired \subseteq Sessions
  /\ failures \in 0 .. MaxFailures

-----------------------------------------------------------------------------
(***************************************************************************)
(* A session that holds the lock is the one redis knows, unless its own    *)
(* lock ran out: the late release of an expired session, which deletes the *)
(* name from the map of its process and tries to delete the key, never     *)
(* takes the lock from its present holder.                                 *)
(***************************************************************************)
HolderOwns == \A s \in held : owner = s \/ s \in expired

(***************************************************************************)
(* A lock is never lost while it is held unless an extension failed:       *)
(* rounds every half expiry are often enough whatever their phase.  (The   *)
(* session that loses it need not be the one whose extension failed: the   *)
(* late release of that one deletes the entry of the next.)                *)
(***************************************************************************)
LossNeedsFailure == expired # {} => failures > 0
=============================================================================
