--------------------------- MODULE PullCheckProofs ---------------------------
(***************************************************************************)
(* Proofs about PullCheck and the lock it is composed with, for any        *)
(* processes, sessions, expiry and bounds.  First the lock: who works on   *)
(* the pull request holds it, holders whose lock did not run out own it,   *)
(* and rounds of extensions come often enough.  Then what the lock gives   *)
(* to its users: a merged pull request is left alone, and a stale status   *)
(* is computed again.                                                      *)
(***************************************************************************)
EXTENDS PullCheck, TLAPS

\* the steps a session takes with the lock
Holding == {"load", "examine", "failed", "has", "update", "ask",
            "land", "notify", "hook", "set", "refresh", "retarget"}

PcType ==
  /\ DOMAIN pc = Actors
  /\ \A c \in Checkers : pc[c] \in CheckerSteps
  /\ \A v \in Viewers : pc[v] \in ViewerSteps
  /\ \A m \in Mergers : pc[m] \in MergerSteps
  /\ \A p \in Pushers : pc[p] \in PusherSteps

HeldInv == \A s \in Sessions : pc[s] \in Holding => s \in held

\* As long as nothing failed, the next round comes before the time is up.
TimeInv ==
  failures = 0 /\ owner \in held => entry[NodeOf[owner]] = owner /\ ttl > round

LockInv == HolderOwns /\ LossNeedsFailure /\ TimeInv

Inv == TypeOK /\ HeldInv /\ LockInv

-----------------------------------------------------------------------------
(* The lock.                                                               *)

\* Half an expiry is shorter than an expiry.
LEMMA PeriodIsShort == Period \in 0 .. Expiry /\ Period < Expiry
BY ExpiryAssumption DEF Period

\* A session that gets the lock is the only owner, and is extended.
LEMMA AcquireLock ==
  ASSUME LockTypeOK, LockInv, NEW s \in Sessions, Acquire(s)
  PROVE  /\ LockTypeOK' /\ LockInv' /\ held' = held \cup {s}
         /\ failures' = failures
<1> USE DEF LockTypeOK, Acquire, Free
<1>1. LockTypeOK'
  BY PeriodIsShort, NodeOfAssumption, NoneAssumption, ExpiryAssumption
<1>2. HolderOwns'
  BY NoneAssumption DEF LockInv, HolderOwns
<1>3. LossNeedsFailure'
  BY DEF LockInv, LossNeedsFailure
<1>4. TimeInv'
  BY PeriodIsShort, NodeOfAssumption, ExpiryAssumption DEF TimeInv
<1> QED
  BY <1>1, <1>2, <1>3, <1>4 DEF LockInv

\* A release leaves the lock of another session alone: if it spoils the map
\* of the process, the session that releases has lost its own lock.
LEMMA ReleaseLock ==
  ASSUME LockTypeOK, LockInv, NEW s \in Sessions, s \in held, Release(s)
  PROVE  LockTypeOK' /\ LockInv' /\ held' = held \ {s}
<1> USE DEF LockTypeOK, Release
<1>1. LockTypeOK'
  BY NodeOfAssumption, NoneAssumption, ExpiryAssumption
<1>2. HolderOwns'
  BY DEF LockInv, HolderOwns
<1>3. LossNeedsFailure'
  BY DEF LockInv, LossNeedsFailure
<1>4. TimeInv'
  <2> SUFFICES ASSUME failures' = 0, owner' \in held'
               PROVE  /\ entry'[NodeOf[owner']] = owner'
                      /\ ttl' > round'
    BY DEF TimeInv
  <2>1. failures = 0 /\ owner' = owner /\ owner # s /\ owner \in held
    BY NoneAssumption
  <2>2. s \in expired
    BY <2>1 DEF LockInv, HolderOwns
  <2> QED
    BY <2>1, <2>2 DEF LockInv, LossNeedsFailure
<1> QED
  BY <1>1, <1>2, <1>3, <1>4 DEF LockInv

\* Time passes, extensions are made: nobody loses the lock without a failure.
LEMMA TimeLock ==
  ASSUME LockTypeOK, LockInv, Extend \/ Tick
  PROVE  /\ LockTypeOK' /\ LockInv' /\ held' = held
         /\ expired \subseteq expired' /\ owner' \in {owner, None}
         /\ (owner \in held => owner' = owner \/ owner \in expired')
<1> USE DEF LockTypeOK
<1>1. CASE Extend
  <2> USE <1>1 DEF Extend, Free
  <2>1. LockTypeOK'
    BY PeriodIsShort, NodeOfAssumption, NoneAssumption, ExpiryAssumption
  <2>2. HolderOwns' /\ LossNeedsFailure'
    BY DEF LockInv, HolderOwns, LossNeedsFailure
  <2>3. TimeInv'
    BY PeriodIsShort, ExpiryAssumption DEF LockInv, TimeInv
  <2> QED
    BY <2>1, <2>2, <2>3 DEF LockInv
<1>2. CASE Tick
  <2> USE <1>2 DEF Tick, Free
  <2>1. LockTypeOK'
    BY NodeOfAssumption, NoneAssumption, ExpiryAssumption
  <2>2. HolderOwns'
    BY DEF LockInv, HolderOwns
  <2>3. LossNeedsFailure'
    BY DEF LockInv, LossNeedsFailure, TimeInv
  <2>4. TimeInv'
    BY NoneAssumption DEF LockInv, TimeInv
  <2> QED
    BY <2>1, <2>2, <2>3, <2>4 DEF LockInv
<1> QED
  BY <1>1, <1>2

\* The death of a process takes the sessions of that process only.
LEMMA CrashLock ==
  ASSUME LockTypeOK, LockInv, NEW n \in Nodes, LockCrash(n)
  PROVE  /\ LockTypeOK' /\ LockInv'
         /\ held' = {s \in held : NodeOf[s] # n}
<1> USE DEF LockTypeOK, LockCrash
<1>1. LockTypeOK'
  BY NoneAssumption
<1>2. HolderOwns' /\ LossNeedsFailure'
  BY DEF LockInv, HolderOwns, LossNeedsFailure
<1>3. TimeInv'
  BY NodeOfAssumption DEF LockInv, TimeInv
<1> QED
  BY <1>1, <1>2, <1>3 DEF LockInv

\* The lock is left as it is.
LEMMA SameLock ==
  ASSUME LockTypeOK, LockInv, UNCHANGED lockVars
  PROVE  LockTypeOK' /\ LockInv'
BY DEF lockVars, LockTypeOK, LockInv, HolderOwns, LossNeedsFailure, TimeInv

-----------------------------------------------------------------------------
(* Types, and who works holds the lock.                                    *)

\* An actor goes on to a step of its kind; only it may lose the lock.
LEMMA GoMoves ==
  ASSUME PcType, HeldInv, NEW a \in Actors, NEW step, Go(a, step),
         a \in Checkers => step \in CheckerSteps,
         a \in Viewers => step \in ViewerSteps,
         a \in Mergers => step \in MergerSteps,
         a \in Pushers => step \in PusherSteps,
         held \ {a} \subseteq held', step \in Holding => a \in held'
  PROVE  PcType' /\ HeldInv'
<1>1. \A b \in Actors : pc'[b] = IF b = a THEN step ELSE pc[b]
  BY DEF Go, PcType
<1>2. DOMAIN pc' = Actors
  BY DEF Go, PcType
<1>3. PcType'
  BY <1>1, <1>2 DEF PcType, Actors
<1>4. HeldInv'
  BY <1>1, ActorsAssumption DEF HeldInv, Actors
<1> QED
  BY <1>3, <1>4

RowType ==
  /\ status \in {"checking", "checked", "error", "manual"}
  /\ of \in 0 .. content /\ content \in 0 .. MaxPushes
  /\ {merged, landed, queued, missed, overlooked} \subseteq BOOLEAN
  /\ saw \in [Actors -> 0 .. content] /\ faults \in 0 .. MaxFaults

\* What is to be shown of a step, in parts.
LEMMA Parts ==
  /\ TypeOK => LockTypeOK /\ PcType /\ RowType
  /\ LockTypeOK' /\ PcType' /\ RowType' => TypeOK'
BY DEF TypeOK, PcType, RowType

\* The bounds are numbers.
LEMMA Bounds ==
  TypeOK => /\ failures \in Nat /\ MaxFaults \in Nat /\ MaxPushes \in Nat
            /\ content \in Nat /\ faults \in Nat
BY Parts, ExpiryAssumption, ActorsAssumption DEF LockTypeOK, RowType

\* Faults are bounded.
LEMMA FaultType == TypeOK /\ Fault => faults' \in 0 .. MaxFaults
BY Bounds DEF Fault

\* The history stays a Boolean.
LEMMA StoredType ==
  RowType /\ (Stored \/ Miss) => {missed', overlooked'} \subseteq BOOLEAN
BY DEF RowType, Stored, Miss, history

\* A result is stored unless the pull request is merged.
LEMMA ResultMoves ==
  ASSUME RowType, NEW a, StoreResult(a)
  PROVE  /\ merged' = merged /\ Stored
         /\ {missed', overlooked'} \subseteq BOOLEAN
         /\ merged => status' = status /\ of' = of
         /\ ~merged => status' = "checked" /\ of' = saw[a]
<1>1. merged \in BOOLEAN
  BY DEF RowType
<1>2. merged' = merged
  BY <1>1 DEF StoreResult, row
<1>3. merged => status' = status /\ of' = of
  BY DEF StoreResult, row
<1>4. ~merged => status' = "checked" /\ of' = saw[a]
  BY DEF StoreResult
<1>5. Stored
  BY DEF StoreResult
<1> QED
  BY <1>2, <1>3, <1>4, <1>5, StoredType

\* The invariant holds at first.
LEMMA InitInv == Init => Inv
<1> SUFFICES ASSUME Init PROVE Inv
  OBVIOUS
<1> USE DEF Init, LockInit
<1>1. LockTypeOK
  BY ExpiryAssumption DEF LockTypeOK
<1>2. PcType
  BY DEF PcType, Actors, CheckerSteps, ViewerSteps, MergerSteps, PusherSteps
<1>3. RowType
  <2>1. MaxPushes \in Nat /\ MaxFaults \in Nat
    BY ActorsAssumption
  <2>2. /\ of \in 0 .. content /\ content \in 0 .. MaxPushes
        /\ faults \in 0 .. MaxFaults
    BY <2>1
  <2>3. saw \in [Actors -> 0 .. content]
    OBVIOUS
  <2>4. {merged, landed, queued, missed, overlooked} \subseteq BOOLEAN
    OBVIOUS
  <2> QED
    BY <2>2, <2>3, <2>4 DEF RowType
<1>4. HeldInv
  BY ActorsAssumption DEF HeldInv, Holding, Actors
<1>5. LockInv
  BY DEF LockInv, HolderOwns, LossNeedsFailure, TimeInv
<1> QED
  BY <1>1, <1>2, <1>3, <1>4, <1>5 DEF Inv, TypeOK, PcType, RowType

\* Pushes have nothing to do with the lock.
LEMMA PushInv ==
  ASSUME Inv, NEW p \in Pushers, Push(p) \/ Ask(p)
  PROVE  Inv'
<1> USE DEF At, Enqueue, Miss, history
<1>1. UNCHANGED lockVars /\ held' = held
  BY DEF Push, Ask, Mark, Reread, PushToQueue, lockVars
<1>2. LockTypeOK' /\ LockInv'
  BY <1>1, SameLock, Parts DEF Inv
<1>3. \E step \in PusherSteps : Go(p, step) /\ step \notin Holding
  BY DEF Push, Ask, Mark, Reread, PushToQueue, PusherSteps, Holding
<1>4. PcType' /\ HeldInv'
  BY <1>1, <1>3, GoMoves, Parts, ActorsAssumption DEF Inv, Actors
<1>5. TypeOK
  BY DEF Inv
<1>6. CASE Push(p)
  <2>1. RowType'
    <3>1. /\ content \in Nat /\ content' = content + 1
          /\ content' \in 0 .. MaxPushes
      BY <1>5, <1>6, Bounds DEF Push
    <3>2. 0 .. content \subseteq 0 .. content'
      BY <3>1
    <3> QED
      BY <1>5, <1>6, <3>1, <3>2, Parts DEF Push, RowType, row
  <2> QED
    BY <1>2, <1>4, <2>1, Parts DEF Inv
<1>7. CASE Ask(p)
  <2>0. RowType
    BY <1>5, Parts
  <2>1. CASE Mark(p)
    BY <1>2, <1>4, <2>0, <2>1, Parts DEF Inv, Mark, RowType
  <2>2. CASE Reread(p)
    <3>1. RowType'
      BY <2>0, <2>2 DEF Reread, RowType, row
    <3> QED
      BY <1>2, <1>4, <3>1, Parts DEF Inv
  <2>3. CASE PushToQueue(p)
    <3>1. RowType'
      BY <1>5, <2>0, <2>3, FaultType DEF PushToQueue, RowType, row
    <3> QED
      BY <1>2, <1>4, <3>1, Parts DEF Inv
  <2> QED
    BY <1>7, <2>1, <2>2, <2>3 DEF Ask
<1> QED
  BY <1>6, <1>7

\* A session takes the lock, works with it, or gives it back.
LEMMA SessionMoves ==
  ASSUME Inv, NEW s \in Sessions, NEW step, Go(s, step),
         s \in Checkers => step \in CheckerSteps,
         s \in Viewers => step \in ViewerSteps,
         s \in Mergers => step \in MergerSteps,
         \/ Acquire(s)
         \/ Release(s) /\ pc[s] \in Holding /\ step \notin Holding
         \/ UNCHANGED lockVars /\ (step \in Holding => pc[s] \in Holding)
  PROVE  LockTypeOK' /\ LockInv' /\ PcType' /\ HeldInv'
<1>1. s \in Actors /\ s \notin Pushers
  BY ActorsAssumption DEF Actors
<1>2. LockTypeOK /\ LockInv /\ PcType /\ HeldInv
  BY Parts DEF Inv
<1>3. LockTypeOK' /\ LockInv' /\ held \ {s} \subseteq held'
      /\ (step \in Holding => s \in held')
  <2>1. CASE Acquire(s)
    BY <1>2, <2>1, AcquireLock
  <2>2. CASE Release(s) /\ pc[s] \in Holding /\ step \notin Holding
    BY <1>2, <2>2, ReleaseLock DEF HeldInv
  <2>3. CASE UNCHANGED lockVars /\ (step \in Holding => pc[s] \in Holding)
    BY <1>2, <2>3, SameLock DEF HeldInv, lockVars
  <2> QED
    BY <2>1, <2>2, <2>3
<1>4. PcType' /\ HeldInv'
  BY <1>1, <1>2, <1>3, GoMoves
<1> QED
  BY <1>3, <1>4

\* A view keeps the invariant.
LEMMA ViewInv ==
  ASSUME Inv, NEW v \in Viewers, View(v) \/ ViewAsks(v)
  PROVE  Inv'
<1> USE DEF At, Enqueue, history
<1>1. v \in Sessions /\ v \notin Checkers /\ v \notin Mergers
  BY ActorsAssumption
<1>2. TypeOK /\ RowType
  BY Parts DEF Inv
<1>3. CASE View(v)
  <2>1. LockTypeOK' /\ LockInv' /\ PcType' /\ HeldInv'
    BY <1>1, <1>3, SessionMoves DEF View, ViewerSteps
  <2>2. RowType'
    BY <1>2, <1>3 DEF View, RowType, row
  <2> QED
    BY <2>1, <2>2, Parts DEF Inv
<1>4. CASE ViewAsks(v)
  <2>1. LockTypeOK' /\ LockInv' /\ PcType' /\ HeldInv'
    BY <1>1, <1>4, SessionMoves DEF ViewAsks, ViewerSteps, Holding
  <2>2. RowType'
    BY <1>2, <1>4, FaultType DEF ViewAsks, RowType, row
  <2> QED
    BY <2>1, <2>2, Parts DEF Inv
<1> QED
  BY <1>3, <1>4

\* A worker of the queue keeps the invariant.
LEMMA CheckInv ==
  ASSUME Inv, NEW c \in Checkers, Pop(c) \/ Check(c) \/ CheckGivesUp(c)
  PROVE  Inv'
<1> USE DEF At, Leave, history
<1>1. c \in Sessions /\ c \notin Viewers /\ c \notin Mergers /\ c \in Actors
  BY ActorsAssumption DEF Actors
<1>2. TypeOK /\ RowType
  BY Parts DEF Inv
<1>3. saw[c] \in 0 .. content /\ content \in 0 .. content /\ 0 \in 0 .. content
  BY <1>1, <1>2, Bounds DEF RowType
<1>4. LockTypeOK' /\ LockInv' /\ PcType' /\ HeldInv'
  <2>1. CASE Pop(c)
    BY <1>1, <2>1, SessionMoves DEF Pop, CheckerSteps, Holding
  <2>2. CASE CheckLocks(c)
    BY <1>1, <2>2, SessionMoves DEF CheckLocks, CheckerSteps
  <2>3. CASE CheckGivesUp(c)
    BY <1>1, <2>3, SessionMoves DEF CheckGivesUp, CheckerSteps, Holding
  <2>4. CASE Load(c)
    BY <1>1, <2>4, SessionMoves DEF Load, CheckerSteps, Holding
  <2>5. CASE Examine(c)
    BY <1>1, <2>5, SessionMoves DEF Examine, CheckerSteps, Holding
  <2>6. CASE StoreError(c)
    BY <1>1, <2>6, SessionMoves DEF StoreError, CheckerSteps, Holding
  <2>7. CASE Has(c)
    BY <1>1, <2>7, SessionMoves DEF Has, CheckerSteps, Holding
  <2>8. CASE Update(c)
    BY <1>1, <2>8, SessionMoves DEF Update, CheckerSteps, Holding
  <2> QED
    BY <2>1, <2>2, <2>3, <2>4, <2>5, <2>6, <2>7, <2>8 DEF Check
<1>5. RowType'
  <2>1. CASE Pop(c)
    BY <1>2, <2>1 DEF Pop, RowType, row
  <2>2. CASE CheckLocks(c)
    BY <1>2, <2>2 DEF CheckLocks, RowType, row
  <2>3. CASE CheckGivesUp(c)
    BY <1>2, <2>3, FaultType DEF CheckGivesUp, Miss, RowType, row
  <2>4. CASE Load(c)
    BY <1>2, <2>4, FaultType DEF Load, Overlook, RowType, row
  <2>5. CASE Examine(c)
    BY <1>2, <1>3, <2>5, FaultType DEF Examine, RowType, row
  <2>6. CASE StoreError(c)
    <3>1. /\ saw' = [saw EXCEPT ![c] = 0] /\ Stored
          /\ status' = "error" /\ of' = saw[c]
          /\ UNCHANGED <<merged, content, landed, queued, faults>>
      BY <2>6 DEF StoreError
    <3> QED
      BY <1>2, <1>3, <3>1, StoredType DEF RowType
  <2>7. CASE Has(c)
    BY <1>2, <1>3, <2>7, FaultType DEF Has, RowType, row
  <2>8. CASE Update(c)
    <3>1. /\ saw' = [saw EXCEPT ![c] = 0] /\ StoreResult(c)
          /\ UNCHANGED <<content, landed, queued, faults>>
      BY <2>8 DEF Update
    <3> QED
      BY <1>2, <1>3, <3>1, ResultMoves DEF RowType
  <2> QED
    BY <2>1, <2>2, <2>3, <2>4, <2>5, <2>6, <2>7, <2>8 DEF Check
<1> QED
  BY <1>4, <1>5, Parts DEF Inv

\* A merger starts a task, and may lose what it does not need.
LEMMA TaskStarts ==
  ASSUME Inv, NEW m \in Mergers, NEW step \in MergerSteps,
         NEW P \in SUBSET Pushers, Starts(m, step, P),
         UNCHANGED lockVars, step \in Holding => pc[m] \in Holding
  PROVE  /\ LockTypeOK' /\ LockInv' /\ PcType' /\ HeldInv'
         /\ \A c \in Checkers : pc'[c] = pc[c]
         /\ \E p \in Pushers : pc'[p] = "mark"
<1>1. /\ m \in Sessions /\ m \in Actors /\ m \notin Checkers \cup Viewers
      /\ PcType
  BY ActorsAssumption, Parts DEF Inv, Actors
<1>2. LockTypeOK' /\ LockInv' /\ held' = held
  BY SameLock, Parts DEF Inv, lockVars
<1>3. PICK p \in Pushers : pc' = [pc EXCEPT ![m] = step, ![p] = "mark"]
  BY DEF Starts
<1>4. /\ DOMAIN pc' = DOMAIN pc /\ p \in Actors /\ p \notin Sessions
      /\ \A a \in Actors : pc'[a] = IF a = p THEN "mark"
                                 ELSE IF a = m THEN step ELSE pc[a]
  BY <1>1, <1>3, ActorsAssumption DEF PcType, Actors
<1>5. PcType'
  BY <1>1, <1>4, ActorsAssumption DEF PcType, Actors, PusherSteps
<1>6. HeldInv'
  BY <1>1, <1>2, <1>4, ActorsAssumption DEF Inv, HeldInv, Actors
<1>7. \A c \in Checkers : pc'[c] = pc[c]
  BY <1>1, <1>4, ActorsAssumption DEF Actors
<1> QED
  BY <1>2, <1>4, <1>5, <1>6, <1>7

\* A merge, a manual merge or a change of the target keeps the invariant.
LEMMA RequestInv ==
  ASSUME Inv, NEW m \in Mergers, Request(m) \/ RequestLocks(m) \/ Work(m)
  PROVE  Inv'
<1> USE DEF At, Leave, history
<1>1. m \in Sessions /\ m \notin Viewers /\ m \notin Checkers /\ m \in Actors
  BY ActorsAssumption DEF Actors
<1>2. TypeOK /\ RowType
  BY Parts DEF Inv
<1>3. saw[m] \in 0 .. content /\ content \in 0 .. content /\ 0 \in 0 .. content
  BY <1>1, <1>2, Bounds DEF RowType
<1>4. LockTypeOK' /\ LockInv' /\ PcType' /\ HeldInv'
  <2>1. CASE Request(m)
    BY <1>1, <2>1, SessionMoves DEF Request, MergerSteps, Holding
  <2>2. CASE RequestLocks(m)
    BY <1>1, <2>2, SessionMoves DEF RequestLocks, MergerSteps
  <2>3. CASE Refuse(m)
    BY <1>1, <2>3, SessionMoves DEF Refuse, MergerSteps, Holding
  <2>4. CASE Land(m)
    BY <1>1, <2>4, SessionMoves DEF Land, MergerSteps, Holding
  <2>5. CASE Hook(m)
    BY <1>1, <2>5, SessionMoves DEF Hook, MergerSteps, Holding
  <2>6. CASE SetManually(m)
    BY <1>1, <2>6, SessionMoves DEF SetManually, MergerSteps, Holding
  <2>7. CASE Refresh(m)
    BY <1>1, <2>7, SessionMoves DEF Refresh, MergerSteps, Holding
  <2>8. CASE Retarget(m)
    BY <1>1, <2>8, SessionMoves DEF Retarget, MergerSteps, Holding
  <2>9. CASE Notify(m)
    BY <2>9, TaskStarts DEF Notify, MergerSteps, Holding
  <2>10. CASE Again(m) /\ Go(m, "idle")
    BY <1>1, <2>10, SessionMoves DEF Again, MergerSteps, Holding
  <2>11. CASE Again(m) /\ Starts(m, "idle", Near(m))
    BY <2>11, TaskStarts DEF Again, Near, MergerSteps, Holding
  <2> QED
    BY <2>1, <2>2, <2>3, <2>4, <2>5, <2>6, <2>7, <2>8, <2>9, <2>10, <2>11
       DEF Work, Again
<1>5. RowType'
  <2>1. CASE Request(m)
    BY <1>2, <2>1 DEF Request, RowType, row
  <2>2. CASE RequestLocks(m)
    BY <1>2, <2>2 DEF RequestLocks, RowType, row
  <2>3. CASE Refuse(m)
    BY <1>2, <2>3 DEF Refuse, RowType, row
  <2>4. CASE Land(m)
    <3>1. /\ content \in Nat /\ content' = content + 1
          /\ content' \in 0 .. MaxPushes
      BY <1>2, <2>4, Bounds DEF Land
    <3>2. 0 .. content \subseteq 0 .. content'
      BY <3>1
    <3> QED
      BY <1>2, <2>4, <3>1, <3>2 DEF Land, RowType, row
  <2>5. CASE Hook(m)
    BY <1>2, <2>5, FaultType DEF Hook, RowType
  <2>6. CASE SetManually(m)
    BY <1>2, <2>6 DEF SetManually, RowType
  <2>7. CASE Refresh(m)
    BY <1>2, <1>3, <2>7 DEF Refresh, RowType, row
  <2>8. CASE Retarget(m)
    <3>1. /\ saw' = [saw EXCEPT ![m] = 0] /\ StoreResult(m)
          /\ UNCHANGED <<content, landed, queued, faults>>
      BY <2>8 DEF Retarget
    <3> QED
      BY <1>2, <1>3, <3>1, ResultMoves DEF RowType
  <2>9. CASE Notify(m) \/ Again(m)
    BY <1>2, <2>9 DEF Notify, Again, RowType, row
  <2> QED
    BY <2>1, <2>2, <2>3, <2>4, <2>5, <2>6, <2>7, <2>8, <2>9 DEF Work
<1> QED
  BY <1>4, <1>5, Parts DEF Inv

\* Time and the rounds of extensions keep the invariant.
LEMMA TimeKeepsInv ==
  ASSUME Inv, LockSteps
  PROVE  Inv'
<1>1. LockTypeOK' /\ LockInv' /\ held' = held
  BY TimeLock, Parts DEF Inv, LockSteps
<1>2. PcType' /\ HeldInv' /\ RowType'
  BY <1>1, Parts DEF Inv, LockSteps, PcType, HeldInv, RowType, row,
                         history
<1> QED
  BY <1>1, <1>2, Parts DEF Inv

\* The death of a process keeps the invariant.
LEMMA CrashInv ==
  ASSUME Inv, NEW n \in Nodes, Crash(n)
  PROVE  Inv'
<1> DEFINE gone == {a \in Actors : NodeOf[a] = n /\ ~At(a, "idle")}
<1>0. /\ Fault /\ LockCrash(n)
      /\ pc' = [a \in Actors |-> IF a \in gone THEN "idle" ELSE pc[a]]
      /\ saw' = [a \in Actors |-> IF a \in gone THEN 0 ELSE saw[a]]
      /\ Miss \/ UNCHANGED history
      /\ UNCHANGED <<row, content, landed, queued>>
  BY DEF Crash
<1>1. LockTypeOK' /\ LockInv' /\ held' = {s \in held : NodeOf[s] # n}
  BY <1>0, CrashLock, Parts DEF Inv
<1>2. TypeOK /\ PcType /\ RowType
  BY Parts DEF Inv
<1>3. PcType'
  BY <1>0, <1>2 DEF PcType, Actors, CheckerSteps, ViewerSteps, MergerSteps,
                    PusherSteps
<1>4. HeldInv'
  <2> SUFFICES ASSUME NEW s \in Sessions, pc'[s] \in Holding
               PROVE  s \in held'
    BY DEF HeldInv
  <2>1. s \in Actors
    BY ActorsAssumption DEF Actors
  <2>2. s \notin gone /\ pc'[s] = pc[s]
    BY <1>0, <2>1 DEF Holding
  <2>3. NodeOf[s] # n
    BY <2>1, <2>2 DEF At, Holding
  <2> QED
    BY <1>1, <2>2, <2>3 DEF Inv, HeldInv
<1>5. RowType'
  <2>1. 0 \in 0 .. content
    BY <1>2, Bounds
  <2>2. saw' \in [Actors -> 0 .. content]
    BY <1>0, <1>2, <2>1 DEF RowType
  <2>3. {missed', overlooked'} \subseteq BOOLEAN /\ faults' \in 0 .. MaxFaults
    BY <1>0, <1>2, StoredType, FaultType DEF RowType, history
  <2> QED
    BY <1>0, <1>2, <2>2, <2>3 DEF RowType, row
<1> QED
  BY <1>1, <1>3, <1>4, <1>5, Parts DEF Inv

\* Every step keeps the invariant.
LEMMA StepInv == Inv /\ [Next]_vars => Inv'
<1> SUFFICES ASSUME Inv, [Next]_vars PROVE Inv'
  OBVIOUS
<1>1. CASE UNCHANGED vars
  <2>1. /\ LockTypeOK' /\ LockInv'
        /\ UNCHANGED <<held, row, content, landed, queued, pc, saw, faults,
                       missed, overlooked>>
    BY <1>1, SameLock, Parts DEF Inv, vars, lockVars, history
  <2>2. PcType' /\ HeldInv' /\ RowType'
    BY <2>1, Parts DEF Inv, PcType, HeldInv, RowType, row
  <2> QED
    BY <2>1, <2>2, Parts DEF Inv
<1>2. CASE Next
  BY <1>2, CheckInv, PushInv, ViewInv, RequestInv, TimeKeepsInv, CrashInv
     DEF Next
<1> QED
  BY <1>1, <1>2

\* Every variable keeps its type, whatever the sessions, processes, faults
\* and crashes.
THEOREM TypeCorrect == Spec => []TypeOK
<1>1. Inv => TypeOK
  BY DEF Inv
<1> QED
  BY <1>1, InitInv, StepInv, PTL DEF Spec

\* Who holds the lock owns it in redis, unless its time ran out (redis_locker
\* .go: lock): a late release never takes the lock from its next holder.
THEOREM HolderOwnsAlways == Spec => []HolderOwns
<1>1. Inv => HolderOwns
  BY DEF Inv, LockInv
<1> QED
  BY <1>1, InitInv, StepInv, PTL DEF Spec

\* No lock runs out while it is held unless an extension or unlock failed
\* (redis_locker.go: startExtend), whatever the expiry.
THEOREM LossNeedsFailureAlways == Spec => []LossNeedsFailure
<1>1. Inv => LossNeedsFailure
  BY DEF Inv, LockInv
<1> QED
  BY <1>1, InitInv, StepInv, PTL DEF Spec

-----------------------------------------------------------------------------
(* A merged pull request is left alone.                                    *)

\* the steps of a check that has seen the pull request open
Working == {"examine", "failed", "has", "update"}

\* A check goes on with a pull request that has been merged meanwhile only
\* if its lock, or the one of the merge, was lost.
MergedInv ==
  \A c \in Checkers :
    merged /\ pc[c] \in Working => c \in expired \/ (owner = c /\ expired # {})

\* A step of a session that does not merge.
LEMMA MergedKept ==
  ASSUME Inv, MergedInv, NEW s \in Sessions, NEW step, Go(s, step),
         merged' = merged, step \in Working => pc[s] \in Working \/ ~merged,
         \/ Acquire(s) /\ step \notin Working
         \/ Release(s) /\ step \notin Working
         \/ UNCHANGED lockVars
  PROVE  MergedInv'
<1> SUFFICES ASSUME NEW c \in Checkers, merged, pc'[c] \in Working
             PROVE  c \in expired' \/ (owner' = c /\ expired' # {})
  BY DEF MergedInv
<1>1. c \in Sessions /\ c \in Actors /\ s \in Actors /\ DOMAIN pc = Actors
  BY ActorsAssumption, Parts DEF Actors, Inv, PcType
<1>2. pc[c] \in Working
  BY <1>1 DEF Go
<1>3. c \in expired \/ (owner = c /\ expired # {})
  BY <1>2 DEF MergedInv
<1>4. CASE Acquire(s) /\ step \notin Working
  BY <1>1, <1>3, <1>4, NoneAssumption DEF Acquire, Free, Go
<1>5. CASE Release(s) /\ step \notin Working
  BY <1>1, <1>3, <1>5 DEF Release, Go
<1>6. CASE UNCHANGED lockVars
  BY <1>3, <1>6 DEF lockVars
<1> QED
  BY <1>4, <1>5, <1>6

\* Whoever merges holds the lock: another holder has lost its own, or it has.
LEMMA MergedNow ==
  ASSUME Inv, NEW s \in Sessions, pc[s] \in Holding, Release(s),
         NEW step, Go(s, step), step \notin Working
  PROVE  MergedInv'
<1> SUFFICES ASSUME NEW c \in Checkers, pc'[c] \in Working
             PROVE  c \in expired' \/ (owner' = c /\ expired' # {})
  BY DEF MergedInv
<1>1. c \in Sessions /\ c \in Actors /\ s \in Actors /\ DOMAIN pc = Actors
  BY ActorsAssumption, Parts DEF Actors, Inv, PcType
<1>2. c # s /\ pc[c] \in Holding
  BY <1>1 DEF Go, Working, Holding
<1>3. /\ owner = c \/ c \in expired
      /\ owner = s \/ s \in expired
  BY <1>1, <1>2 DEF Inv, HeldInv, LockInv, HolderOwns
<1> QED
  BY <1>2, <1>3 DEF Release

\* Every step keeps what is known of a merged pull request.
LEMMA MergedStep == Inv /\ MergedInv /\ [Next]_vars => MergedInv'
<1> SUFFICES ASSUME Inv, MergedInv, [Next]_vars PROVE MergedInv'
  OBVIOUS
<1> USE DEF At, Leave, history
<1>0. RowType /\ merged \in BOOLEAN /\ DOMAIN pc = Actors
      /\ Sessions \subseteq Actors /\ Pushers \subseteq Actors
      /\ Checkers \cap Pushers = {}
  BY Parts, ActorsAssumption DEF Inv, RowType, PcType, Actors
<1>1. ASSUME NEW c \in Checkers, Pop(c) \/ Check(c) \/ CheckGivesUp(c)
      PROVE  MergedInv'
  <2>0. c \in Sessions
    BY ActorsAssumption
  <2>1. CASE Pop(c)
    BY <2>0, <2>1, MergedKept DEF Pop, row, Working
  <2>2. CASE CheckLocks(c)
    BY <2>0, <2>2, MergedKept DEF CheckLocks, row, Working
  <2>3. CASE CheckGivesUp(c)
    BY <2>0, <2>3, MergedKept DEF CheckGivesUp, row, Working
  <2>4. CASE Load(c)
    <3>1. CASE Go(c, "idle") /\ Release(c)
      BY <2>0, <2>4, <3>1, MergedNow DEF Load, Holding, Working
    <3>2. CASE Go(c, "examine") /\ UNCHANGED <<lockVars, row>> /\ ~merged
      BY <2>0, <3>2, MergedKept DEF row
    <3> QED
      BY <2>4, <3>1, <3>2 DEF Load
  <2>5. CASE Examine(c)
    BY <2>0, <2>5, MergedKept DEF Examine, row, Working
  <2>6. CASE StoreError(c)
    BY <2>0, <2>6, MergedKept DEF StoreError, Working
  <2>7. CASE Has(c)
    BY <2>0, <2>7, MergedKept DEF Has, row, Working
  <2>8. CASE Update(c)
    BY <1>0, <2>0, <2>8, MergedKept, ResultMoves DEF Update, Working
  <2> QED
    BY <1>1, <2>1, <2>2, <2>3, <2>4, <2>5, <2>6, <2>7, <2>8 DEF Check
<1>2. ASSUME NEW p \in Pushers, Push(p) \/ Ask(p)
      PROVE  MergedInv'
  <2>1. UNCHANGED <<merged, owner, expired>> /\ \E step : Go(p, step)
    BY <1>2 DEF Push, Ask, Mark, Reread, PushToQueue, row, lockVars
  <2>2. \A c \in Checkers : pc'[c] = pc[c]
    BY <1>0, <2>1 DEF Go
  <2> QED
    BY <2>1, <2>2 DEF MergedInv
<1>3. ASSUME NEW v \in Viewers, View(v) \/ ViewAsks(v)
      PROVE  MergedInv'
  BY <1>3, MergedKept, ActorsAssumption DEF View, ViewAsks, row, Working
<1>4. ASSUME NEW m \in Mergers, Request(m) \/ RequestLocks(m) \/ Work(m)
      PROVE  MergedInv'
  <2>0. m \in Sessions /\ m \notin Checkers
    BY ActorsAssumption
  <2>1. CASE Request(m)
    BY <2>0, <2>1, MergedKept DEF Request, row, Working
  <2>2. CASE RequestLocks(m)
    BY <2>0, <2>2, MergedKept DEF RequestLocks, row, Working
  <2>3. CASE Refuse(m)
    BY <2>0, <2>3, MergedKept DEF Refuse, row, Working
  <2>4. CASE Land(m)
    BY <2>0, <2>4, MergedKept DEF Land, row, Working
  <2>5. CASE Hook(m)
    BY <2>0, <2>5, MergedNow DEF Hook, Holding, Working
  <2>6. CASE SetManually(m)
    BY <2>0, <2>6, MergedNow DEF SetManually, Holding, Working
  <2>7. CASE Refresh(m)
    BY <2>0, <2>7, MergedKept DEF Refresh, row, Working
  <2>8. CASE Retarget(m)
    BY <1>0, <2>0, <2>8, MergedKept, ResultMoves DEF Retarget, Working
  <2>9. ASSUME NEW step \in {"hook", "idle"}, NEW P \in SUBSET Pushers,
               Starts(m, step, P), UNCHANGED <<lockVars, row>>,
               step = "hook" => pc[m] = "notify"
        PROVE  MergedInv'
    <3>1. \A c \in Checkers : pc'[c] = pc[c]
      BY <2>9, TaskStarts DEF MergerSteps, Holding
    <3> QED
      BY <2>9, <3>1 DEF MergedInv, lockVars, row
  <2>10. CASE Notify(m)
    BY <2>9, <2>10 DEF Notify
  <2>11. CASE Again(m) /\ Starts(m, "idle", Near(m))
    BY <2>9, <2>11 DEF Again, Near
  <2>12. CASE Again(m) /\ Go(m, "idle")
    BY <2>0, <2>12, MergedKept DEF Again, row, Working
  <2> QED
    BY <1>4, <2>1, <2>2, <2>3, <2>4, <2>5, <2>6, <2>7, <2>8, <2>10, <2>11,
       <2>12 DEF Work, Again
<1>5. CASE LockSteps
  <2>1. /\ expired \subseteq expired' /\ UNCHANGED <<merged, pc>>
        /\ owner \in held => owner' = owner \/ owner \in expired'
    BY <1>5, TimeLock, Parts DEF Inv, LockSteps, row
  <2>2. \A c \in Checkers : pc[c] \in Working => c \in held
    BY ActorsAssumption DEF Inv, HeldInv, Working, Holding
  <2> QED
    BY <2>1, <2>2 DEF MergedInv
<1>6. ASSUME NEW n \in Nodes, Crash(n)
      PROVE  MergedInv'
  <2>1. UNCHANGED <<merged, owner, expired>>
    BY <1>6 DEF Crash, LockCrash, row
  <2>2. \A c \in Checkers : pc'[c] = pc[c] \/ pc'[c] = "idle"
    BY <1>0, <1>6, ActorsAssumption DEF Crash
  <2> QED
    BY <2>1, <2>2 DEF MergedInv, Working
<1>7. CASE UNCHANGED vars
  BY <1>7 DEF vars, lockVars, row, MergedInv
<1> QED
  BY <1>1, <1>2, <1>3, <1>4, <1>5, <1>6, <1>7 DEF Next

\* No step forgets that a pull request is merged, or changes its status.
LEMMA StatusStays ==
  Inv /\ MergedInv /\ [Next]_vars
    => (merged => merged' /\ (status' = status \/ expired # {}))
<1> SUFFICES ASSUME Inv, MergedInv, [Next]_vars, merged
             PROVE  merged' /\ (status' = status \/ expired # {})
  OBVIOUS
<1> USE DEF At, Leave, history
<1>0. RowType
  BY Parts DEF Inv
<1>1. ASSUME NEW c \in Checkers, Pop(c) \/ Check(c) \/ CheckGivesUp(c)
      PROVE  merged' /\ (status' = status \/ expired # {})
  <2>1. CASE StoreError(c)
    <3>1. expired # {}
      BY <2>1 DEF MergedInv, Working, StoreError
    <3> QED
      BY <2>1, <3>1 DEF StoreError
  <2>2. CASE Update(c)
    BY <1>0, <2>2, ResultMoves DEF Update
  <2>3. CASE Pop(c) \/ CheckLocks(c) \/ CheckGivesUp(c) \/ Examine(c) \/ Has(c)
    BY <2>3 DEF Pop, CheckLocks, CheckGivesUp, Examine, Has, row
  <2>4. CASE Load(c)
    BY <2>4 DEF Load, row
  <2> QED
    BY <1>1, <2>1, <2>2, <2>3, <2>4 DEF Check
<1>2. ASSUME NEW p \in Pushers, Push(p) \/ Ask(p)
      PROVE  merged' /\ status' = status
  BY <1>2 DEF Push, Ask, Mark, Reread, PushToQueue, row
<1>3. ASSUME NEW v \in Viewers, View(v) \/ ViewAsks(v)
      PROVE  merged' /\ status' = status
  BY <1>3 DEF View, ViewAsks, row
<1>4. ASSUME NEW m \in Mergers, Request(m) \/ RequestLocks(m) \/ Work(m)
      PROVE  merged' /\ status' = status
  <2>1. CASE Retarget(m)
    BY <1>0, <2>1, ResultMoves DEF Retarget
  <2>2. CASE \/ Request(m) \/ RequestLocks(m) \/ Refuse(m) \/ Land(m)
             \/ Notify(m) \/ Again(m) \/ Refresh(m)
    BY <2>2 DEF Request, RequestLocks, Refuse, Land, Notify, Again, Refresh,
                row
  <2>3. CASE Hook(m) \/ SetManually(m)
    BY <2>3 DEF Hook, SetManually
  <2> QED
    BY <1>4, <2>1, <2>2, <2>3 DEF Work
<1>5. CASE LockSteps \/ UNCHANGED vars \/ \E n \in Nodes : Crash(n)
  BY <1>5 DEF LockSteps, vars, Crash, row
<1> QED
  BY <1>1, <1>2, <1>3, <1>4, <1>5 DEF Next

\* A merged pull request stays merged and keeps its status, although errors
\* of checks are stored without a look at the row (check.go:460-467): it is
\* the global lock that sees to it.
THEOREM MergedStaysAlways == Spec => MergedStays
<1>1. Init => MergedInv
  BY DEF Init, MergedInv
<1>2. Inv /\ MergedInv /\ [Next]_vars
        => [merged => merged' /\ (status' = status \/ expired # {})]_vars
  BY StatusStays
<1> QED
  BY <1>1, <1>2, InitInv, StepInv, MergedStep, PTL DEF Spec, MergedStays

-----------------------------------------------------------------------------
(* A stale status is computed again.                                       *)

\* A check of the content as it is now is still to begin, or was given up.
Awaited ==
  \/ missed \/ queued
  \/ \E p \in Pushers : ~At(p, "idle")
  \/ \E c \in Checkers : At(c, "lock")
  \/ \E m \in Mergers : At(m, "notify")

\* A session that is about to store the result for an older content has
\* kept the check of the present one waiting, or has lost its lock.
OldInv ==
  \A a \in Checkers \cup Mergers :
    pc[a] \in {"failed", "has", "update", "retarget"} /\ saw[a] # content
      => Awaited \/ a \in expired

StaleInv == OldInv /\ StaleIsRechecked

\* A check that awaits is enough.
LEMMA AwaitedIsEnough == Awaited' => StaleInv'
<1> SUFFICES ASSUME Awaited' PROVE StaleInv'
  OBVIOUS
<1>1. OldInv'
  BY DEF OldInv
<1>2. Underway' \/ missed'
  BY DEF Awaited, Underway, At
<1> QED
  BY <1>1, <1>2 DEF StaleInv, StaleIsRechecked

\* Pushes, from the first step to the last, leave a check to begin.
LEMMA PushAwaits ==
  ASSUME Inv, NEW p \in Pushers, Push(p) \/ Ask(p)
  PROVE  Awaited'
<1> USE DEF Awaited, At
<1>1. p \in DOMAIN pc
  BY Parts DEF Inv, PcType, Actors
<1>2. ASSUME NEW step, Go(p, step), step # "idle"
      PROVE  Awaited'
  <2>1. pc'[p] # "idle"
    BY <1>1, <1>2 DEF Go
  <2> QED
    BY <2>1
<1>3. CASE Push(p)
  BY <1>2, <1>3 DEF Push
<1>4. CASE Mark(p)
  BY <1>2, <1>4 DEF Mark
<1>5. CASE Reread(p)
  <2>1. CASE Go(p, "push")
    BY <1>2, <2>1
  <2>2. CASE Miss /\ queued' = queued
    <3>1. missed' \/ queued'
      BY <2>2 DEF Miss
    <3> QED
      BY <3>1
  <2> QED
    BY <1>5, <2>1, <2>2 DEF Reread
<1>6. CASE PushToQueue(p)
  <2>1. CASE Enqueue
    BY <2>1 DEF Enqueue
  <2>2. CASE Miss /\ queued' = queued
    <3>1. missed' \/ queued'
      BY <2>2 DEF Miss
    <3> QED
      BY <3>1
  <2> QED
    BY <1>6, <2>1, <2>2 DEF PushToQueue
<1> QED
  BY <1>3, <1>4, <1>5, <1>6 DEF Ask

\* A session moves on without a look at the queue, and stores nothing.
LEMMA StaleKept ==
  ASSUME Inv, StaleInv, NEW s \in Sessions, NEW step, Go(s, step),
         UNCHANGED <<of, content, missed, queued>>,
         merged => merged', pc[s] \notin {"lock", "notify"},
         Acquire(s) \/ expired' = expired,
         \A a \in Sessions \ {s} : saw'[a] = saw[a],
         \/ step \in {"failed", "has"} /\ s \in Checkers /\ saw'[s] = content
         \/ step = "retarget" /\ s \in Mergers /\ saw'[s] = content
         \/ /\ step = "update" /\ pc[s] = "has" /\ s \in Checkers
            /\ saw'[s] = saw[s] /\ expired' = expired
         \/ step = "examine" /\ s \in Checkers
         \/ /\ step \notin {"failed", "has", "update", "retarget"}
            /\ s \in Mergers \cup Viewers \/ queued \/ merged'
  PROVE  StaleInv'
<1>1. /\ Sessions \subseteq Actors /\ DOMAIN pc = Actors
      /\ Checkers \cup Mergers \subseteq Sessions
      /\ Checkers \cap (Mergers \cup Viewers) = {}
      /\ Pushers \cap Sessions = {} /\ Pushers \subseteq Actors
  BY ActorsAssumption, Parts DEF Inv, PcType, Actors
<1>2. /\ \A a \in Actors \ {s} : pc'[a] = pc[a]
      /\ pc'[s] = step
  BY <1>1 DEF Go
<1>3. Awaited => Awaited'
  BY <1>1, <1>2 DEF Awaited, At
<1>4. OldInv'
  <2> SUFFICES ASSUME NEW a \in Checkers \cup Mergers,
                      pc'[a] \in {"failed", "has", "update", "retarget"},
                      saw'[a] # content
               PROVE  Awaited' \/ a \in expired'
    BY DEF OldInv
  <2>1. CASE a = s
    <3>1. /\ step = "update" /\ pc[s] = "has" /\ saw'[s] = saw[s]
          /\ expired' = expired
      BY <1>2, <2>1
    <3>2. saw[s] # content /\ s \in Checkers \cup Mergers
      BY <2>1, <3>1
    <3>3. Awaited \/ s \in expired
      BY <3>1, <3>2 DEF StaleInv, OldInv
    <3>4. CASE Awaited
      BY <1>3, <3>4
    <3>5. CASE s \in expired /\ expired' = expired
      BY <2>1, <3>5
    <3> QED
      BY <3>1, <3>3, <3>4, <3>5
  <2>2. CASE a # s
    BY <1>1, <1>2, <1>3, <2>2 DEF StaleInv, OldInv, Acquire
  <2> QED
    BY <2>1, <2>2
<1>5. StaleIsRechecked'
  <2> SUFFICES ASSUME of' # content', ~merged'
               PROVE  Underway' \/ missed'
    BY DEF StaleIsRechecked
  <2>1. CASE Awaited
    BY <1>3, <2>1, AwaitedIsEnough DEF StaleInv, StaleIsRechecked
  <2>2. CASE ~Awaited
    <3>1. PICK c \in Checkers :
            \/ pc[c] \in {"load", "examine"}
            \/ pc[c] \in {"failed", "has", "update"} /\ saw[c] = content
      BY <2>2 DEF StaleInv, StaleIsRechecked, Underway, Awaited, At
    <3>2. \/ pc'[c] \in {"load", "examine"}
          \/ pc'[c] \in {"failed", "has", "update"} /\ saw'[c] = content'
      <4>1. CASE c # s
        BY <1>1, <1>2, <3>1, <4>1
      <4>2. CASE c = s
        <5>1. s \notin Mergers \cup Viewers /\ ~queued /\ ~merged'
          BY <1>1, <2>2, <4>2 DEF Awaited
        <5> QED
          BY <1>2, <3>1, <4>2, <5>1
      <4> QED
        BY <4>1, <4>2
    <3> QED
      BY <3>2 DEF Underway
  <2> QED
    BY <2>1, <2>2
<1> QED
  BY <1>4, <1>5 DEF StaleInv

\* A result is stored, or dropped because the pull request is merged.
LEMMA StaleStored ==
  ASSUME Inv, StaleInv, NEW s \in Checkers \cup Mergers, Go(s, "idle"),
         pc[s] \in {"failed", "update", "retarget"}, Stored,
         of' = saw[s] \/ merged,
         UNCHANGED <<merged, content, queued, expired>>,
         \A a \in Sessions \ {s} : saw'[a] = saw[a]
  PROVE  StaleInv'
<1>1. /\ Sessions \subseteq Actors /\ DOMAIN pc = Actors
      /\ Checkers \cup Mergers \subseteq Sessions
      /\ Pushers \cap Sessions = {} /\ Pushers \subseteq Actors
  BY ActorsAssumption, Parts DEF Inv, PcType, Actors
<1>2. /\ \A a \in Actors \ {s} : pc'[a] = pc[a]
      /\ pc'[s] = "idle"
  BY <1>1 DEF Go
<1>3. /\ missed => missed'
      /\ expired # {} => missed' \/ queued'
  <2>1. CASE expired = {}
    BY <2>1 DEF Stored, history
  <2>2. CASE expired # {}
    BY <2>2 DEF Stored, Miss
  <2> QED
    BY <2>1, <2>2
<1>4. Awaited => Awaited'
  BY <1>1, <1>2, <1>3 DEF Awaited, At
<1>5. OldInv'
  <2> SUFFICES ASSUME NEW a \in Checkers \cup Mergers,
                      pc'[a] \in {"failed", "has", "update", "retarget"},
                      saw'[a] # content
               PROVE  Awaited' \/ a \in expired'
    BY DEF OldInv
  <2>1. a # s
    BY <1>2
  <2> QED
    BY <1>1, <1>2, <1>4, <2>1 DEF StaleInv, OldInv
<1>6. ASSUME ~merged, of' # content
      PROVE  Awaited'
  <2>1. Awaited \/ s \in expired
    BY <1>6 DEF StaleInv, OldInv
  <2> QED
    BY <1>3, <1>4, <2>1 DEF Awaited
<1> QED
  BY <1>5, <1>6, AwaitedIsEnough DEF StaleInv, StaleIsRechecked

\* A worker of the queue leaves a stale status to be computed again.
LEMMA StaleCheck ==
  ASSUME Inv, StaleInv, NEW c \in Checkers,
         Pop(c) \/ Check(c) \/ CheckGivesUp(c)
  PROVE  StaleInv'
<1> USE DEF At, Leave, history
<1>0. /\ RowType /\ c \in Sessions /\ c \in Actors /\ DOMAIN pc = Actors
      /\ DOMAIN saw = Actors
  BY ActorsAssumption, Parts DEF Inv, RowType, PcType, Actors
<1>1. CASE Pop(c)
  <2>1. pc'[c] = "lock"
    BY <1>0, <1>1 DEF Pop, Go
  <2> QED
    BY <2>1, AwaitedIsEnough DEF Awaited
<1>2. CASE CheckLocks(c)
  <2>1. /\ Acquire(c) /\ pc'[c] = "load"
        /\ \A a \in Actors \ {c} : pc'[a] = pc[a]
        /\ UNCHANGED <<of, content, saw>>
    BY <1>0, <1>2 DEF CheckLocks, Go, row
  <2>2. OldInv'
    <3> SUFFICES ASSUME NEW a \in Checkers \cup Mergers,
                        pc'[a] \in {"failed", "has", "update", "retarget"}
                 PROVE  a \in expired'
      BY DEF OldInv
    <3>1. a # c /\ pc[a] \in Holding /\ a \in Sessions
      BY <2>1, ActorsAssumption DEF Holding, Actors
    <3>2. a \in expired
      BY <2>1, <3>1, NoneAssumption
         DEF Inv, HeldInv, LockInv, HolderOwns, Acquire, Free
    <3> QED
      BY <2>1, <3>1, <3>2 DEF Acquire
  <2> QED
    BY <2>1, <2>2 DEF StaleInv, StaleIsRechecked, Underway
<1>3. CASE CheckGivesUp(c)
  <2>1. missed' \/ queued'
    <3>1. missed' = (missed \/ ~queued) /\ queued' = queued
      BY <1>3 DEF CheckGivesUp, Miss
    <3> QED
      BY <3>1
  <2> QED
    BY <2>1, AwaitedIsEnough DEF Awaited
<1>4. CASE Load(c)
  <2>0. UNCHANGED <<of, content, queued, saw, missed>> /\ pc[c] = "load"
    BY <1>4 DEF Load, Overlook, row
  <2>1. CASE merged' /\ Release(c) /\ Go(c, "idle")
    BY <1>0, <2>0, <2>1, StaleKept DEF Release
  <2>2. CASE Go(c, "examine") /\ UNCHANGED <<lockVars, row>>
    BY <1>0, <2>0, <2>2, StaleKept DEF lockVars, row
  <2> QED
    BY <1>4, <2>1, <2>2 DEF Load, row
<1>5. CASE Examine(c)
  <2>1. /\ UNCHANGED <<of, content, landed, queued, missed, merged, expired>>
        /\ pc[c] = "examine" /\ saw' = [saw EXCEPT ![c] = content]
        /\ \E step \in {"has", "failed"} : Go(c, step)
    BY <1>5 DEF Examine, row, lockVars
  <2> QED
    BY <1>0, <2>1, StaleKept
<1>6. CASE StoreError(c)
  <2>1. /\ UNCHANGED <<content, landed, queued, merged, expired>> /\ Stored
        /\ pc[c] = "failed" /\ saw' = [saw EXCEPT ![c] = 0]
        /\ Go(c, "idle") /\ of' = saw[c]
    BY <1>6 DEF StoreError, Release
  <2> QED
    BY <1>0, <2>1, StaleStored
<1>7. CASE Has(c)
  <2>1. /\ UNCHANGED <<of, content, landed, queued, missed, merged, expired>>
        /\ pc[c] = "has"
    BY <1>7 DEF Has, row, lockVars, Release
  <2>2. CASE queued /\ Go(c, "idle") /\ saw' = [saw EXCEPT ![c] = 0]
    BY <1>0, <2>1, <2>2, StaleKept
  <2>3. CASE Go(c, "update") /\ saw' = saw
    BY <1>0, <2>1, <2>3, StaleKept
  <2> QED
    BY <1>7, <2>2, <2>3 DEF Has
<1>8. CASE Update(c)
  <2>1. /\ UNCHANGED <<content, landed, queued, expired>> /\ StoreResult(c)
        /\ pc[c] = "update" /\ saw' = [saw EXCEPT ![c] = 0] /\ Go(c, "idle")
    BY <1>8 DEF Update, Release
  <2> QED
    BY <1>0, <2>1, StaleStored, ResultMoves
<1> QED
  BY <1>1, <1>2, <1>3, <1>4, <1>5, <1>6, <1>7, <1>8 DEF Check

\* Views and merges leave a stale status to be computed again.
LEMMA StaleOthers ==
  ASSUME Inv, StaleInv, NEW m \in Viewers \cup Mergers,
         \/ m \in Viewers /\ (View(m) \/ ViewAsks(m))
         \/ m \in Mergers /\ (Request(m) \/ RequestLocks(m) \/ Work(m))
  PROVE  StaleInv'
<1> USE DEF At, Leave, history
<1>0. /\ RowType /\ m \in Sessions /\ m \in Actors /\ DOMAIN pc = Actors
      /\ DOMAIN saw = Actors /\ m \notin Checkers /\ Viewers \cap Mergers = {}
      /\ pc[m] # "lock"
  BY ActorsAssumption, Parts
     DEF Inv, RowType, PcType, Actors, MergerSteps, ViewerSteps
<1>1. CASE View(m)
  BY <1>0, <1>1, StaleKept DEF View, row
<1>2. CASE ViewAsks(m)
  <2>1. CASE Enqueue
    BY <2>1, AwaitedIsEnough DEF Enqueue, Awaited
  <2>2. CASE UNCHANGED <<queued, history>>
    BY <1>0, <1>2, <2>2, StaleKept DEF ViewAsks, row, Release
  <2> QED
    BY <1>2, <2>1, <2>2 DEF ViewAsks
<1>3. CASE m \in Mergers /\ Request(m)
  <2>1. \E step \in {"merge", "manual", "target"} : Go(m, step)
    BY <1>3 DEF Request
  <2> QED
    BY <1>0, <1>3, <2>1, StaleKept DEF Request, row, lockVars
<1>4. CASE m \in Mergers /\ RequestLocks(m)
  <2>1. \E step \in {"land", "set", "refresh"} : Go(m, step)
    BY <1>4 DEF RequestLocks
  <2> QED
    BY <1>0, <1>4, <2>1, StaleKept DEF RequestLocks, row
<1>5. CASE m \in Mergers /\ Refuse(m)
  BY <1>0, <1>5, StaleKept DEF Refuse, row, Release
<1>6. CASE m \in Mergers /\ Land(m)
  <2>1. pc'[m] = "notify"
    BY <1>0, <1>6 DEF Land, Go
  <2> QED
    BY <1>6, <2>1, AwaitedIsEnough DEF Awaited
<1>7. CASE m \in Mergers /\ Hook(m)
  BY <1>0, <1>7, StaleKept DEF Hook, Release
<1>8. CASE m \in Mergers /\ SetManually(m)
  BY <1>0, <1>8, StaleKept DEF SetManually, Release
<1>9. CASE m \in Mergers /\ Refresh(m)
  <2>1. /\ UNCHANGED <<of, content, landed, queued, missed, merged, expired>>
        /\ saw' = [saw EXCEPT ![m] = content] /\ Go(m, "retarget")
        /\ pc[m] = "refresh"
    BY <1>9 DEF Refresh, row, lockVars
  <2> QED
    BY <1>0, <1>9, <2>1, StaleKept
<1>10. CASE m \in Mergers /\ Retarget(m)
  <2>1. /\ UNCHANGED <<content, landed, queued, expired>> /\ StoreResult(m)
        /\ pc[m] = "retarget" /\ saw' = [saw EXCEPT ![m] = 0] /\ Go(m, "idle")
    BY <1>10 DEF Retarget, Release
  <2> QED
    BY <1>0, <1>10, <2>1, StaleStored, ResultMoves
<1>11. CASE \E step \in {"hook", "idle"}, P \in SUBSET Pushers :
              /\ m \in Mergers /\ Starts(m, step, P) /\ UNCHANGED lockVars
              /\ step = "hook" => pc[m] = "notify"
  <2>1. \E p \in Pushers : pc'[p] = "mark"
    BY <1>11, TaskStarts DEF MergerSteps, Holding
  <2> QED
    BY <2>1, AwaitedIsEnough DEF Awaited
<1>12. CASE m \in Mergers /\ Notify(m)
  BY <1>11, <1>12 DEF Notify
<1>13. CASE m \in Mergers /\ Again(m)
  <2>1. CASE merged /\ Go(m, "idle")
    BY <1>0, <1>13, <2>1, StaleKept DEF Again, row, lockVars
  <2>2. CASE Starts(m, "idle", Near(m))
    BY <1>11, <1>13, <2>2 DEF Again, Near
  <2> QED
    BY <1>13, <2>1, <2>2 DEF Again
<1> QED
  BY <1>0, <1>1, <1>2, <1>3, <1>4, <1>5, <1>6, <1>7, <1>8, <1>9, <1>10, <1>12,
     <1>13 DEF Work

\* The death of a process loses a check only as the history records.
LEMMA StaleCrash ==
  ASSUME Inv, StaleInv, NEW n \in Nodes, Crash(n)
  PROVE  StaleInv'
<1> DEFINE gone == {a \in Actors : NodeOf[a] = n /\ ~At(a, "idle")}
<1>0. /\ UNCHANGED <<of, merged, landed, content, queued, expired>>
      /\ pc' = [a \in Actors |-> IF a \in gone THEN "idle" ELSE pc[a]]
      /\ saw' = [a \in Actors |-> IF a \in gone THEN 0 ELSE saw[a]]
      /\ Checkers \cup Mergers \cup Pushers \subseteq Actors
  BY DEF Crash, LockCrash, row, Actors
<1>1. CASE \/ gone \cap (Checkers \cup Pushers) # {}
           \/ \E m \in gone : At(m, "notify")
  <2>1. missed' = (missed \/ ~queued) /\ queued' = queued
    BY <1>1 DEF Crash, Miss
  <2>2. missed' \/ queued'
    BY <2>1
  <2> QED
    BY <2>2, AwaitedIsEnough DEF Awaited
<1>2. CASE /\ gone \cap (Checkers \cup Pushers) = {}
           /\ ~\E m \in gone : At(m, "notify")
  <2>1. missed' = missed
    BY <1>2 DEF Crash, history
  <2>2. \A a \in Checkers \cup Pushers : pc'[a] = pc[a] /\ saw'[a] = saw[a]
    BY <1>0, <1>2
  <2>3. \A m \in Mergers : pc'[m] = "notify" <=> pc[m] = "notify"
    BY <1>0, <1>2 DEF At
  <2>4. Awaited' = Awaited /\ Underway' = Underway
    BY <1>0, <2>1, <2>2, <2>3 DEF Awaited, Underway, At
  <2>5. OldInv'
    <3> SUFFICES ASSUME NEW a \in Checkers \cup Mergers,
                        pc'[a] \in {"failed", "has", "update", "retarget"},
                        saw'[a] # content
                 PROVE  Awaited' \/ a \in expired'
      BY <1>0 DEF OldInv
    <3>1. pc'[a] = pc[a] /\ saw'[a] = saw[a]
      BY <1>0
    <3> QED
      BY <1>0, <2>4, <3>1 DEF StaleInv, OldInv
  <2> QED
    BY <1>0, <2>1, <2>4, <2>5 DEF StaleInv, StaleIsRechecked
<1> QED
  BY <1>1, <1>2

\* Every step leaves a stale status to be computed again.
LEMMA StaleStep == Inv /\ StaleInv /\ [Next]_vars => StaleInv'
<1> SUFFICES ASSUME Inv, StaleInv, [Next]_vars PROVE StaleInv'
  OBVIOUS
<1>1. CASE LockSteps \/ UNCHANGED vars
  <2>1. /\ expired \subseteq expired'
        /\ UNCHANGED <<row, content, landed, queued, pc, saw, missed>>
    BY <1>1, TimeLock, Parts DEF Inv, LockSteps, vars, lockVars, history
  <2>2. Awaited' = Awaited /\ Underway' = Underway
    BY <2>1 DEF Awaited, Underway, At
  <2> QED
    BY <2>1, <2>2 DEF StaleInv, OldInv, StaleIsRechecked, row
<1>2. ASSUME NEW p \in Pushers, Push(p) \/ Ask(p)
      PROVE  StaleInv'
  BY <1>2, PushAwaits, AwaitedIsEnough
<1> QED
  BY <1>1, <1>2, StaleCheck, StaleOthers, StaleCrash DEF Next

\* A status that is not that of the present content is computed again, unless
\* no check was asked for or one was lost: the global lock and the unique
\* queue order the results of overlapping checks (check.go:249-268,427-469),
\* with any number of workers, pushes, merges, faults and crashes.
THEOREM StaleIsRecheckedAlways == Spec => []StaleIsRechecked
<1>1. Init => StaleInv
  <2> SUFFICES ASSUME Init PROVE StaleInv
    OBVIOUS
  <2>1. OldInv
    BY DEF Init, OldInv, Actors
  <2>2. of = content
    BY DEF Init
  <2> QED
    BY <2>1, <2>2 DEF StaleInv, StaleIsRechecked
<1>2. StaleInv => StaleIsRechecked
  BY DEF StaleInv
<1> QED
  BY <1>1, <1>2, InitInv, StepInv, StaleStep, PTL DEF Spec

=============================================================================
