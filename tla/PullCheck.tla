----------------------------- MODULE PullCheck -----------------------------
(***************************************************************************)
(* The life of one pull request's status (services/pull/check.go, merge.go *)
(* and pull.go): pushes mark it as "checking" and ask for a check through  *)
(* the unique queue pr_patch_checker, the workers of that queue find out   *)
(* whether it can be merged, views ask again for a check that got lost,    *)
(* and merges, manual merges and changes of the target branch work on it   *)
(* under the same global lock (GlobalLock).                                *)
(*                                                                         *)
(* The queue is abstract: it holds the pull request or not, Push adds it   *)
(* unless it is there, and a popped item is no longer there (that is what  *)
(* the modules of the queue show).  It survives a crash, as the level and  *)
(* redis queues do.  The content of the pull request is a number, the      *)
(* pushes to its head or base so far, and "of" is the content its status   *)
(* was computed from.  "checked" stands for mergeable, conflict, empty and *)
(* ancestor alike.  Automatic detection of manual merges is on: a check    *)
(* records a pull request whose head is in its base.  A merge commit or a  *)
(* fast-forward brings it there, as a push may; a squash or a rebase does  *)
(* not, and only the hook of the merge can record that one.                *)
(***************************************************************************)
EXTENDS GlobalLock

CONSTANTS
  Checkers,     \* workers of pr_patch_checker
  Viewers,      \* requests that show the pull request
  Mergers,      \* requests that merge it or change its target
  Pushers,      \* runs of AddTestPullRequestTask
  MaxPushes,    \* bound: changes of the content, by pushes and by merges
  MaxFaults     \* bound: checks, hooks, queue operations, extensions and
                \* unlocks that fail, Locks that give up, crashes

Actors == Checkers \cup Viewers \cup Mergers \cup Pushers

ASSUME ActorsAssumption ==
  /\ Sessions = Checkers \cup Viewers \cup Mergers
  /\ \A a \in Actors : NodeOf[a] \in Nodes
  /\ Checkers \cap (Viewers \cup Mergers \cup Pushers) = {}
  /\ Viewers \cap (Mergers \cup Pushers) = {} /\ Mergers \cap Pushers = {}
  /\ {MaxPushes, MaxFaults} \subseteq Nat

VARIABLES
  status, of, merged,  \* the row of the pull request
  content,             \* pushes to its head or base
  landed,              \* its head is an ancestor of its base
  queued,              \* it is in pr_patch_checker
  pc, saw,             \* each actor's next step, the content it works on
  faults,              \* failures so far
  missed,              \* history: no check was asked for the last mark, or
                       \* it was lost or its mark overwritten meanwhile
  overlooked           \* history: the last look for a manual merge failed

row == <<status, of, merged>>
history == <<missed, overlooked>>
vars == <<lockVars, row, content, landed, queued, pc, saw, faults, history>>

CheckerSteps == {"idle", "lock", "load", "examine", "failed", "has", "update"}
ViewerSteps == {"idle", "ask"}
MergerSteps == {"idle", "merge", "manual", "target", "land", "notify", "hook",
                "again", "set", "refresh", "retarget"}
PusherSteps == {"idle", "mark", "reread", "push"}

Init ==
  /\ LockInit
  /\ status \in {"checked", "checking"} /\ of = 0 /\ merged = FALSE
  /\ content = 0 /\ landed = FALSE /\ queued = FALSE
  /\ pc = [a \in Actors |-> "idle"] /\ saw = [a \in Actors |-> 0]
  /\ faults = 0 /\ missed = FALSE /\ overlooked = FALSE

Go(a, step) == pc' = [pc EXCEPT ![a] = step]
Leave(a) == Go(a, "idle") /\ saw' = [saw EXCEPT ![a] = 0]
At(a, step) == pc[a] = step
Fault == faults + failures < MaxFaults /\ faults' = faults + 1

\* Push to the unique queue: what is there already stays.
Enqueue ==
  /\ queued' = TRUE /\ missed' = FALSE /\ overlooked' = FALSE
  /\ UNCHANGED faults

\* A check is lost, or not asked for: unless one is queued, nobody will look.
Miss == missed' = (missed \/ ~queued) /\ UNCHANGED overlooked
Overlook == overlooked' = (overlooked \/ ~queued) /\ UNCHANGED missed

\* A result is stored by a session that holds the lock, if no lock was lost.
Stored == IF expired = {} THEN UNCHANGED history ELSE Miss

-----------------------------------------------------------------------------
(* Pushes: AddTestPullRequestTask.                                         *)

\* Commits arrive at the head or the base of the open pull request, which may
\* bring the head into the base or add what is not there.
Push(p) ==
  /\ At(p, "idle") /\ ~merged /\ content < MaxPushes
  /\ content' = content + 1 /\ landed' \in BOOLEAN /\ Go(p, "mark")
  /\ UNCHANGED <<lockVars, row, queued, saw, faults, history>>

\* UpdateColsIfNotMerged of the status.
Mark(p) ==
  /\ At(p, "mark") /\ Go(p, "reread")
  /\ status' = IF merged THEN status ELSE "checking"
  /\ UNCHANGED <<lockVars, of, merged, content, landed, queued, saw, faults,
                 history>>

\* The row is read again: only one that still is "checking" goes on, and the
\* delayable check of a pull request nobody updated lately ends here.
Reread(p) ==
  /\ At(p, "reread")
  /\ \/ status = "checking" /\ Go(p, "push") /\ UNCHANGED history
     \/ Go(p, "idle") /\ Miss
  /\ UNCHANGED <<lockVars, row, content, landed, queued, saw, faults>>

\* A mutant: a check that runs counts as queued.
PushUnlessRuns(p) ==
  /\ At(p, "push") /\ Go(p, "idle")
  /\ missed' = FALSE /\ overlooked' = FALSE
  /\ queued' = (queued \/ \A c \in Checkers : At(c, "idle"))
  /\ UNCHANGED <<lockVars, row, content, landed, saw, faults>>

\* An error of the queue is only logged.
PushToQueue(p) ==
  /\ At(p, "push") /\ Go(p, "idle")
  /\ Enqueue \/ (Fault /\ Miss /\ UNCHANGED queued)
  /\ UNCHANGED <<lockVars, row, content, landed, saw>>

-----------------------------------------------------------------------------
(* Views: StartPullRequestCheckOnView.                                     *)

\* A pull request that is "checking" is viewed; if TryLock fails, the request
\* goes on without a check and nothing changes.
View(v) ==
  /\ At(v, "idle") /\ status = "checking"
  /\ Acquire(v) /\ Go(v, "ask")
  /\ UNCHANGED <<row, content, landed, queued, saw, faults, history>>

\* A mutant: the lock is not released.
ViewAsksAndKeeps(v) ==
  /\ At(v, "ask") /\ Enqueue /\ Go(v, "idle")
  /\ UNCHANGED <<lockVars, row, content, landed, saw>>

ViewAsks(v) ==
  /\ At(v, "ask") /\ Release(v) /\ Go(v, "idle")
  /\ Enqueue \/ (Fault /\ UNCHANGED <<queued, history>>)
  /\ UNCHANGED <<row, content, landed, saw>>

-----------------------------------------------------------------------------
(* Checks: checkPullRequestMergeable.                                      *)

Pop(c) ==
  /\ At(c, "idle") /\ queued /\ queued' = FALSE
  /\ Go(c, "lock")
  /\ UNCHANGED <<lockVars, row, content, landed, saw, faults, history>>

CheckLocks(c) ==
  /\ At(c, "lock") /\ Acquire(c) /\ Go(c, "load")
  /\ UNCHANGED <<row, content, landed, queued, saw, faults, history>>

\* Lock reaches its maximum of tries: the item is gone.
CheckGivesUp(c) ==
  /\ At(c, "lock") /\ ~Free /\ Fault
  /\ Go(c, "idle") /\ Miss
  /\ UNCHANGED <<lockVars, row, content, landed, queued, saw>>

\* A mutant: a merge that was not recorded is not looked for.
LoadOnly(c) ==
  /\ At(c, "load")
  /\ \/ merged /\ Release(c) /\ Go(c, "idle")
     \/ ~merged /\ Go(c, "examine") /\ UNCHANGED lockVars
  /\ UNCHANGED <<row, content, landed, queued, saw, faults, history>>

\* A mutant: merged pull requests are examined too.
LoadMerged(c) ==
  /\ At(c, "load") /\ Go(c, "examine")
  /\ UNCHANGED <<lockVars, row, content, landed, queued, saw, faults, history>>

\* The row is read; a merged pull request needs no check, one whose head is
\* in the base is recorded as merged (manuallyMerged). If that fails, be it
\* git or SetMerged, the check goes on.
Load(c) ==
  /\ At(c, "load")
  /\ \/ merged /\ Release(c) /\ Go(c, "idle")
        /\ UNCHANGED <<row, faults, history>>
     \/ ~merged /\ landed /\ Release(c) /\ Go(c, "idle")
        /\ merged' = TRUE /\ status' = "manual"
        /\ UNCHANGED <<of, faults, history>>
     \/ ~merged /\ Go(c, "examine") /\ UNCHANGED <<lockVars, row>>
        /\ \/ ~landed /\ UNCHANGED <<faults, history>>
           \/ landed /\ Fault /\ Overlook
  /\ UNCHANGED <<content, landed, queued, saw>>

\* checkPullRequestBranchMergeable reads the repository.
Examine(c) ==
  /\ At(c, "examine")
  /\ saw' = [saw EXCEPT ![c] = content]
  /\ \/ Go(c, "has") /\ UNCHANGED faults
     \/ Go(c, "failed") /\ Fault
  /\ UNCHANGED <<lockVars, row, content, landed, queued, history>>

\* The error is stored whatever became of the row.
StoreError(c) ==
  /\ At(c, "failed") /\ Release(c) /\ Leave(c)
  /\ status' = "error" /\ of' = saw[c] /\ Stored
  /\ UNCHANGED <<merged, content, landed, queued, faults>>

\* markPullRequestAsMergeable: the result of a check that will be repeated is
\* not stored; an error of Has counts as "no".
Has(c) ==
  /\ At(c, "has")
  /\ \/ queued /\ Release(c) /\ Leave(c) /\ UNCHANGED faults
     \/ /\ (~queued /\ UNCHANGED faults) \/ (queued /\ Fault)
        /\ Go(c, "update") /\ UNCHANGED <<lockVars, saw>>
  /\ UNCHANGED <<row, content, landed, queued, history>>

\* UpdateColsIfNotMerged of the result.
StoreResult(a) ==
  /\ IF merged THEN UNCHANGED row
     ELSE status' = "checked" /\ of' = saw[a] /\ UNCHANGED merged
  /\ Stored

Update(c) ==
  /\ At(c, "update") /\ StoreResult(c) /\ Release(c) /\ Leave(c)
  /\ UNCHANGED <<content, landed, queued, faults>>

-----------------------------------------------------------------------------
(* Merge, MergedManually, ChangeTargetBranch.  A request reads the open    *)
(* pull request before it waits for the lock.                              *)

Request(m) ==
  /\ At(m, "idle") /\ ~merged
  /\ \E operation \in {"merge", "manual", "target"} : Go(m, operation)
  /\ UNCHANGED <<lockVars, row, content, landed, queued, saw, faults, history>>

\* A request that gives up waiting changes nothing.
RequestLocks(m) ==
  /\ \/ At(m, "merge") /\ Acquire(m) /\ Go(m, "land")
     \/ At(m, "manual") /\ Acquire(m) /\ Go(m, "set")
     \/ At(m, "target") /\ Acquire(m) /\ Go(m, "refresh")
  /\ UNCHANGED <<row, content, landed, queued, saw, faults, history>>

\* What is asked for cannot be done: git refuses to merge, the commit is the
\* wrong one, the branch does not exist. A merge asks for a check all the same.
Refuse(m) ==
  /\ pc[m] \in {"land", "set", "refresh"} /\ Release(m)
  /\ Go(m, IF At(m, "land") THEN "again" ELSE "idle")
  /\ UNCHANGED <<row, content, landed, queued, saw, faults, history>>

\* doMergeAndPush: the base has the merge. The head is in it too, unless the
\* style was squash or rebase.
Land(m) ==
  /\ At(m, "land") /\ ~landed /\ content < MaxPushes
  /\ content' = content + 1 /\ landed' \in BOOLEAN /\ Go(m, "notify")
  /\ UNCHANGED <<lockVars, row, queued, saw, faults, history>>

\* AddTestPullRequestTask starts, as a task of P.
Starts(m, step, P) ==
  \E p \in P : At(p, "idle") /\ pc' = [pc EXCEPT ![m] = step, ![p] = "mark"]

\* The post-receive hook of that push, while Merge holds the lock, hands the
\* push on to the queue push_update, which workers of any process may serve ...
Notify(m) ==
  /\ At(m, "notify") /\ Starts(m, "hook", Pushers)
  /\ UNCHANGED <<lockVars, row, content, landed, queued, saw, faults, history>>

\* ... and records the merge (handlePullRequestMerging): SetMerged keeps the
\* status, and may fail.  (It writes the status it read just before; a mark
\* between the two is lost, and matters no more.)
Hook(m) ==
  /\ At(m, "hook") /\ Release(m) /\ Go(m, "again")
  /\ \/ merged' = TRUE /\ UNCHANGED faults
     \/ Fault /\ UNCHANGED merged
  /\ UNCHANGED <<status, of, content, landed, queued, saw, history>>

\* Merge ends, well or not, with a goroutine for the open pull requests of the
\* base.
Near(m) == {p \in Pushers : NodeOf[p] = NodeOf[m]}

Again(m) ==
  /\ At(m, "again")
  /\ (merged /\ Go(m, "idle")) \/ (~merged /\ Starts(m, "idle", Near(m)))
  /\ UNCHANGED <<lockVars, row, content, landed, queued, saw, faults, history>>

\* SetMerged with the condition that nobody else did it.
SetManually(m) ==
  /\ At(m, "set") /\ Release(m) /\ Go(m, "idle")
  /\ merged' = TRUE /\ status' = IF merged THEN status ELSE "manual"
  /\ UNCHANGED <<of, content, landed, queued, saw, faults, history>>

\* ChangeTargetBranch examines the pull request on its new base ...
Refresh(m) ==
  /\ At(m, "refresh") /\ Go(m, "retarget")
  /\ saw' = [saw EXCEPT ![m] = content]
  /\ UNCHANGED <<lockVars, row, content, landed, queued, faults, history>>

\* ... and stores the result without a look at the queue.
Retarget(m) ==
  /\ At(m, "retarget") /\ StoreResult(m) /\ Release(m) /\ Leave(m)
  /\ UNCHANGED <<content, landed, queued, faults>>

-----------------------------------------------------------------------------
(* Time, failures of processes.                                            *)

LockSteps ==
  /\ Extend \/ Tick
  /\ UNCHANGED <<row, content, landed, queued, pc, saw, faults, history>>

\* The process restarts at once; its popped items and its tasks are gone.
Crash(n) ==
  LET gone == {a \in Actors : NodeOf[a] = n /\ ~At(a, "idle")}
  IN  /\ Fault /\ LockCrash(n)
      /\ pc' = [a \in Actors |-> IF a \in gone THEN "idle" ELSE pc[a]]
      /\ saw' = [a \in Actors |-> IF a \in gone THEN 0 ELSE saw[a]]
      /\ IF \/ gone \cap (Checkers \cup Pushers) # {}
            \/ \E m \in gone : At(m, "notify")
         THEN Miss ELSE UNCHANGED history
      /\ UNCHANGED <<row, content, landed, queued>>

Check(c) ==
  \/ CheckLocks(c) \/ Load(c) \/ Examine(c) \/ StoreError(c) \/ Has(c)
  \/ Update(c)
Ask(p) == Mark(p) \/ Reread(p) \/ PushToQueue(p)
Work(m) ==
  \/ Refuse(m) \/ Land(m) \/ Notify(m) \/ Hook(m) \/ Again(m)
  \/ SetManually(m) \/ Refresh(m) \/ Retarget(m)

Next ==
  \/ \E c \in Checkers : Pop(c) \/ Check(c) \/ CheckGivesUp(c)
  \/ \E p \in Pushers : Push(p) \/ Ask(p)
  \/ \E v \in Viewers : View(v) \/ ViewAsks(v)
  \/ \E m \in Mergers : Request(m) \/ RequestLocks(m) \/ Work(m)
  \/ LockSteps
  \/ \E n \in Nodes : Crash(n)

Spec == Init /\ [][Next]_vars

(***************************************************************************)
(* Running goroutines go on; a pull request is viewed again and again.     *)
(* The polls for the lock have random delays, so that who asks whenever it *)
(* is free gets it at last: strong fairness.                               *)
(***************************************************************************)
Fairness ==
  /\ WF_vars(LockSteps)
  /\ \A c \in Checkers :
       WF_vars(Pop(c)) /\ SF_vars(CheckLocks(c)) /\ WF_vars(Check(c))
  /\ \A p \in Pushers : WF_vars(Ask(p))
  /\ \A v \in Viewers : SF_vars(View(v)) /\ WF_vars(ViewAsks(v))
  /\ \A m \in Mergers : WF_vars(Work(m))

FairSpec == Spec /\ Fairness

-----------------------------------------------------------------------------
TypeOK ==
  /\ LockTypeOK
  /\ status \in {"checking", "checked", "error", "manual"}
  /\ of \in 0 .. content /\ content \in 0 .. MaxPushes
  /\ {merged, landed, queued, missed, overlooked} \subseteq BOOLEAN
  /\ DOMAIN pc = Actors
  /\ \A c \in Checkers : pc[c] \in CheckerSteps
  /\ \A v \in Viewers : pc[v] \in ViewerSteps
  /\ \A m \in Mergers : pc[m] \in MergerSteps
  /\ \A p \in Pushers : pc[p] \in PusherSteps
  /\ saw \in [Actors -> 0 .. content]
  /\ faults \in 0 .. MaxFaults

\* Somebody will look at the content as it is now, or just did.
Underway ==
  \/ queued
  \/ \E c \in Checkers :
       \/ pc[c] \in {"lock", "load", "examine"}
       \/ pc[c] \in {"failed", "has", "update"} /\ saw[c] = content
  \/ \E p \in Pushers : ~At(p, "idle")
  \/ \E m \in Mergers : At(m, "notify")

(***************************************************************************)
(* A status computed from an older content is about to be computed again,  *)
(* also if it is "checking", unless no check was queued since the last     *)
(* push (a delayable check, or a mark that was overwritten before the      *)
(* re-read), or that check was lost by a crash, a Lock that gave up or a   *)
(* lock that was not kept: the lock and the unique queue order the results *)
(* of checks that overlap.                                                 *)
(***************************************************************************)
StaleIsRechecked == of # content /\ ~merged => Underway \/ missed

(***************************************************************************)
(* The status of a merged pull request stays, although the error of a      *)
(* check is stored without a look at the row: the global lock keeps them   *)
(* apart, as long as it is not lost.                                       *)
(***************************************************************************)
MergedStays ==
  [][merged => merged' /\ (status' = status \/ expired # {})]_vars

(***************************************************************************)
(* A pull request whose head is in its base is recorded as merged at last, *)
(* by the hook or by the check that finds it there, also if the hook fails *)
(* or the process dies, unless a later push takes the head out of the base *)
(* again or the check is lost or fails to look.                            *)
(***************************************************************************)
MergeIsRecorded == landed ~> (merged \/ ~landed \/ missed \/ overlooked)

(***************************************************************************)
(* "checking" ends: what was lost is asked for again by a view.  The       *)
(* conditions exclude views that ask again whenever the item was popped    *)
(* but has not got the lock, and merges that fail again and again, each of *)
(* which asks as well: both make each check skip its update.               *)
(***************************************************************************)
CheckingEnds ==
  <>[](/\ ~(queued /\ \E c \in Checkers : At(c, "lock"))
       /\ \A m \in Mergers : ~At(m, "again"))
    => (status = "checking" /\ ~merged) ~> (status # "checking" \/ merged)
=============================================================================
