----------------------------- MODULE ActionsRun -----------------------------
(***************************************************************************)
(* models/actions and services/actions: the jobs of one workflow run, the  *)
(* tasks that runners carry out for them, and the status of the run, which *)
(* every transaction that changes a job computes again from all jobs.      *)
(*                                                                         *)
(* Requests, cron tasks and the job emitter change jobs in transactions    *)
(* with the isolation "read committed": a transaction reads what was last  *)
(* committed, an UPDATE looks at its condition once it has the lock of the *)
(* row and keeps the lock until the transaction ends. A session carries    *)
(* out one request or cron task: the updates it has still to make (todo)   *)
(* and those of its open transaction (own), which nobody else sees. A job, *)
(* its current task and the steps of that change together, so the lock of  *)
(* the job stands for all. The version of the run is abstracted to the set *)
(* of sessions that have loaded the current one.                           *)
(*                                                                         *)
(* A transaction that updates several jobs computes the run after each; as *)
(* the first time locks the row of the run, computing it once at the end   *)
(* gives the same result. Not so for the job emitter: it updates the run   *)
(* before it updates the status of any job, to store what it evaluated of  *)
(* their concurrency groups, and goes on without a job whose evaluation    *)
(* failed. The groups themselves, logs, outputs, permissions and ephemeral *)
(* runners are left out.                                                   *)
(***************************************************************************)
EXTENDS Integers, FiniteSets, Sequences

CONSTANTS
  Jobs,        \* the ids of the jobs
  Needs,       \* the jobs that each job needs
  IfJobs,      \* jobs with an "if" condition
  Results,     \* what a runner may report
  Sessions,    \* concurrent requests and cron tasks
  Emitters,    \* the workers of the job emitter's queue, a session each
  Events,      \* which of AllEvents happen
  MaxTasks,    \* bound: tasks of one job
  MaxReruns    \* bound: reruns of the run

AllEvents ==
  {"cancel",   \* a user cancels the run
   "stop",     \* the cron tasks for zombie and endless tasks
   "abandon",  \* the cron task for jobs that nobody picked
   "approve",  \* the run of an outside contributor needs an approval
   "unqueued", \* the queue does not take what is pushed
   "crash"}    \* the process dies and is started again

DoneStatus == {"success", "failure", "cancelled", "skipped"}
Status == DoneStatus \cup {"waiting", "running", "blocked"}

ASSUME ConstantsAssumption ==
  /\ Jobs \subseteq Nat /\ IsFiniteSet(Jobs) /\ Jobs # {}
  /\ Needs \in [Jobs -> SUBSET Jobs] /\ IfJobs \subseteq Jobs
  /\ Results \subseteq DoneStatus
  /\ Emitters \cap Sessions = {}
  /\ Events \subseteq AllEvents
  /\ MaxTasks \in Nat /\ MaxReruns \in Nat

VARIABLES
  job,       \* the committed rows of action_run_job: status and task
  run,       \* the committed status of action_run
  task,      \* the committed statuses of the tasks of each job
  op,        \* what each session does
  todo,      \* the updates it has still to make
  own,       \* the updates of its open transaction
  agg,       \* the status of the run it has computed, "none" before
  held,      \* the jobs whose rows it has locked by an evaluation
  fresh,     \* sessions whose loaded run has the current version
  push,      \* sessions that will push the run to the job emitter
  queued,    \* the run is in the queue of the job emitter
  reruns,    \* number of reruns so far
  approved,  \* the run needs no approval, or has it
  torn,      \* history: a rerun has reset the run and no job since
  raced,     \* history: an update replaced a status it had not seen (an
             \* approval never looks)
  missed,    \* history: a rerun blocked a job after its needs were done
  broken,    \* history: a crash, or a rerun that failed in the middle
  dropped    \* history: a push or a check was lost, and no check began since

rowVars == <<job, run, task>>
sessionVars == <<op, todo, own, agg, held, fresh, push>>
historyVars == <<torn, raced, missed, broken, dropped>>
vars == <<rowVars, sessionVars, queued, reruns, approved, historyVars>>

AllSessions == Sessions \cup Emitters

Row == [status : Status, task : Nat]

(* An update of a job: the new status, what happens to the column task_id, *)
(* its condition, the task it ends (0: none), and the status the session   *)
(* saw. "task" is not yet an update: the task has to be looked at first.   *)
Plan == [job : Jobs, to : Status, id : {"keep", "new", "zero"},
         where : {"any", "noTask", "same", "task"},
         ends : Nat, seen : Status]

(* operations with a transaction for each job *)
JobByJob == {"stop", "abandon", "rerun"}
(* operations that push the run when they have finished a job *)
Pushing == {"report", "cancel", "stop", "abandon"}
(* the job emitter's, before and after the first evaluation that succeeds *)
Checking == {"evaluate", "check"}
Ops == {"idle", "pick", "reset"} \cup Checking \cup JobByJob \cup Pushing

TypeOK ==
  /\ job \in [Jobs -> Row] /\ run \in Status
  /\ task \in [Jobs -> Seq(DoneStatus \cup {"running"})]
  /\ op \in [AllSessions -> Ops]
  /\ todo \in [AllSessions -> SUBSET Plan]
  /\ own \in [AllSessions -> SUBSET Plan]
  /\ agg \in [AllSessions -> Status \cup {"none"}]
  /\ held \in [AllSessions -> SUBSET Jobs]
  /\ fresh \subseteq AllSessions /\ push \subseteq AllSessions
  /\ queued \in BOOLEAN /\ reruns \in 0..MaxReruns /\ approved \in BOOLEAN
  /\ torn \in BOOLEAN /\ raced \in BOOLEAN
  /\ missed \in BOOLEAN /\ broken \in BOOLEAN /\ dropped \in BOOLEAN

-----------------------------------------------------------------------------
(* The status of a run and of its blocked jobs.                            *)

(* AggregateJobStatus, from the set of the statuses of the jobs *)
Aggregate(S) ==
  IF S = {"skipped"} THEN "skipped"
  ELSE IF S \subseteq {"success", "skipped"} THEN "success"
  ELSE IF "cancelled" \in S THEN "cancelled"
  ELSE IF "running" \in S THEN "running"
  ELSE IF "waiting" \in S THEN "waiting"
  ELSE IF "failure" \in S THEN "failure"
  ELSE "blocked"

NeedsDone(status, j) == \A n \in Needs[j] : status[n] \in DoneStatus

(* Mutant: a job starts as soon as one of its needs is done. *)
ResolveOnceEager(status) ==
  [j \in Jobs |->
     IF status[j] = "blocked" /\ (\/ Needs[j] = {}
                                  \/ \E n \in Needs[j] :
                                       status[n] \in DoneStatus)
     THEN "waiting" ELSE status[j]]

(* one round: a blocked job whose needs are done starts or is skipped *)
ResolveOnce(status) ==
  [j \in Jobs |->
     IF status[j] # "blocked" \/ ~NeedsDone(status, j) THEN status[j]
     ELSE IF \/ \A n \in Needs[j] : status[n] = "success"
             \/ j \in IfJobs
          THEN "waiting" ELSE "skipped"]

(* as many rounds as there are jobs *)
Resolve(status) ==
  LET round[n \in Nat] == IF n = 0 THEN status ELSE ResolveOnce(round[n - 1])
  IN  round[Cardinality(Jobs)]

-----------------------------------------------------------------------------
(* Sessions and their transactions.                                        *)

(* the jobs and tasks as session s sees them: with its own updates *)
Updated(row, t, p) ==
  [status |-> p.to,
   task |-> CASE p.id = "keep" -> row.task
              [] p.id = "zero" -> 0
              [] p.id = "new"  -> Len(t) + 1]

View(s) ==
  [j \in Jobs |-> IF \E p \in own[s] : p.job = j
                  THEN Updated(job[j], task[j],
                               CHOOSE p \in own[s] : p.job = j)
                  ELSE job[j]]

Statuses(s) == {View(s)[j].status : j \in Jobs}

TasksOf(s) ==
  [j \in Jobs |->
     IF \E p \in own[s] : p.job = j
     THEN LET p == CHOOSE p \in own[s] : p.job = j
          IN  IF p.id = "new" THEN Append(task[j], "running")
              ELSE IF p.ends # 0 THEN [task[j] EXCEPT ![p.ends] = p.to]
              ELSE task[j]
     ELSE task[j]]

Locks(s, j) == j \in held[s] \/ \E p \in own[s] : p.job = j

(* a check that has evaluated a job has updated the run and locks its row *)
LocksRun(s) == op[s] = "check" /\ held[s] # {}
RunFree(s) == \A r \in AllSessions \ {s} : ~LocksRun(r)

(* updates come in the order of the jobs, but in any order when each has   *)
(* its own transaction                                                     *)
IsNext(s, p) ==
  /\ p \in todo[s] /\ agg[s] = "none"
  /\ op[s] \notin {"idle", "reset", "evaluate"}
  /\ IF op[s] \in JobByJob THEN own[s] = {}
     ELSE \A q \in todo[s] : p.job <= q.job

Start(s, o, plans) ==
  /\ op[s] = "idle"
  /\ op' = [op EXCEPT ![s] = o]
  /\ todo' = [todo EXCEPT ![s] = plans]

RollBack(s) ==
  /\ own' = [own EXCEPT ![s] = {}]
  /\ agg' = [agg EXCEPT ![s] = "none"]
  /\ held' = [held EXCEPT ![s] = {}]
  /\ todo' = [todo EXCEPT ![s] = IF op[s] \in {"stop", "abandon"}
                                 THEN @ ELSE {}]
  /\ broken' = (broken \/ op[s] = "rerun")
  /\ UNCHANGED <<rowVars, op, fresh, push, reruns, approved,
                 torn, raced, missed>>

(* Mutant: nobody tries again what failed. *)
FailForGood(s) == RollBack(s) /\ UNCHANGED <<queued, dropped>>

(* the open transaction ends in an error: what each caller does then *)
Fail(s) ==
  /\ RollBack(s)
  /\ queued' = (queued \/ op[s] \in Checking)
  /\ UNCHANGED dropped

(* the emitter takes the error for one of the job's evaluation, which it   *)
(* only logs; all evaluations come before the first update                 *)
Swallow(s) ==
  /\ op[s] \in Checking /\ own[s] = {}
  /\ RollBack(s)
  /\ dropped' = TRUE /\ UNCHANGED queued

Init ==
  /\ approved \in IF "approve" \in Events THEN BOOLEAN ELSE {TRUE}
  /\ job = [j \in Jobs |->
              [status |-> IF Needs[j] # {} \/ ~approved
                          THEN "blocked" ELSE "waiting", task |-> 0]]
  /\ run = Aggregate({job[j].status : j \in Jobs})
  /\ task = [j \in Jobs |-> <<>>]
  /\ op = [s \in AllSessions |-> "idle"]
  /\ todo = [s \in AllSessions |-> {}] /\ own = [s \in AllSessions |-> {}]
  /\ agg = [s \in AllSessions |-> "none"]
  /\ held = [s \in AllSessions |-> {}]
  /\ fresh = {} /\ push = {}
  /\ queued = FALSE /\ reruns = 0
  /\ torn = FALSE /\ raced = FALSE /\ missed = FALSE /\ broken = FALSE
  /\ dropped = FALSE

-----------------------------------------------------------------------------
(* The requests and cron tasks: what each reads and means to update.       *)

StartUnchanged ==
  UNCHANGED <<rowVars, own, agg, held, fresh, push, queued, reruns, approved,
              historyVars>>

(* Mutant: the row may have got a task since it was read. *)
PickUnconditional(s) ==
  \E j \in Jobs :
    /\ job[j].status = "waiting" /\ job[j].task = 0
    /\ Len(task[j]) < MaxTasks
    /\ Start(s, "pick",
             {[job |-> j, to |-> "running", id |-> "new", where |-> "any",
               ends |-> 0, seen |-> "waiting"]})
    /\ StartUnchanged

(* a runner that matches the labels of the job asks for a task *)
Pick(s) ==
  \E j \in Jobs :
    /\ job[j].status = "waiting" /\ job[j].task = 0
    /\ Len(task[j]) < MaxTasks
    /\ Start(s, "pick",
             {[job |-> j, to |-> "running", id |-> "new", where |-> "noTask",
               ends |-> 0, seen |-> "waiting"]})
    /\ StartUnchanged

(* the update that ends task t of job j, whatever the job's row says *)
Ending(j, t, result) ==
  [job |-> j, to |-> result, id |-> "keep", where |-> "any",
   ends |-> t, seen |-> "running"]

(* a runner reports the result of its task *)
Report(s) ==
  \E j \in Jobs : \E t \in DOMAIN task[j], result \in Results :
    /\ task[j][t] = "running"
    /\ Start(s, "report", {Ending(j, t, result)})
    /\ StartUnchanged

(* a report for a task that is done changes nothing but pushes the run *)
ReportLate ==
  /\ \E j \in Jobs : \E t \in DOMAIN task[j] : task[j][t] \in DoneStatus
  /\ ~queued /\ queued' = TRUE
  /\ UNCHANGED <<rowVars, sessionVars, reruns, approved, historyVars>>

(* the row of a job, read before the transaction that is to cancel it *)
Cancelling(j) ==
  [job |-> j, to |-> "cancelled", id |-> "keep",
   where |-> IF job[j].task = 0 THEN "noTask" ELSE "task",
   ends |-> job[j].task, seen |-> job[j].status]

(* a user cancels the run *)
Cancel(s) ==
  LET open == {j \in Jobs : job[j].status \notin DoneStatus}
  IN  /\ "cancel" \in Events /\ open # {}
      /\ Start(s, "cancel", {Cancelling(j) : j \in open})
      /\ StartUnchanged

(* StopZombieTasks and StopEndlessTasks: tasks that run for too long *)
Stop(s) ==
  LET running == {r \in Jobs \X (1..MaxTasks) :
                    r[2] \in DOMAIN task[r[1]] /\ task[r[1]][r[2]] = "running"}
  IN  /\ "stop" \in Events /\ running # {}
      /\ Start(s, "stop",
               {[job |-> r[1], to |-> "failure", id |-> "keep",
                 where |-> "task", ends |-> r[2], seen |-> "running"] :
                  r \in running})
      /\ StartUnchanged

(* CancelAbandonedJobs: jobs that were not updated for too long *)
Abandon(s) ==
  /\ "abandon" \in Events
  /\ \E A \in SUBSET {j \in Jobs : job[j].status \in {"waiting", "blocked"}} :
       /\ A # {}
       /\ Start(s, "abandon",
                {[job |-> j, to |-> "cancelled", id |-> "keep",
                  where |-> "any", ends |-> 0, seen |-> job[j].status] :
                   j \in A})
  /\ StartUnchanged

(* the jobs that need one of the jobs of R, at any distance, and R itself *)
Downstream(R) ==
  LET more[n \in Nat] ==
        IF n = 0 THEN R
        ELSE more[n - 1] \cup {j \in Jobs : Needs[j] \cap more[n - 1] # {}}
  IN  more[Cardinality(Jobs)]

(* what a rerun selects: everything, what failed, or one job *)
Selections ==
  {Jobs,
   Downstream({j \in Jobs : job[j].status \in {"failure", "cancelled"}})}
  \cup {Downstream({j}) : j \in Jobs}

(* a user reruns jobs: the run and the jobs are read, the run must be done *)
Rerun(s) ==
  /\ run \in DoneStatus /\ reruns < MaxReruns
  /\ \E R \in Selections \ {{}} :
       Start(s, "reset",
             {[job |-> j, id |-> "zero", where |-> "same", ends |-> 0,
               to |-> IF Needs[j] \cap R # {} THEN "blocked" ELSE "waiting",
               seen |-> job[j].status] :
                j \in {i \in Jobs : i \in R /\ job[i].status \in DoneStatus}})
  /\ fresh' = fresh \cup {s}
  /\ UNCHANGED <<rowVars, own, agg, held, push, queued, reruns, approved,
                 historyVars>>

(* the updates of the blocked jobs that can be resolved, as they are now *)
Resolvable ==
  LET status == [j \in Jobs |-> job[j].status]
      after == Resolve(status)
  IN  {[job |-> j, to |-> after[j], id |-> "keep", where |-> "same",
        ends |-> 0, seen |-> "blocked"] :
         j \in {i \in Jobs : /\ status[i] = "blocked"
                             /\ after[i] \in {"waiting", "skipped"}}}

(* A worker of the queue takes the run and reads its jobs. It will update  *)
(* those it can resolve, if the evaluations that come first succeed.       *)
Check(e) ==
  /\ queued /\ queued' = FALSE /\ dropped' = FALSE
  /\ IF Resolvable = {} THEN op[e] = "idle" /\ UNCHANGED <<op, todo>>
     ELSE Start(e, "evaluate", Resolvable)
  /\ UNCHANGED <<rowVars, own, agg, held, fresh, push, reruns, approved,
                 torn, raced, missed, broken>>

-----------------------------------------------------------------------------
(* The steps of a session.                                                 *)

(* what is resolved in the first round: jobs that need none of the others *)
FirstRound(e) ==
  {p.job : p \in {q \in todo[e] :
                   \A r \in todo[e] : r.job \notin Needs[q.job]}}

(* The update of one job with what was evaluated, which locks its row;     *)
(* then the run is loaded, to update it too.                               *)
Evaluate(e) ==
  /\ op[e] = "evaluate" /\ e \notin fresh
  /\ \E j \in FirstRound(e) \ held[e] :
       /\ \A r \in AllSessions \ {e} : ~Locks(r, j)
       /\ held' = [held EXCEPT ![e] = @ \cup {j}]
  /\ fresh' = fresh \cup {e}
  /\ UNCHANGED <<rowVars, op, todo, own, agg, push, queued, reruns, approved,
                 historyVars>>

(* The run still has the version that was loaded. From now on its row is   *)
(* locked, and what was not evaluated in this round is in the next.        *)
Evaluated(e) ==
  /\ op[e] = "evaluate" /\ held[e] # {} /\ e \in fresh /\ RunFree(e)
  /\ op' = [op EXCEPT ![e] = "check"]
  /\ UNCHANGED <<rowVars, todo, own, agg, held, fresh, push, queued, reruns,
                 approved, historyVars>>

(* "run has changed" at each evaluation: the error is logged, all jobs     *)
(* stay blocked, and the worker has no error to return.                    *)
GiveUp(e) ==
  /\ op[e] = "evaluate" /\ e \notin fresh
  /\ held[e] # {} /\ FirstRound(e) \subseteq held[e]
  /\ todo' = [todo EXCEPT ![e] = {}] /\ held' = [held EXCEPT ![e] = {}]
  /\ dropped' = TRUE
  /\ UNCHANGED <<rowVars, op, own, agg, fresh, push, queued, reruns, approved,
                 torn, raced, missed, broken>>

(* StopTask reads the task in the transaction; one that is done is left *)
Examine(s) ==
  \E p \in todo[s] :
    /\ IsNext(s, p) /\ p.where = "task"
    /\ LET t == task[p.job][p.ends]
       IN  /\ todo' = [todo EXCEPT ![s] =
                         (@ \ {p}) \cup
                         (IF t \in DoneStatus THEN {}
                          ELSE {Ending(p.job, p.ends, p.to)})]
           /\ push' = IF t \in DoneStatus /\ job[p.job].status \in DoneStatus
                      THEN push \cup {s} ELSE push
    /\ UNCHANGED <<rowVars, op, own, agg, held, fresh, queued, reruns,
                   approved, historyVars>>

Affects(p) ==
  CASE p.where = "any"    -> TRUE
    [] p.where = "noTask" -> job[p.job].task = 0
    [] p.where = "same"   -> job[p.job].status = p.seen
    [] p.where = "task"   -> FALSE

(* UPDATE action_run_job, which waits for the lock of the row *)
Write(s) ==
  \E p \in todo[s] :
    /\ IsNext(s, p) /\ p.where # "task"
    /\ \A r \in AllSessions \ {s} : ~Locks(r, p.job)
    /\ Affects(p)
    /\ own' = [own EXCEPT ![s] = @ \cup {p}]
    /\ todo' = [todo EXCEPT ![s] = @ \ {p}]
    /\ UNCHANGED <<rowVars, op, agg, held, fresh, push, queued, reruns,
                   approved, historyVars>>

(* an UPDATE whose condition no longer holds: others skip the job, a pick  *)
(* finds no task, but the emitter takes it for an error                    *)
Miss(s) ==
  \E p \in todo[s] :
    /\ IsNext(s, p) /\ p.where # "task"
    /\ \A r \in AllSessions \ {s} : ~Locks(r, p.job)
    /\ ~Affects(p)
    /\ IF op[s] = "check" THEN Fail(s)
       ELSE /\ todo' = [todo EXCEPT ![s] = @ \ {p}]
            /\ UNCHANGED <<rowVars, op, own, agg, held, fresh, push, queued,
                           reruns, approved, historyVars>>

(* the run and its jobs are loaded and the status of the run is computed *)
Load(s) ==
  /\ own[s] # {} /\ agg[s] = "none"
  /\ op[s] \in JobByJob \/ todo[s] = {}
  /\ agg' = [agg EXCEPT ![s] = Aggregate(Statuses(s))]
  /\ fresh' = fresh \cup {s}
  /\ UNCHANGED <<rowVars, op, todo, own, held, push, queued, reruns, approved,
                 historyVars>>

(* job j is blocked although all its needs are done *)
Unblocked(rows, j) ==
  /\ rows[j].status = "blocked"
  /\ \A n \in Needs[j] : rows[n].status \in DoneStatus

(* p replaces the status of a job, or of a task, that the session did not  *)
(* see; that a pick finds its job running is no excuse for what follows    *)
Overwrites(p) ==
  \/ job[p.job].status # p.seen
     /\ ~(p.id = "new" /\ job[p.job].status = "running")
  \/ p.ends # 0 /\ task[p.job][p.ends] # "running"

Publish(s) ==
  /\ job' = View(s) /\ task' = TasksOf(s) /\ run' = agg[s]
  /\ own' = [own EXCEPT ![s] = {}]
  /\ agg' = [agg EXCEPT ![s] = "none"]
  /\ held' = [held EXCEPT ![s] = {}]
  /\ fresh' = {}
  /\ push' = IF op[s] \in Pushing THEN push \cup {s} ELSE push
  /\ torn' = FALSE
  /\ raced' = (raced \/ \E p \in own[s] : Overwrites(p))
  /\ missed' = (missed \/ \E p \in own[s] :
                            p.to = "blocked" /\ Unblocked(job', p.job))
  /\ UNCHANGED <<op, todo, queued, reruns, approved, broken, dropped>>

(* Mutant: the run is written whatever its version. *)
CommitUnversioned(s) == agg[s] # "none" /\ RunFree(s) /\ Publish(s)

(* the run still has the version that was loaded: it is updated too, when *)
(* no check locks its row                                                  *)
Commit(s) == agg[s] # "none" /\ s \in fresh /\ RunFree(s) /\ Publish(s)

(* "run has changed" *)
Stale(s) == agg[s] # "none" /\ s \notin fresh /\ Fail(s)

(* One transaction holds the row that another waits for, while it waits    *)
(* for the run itself: the database fails one of the two. The emitter      *)
(* swallows the error if it meets it in an evaluation and the database     *)
(* lets its transaction go on.                                             *)
HoldsRows(s) == own[s] # {} \/ held[s] # {}

Victim(s) ==
  /\ HoldsRows(s)
  /\ \E r \in AllSessions \ {s} : HoldsRows(r) /\
       \/ \E p \in todo[s] : op[s] \notin JobByJob /\ Locks(r, p.job)
       \/ \E p \in todo[r] : op[r] \notin JobByJob /\ Locks(s, p.job)
  /\ Fail(s) \/ Swallow(s)

(* prepareRunRerun saves the run, if its version is the one that was read *)
Reset(s) ==
  /\ op[s] = "reset"
  /\ IF s \in fresh
     THEN /\ RunFree(s)
          /\ run' = "waiting" /\ reruns' = reruns + 1 /\ fresh' = {}
          /\ op' = [op EXCEPT ![s] = "rerun"] /\ torn' = TRUE
          /\ UNCHANGED todo
     ELSE /\ op' = [op EXCEPT ![s] = "idle"]
          /\ todo' = [todo EXCEPT ![s] = {}]
          /\ UNCHANGED <<run, reruns, fresh, torn>>
  /\ reruns < MaxReruns
  /\ UNCHANGED <<job, task, own, agg, held, push, queued, approved, raced,
                 missed, broken, dropped>>

(* Mutant: nobody tells the job emitter. *)
FinishQuietly(s) ==
  /\ op[s] \notin {"idle", "reset"} /\ todo[s] = {} /\ own[s] = {}
  /\ op' = [op EXCEPT ![s] = "idle"]
  /\ push' = push \ {s}
  /\ fresh' = fresh \ {s}
  /\ UNCHANGED <<rowVars, todo, own, agg, held, queued, reruns, approved,
                 historyVars>>

(* The request or cron task ends and pushes the run if it finished a job;  *)
(* a push that fails is logged.                                            *)
Finish(s) ==
  /\ op[s] \notin {"idle", "reset"} /\ todo[s] = {} /\ own[s] = {}
  /\ op' = [op EXCEPT ![s] = "idle"]
  /\ \/ queued' = (queued \/ s \in push) /\ UNCHANGED dropped
     \/ /\ "unqueued" \in Events /\ s \in push
        /\ dropped' = TRUE /\ UNCHANGED queued
  /\ push' = push \ {s}
  /\ fresh' = fresh \ {s}
  /\ UNCHANGED <<rowVars, todo, own, agg, held, reruns, approved, torn, raced,
                 missed, broken>>

(* Approve: all jobs start, whatever they need and whatever their status;  *)
(* all in one transaction, which waits until the rows are free             *)
Approve ==
  /\ ~approved
  /\ \A s \in AllSessions : ~HoldsRows(s)
  /\ job' = [j \in Jobs |-> [job[j] EXCEPT !.status = "waiting"]]
  /\ run' = Aggregate({"waiting"})
  /\ fresh' = {} /\ approved' = TRUE /\ torn' = FALSE /\ raced' = TRUE
  /\ UNCHANGED <<task, op, todo, own, agg, held, push, queued, reruns, missed,
                 broken, dropped>>

(* open transactions are rolled back, the queue of the emitter is kept *)
Crash ==
  /\ "crash" \in Events
  /\ \E s \in AllSessions : op[s] # "idle"
  /\ op' = [s \in AllSessions |-> "idle"]
  /\ todo' = [s \in AllSessions |-> {}] /\ own' = [s \in AllSessions |-> {}]
  /\ agg' = [s \in AllSessions |-> "none"]
  /\ held' = [s \in AllSessions |-> {}]
  /\ fresh' = {} /\ push' = {} /\ broken' = TRUE
  /\ UNCHANGED <<rowVars, queued, reruns, approved, torn, raced, missed,
                 dropped>>

Request(s) ==
  Pick(s) \/ Report(s) \/ Cancel(s) \/ Stop(s) \/ Abandon(s) \/ Rerun(s)

Continue(s) ==
  \/ Examine(s) \/ Write(s) \/ Miss(s) \/ Load(s) \/ Commit(s) \/ Stale(s)
  \/ Reset(s) \/ Finish(s)

EmitterStep(e) == Evaluate(e) \/ Evaluated(e) \/ GiveUp(e)

Next ==
  \/ \E s \in Sessions : Request(s)
  \/ ReportLate \/ Approve \/ Crash
  \/ \E e \in Emitters : Check(e) \/ EmitterStep(e)
  \/ \E s \in AllSessions : Continue(s) \/ Victim(s)

Spec == Init /\ [][Next]_vars

(* Requests end, the database grants the lock of a row in the order it was *)
(* asked for and ends a deadlock, and the workers of the queue take what   *)
(* is pushed.                                                              *)
FairSpec ==
  /\ Spec /\ WF_vars(\E e \in Emitters : Check(e))
  /\ \A e \in Emitters : SF_vars(EmitterStep(e))
  /\ \A s \in AllSessions : SF_vars(Continue(s)) /\ WF_vars(Victim(s))

-----------------------------------------------------------------------------
(* Properties.                                                             *)

(* The status of a run is the one its jobs give (UpdateRunJob), except     *)
(* between the reset of the run and of the first job of a rerun: no        *)
(* transaction publishes a status it computed from jobs that have changed. *)
RunAgrees == torn \/ run = Aggregate({job[j].status : j \in Jobs})

(* Unless an update has replaced a status it had not seen, a job runs      *)
(* exactly when one task of it runs, the task it refers to, and a job has  *)
(* never two running tasks (CreateTaskForRunner, StopTask).                *)
OneTask ==
  raced \/ \A j \in Jobs :
    /\ job[j].status = "running" <=>
         \E t \in DOMAIN task[j] : task[j][t] = "running"
    /\ \A t \in DOMAIN task[j] : task[j][t] = "running" => t = job[j].task

(* As long as nobody reruns the run or replaces a status that was not seen *)
(* a job starts only after all its needs are done, and only if they        *)
(* succeeded or it has a condition (jobStatusResolver).                    *)
StartsAfterNeeds ==
  \/ raced \/ reruns > 0
  \/ \A j \in Jobs : job[j].status \in {"waiting", "running"} =>
       \A n \in Needs[j] : \/ job[n].status = "success"
                           \/ j \in IfJobs /\ job[n].status \in DoneStatus

(* the check of e in a step: it plans what it should, and goes on with all *)
(* of its plan, or has published all of it or nothing                      *)
WholeCheck(e) ==
  /\ Check(e) => \A j \in Jobs :
                  Unblocked(job, j) => \E p \in todo'[e] : p.job = j
  /\ op[e] \in Checking =>
       \/ todo'[e] \cup own'[e] = todo[e] \cup own[e]
       \/ todo[e] = {} /\ \A p \in own[e] : job'[p.job].status = p.to
       \/ /\ UNCHANGED job /\ todo'[e] \cup own'[e] = {}
          /\ queued' \/ dropped' \/ broken'

(* A check of the emitter means to update every blocked job whose needs    *)
(* are done, and it updates all that it means to or none of them; after a  *)
(* check in vain the run is in the queue again, or the check is dropped or *)
(* the process has died (checkJobsByRunID, jobEmitterQueueHandler).        *)
CheckIsWhole == [][\A e \in Emitters : WholeCheck(e)]_vars

(* A blocked job whose needs are done does not stay blocked: whoever ended *)
(* the last need pushes the run to the emitter, and a check that began too *)
(* early to see that is followed by another. Not so after a crash or a     *)
(* rerun that failed in the middle, nor if a rerun, which does not push,   *)
(* has blocked the job after its needs were done, nor before an approval,  *)
(* nor if the push or the check was dropped.                               *)
BlockedResolved ==
  \A j \in Jobs : Unblocked(job, j) ~>
    \/ ~Unblocked(job, j)
    \/ broken \/ missed \/ ~approved \/ dropped

=============================================================================
