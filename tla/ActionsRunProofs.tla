-------------------------- MODULE ActionsRunProofs --------------------------
(***************************************************************************)
(* Proofs about ActionsRun, for any jobs and needs, any number of sessions *)
(* and any bounds: rows and updates have their types, the status of the    *)
(* run is the one that its jobs give, a job runs with its one task, and no *)
(* job starts before its needs; what the emitter resolves and what a rerun *)
(* selects, by induction over the rounds. The invariants behind them: what *)
(* a session has computed from the jobs it sees stays true of them as long *)
(* as the run it has loaded has the current version (RunInv), what it      *)
(* means to update names the task that it ends (TaskInv) and starts a job  *)
(* only if its needs allow it (StartInv).                                  *)
(***************************************************************************)
EXTENDS ActionsRun, SequenceTheorems, FiniteSetTheorems,
        WellFoundedInduction, TLAPS

TaskStatus == DoneStatus \cup {"running"}

(* an update that ends a task gives it a status that is done *)
PlansEnd ==
  \A s \in AllSessions : \A p \in todo[s] \cup own[s] :
    p.ends # 0 => p.to \in DoneStatus

TypeInv == TypeOK /\ PlansEnd

(* a session that has computed nothing has updated nothing it could        *)
(* compute from, and one that does nothing has no open transaction         *)
QuietInv ==
  \A s \in AllSessions :
    /\ op[s] \in {"idle", "reset", "evaluate"} => own[s] = {}
    /\ own[s] = {} => agg[s] = "none"

(* what was computed from the current version is what the jobs give *)
FreshInv ==
  \A s \in AllSessions :
    s \in fresh /\ agg[s] # "none" => agg[s] = Aggregate(Statuses(s))

RunInv == QuietInv /\ FreshInv /\ RunAgrees

-----------------------------------------------------------------------------
(* Every status that is computed is a status. *)
LEMMA AggregateType == \A S : Aggregate(S) \in Status
BY DEF Aggregate, Status, DoneStatus

(* An element of a sequence may be replaced by another of the same kind. *)
LEMMA SeqExcept ==
  ASSUME NEW S, NEW f \in Seq(S), NEW i, NEW x \in S
  PROVE  [f EXCEPT ![i] = x] \in Seq(S)
<1>1. CASE i \in 1 .. Len(f)
  BY <1>1, ExceptSeq
<1>2. CASE i \notin 1 .. Len(f)
  <2>1. DOMAIN f = 1 .. Len(f) /\ f = [k \in DOMAIN f |-> f[k]]
    OBVIOUS
  <2>2. [f EXCEPT ![i] = x] = f
    BY <1>2, <2>1
  <2> QED
    BY <2>2
<1> QED
  BY <1>1, <1>2

(* The jobs and tasks a session sees have their types. *)
LEMMA ViewType ==
  ASSUME TypeInv, NEW s \in AllSessions
  PROVE  /\ View(s) \in [Jobs -> Row]
         /\ TasksOf(s) \in [Jobs -> Seq(DoneStatus \cup {"running"})]
<1> DEFINE TS == DoneStatus \cup {"running"}
           P(j) == CHOOSE p \in own[s] : p.job = j
<1>1. \A p \in own[s] : p \in Plan /\ (p.ends # 0 => p.to \in DoneStatus)
  BY DEF TypeInv, TypeOK, PlansEnd
<1>2. \A j \in Jobs : (\E p \in own[s] : p.job = j) => P(j) \in own[s]
  OBVIOUS
<1>3. \A j \in Jobs : View(s)[j] \in Row
  <2> SUFFICES ASSUME NEW j \in Jobs PROVE View(s)[j] \in Row
    OBVIOUS
  <2>1. CASE \E p \in own[s] : p.job = j
    <3> DEFINE q == P(j)
    <3>1. q \in Plan
      BY <1>1, <1>2, <2>1
    <3>2. View(s)[j] = Updated(job[j], task[j], q)
      BY <2>1 DEF View
    <3>3. Len(task[j]) \in Nat /\ job[j] \in Row
      BY DEF TypeInv, TypeOK
    <3> HIDE DEF q
    <3> QED
      BY <3>1, <3>2, <3>3 DEF Updated, Plan, Row
  <2>2. CASE ~\E p \in own[s] : p.job = j
    BY <2>2 DEF View, TypeInv, TypeOK
  <2> QED
    BY <2>1, <2>2
<1>4. \A j \in Jobs : TasksOf(s)[j] \in Seq(TS)
  <2> SUFFICES ASSUME NEW j \in Jobs PROVE TasksOf(s)[j] \in Seq(TS)
    OBVIOUS
  <2>0. task[j] \in Seq(TS)
    BY DEF TypeInv, TypeOK
  <2>1. CASE \E p \in own[s] : p.job = j
    <3> DEFINE q == P(j)
    <3>1. q \in Plan /\ (q.ends # 0 => q.to \in DoneStatus)
      BY <1>1, <1>2, <2>1
    <3>2. TasksOf(s)[j] = IF q.id = "new" THEN Append(task[j], "running")
                          ELSE IF q.ends # 0
                               THEN [task[j] EXCEPT ![q.ends] = q.to]
                               ELSE task[j]
      BY <2>1 DEF TasksOf
    <3> HIDE DEF q
    <3>3. Append(task[j], "running") \in Seq(TS)
      BY <2>0
    <3>4. q.ends # 0 => [task[j] EXCEPT ![q.ends] = q.to] \in Seq(TS)
      BY <2>0, <3>1, SeqExcept
    <3> QED
      BY <2>0, <3>2, <3>3, <3>4
  <2>2. CASE ~\E p \in own[s] : p.job = j
    BY <2>0, <2>2 DEF TasksOf
  <2> QED
    BY <2>1, <2>2
<1>5. View(s) = [j \in Jobs |-> View(s)[j]]
  BY DEF View
<1>6. TasksOf(s) = [j \in Jobs |-> TasksOf(s)[j]]
  BY DEF TasksOf
<1> QED
  BY <1>3, <1>4, <1>5, <1>6

-----------------------------------------------------------------------------
(* Types.                                                                  *)

(* An operation starts with updates of the right type. *)
LEMMA StartType ==
  ASSUME TypeInv, NEW s \in AllSessions, NEW o \in Ops, NEW plans,
         \A p \in plans : p \in Plan /\ (p.ends # 0 => p.to \in DoneStatus),
         Start(s, o, plans), fresh' \subseteq AllSessions, queued' \in BOOLEAN,
         dropped' \in BOOLEAN,
         UNCHANGED <<rowVars, own, agg, held, push, reruns, approved, torn,
                   raced, missed, broken>>
  PROVE  TypeInv'
<1>1. op' = [op EXCEPT ![s] = o] /\ todo' = [todo EXCEPT ![s] = plans]
  BY DEF Start
<1>2. op' \in [AllSessions -> Ops] /\ todo' \in [AllSessions -> SUBSET Plan]
  BY <1>1 DEF TypeInv, TypeOK
<1>3. \A r \in AllSessions : todo'[r] = IF r = s THEN plans ELSE todo[r]
  BY <1>1 DEF TypeInv, TypeOK
<1>4. \A r \in AllSessions : \A p \in own[r] \cup todo[r] :
        p.ends # 0 => p.to \in DoneStatus
  BY DEF TypeInv, PlansEnd
<1>5. PlansEnd'
  BY <1>3, <1>4 DEF PlansEnd
<1>6. TypeOK'
  BY <1>2 DEF TypeInv, TypeOK, rowVars, historyVars
<1> QED
  BY <1>5, <1>6 DEF TypeInv

(* The update that ends a task is one. *)
LEMMA EndingType ==
  ASSUME NEW j \in Jobs, NEW t \in Nat, NEW result \in DoneStatus
  PROVE  /\ Ending(j, t, result) \in Plan
         /\ Ending(j, t, result).to \in DoneStatus
BY DEF Ending, Plan, Status, DoneStatus

\* A request, a cron task or a report begins a session of the right type.
LEMMA RequestType ==
  ASSUME TypeInv, NEW s \in Sessions, Request(s)
  PROVE  TypeInv'
<1> USE DEF AllSessions, historyVars
<1>0. /\ job \in [Jobs -> Row] /\ task \in [Jobs -> Seq(TaskStatus)]
      /\ fresh \subseteq AllSessions /\ queued \in BOOLEAN
      /\ dropped \in BOOLEAN
  BY DEF TypeInv, TypeOK, TaskStatus
<1>1. CASE Pick(s)
  <2>1. PICK j \in Jobs :
          Start(s, "pick",
                {[job |-> j, to |-> "running", id |-> "new",
                  where |-> "noTask", ends |-> 0, seen |-> "waiting"]})
    BY <1>1 DEF Pick
  <2>2. [job |-> j, to |-> "running", id |-> "new", where |-> "noTask",
         ends |-> 0, seen |-> "waiting"] \in Plan
    BY DEF Plan, Status
  <2> QED
    BY <1>0, <1>1, <2>1, <2>2, StartType DEF Pick, StartUnchanged, Ops
<1>2. CASE Report(s)
  <2>1. PICK j \in Jobs : \E t \in DOMAIN task[j], result \in Results :
          Start(s, "report", {Ending(j, t, result)})
    BY <1>2 DEF Report
  <2>2. PICK t \in DOMAIN task[j], result \in Results :
          Start(s, "report", {Ending(j, t, result)})
    BY <2>1
  <2>3. t \in Nat /\ result \in DoneStatus
    <3>1. task[j] \in Seq(TaskStatus)
      BY <1>0
    <3> QED
      BY <3>1, ConstantsAssumption
  <2> QED
    BY <1>0, <1>2, <2>2, <2>3, EndingType, StartType
       DEF Report, StartUnchanged, Ops, Pushing
<1>3. CASE Cancel(s)
  <2> DEFINE open == {j \in Jobs : job[j].status \notin DoneStatus}
  <2>1. Start(s, "cancel", {Cancelling(j) : j \in open})
    BY <1>3 DEF Cancel
  <2>2. \A j \in Jobs : /\ Cancelling(j) \in Plan
                        /\ Cancelling(j).to \in DoneStatus
    BY <1>0 DEF Cancelling, Plan, Row, Status, DoneStatus
  <2>3. StartUnchanged /\ open \subseteq Jobs
    BY <1>3 DEF Cancel
  <2> DEFINE plans == {Cancelling(j) : j \in open}
  <2>4. \A p \in plans : p \in Plan /\ p.to \in DoneStatus
    BY <2>2, <2>3
  <2>5. Start(s, "cancel", plans)
    BY <2>1
  <2> HIDE DEF open, plans
  <2> QED
    BY <1>0, <2>3, <2>4, <2>5, StartType DEF StartUnchanged, Ops, Pushing
<1>4. CASE Stop(s)
  <2> DEFINE running == {r \in Jobs \X (1 .. MaxTasks) :
                           /\ r[2] \in DOMAIN task[r[1]]
                           /\ task[r[1]][r[2]] = "running"}
             plan(r) == [job |-> r[1], to |-> "failure", id |-> "keep",
                         where |-> "task", ends |-> r[2], seen |-> "running"]
  <2>1. Start(s, "stop", {plan(r) : r \in running})
    BY <1>4 DEF Stop
  <2>2. \A r \in running : plan(r) \in Plan /\ plan(r).to \in DoneStatus
    BY ConstantsAssumption DEF Plan, Status, DoneStatus
  <2> HIDE DEF plan, running
  <2> QED
    BY <1>0, <1>4, <2>1, <2>2, StartType
       DEF Stop, StartUnchanged, Ops, Pushing
<1>5. CASE Abandon(s)
  <2> DEFINE plan(j) == [job |-> j, to |-> "cancelled", id |-> "keep",
                         where |-> "any", ends |-> 0, seen |-> job[j].status]
  <2>1. PICK A \in SUBSET Jobs : Start(s, "abandon", {plan(j) : j \in A})
    BY <1>5 DEF Abandon
  <2>2. \A j \in Jobs : plan(j) \in Plan /\ plan(j).to \in DoneStatus
    BY <1>0 DEF Plan, Row, Status, DoneStatus
  <2> HIDE DEF plan
  <2> QED
    BY <1>0, <1>5, <2>1, <2>2, StartType
       DEF Abandon, StartUnchanged, Ops, Pushing
<1>6. CASE Rerun(s)
  <2> DEFINE plan(j, R) ==
        [job |-> j, id |-> "zero", where |-> "same", ends |-> 0,
         to |-> IF Needs[j] \cap R # {} THEN "blocked" ELSE "waiting",
         seen |-> job[j].status]
  <2>1. PICK R : Start(s, "reset",
                  {plan(j, R) : j \in {i \in Jobs : /\ i \in R
                                         /\ job[i].status \in DoneStatus}})
    BY <1>6 DEF Rerun
  <2>3. \A j \in Jobs : plan(j, R) \in Plan /\ plan(j, R).ends = 0
    BY <1>0 DEF Plan, Row, Status
  <2> HIDE DEF plan
  <2> QED
    BY <1>0, <1>6, <2>1, <2>3, StartType DEF Rerun, Ops
<1> QED
  BY <1>1, <1>2, <1>3, <1>4, <1>5, <1>6 DEF Request

\* A session that fails, is a deadlock victim or dies leaves types alone.
LEMMA FailType ==
  ASSUME TypeInv, NEW s \in AllSessions, Fail(s) \/ Swallow(s)
  PROVE  TypeInv'
<1>1. /\ own' \in [AllSessions -> SUBSET Plan]
      /\ todo' \in [AllSessions -> SUBSET Plan]
      /\ \A r \in AllSessions : /\ own'[r] \subseteq own[r]
                                /\ todo'[r] \subseteq todo[r]
  BY DEF Fail, Swallow, RollBack, TypeInv, TypeOK
<1>2. PlansEnd'
  BY <1>1 DEF TypeInv, PlansEnd
<1>3. TypeOK'
  BY <1>1 DEF Fail, Swallow, RollBack, TypeInv, TypeOK, rowVars
<1> QED
  BY <1>2, <1>3 DEF TypeInv

(* An update moves from todo to own, or is dropped. *)
LEMMA MoveType ==
  ASSUME TypeInv, NEW s \in AllSessions, NEW p \in todo[s],
         own' = own \/ own' = [own EXCEPT ![s] = @ \cup {p}],
         todo' = [todo EXCEPT ![s] = @ \ {p}],
         UNCHANGED <<rowVars, op, agg, held, fresh, push, queued, reruns,
                     approved, historyVars>>
  PROVE  TypeInv'
<1>1. /\ own' \in [AllSessions -> SUBSET Plan]
      /\ todo' \in [AllSessions -> SUBSET Plan]
      /\ \A r \in AllSessions :
           own'[r] \cup todo'[r] \subseteq own[r] \cup todo[r]
  BY DEF TypeInv, TypeOK
<1>2. PlansEnd'
  BY <1>1 DEF TypeInv, PlansEnd
<1>3. TypeOK'
  BY <1>1 DEF TypeInv, TypeOK, rowVars, historyVars
<1> QED
  BY <1>2, <1>3 DEF TypeInv

\* The examination of a task that an update is to end leaves types alone.
LEMMA ExamineType ==
  ASSUME TypeInv, NEW s \in AllSessions, Examine(s)
  PROVE  TypeInv'
<1>1. PICK p \in todo[s] :
        /\ todo' = [todo EXCEPT ![s] =
                      (@ \ {p}) \cup
                      (IF task[p.job][p.ends] \in DoneStatus THEN {}
                       ELSE {Ending(p.job, p.ends, p.to)})]
        /\ push' \in {push, push \cup {s}}
        /\ p.where = "task"
  BY DEF Examine
<1>2. p \in Plan /\ (p.ends # 0 => p.to \in DoneStatus)
  BY DEF TypeInv, TypeOK, PlansEnd
<1>3. Ending(p.job, p.ends, p.to) \in Plan
  BY <1>2 DEF Ending, Plan, Status
<1>4. /\ Ending(p.job, p.ends, p.to).ends = p.ends
      /\ Ending(p.job, p.ends, p.to).to = p.to
  BY DEF Ending
<1>5. todo' \in [AllSessions -> SUBSET Plan]
  BY <1>1, <1>2, <1>3 DEF TypeInv, TypeOK
<1>6. \A r \in AllSessions : \A q \in todo'[r] :
        q \in todo[r] \/ q = Ending(p.job, p.ends, p.to)
  BY <1>1 DEF TypeInv, TypeOK
<1>7. PlansEnd'
  BY <1>2, <1>4, <1>6 DEF TypeInv, PlansEnd, Examine
<1>8. TypeOK'
  BY <1>1, <1>5 DEF Examine, TypeInv, TypeOK, rowVars, historyVars
<1> QED
  BY <1>7, <1>8 DEF TypeInv

\* What a commit makes visible has the right types.
LEMMA PublishType ==
  ASSUME TypeInv, NEW s \in AllSessions, Publish(s), agg[s] # "none"
  PROVE  TypeInv'
<1>1. /\ View(s) \in [Jobs -> Row]
      /\ TasksOf(s) \in [Jobs -> Seq(DoneStatus \cup {"running"})]
  BY ViewType
<1>2. own' \in [AllSessions -> SUBSET Plan]
      /\ \A r \in AllSessions : own'[r] \subseteq own[r]
  BY DEF Publish, TypeInv, TypeOK
<1>3. PlansEnd'
  BY <1>2 DEF Publish, TypeInv, PlansEnd
<1>4. raced' \in BOOLEAN /\ missed' \in BOOLEAN
  BY DEF Publish, TypeInv, TypeOK
<1>5. TypeOK'
  <2>1. /\ job' \in [Jobs -> Row] /\ run' \in Status
        /\ task' \in [Jobs -> Seq(DoneStatus \cup {"running"})]
    BY <1>1 DEF Publish, TypeInv, TypeOK
  <2>2. /\ agg' \in [AllSessions -> Status \cup {"none"}]
        /\ fresh' \subseteq AllSessions /\ push' \subseteq AllSessions
        /\ torn' \in BOOLEAN
    BY DEF Publish, TypeInv, TypeOK
  <2> QED
    BY <1>2, <1>4, <2>1, <2>2 DEF Publish, TypeInv, TypeOK
<1> QED
  BY <1>3, <1>5 DEF TypeInv

\* A session that goes on with its transaction leaves types alone.
LEMMA ContinueType ==
  ASSUME TypeInv, NEW s \in AllSessions, Continue(s) \/ Victim(s)
  PROVE  TypeInv'
<1>1. CASE Examine(s)
  BY <1>1, ExamineType
<1>2. CASE Write(s)
  BY <1>2, MoveType DEF Write
<1>3. CASE Miss(s)
  BY <1>3, MoveType, FailType DEF Miss
<1>4. CASE Load(s)
  <2>1. agg' \in [AllSessions -> Status \cup {"none"}]
    BY <1>4, AggregateType DEF Load, TypeInv, TypeOK
  <2> QED
    BY <1>4, <2>1 DEF Load, TypeInv, TypeOK, PlansEnd, rowVars, historyVars
<1>5. CASE Commit(s)
  BY <1>5, PublishType DEF Commit
<1>6. CASE Stale(s) \/ Victim(s)
  BY <1>6, FailType DEF Stale, Victim
<1>7. CASE Reset(s)
  <2>1. reruns' \in 0 .. MaxReruns
    BY <1>7, ConstantsAssumption DEF Reset, TypeInv, TypeOK
  <2>2. /\ op' \in [AllSessions -> Ops]
        /\ todo' \in [AllSessions -> SUBSET Plan]
        /\ \A r \in AllSessions : todo'[r] \subseteq todo[r]
    BY <1>7 DEF Reset, TypeInv, TypeOK, Ops, JobByJob
  <2>3. run' \in Status /\ fresh' \subseteq AllSessions /\ torn' \in BOOLEAN
    BY <1>7 DEF Reset, TypeInv, TypeOK, Status
  <2>4. PlansEnd'
    BY <1>7, <2>2 DEF Reset, TypeInv, PlansEnd
  <2> QED
    BY <1>7, <2>1, <2>2, <2>3, <2>4 DEF Reset, TypeInv, TypeOK
<1>8. CASE Finish(s)
  BY <1>8 DEF Finish, TypeInv, TypeOK, PlansEnd, Ops, rowVars, historyVars
<1> QED
  BY <1>1, <1>2, <1>3, <1>4, <1>5, <1>6, <1>7, <1>8 DEF Continue

\* What a check means to do: one update of each job it finds, from blocked.
LEMMA ResolvablePlans ==
  /\ \A p \in Resolvable :
       /\ p \in Plan /\ p.ends = 0 /\ p.id = "keep" /\ p.where = "same"
       /\ p.to \in {"waiting", "skipped"} /\ p.seen = "blocked"
  /\ \A p, q \in Resolvable : p.job = q.job => p = q
<1> DEFINE after == Resolve([j \in Jobs |-> job[j].status])
           plan(j) == [job |-> j, to |-> after[j], id |-> "keep",
                       where |-> "same", ends |-> 0, seen |-> "blocked"]
           found == {i \in Jobs : after[i] \in {"waiting", "skipped"}}
<1>1. \A p \in Resolvable : \E j \in found : p = plan(j)
  BY DEF Resolvable
<1>2. \A j \in found :
        /\ plan(j) \in Plan /\ plan(j).ends = 0 /\ plan(j).id = "keep"
        /\ plan(j).where = "same" /\ plan(j).to \in {"waiting", "skipped"}
        /\ plan(j).seen = "blocked" /\ plan(j).job = j
  BY DEF Plan, Status, DoneStatus
<1> HIDE DEF plan, found
<1> QED
  BY <1>1, <1>2

\* The emitter's check of the jobs of a run leaves types alone.
LEMMA CheckType ==
  ASSUME TypeInv, NEW e \in Emitters, Check(e)
  PROVE  TypeInv'
<1>1. /\ queued' = FALSE /\ dropped' = FALSE /\ fresh' = fresh
      /\ UNCHANGED <<rowVars, own, agg, held, push, reruns, approved, torn,
                     raced, missed, broken>>
  BY DEF Check
<1>2. CASE Resolvable = {}
  BY <1>1, <1>2 DEF Check, TypeInv, TypeOK, PlansEnd, rowVars
<1>3. CASE Resolvable # {}
  <2>1. Start(e, "evaluate", Resolvable)
    BY <1>3 DEF Check
  <2>2. e \in AllSessions /\ "evaluate" \in Ops /\ fresh \subseteq AllSessions
    BY DEF AllSessions, Ops, Checking, TypeInv, TypeOK
  <2> QED
    BY <1>1, <2>1, <2>2, ResolvablePlans, StartType
<1> QED
  BY <1>2, <1>3

\* The evaluation of the jobs that a check has found leaves types alone.
LEMMA EmitterType ==
  ASSUME TypeInv, NEW e \in Emitters, EmitterStep(e)
  PROVE  TypeInv'
<1>0. e \in AllSessions /\ \A p \in Plan : p.job \in Jobs
  BY DEF AllSessions, Plan
<1>1. CASE Evaluate(e)
  <2>1. PICK j \in FirstRound(e) : held' = [held EXCEPT ![e] = @ \cup {j}]
    BY <1>1 DEF Evaluate
  <2>2. j \in Jobs
    BY <1>0, <2>1 DEF FirstRound, TypeInv, TypeOK
  <2> QED
    BY <1>0, <1>1, <2>1, <2>2
       DEF Evaluate, TypeInv, TypeOK, PlansEnd, rowVars, historyVars
<1>2. CASE Evaluated(e)
  BY <1>0, <1>2
     DEF Evaluated, Ops, Checking, TypeInv, TypeOK, PlansEnd, rowVars, historyVars
<1>3. CASE GiveUp(e)
  <2>1. \A r \in AllSessions : todo'[r] \subseteq todo[r]
    BY <1>3 DEF GiveUp, TypeInv, TypeOK
  <2> QED
    BY <1>3, <2>1 DEF GiveUp, TypeInv, TypeOK, PlansEnd, rowVars
<1> QED
  BY <1>1, <1>2, <1>3 DEF EmitterStep

\* The types hold at first.
LEMMA InitType ==
  ASSUME Init
  PROVE  TypeInv
<1>1. job \in [Jobs -> Row] /\ run \in Status /\ approved \in BOOLEAN
  BY AggregateType DEF Init, Row, Status, DoneStatus
<1>2. /\ op \in [AllSessions -> Ops] /\ reruns \in 0 .. MaxReruns
      /\ task \in [Jobs -> Seq(DoneStatus \cup {"running"})]
  BY ConstantsAssumption DEF Init, Ops
<1> QED
  BY <1>1, <1>2 DEF Init, TypeInv, TypeOK, PlansEnd

\* Every step keeps the types.
LEMMA StepType == TypeInv /\ [Next]_vars => TypeInv'
<1> SUFFICES ASSUME TypeInv, [Next]_vars PROVE TypeInv'
  OBVIOUS
<1>1. ASSUME NEW s \in Sessions, Request(s) PROVE TypeInv'
  BY <1>1, RequestType
<1>2. ASSUME NEW s \in AllSessions, Continue(s) \/ Victim(s) PROVE TypeInv'
  BY <1>2, ContinueType
<1>3. CASE ReportLate
  BY <1>3 DEF ReportLate, TypeInv, TypeOK, PlansEnd, rowVars, sessionVars,
     historyVars
<1>4. ASSUME NEW e \in Emitters, Check(e) \/ EmitterStep(e) PROVE TypeInv'
  BY <1>4, CheckType, EmitterType
<1>5. CASE Approve
  <2>1. job' \in [Jobs -> Row]
    BY <1>5 DEF Approve, TypeInv, TypeOK, Row, Status
  <2> QED
    BY <1>5, <2>1, AggregateType DEF Approve, TypeInv, TypeOK, PlansEnd
<1>6. CASE Crash
  BY <1>6 DEF Crash, TypeInv, TypeOK, PlansEnd, Ops, rowVars
<1>7. CASE UNCHANGED vars
  BY <1>7 DEF vars, TypeInv, TypeOK, PlansEnd, rowVars, sessionVars,
     historyVars
<1> QED
  BY <1>1, <1>2, <1>3, <1>4, <1>5, <1>6, <1>7 DEF Next

(* Rows, tasks, updates and the statuses that sessions compute have their  *)
(* types (models/actions), whatever happens to the run.                    *)
THEOREM TypeCorrect == Spec => []TypeOK
<1>1. Init => TypeInv
  BY InitType
<1>2. TypeInv /\ [Next]_vars => TypeInv'
  BY StepType
<1>3. TypeInv => TypeOK
  BY DEF TypeInv
<1> QED
  BY <1>1, <1>2, <1>3, PTL DEF Spec

-----------------------------------------------------------------------------
(* The status of the run.                                                  *)

(* What a session sees changes only with the jobs and its own updates. *)
LEMMA SameView ==
  ASSUME NEW r \in AllSessions, job' = job, task' = task, own'[r] = own[r]
  PROVE  Statuses(r)' = Statuses(r)
BY DEF Statuses, View

(* A step that leaves the jobs, the computed statuses and open transactions *)
(* alone, and loads no run for a session with an open transaction.         *)
LEMMA QuietStep ==
  ASSUME TypeInv, RunInv, UNCHANGED <<job, task, own, agg>>,
         NEW s \in AllSessions, fresh' \subseteq fresh \cup {s},
         own[s] = {},
         \A r \in AllSessions :
           op'[r] \in {"idle", "reset", "evaluate"} => op[r] = op'[r] \/ own[r] = {},
         (run' = run /\ torn' = torn) \/ torn'
  PROVE  RunInv'
<1>1. QuietInv'
  BY DEF RunInv, QuietInv
<1>2. FreshInv'
  <2> SUFFICES ASSUME NEW r \in AllSessions, r \in fresh', agg'[r] # "none"
               PROVE  agg'[r] = Aggregate(Statuses(r)')
    BY DEF FreshInv
  <2>1. r \in fresh
    BY DEF RunInv, QuietInv
  <2> QED
    BY <2>1, SameView DEF RunInv, FreshInv
<1>3. RunAgrees'
  BY DEF RunInv, RunAgrees
<1> QED
  BY <1>1, <1>2, <1>3 DEF RunInv

(* A step of the transaction of s that computes no status. *)
LEMMA TransactionStep ==
  ASSUME TypeInv, RunInv, UNCHANGED <<job, task, run, op, torn, fresh>>,
         NEW s \in AllSessions, agg' = [agg EXCEPT ![s] = "none"],
         NEW U \in SUBSET Plan, own' = [own EXCEPT ![s] = U],
         op[s] \in {"idle", "reset", "evaluate"} => U = {}
  PROVE  RunInv'
<1>1. \A r \in AllSessions :
        /\ agg'[r] = IF r = s THEN "none" ELSE agg[r]
        /\ own'[r] = IF r = s THEN U ELSE own[r]
  BY DEF TypeInv, TypeOK
<1>2. QuietInv'
  BY <1>1 DEF RunInv, QuietInv
<1>3. FreshInv'
  BY <1>1, SameView DEF RunInv, FreshInv
<1>4. RunAgrees'
  BY DEF RunInv, RunAgrees
<1> QED
  BY <1>2, <1>3, <1>4 DEF RunInv

\* A rollback leaves nothing behind that the run could disagree with.
LEMMA FailKeepsRun ==
  ASSUME TypeInv, RunInv, NEW s \in AllSessions, Fail(s) \/ Swallow(s)
  PROVE  RunInv'
BY TransactionStep DEF Fail, Swallow, RollBack, rowVars

\* An update in an open transaction is not visible to the run.
LEMMA WriteKeepsRun ==
  ASSUME TypeInv, RunInv, NEW s \in AllSessions, Write(s)
  PROVE  RunInv'
<1>1. PICK p \in todo[s] :
        /\ agg[s] = "none" /\ op[s] \notin {"idle", "reset", "evaluate"}
        /\ own' = [own EXCEPT ![s] = @ \cup {p}]
  BY DEF Write, IsNext
<1> DEFINE U == own[s] \cup {p}
<1>2. U \in SUBSET Plan
  BY DEF TypeInv, TypeOK
<1>3. own' = [own EXCEPT ![s] = U]
  BY <1>1
<1>4. agg' = [agg EXCEPT ![s] = "none"]
  <2>1. agg' = agg /\ agg = [agg EXCEPT ![s] = agg[s]]
    BY DEF Write, TypeInv, TypeOK
  <2> QED
    BY <1>1, <2>1
<1> HIDE DEF U
<1> QED
  BY <1>1, <1>2, <1>3, <1>4, TransactionStep DEF Write, rowVars, historyVars

\* A session that computes the status of the run sees the present jobs.
LEMMA LoadKeepsRun ==
  ASSUME TypeInv, RunInv, NEW s \in AllSessions, Load(s)
  PROVE  RunInv'
<1>1. \A r \in AllSessions :
        agg'[r] = IF r = s THEN Aggregate(Statuses(s)) ELSE agg[r]
  BY DEF Load, TypeInv, TypeOK
<1>2. /\ UNCHANGED <<job, run, task, own, op, torn>>
      /\ fresh' = fresh \cup {s} /\ own[s] # {}
  BY DEF Load, rowVars, historyVars
<1>3. QuietInv'
  BY <1>1, <1>2 DEF RunInv, QuietInv
<1>4. FreshInv'
  BY <1>1, <1>2, SameView DEF RunInv, FreshInv
<1>5. RunAgrees'
  BY <1>2 DEF RunInv, RunAgrees
<1> QED
  BY <1>3, <1>4, <1>5 DEF RunInv

\* A commit makes the run agree with the jobs it makes visible.
LEMMA CommitKeepsRun ==
  ASSUME TypeInv, RunInv, NEW s \in AllSessions, Commit(s)
  PROVE  RunInv'
<1>1. /\ job' = View(s) /\ run' = agg[s] /\ fresh' = {}
      /\ own' = [own EXCEPT ![s] = {}] /\ agg' = [agg EXCEPT ![s] = "none"]
      /\ op' = op
  BY DEF Commit, Publish
<1>2. agg[s] = Aggregate(Statuses(s))
  BY DEF Commit, RunInv, FreshInv
<1>3. RunAgrees'
  BY <1>1, <1>2 DEF RunAgrees, Statuses
<1>4. \A r \in AllSessions :
        /\ agg'[r] = IF r = s THEN "none" ELSE agg[r]
        /\ own'[r] = IF r = s THEN {} ELSE own[r]
  BY <1>1 DEF TypeInv, TypeOK
<1>5. QuietInv'
  BY <1>1, <1>4 DEF RunInv, QuietInv
<1>6. FreshInv'
  BY <1>1 DEF FreshInv
<1> QED
  BY <1>3, <1>5, <1>6 DEF RunInv

\* Each step of a session with its transaction keeps the run right.
LEMMA ContinueKeepsRun ==
  ASSUME TypeInv, RunInv, NEW s \in AllSessions, Continue(s) \/ Victim(s)
  PROVE  RunInv'
<1>0. op \in [AllSessions -> Ops]
  BY DEF TypeInv, TypeOK
<1>1. CASE Write(s)
  BY <1>1, WriteKeepsRun
<1>2. CASE Load(s)
  BY <1>2, LoadKeepsRun
<1>3. CASE Commit(s)
  BY <1>3, CommitKeepsRun
<1>4. CASE Stale(s) \/ Victim(s)
  BY <1>4, FailKeepsRun DEF Stale, Victim
<1>5. CASE Examine(s) \/ (Miss(s) /\ ~Fail(s))
  <2>1. UNCHANGED <<job, task, run, op, torn, fresh, own, agg>>
    BY <1>5 DEF Examine, Miss, rowVars, historyVars
  <2>2. QuietInv'
    BY <2>1 DEF RunInv, QuietInv
  <2>3. FreshInv'
    BY <2>1, SameView DEF RunInv, FreshInv
  <2> QED
    BY <2>1, <2>2, <2>3 DEF RunInv, RunAgrees
<1>6. CASE Miss(s) /\ Fail(s)
  BY <1>6, FailKeepsRun
<1>7. CASE Reset(s)
  <2>1. /\ UNCHANGED <<job, task, own, agg>> /\ fresh' \subseteq fresh \cup {s}
        /\ own[s] = {} /\ ((run' = run /\ torn' = torn) \/ torn')
    BY <1>7 DEF Reset, RunInv, QuietInv
  <2>2. \A r \in AllSessions :
          op'[r] \in {"idle", "reset", "evaluate"} => op[r] = op'[r] \/ own[r] = {}
    BY <1>0, <1>7, <2>1 DEF Reset
  <2> QED
    BY <2>1, <2>2, QuietStep
<1>8. CASE Finish(s)
  <2>1. /\ UNCHANGED <<job, task, own, agg>> /\ fresh' \subseteq fresh \cup {s}
        /\ own[s] = {} /\ run' = run /\ torn' = torn
    BY <1>8 DEF Finish, rowVars, historyVars
  <2>2. \A r \in AllSessions :
          op'[r] \in {"idle", "reset", "evaluate"} => op[r] = op'[r] \/ own[r] = {}
    BY <1>0, <1>8, <2>1 DEF Finish
  <2> QED
    BY <2>1, <2>2, QuietStep
<1> QED
  BY <1>1, <1>2, <1>3, <1>4, <1>5, <1>6, <1>7, <1>8 DEF Continue

\* A session that begins has no transaction and has computed nothing.
LEMMA StartKeepsRun ==
  ASSUME TypeInv, RunInv, NEW s \in AllSessions, NEW o, NEW plans,
         Start(s, o, plans), fresh' \subseteq fresh \cup {s},
         UNCHANGED <<job, run, task, own, agg, torn>>
  PROVE  RunInv'
<1>1. own[s] = {}
  BY DEF Start, RunInv, QuietInv
<1>2. \A r \in AllSessions : r # s => op'[r] = op[r]
  BY DEF Start, TypeInv, TypeOK
<1> QED
  BY <1>1, <1>2, QuietStep

\* The run agrees with its jobs at first.
LEMMA InitRun ==
  ASSUME Init
  PROVE  RunInv
BY DEF Init, RunInv, QuietInv, FreshInv, RunAgrees

\* Every step keeps the run in agreement with its jobs.
LEMMA StepKeepsRun == TypeInv /\ RunInv /\ [Next]_vars => RunInv'
<1> SUFFICES ASSUME TypeInv, RunInv, [Next]_vars PROVE RunInv'
  OBVIOUS
<1>1. ASSUME NEW s \in Sessions, Request(s) PROVE RunInv'
  <2>1. /\ \E o, plans : Start(s, o, plans)
        /\ fresh' \subseteq fresh \cup {s}
        /\ UNCHANGED <<job, run, task, own, agg, torn>>
    <3>1. CASE Pick(s)
      BY <3>1 DEF Pick, StartUnchanged, rowVars, historyVars
    <3>2. CASE Report(s)
      BY <3>2 DEF Report, StartUnchanged, rowVars, historyVars
    <3>3. CASE Cancel(s)
      BY <3>3 DEF Cancel, StartUnchanged, rowVars, historyVars
    <3>4. CASE Stop(s)
      BY <3>4 DEF Stop, StartUnchanged, rowVars, historyVars
    <3>5. CASE Abandon(s)
      BY <3>5 DEF Abandon, StartUnchanged, rowVars, historyVars
    <3>6. CASE Rerun(s)
      BY <3>6 DEF Rerun, rowVars, historyVars
    <3> QED
      BY <1>1, <3>1, <3>2, <3>3, <3>4, <3>5, <3>6 DEF Request
  <2> QED
    BY <2>1, StartKeepsRun DEF AllSessions
<1>2. ASSUME NEW s \in AllSessions, Continue(s) \/ Victim(s) PROVE RunInv'
  BY <1>2, ContinueKeepsRun
<1>3. CASE ReportLate \/ UNCHANGED vars
  <2>1. UNCHANGED <<job, task, run, op, torn, fresh, own, agg>>
    BY <1>3 DEF ReportLate, vars, rowVars, sessionVars, historyVars
  <2>2. QuietInv'
    BY <2>1 DEF RunInv, QuietInv
  <2>3. FreshInv'
    BY <2>1, SameView DEF RunInv, FreshInv
  <2> QED
    BY <2>1, <2>2, <2>3 DEF RunInv, RunAgrees
<1>4. ASSUME NEW e \in Emitters, Check(e) \/ EmitterStep(e) PROVE RunInv'
  <2>1. e \in AllSessions /\ op \in [AllSessions -> Ops]
    BY DEF AllSessions, TypeInv, TypeOK
  <2>2. CASE Check(e) /\ Resolvable # {}
    <3>1. Start(e, "evaluate", Resolvable)
      BY <2>2 DEF Check
    <3>2. fresh' = fresh /\ UNCHANGED <<job, run, task, own, agg, torn>>
      BY <2>2 DEF Check, rowVars
    <3> QED
      BY <2>1, <3>1, <3>2, StartKeepsRun
  <2>3. CASE Check(e) /\ Resolvable = {}
    <3>1. UNCHANGED <<job, task, run, op, torn, fresh, own, agg>>
      BY <2>3 DEF Check, rowVars
    <3>2. QuietInv'
      BY <3>1 DEF RunInv, QuietInv
    <3>3. FreshInv'
      BY <3>1, SameView DEF RunInv, FreshInv
    <3> QED
      BY <3>1, <3>2, <3>3 DEF RunInv, RunAgrees
  <2>4. CASE EmitterStep(e)
    <3>1. /\ op[e] = "evaluate" /\ own[e] = {}
      BY <2>1, <2>4 DEF EmitterStep, Evaluate, Evaluated, GiveUp, RunInv, QuietInv
    <3>2. /\ UNCHANGED <<job, task, own, agg, run, torn>>
          /\ fresh' \subseteq fresh \cup {e}
      BY <2>4 DEF EmitterStep, Evaluate, Evaluated, GiveUp, rowVars, historyVars
    <3>3. \A r \in AllSessions : op'[r] = op[r] \/ r = e
      BY <2>1, <2>4 DEF EmitterStep, Evaluate, Evaluated, GiveUp
    <3> QED
      BY <2>1, <3>1, <3>2, <3>3, QuietStep
  <2> QED
    BY <1>4, <2>2, <2>3, <2>4
<1>5. CASE Approve
  <2>1. {job'[j].status : j \in Jobs} = {"waiting"}
    BY <1>5, ConstantsAssumption DEF Approve, TypeInv, TypeOK, Row
  <2>2. RunAgrees'
    BY <1>5, <2>1 DEF Approve, RunAgrees
  <2>3. QuietInv' /\ FreshInv'
    BY <1>5 DEF Approve, RunInv, QuietInv, FreshInv
  <2> QED
    BY <2>2, <2>3 DEF RunInv
<1>6. CASE Crash
  BY <1>6 DEF Crash, RunInv, QuietInv, FreshInv, RunAgrees, rowVars
<1> QED
  BY <1>1, <1>2, <1>3, <1>4, <1>5, <1>6 DEF Next

(* Whatever the sessions do and wherever they fail, the status of the run  *)
(* is the one its jobs give, but for a rerun that has reset the run and no *)
(* job yet: the version check of UpdateRun lets no transaction publish     *)
(* what it computed from jobs that have changed since.                     *)
THEOREM RunAgreesAlways == Spec => []RunAgrees
<1>1. Init => TypeInv /\ RunInv
  BY InitType, InitRun
<1>2. TypeInv /\ RunInv /\ [Next]_vars => (TypeInv /\ RunInv)'
  BY StepType, StepKeepsRun
<1>3. RunInv => RunAgrees
  BY DEF RunInv
<1> QED
  BY <1>1, <1>2, <1>3, PTL DEF Spec

-----------------------------------------------------------------------------
(* A set of numbers has a least one; hence induction, for sets. *)
LEMMA LeastNumber ==
  ASSUME NEW T \in SUBSET Nat, T # {}
  PROVE  \E m \in T : \A k \in T : m <= k
<1> DEFINE R == {ss \in Nat \X Nat : ss[1] < ss[2]}
<1>1. IsWellFoundedOn(R, Nat)
  BY NatLessThanWellFounded DEF OpToRel
<1> HIDE DEF R
<1>2. PICK m \in T : \A k \in T : ~(<<k, m>> \in R)
  BY <1>1, WFMin
<1>3. \A k \in T : k \in Nat /\ m \in Nat /\ ~(k < m)
  BY <1>2 DEF R
<1> QED
  BY <1>3

(* A set with 0, and with each number's successor, has all numbers. *)
LEMMA Induction ==
  ASSUME NEW S, 0 \in S, \A n \in Nat : n \in S => n + 1 \in S
  PROVE  Nat \subseteq S
<1> DEFINE T == Nat \ S
<1> SUFFICES ASSUME T # {}
             PROVE  FALSE
  OBVIOUS
<1>1. PICK m \in T : \A k \in T : m <= k
  <2> HIDE DEF T
  <2>1. T \in SUBSET Nat
    BY DEF T
  <2> QED
    BY <2>1, LeastNumber
<1>2. m \in Nat \ {0} /\ m - 1 \in Nat /\ m - 1 \notin T
  BY <1>1
<1> QED
  BY <1>1, <1>2

(* A function can be applied again and again, from any argument. *)
LEMMA Iteration ==
  ASSUME NEW X, NEW x \in X, NEW h \in [X -> X]
  PROVE  \E r : r = [n \in Nat |-> IF n = 0 THEN x ELSE h[r[n - 1]]]
<1> DEFINE Upto(f, n) == /\ f[0] = x
                         /\ \A k \in 1 .. n : f[k] = h[f[k - 1]]
           S == {n \in Nat : \E f : Upto(f, n)}
           Agree(k) == \A f, g, m, n :
             /\ m \in Nat /\ n \in Nat /\ k <= m /\ k <= n
             /\ Upto(f, m) /\ Upto(g, n)
             => f[k] = g[k]
           U == {k \in Nat : Agree(k)}
<1>1. Nat \subseteq S
  <2>1. 0 \in S
    <3>1. Upto([k \in {0} |-> x], 0)
      OBVIOUS
    <3> QED
      BY <3>1
  <2>2. ASSUME NEW n \in Nat, n \in S
        PROVE  n + 1 \in S
    <3>1. PICK f : Upto(f, n)
      BY <2>2
    <3> DEFINE g == [k \in 0 .. n + 1 |-> IF k = n + 1 THEN h[f[n]] ELSE f[k]]
    <3>2. Upto(g, n + 1)
      <4>1. g[0] = x /\ g[n + 1] = h[g[n]]
        BY <3>1
      <4>2. \A k \in 1 .. n : g[k] = f[k] /\ g[k - 1] = f[k - 1]
        OBVIOUS
      <4>3. \A k \in 1 .. n + 1 : k \in 1 .. n \/ k = n + 1
        OBVIOUS
      <4> HIDE DEF g
      <4> QED
        BY <3>1, <4>1, <4>2, <4>3
    <3> HIDE DEF g
    <3> QED
      BY <3>2
  <2> HIDE DEF S
  <2> QED
    BY <2>1, <2>2, Induction
<1>2. Nat \subseteq U
  <2>1. 0 \in U
    <3>1. Agree(0)
      OBVIOUS
    <3> QED
      BY <3>1
  <2>2. ASSUME NEW k \in Nat, k \in U
        PROVE  k + 1 \in U
    <3>a. Agree(k)
      BY <2>2
    <3>b. Agree(k + 1)
      <4> HIDE DEF Upto
      <4> SUFFICES ASSUME NEW f, NEW g, NEW m, NEW n, m \in Nat, n \in Nat,
                          k + 1 <= m, k + 1 <= n, Upto(f, m), Upto(g, n)
                   PROVE  f[k + 1] = g[k + 1]
        OBVIOUS
      <4>1. k <= m /\ k <= n /\ k + 1 \in 1 .. m /\ k + 1 \in 1 .. n
        OBVIOUS
      <4>2. f[k] = g[k]
        BY <3>a, <4>1
      <4>3. (k + 1) - 1 = k
        OBVIOUS
      <4> QED
        BY <4>1, <4>2, <4>3 DEF Upto
    <3> HIDE DEF Agree
    <3> QED
      BY <3>b
  <2> HIDE DEF U
  <2> QED
    BY <2>1, <2>2, Induction
<1> DEFINE F(n) == CHOOSE f : Upto(f, n)
           r == [n \in Nat |-> F(n)[n]]
<1>3. \A n \in Nat : Upto(F(n), n)
  BY <1>1
<1>4. r[0] = x
  BY <1>3
<1>5. ASSUME NEW n \in Nat \ {0}
      PROVE  r[n] = h[r[n - 1]]
  <2>1. n - 1 \in Nat /\ n - 1 <= n /\ n \in 1 .. n
    OBVIOUS
  <2>2. F(n)[n] = h[F(n)[n - 1]]
    BY <1>3, <2>1
  <2>3. F(n)[n - 1] = F(n - 1)[n - 1]
    <3>1. Upto(F(n), n) /\ Upto(F(n - 1), n - 1) /\ Agree(n - 1)
      BY <1>2, <1>3, <2>1
    <3> HIDE DEF F, Upto
    <3> QED
      BY <2>1, <3>1
  <2> HIDE DEF F
  <2> QED
    BY <2>1, <2>2, <2>3
<1>6. \A n \in Nat : r[n] = IF n = 0 THEN x ELSE h[r[n - 1]]
  <2> HIDE DEF r
  <2> QED
    BY <1>4, <1>5
<1>7. r = [n \in Nat |-> r[n]]
  OBVIOUS
<1> HIDE DEF r
<1>8. r = [n \in Nat |-> IF n = 0 THEN x ELSE h[r[n - 1]]]
  BY <1>6, <1>7
<1> QED
  BY <1>8

-----------------------------------------------------------------------------
(* The rounds of Resolve are what their definition says. *)
LEMMA ResolveRounds ==
  ASSUME NEW status \in [Jobs -> Status]
  PROVE  \E r : /\ r = [n \in Nat |-> IF n = 0 THEN status
                                      ELSE ResolveOnce(r[n - 1])]
                /\ Resolve(status) = r[Cardinality(Jobs)]
<1> DEFINE X == [Jobs -> Status]
           h == [x \in X |-> ResolveOnce(x)]
           Rounds(r) == r = [n \in Nat |-> IF n = 0 THEN status
                                           ELSE ResolveOnce(r[n - 1])]
<1>1. h \in [X -> X]
  BY DEF ResolveOnce, Status, DoneStatus
<1>2. PICK r : r = [n \in Nat |-> IF n = 0 THEN status ELSE h[r[n - 1]]]
  <2> HIDE DEF h, X
  <2>1. status \in X
    BY DEF X
  <2> QED
    BY <1>1, <2>1, Iteration
<1>3. /\ r[0] = status
      /\ \A n \in Nat : r[n + 1] = h[r[n]]
  <2>1. \A n \in Nat : n + 1 \in Nat /\ n + 1 # 0 /\ (n + 1) - 1 = n
    OBVIOUS
  <2> HIDE DEF h
  <2> QED
    BY <1>2, <2>1
<1>4. \A n \in Nat : r[n] \in X
  <2> DEFINE S == {n \in Nat : r[n] \in X}
  <2>1. 0 \in S
    BY <1>3
  <2>2. \A n \in Nat : n \in S => n + 1 \in S
    <3> HIDE DEF h, X
    <3> QED
      BY <1>1, <1>3
  <2> HIDE DEF S
  <2>3. Nat \subseteq S
    BY <2>1, <2>2, Induction
  <2> QED
    BY <2>3 DEF S
<1>5. Rounds(r)
  <2>1. \A n \in Nat : n # 0 => /\ n - 1 \in Nat
                                 /\ h[r[n - 1]] = ResolveOnce(r[n - 1])
    BY <1>4
  <2> HIDE DEF h, X
  <2>2. \A n \in Nat : (IF n = 0 THEN status ELSE h[r[n - 1]])
                       = (IF n = 0 THEN status ELSE ResolveOnce(r[n - 1]))
    BY <2>1
  <2> QED
    BY <1>2, <2>2
<1> DEFINE g == CHOOSE q : Rounds(q)
<1>6. Rounds(g)
  <2> HIDE DEF Rounds
  <2> QED
    BY <1>5
<1>7. Resolve(status) = g[Cardinality(Jobs)]
  BY DEF Resolve
<1> HIDE DEF g
<1> QED
  BY <1>6, <1>7

(* What the emitter finds for a blocked job is a new status only for a     *)
(* blocked one, and starts it only if its needs allow that: they           *)
(* succeeded, or the job has a condition and they are done or skipped in   *)
(* an earlier round.                                                       *)
Resolved(status, after) ==
  /\ after \in [Jobs -> Status]
  /\ \A j \in Jobs :
       \/ after[j] = status[j]
       \/ status[j] = "blocked" /\ after[j] \in {"waiting", "skipped"}
  /\ \A j \in Jobs :
       status[j] = "blocked" /\ after[j] = "waiting" =>
         \A n \in Needs[j] : \/ after[n] = "success"
                             \/ j \in IfJobs /\ after[n] \in DoneStatus

\* A round keeps that.
LEMMA ResolveOnceIsSound ==
  ASSUME NEW status, NEW after, Resolved(status, after)
  PROVE  Resolved(status, ResolveOnce(after))
<1> DEFINE next == ResolveOnce(after)
<1>0. Needs \in [Jobs -> SUBSET Jobs]
  BY ConstantsAssumption
<1>1. next \in [Jobs -> Status]
  BY DEF Resolved, ResolveOnce, Status, DoneStatus
<1>2. \A j \in Jobs :
        /\ after[j] # "blocked" => next[j] = after[j]
        /\ next[j] = after[j] \/ (after[j] = "blocked"
                                  /\ next[j] \in {"waiting", "skipped"})
  BY DEF ResolveOnce
<1>3. \A j \in Jobs : after[j] \in DoneStatus => next[j] = after[j]
  BY <1>2 DEF DoneStatus
<1>4. ASSUME NEW j \in Jobs, after[j] = "blocked", next[j] = "waiting",
             NEW n \in Needs[j]
      PROVE  next[n] = "success" \/ (j \in IfJobs /\ next[n] \in DoneStatus)
  <2>1. n \in Jobs /\ after[n] \in DoneStatus
    BY <1>0, <1>4 DEF ResolveOnce, NeedsDone
  <2>2. after[n] = "success" \/ j \in IfJobs
    BY <1>4 DEF ResolveOnce
  <2> QED
    BY <1>3, <2>1, <2>2
<1>5. ASSUME NEW j \in Jobs, status[j] = "blocked", after[j] = "waiting",
             NEW n \in Needs[j]
      PROVE  next[n] = "success" \/ (j \in IfJobs /\ next[n] \in DoneStatus)
  BY <1>0, <1>3, <1>5 DEF Resolved, DoneStatus
<1>6. \A j \in Jobs : \/ next[j] = status[j]
                      \/ /\ status[j] = "blocked"
                         /\ next[j] \in {"waiting", "skipped"}
  BY <1>2 DEF Resolved
<1>7. \A j \in Jobs : status[j] = "blocked" /\ next[j] = "waiting" =>
        after[j] = "waiting" \/ after[j] = "blocked"
  BY <1>2
<1> HIDE DEF next
<1>8. Resolved(status, next)
  BY <1>1, <1>4, <1>5, <1>6, <1>7 DEF Resolved
<1> QED
  BY <1>8 DEF next

(* What the emitter resolves: only blocked jobs, each to waiting or to     *)
(* skipped, and to waiting only if the needs allow it, whatever the jobs   *)
(* need, in cycles too (jobStatusResolver.Resolve).                        *)
THEOREM ResolveIsSound ==
  ASSUME NEW status \in [Jobs -> Status]
  PROVE  Resolved(status, Resolve(status))
<1>1. PICK r : /\ r = [n \in Nat |-> IF n = 0 THEN status
                                     ELSE ResolveOnce(r[n - 1])]
               /\ Resolve(status) = r[Cardinality(Jobs)]
  BY ResolveRounds
<1>2. r[0] = status /\ \A n \in Nat : r[n + 1] = ResolveOnce(r[n])
  <2>1. \A n \in Nat : n + 1 \in Nat /\ n + 1 # 0 /\ (n + 1) - 1 = n
    OBVIOUS
  <2> QED
    BY <1>1, <2>1
<1> DEFINE S == {n \in Nat : Resolved(status, r[n])}
<1>3. 0 \in S
  BY <1>2 DEF Resolved
<1>4. \A n \in Nat : n \in S => n + 1 \in S
  BY <1>2, ResolveOnceIsSound
<1> HIDE DEF S
<1>5. Nat \subseteq S
  BY <1>3, <1>4, Induction
<1>6. Cardinality(Jobs) \in Nat
  BY FS_CardinalityType, ConstantsAssumption
<1> QED
  BY <1>1, <1>5, <1>6 DEF S

(* A chain of subsets of a finite set that stays once it does not grow has *)
(* stopped after as many steps as the set has elements.                    *)
LEMMA ChainStops ==
  ASSUME NEW J, IsFiniteSet(J), NEW c,
         \A n \in Nat : /\ c[n] \subseteq J /\ c[n] \subseteq c[n + 1]
                        /\ c[n + 1] = c[n] => c[n + 2] = c[n + 1]
  PROVE  c[Cardinality(J) + 1] = c[Cardinality(J)]
<1> DEFINE S == {n \in Nat : c[n + 1] = c[n] \/ Cardinality(c[n]) >= n}
           N == Cardinality(J)
<1>0. N \in Nat /\ \A n \in Nat : IsFiniteSet(c[n]) /\ Cardinality(c[n]) \in Nat
  BY FS_CardinalityType, FS_Subset
<1>1. 0 \in S
  BY <1>0
<1>2. ASSUME NEW n \in Nat, n \in S
      PROVE  n + 1 \in S
  <2>1. (n + 1) + 1 = n + 2 /\ n + 1 \in Nat
    OBVIOUS
  <2>2. CASE c[n + 1] = c[n]
    BY <2>1, <2>2
  <2>3. CASE c[n + 1] # c[n]
    <3>1. Cardinality(c[n]) < Cardinality(c[n + 1])
      <4>1. c[n] \in SUBSET c[n + 1] /\ c[n] # c[n + 1]
        BY <2>3
      <4> QED
        BY <1>0, <2>1, <4>1, FS_Subset
    <3>2. Cardinality(c[n]) >= n
      BY <1>2, <2>3
    <3> QED
      BY <1>0, <2>1, <3>1, <3>2
  <2> QED
    BY <2>2, <2>3
<1>3. N \in S
  <2>1. Nat \subseteq S
    <3> HIDE DEF S
    <3> QED
      BY <1>1, <1>2, Induction
  <2> QED
    BY <1>0, <2>1
<1>4. CASE Cardinality(c[N]) >= N
  <2>1. c[N] \in SUBSET J /\ c[N + 1] \subseteq J /\ c[N] \subseteq c[N + 1]
    BY <1>0
  <2>2. c[N] = J
    BY <1>0, <1>4, <2>1, FS_Subset
  <2> QED
    BY <2>1, <2>2
<1> QED
  BY <1>3, <1>4

\* A round only ever changes jobs that are blocked, and unblocks them.
LEMMA ResolveOnceUnblocks ==
  ASSUME NEW status \in [Jobs -> Status]
  PROVE  /\ ResolveOnce(status) \in [Jobs -> Status]
         /\ \A j \in Jobs :
              ResolveOnce(status)[j] # status[j] =>
                status[j] = "blocked" /\ ResolveOnce(status)[j] # "blocked"
BY DEF ResolveOnce, Status, DoneStatus

(* The emitter leaves no job blocked whose needs are done, or get skipped  *)
(* by what it finds itself: as many rounds as there are jobs are enough,   *)
(* whatever the jobs need (jobStatusResolver.Resolve).                     *)
THEOREM ResolveIsComplete ==
  ASSUME NEW status \in [Jobs -> Status], NEW j \in Jobs,
         Resolve(status)[j] = "blocked"
  PROVE  ~NeedsDone(Resolve(status), j)
<1>1. PICK r : /\ r = [n \in Nat |-> IF n = 0 THEN status
                                     ELSE ResolveOnce(r[n - 1])]
               /\ Resolve(status) = r[Cardinality(Jobs)]
  BY ResolveRounds
<1>2. r[0] = status /\ \A n \in Nat : r[n + 1] = ResolveOnce(r[n])
  <2>1. \A n \in Nat : n + 1 \in Nat /\ n + 1 # 0 /\ (n + 1) - 1 = n
    OBVIOUS
  <2> QED
    BY <1>1, <2>1
<1>3. \A n \in Nat : r[n] \in [Jobs -> Status]
  <2> DEFINE S == {n \in Nat : r[n] \in [Jobs -> Status]}
  <2>1. 0 \in S
    BY <1>2
  <2>2. \A n \in Nat : n \in S => n + 1 \in S
    BY <1>2, ResolveOnceUnblocks
  <2> HIDE DEF S
  <2>3. Nat \subseteq S
    BY <2>1, <2>2, Induction
  <2> QED
    BY <2>3 DEF S
<1> DEFINE N == Cardinality(Jobs)
           c == [n \in Nat |-> {i \in Jobs : r[n][i] # "blocked"}]
<1>4. N \in Nat /\ IsFiniteSet(Jobs)
  BY FS_CardinalityType, ConstantsAssumption
<1>c. \A n \in Nat : /\ c[n] = {i \in Jobs : r[n][i] # "blocked"}
                     /\ n + 1 \in Nat /\ n + 2 \in Nat
  OBVIOUS
<1> HIDE DEF c
<1>5. ASSUME NEW n \in Nat
      PROVE  /\ c[n] \subseteq c[n + 1]
             /\ c[n + 1] = c[n] => r[n + 1] = r[n]
  <2>1. /\ r[n] \in [Jobs -> Status] /\ r[n + 1] \in [Jobs -> Status]
        /\ \A i \in Jobs : r[n + 1][i] # r[n][i] =>
             r[n][i] = "blocked" /\ r[n + 1][i] # "blocked"
    BY <1>2, <1>3, ResolveOnceUnblocks
  <2>2. c[n] \subseteq c[n + 1]
    BY <1>c, <2>1
  <2>3. ASSUME c[n + 1] = c[n]
        PROVE  r[n + 1] = r[n]
    <3>1. \A i \in Jobs : r[n + 1][i] # "blocked" <=> r[n][i] # "blocked"
      BY <1>c, <2>3
    <3>2. \A i \in Jobs : r[n + 1][i] = r[n][i]
      BY <2>1, <3>1
    <3> QED
      BY <2>1, <3>2
  <2> QED
    BY <2>2, <2>3
<1>6. \A n \in Nat : c[n + 1] = c[n] => c[n + 2] = c[n + 1]
  <2> SUFFICES ASSUME NEW n \in Nat, c[n + 1] = c[n]
               PROVE  c[n + 2] = c[n + 1]
    OBVIOUS
  <2>1. r[n + 1] = r[n]
    BY <1>5
  <2>2. r[n + 2] = r[n + 1]
    <3>1. r[(n + 1) + 1] = ResolveOnce(r[n + 1])
      BY <1>2
    <3>2. (n + 1) + 1 = n + 2
      OBVIOUS
    <3> QED
      BY <1>2, <2>1, <3>1, <3>2
  <2>3. /\ c[n + 1] = {i \in Jobs : r[n + 1][i] # "blocked"}
        /\ c[n + 2] = {i \in Jobs : r[n + 2][i] # "blocked"}
    BY <1>c
  <2> QED
    BY <2>2, <2>3
<1>7. c[N + 1] = c[N]
  <2>1. \A n \in Nat : c[n] \subseteq Jobs
    BY <1>c
  <2> QED
    BY <1>4, <1>5, <1>6, <2>1, ChainStops
<1>8. ResolveOnce(r[N]) = r[N]
  BY <1>2, <1>4, <1>5, <1>7
<1>9. ASSUME NeedsDone(r[N], j), r[N][j] = "blocked"
      PROVE  FALSE
  <2>1. ResolveOnce(r[N])[j] \in {"waiting", "skipped"}
    BY <1>9 DEF ResolveOnce
  <2> QED
    BY <1>8, <1>9, <2>1
<1> QED
  BY <1>1, <1>9

\* The rounds of Downstream are what their definition says.
LEMMA DownstreamRounds ==
  ASSUME NEW R \in SUBSET Jobs
  PROVE  \E more :
           /\ more[0] = R /\ Downstream(R) = more[Cardinality(Jobs)]
           /\ \A n \in Nat :
                /\ more[n] \subseteq Jobs
                /\ more[n + 1] =
                     more[n] \cup {j \in Jobs : Needs[j] \cap more[n] # {}}
<1> DEFINE X == SUBSET Jobs
           grow(S) == S \cup {j \in Jobs : Needs[j] \cap S # {}}
           h == [S \in X |-> grow(S)]
           Rounds(r) == r = [n \in Nat |-> IF n = 0 THEN R
                                           ELSE grow(r[n - 1])]
<1>1. h \in [X -> X] /\ R \in X
  OBVIOUS
<1>2. PICK r : r = [n \in Nat |-> IF n = 0 THEN R ELSE h[r[n - 1]]]
  <2> HIDE DEF h, X
  <2> QED
    BY <1>1, Iteration
<1>n. \A n \in Nat : n + 1 \in Nat /\ n + 1 # 0 /\ (n + 1) - 1 = n
  OBVIOUS
<1>3. r[0] = R /\ \A n \in Nat : r[n + 1] = h[r[n]]
  <2> HIDE DEF h
  <2> QED
    BY <1>2, <1>n
<1>4. \A n \in Nat : r[n] \in X
  <2> DEFINE S == {n \in Nat : r[n] \in X}
  <2> HIDE DEF h, X
  <2>1. 0 \in S
    BY <1>1, <1>3
  <2>2. \A n \in Nat : n \in S => n + 1 \in S
    BY <1>1, <1>3
  <2> HIDE DEF S
  <2>3. Nat \subseteq S
    BY <2>1, <2>2, Induction
  <2> QED
    BY <2>3 DEF S
<1>5. Rounds(r)
  <2>1. \A n \in Nat : n # 0 => n - 1 \in Nat /\ h[r[n - 1]] = grow(r[n - 1])
    BY <1>4
  <2> HIDE DEF h, X, grow
  <2>2. \A n \in Nat : (IF n = 0 THEN R ELSE h[r[n - 1]])
                       = (IF n = 0 THEN R ELSE grow(r[n - 1]))
    BY <2>1
  <2> QED
    BY <1>2, <2>2
<1> DEFINE g == CHOOSE q : Rounds(q)
<1>6. Rounds(g)
  <2> HIDE DEF Rounds
  <2> QED
    BY <1>5
<1>7. Downstream(R) = g[Cardinality(Jobs)]
  BY DEF Downstream
<1> HIDE DEF g
<1>8. g[0] = R /\ \A n \in Nat : g[n + 1] = grow(g[n])
  <2> HIDE DEF grow
  <2> QED
    BY <1>6, <1>n
<1>9. \A n \in Nat : g[n] \in X
  <2> DEFINE S == {n \in Nat : g[n] \in X}
  <2>1. 0 \in S
    BY <1>1, <1>8
  <2>2. \A n \in Nat : n \in S => n + 1 \in S
    BY <1>8
  <2> HIDE DEF S
  <2>3. Nat \subseteq S
    BY <2>1, <2>2, Induction
  <2> QED
    BY <2>3 DEF S
<1> QED
  BY <1>7, <1>8, <1>9

(* A rerun takes the jobs it was asked for, every job that needs one that  *)
(* it takes, and no others: as many rounds as there are jobs reach what    *)
(* the loop of GetAllRerunJobs reaches when it finds no more.              *)
THEOREM DownstreamIsClosure ==
  ASSUME NEW R \in SUBSET Jobs
  PROVE  /\ R \subseteq Downstream(R) /\ Downstream(R) \subseteq Jobs
         /\ \A j \in Jobs :
              Needs[j] \cap Downstream(R) # {} => j \in Downstream(R)
         /\ \A T \in SUBSET Jobs :
              /\ R \subseteq T
              /\ \A j \in Jobs : Needs[j] \cap T # {} => j \in T
              => Downstream(R) \subseteq T
<1> DEFINE N == Cardinality(Jobs)
<1>0. N \in Nat /\ IsFiniteSet(Jobs)
  BY FS_CardinalityType, ConstantsAssumption
<1>1. PICK more :
        /\ more[0] = R /\ Downstream(R) = more[N]
        /\ \A n \in Nat :
             /\ more[n] \subseteq Jobs
             /\ more[n + 1] =
                  more[n] \cup {j \in Jobs : Needs[j] \cap more[n] # {}}
  BY DownstreamRounds
<1>2. R \subseteq more[N]
  <2> DEFINE S == {n \in Nat : R \subseteq more[n]}
  <2>1. 0 \in S
    BY <1>1
  <2>2. \A n \in Nat : n \in S => n + 1 \in S
    BY <1>1
  <2> HIDE DEF S
  <2>3. Nat \subseteq S
    BY <2>1, <2>2, Induction
  <2> QED
    BY <1>0, <2>3 DEF S
<1>3. more[N + 1] = more[N]
  <2>1. \A n \in Nat : more[n + 1] = more[n] => more[n + 2] = more[n + 1]
    <3>1. \A n \in Nat : n + 1 \in Nat /\ (n + 1) + 1 = n + 2
      OBVIOUS
    <3> SUFFICES ASSUME NEW n \in Nat, more[n + 1] = more[n]
                 PROVE  more[n + 2] = more[n + 1]
      OBVIOUS
    <3>2. more[n + 2] = more[n + 1] \cup
                          {j \in Jobs : Needs[j] \cap more[n + 1] # {}}
      BY <1>1, <3>1
    <3> QED
      BY <1>1, <3>2
  <2>2. \A n \in Nat : more[n] \subseteq Jobs /\ more[n] \subseteq more[n + 1]
    BY <1>1
  <2> QED
    BY <1>0, <2>1, <2>2, ChainStops
<1>4. ASSUME NEW T \in SUBSET Jobs, R \subseteq T,
             \A j \in Jobs : Needs[j] \cap T # {} => j \in T
      PROVE  more[N] \subseteq T
  <2> DEFINE S == {n \in Nat : more[n] \subseteq T}
  <2>1. 0 \in S
    BY <1>1, <1>4
  <2>2. \A n \in Nat : n \in S => n + 1 \in S
    <3> SUFFICES ASSUME NEW n \in Nat, more[n] \subseteq T
                 PROVE  more[n + 1] \subseteq T
      OBVIOUS
    <3>1. \A j \in Jobs : Needs[j] \cap more[n] # {} => Needs[j] \cap T # {}
      OBVIOUS
    <3> QED
      BY <1>1, <1>4, <3>1
  <2> HIDE DEF S
  <2>3. Nat \subseteq S
    BY <2>1, <2>2, Induction
  <2> QED
    BY <1>0, <2>3 DEF S
<1>5. \A j \in Jobs : Needs[j] \cap more[N] # {} => j \in more[N]
  BY <1>0, <1>1, <1>3
<1> QED
  BY <1>0, <1>1, <1>2, <1>4, <1>5

-----------------------------------------------------------------------------
(* What the updates of each operation look like: the one that starts a     *)
(* task expects none, those that end one name it, and the others expect    *)
(* that the job does not run, or that it has no task.                      *)
PlanFits(p) ==
  /\ p.id = "new" => /\ p.to = "running" /\ p.where = "noTask"
                     /\ p.ends = 0 /\ p.seen = "waiting"
  /\ p.id # "new" => p.to # "running"
  /\ p.ends # 0 => /\ p.id = "keep" /\ (p.where = "task" \/ p.seen = "running")
                   /\ p.ends \in DOMAIN task[p.job]
  /\ p.ends = 0 => /\ p.where # "task"
                   /\ p.id = "new" \/ p.seen # "running" \/ p.where = "noTask"

PlansFit ==
  \A s \in AllSessions :
    /\ \A p \in todo[s] \cup own[s] : PlanFits(p)
    /\ \A p \in own[s] : p.where # "task"

(* the column task_id refers to a task of the job *)
TasksExist == \A j \in Jobs : job[j].task <= Len(task[j])

(* The lock of a row keeps other transactions away, and what the update    *)
(* expected of the row's task.                                             *)
LocksHold ==
  /\ \A r, s \in AllSessions : \A p \in own[r], q \in own[s] :
       p.job = q.job => r = s
  /\ \A s \in AllSessions : \A p \in own[s] :
       p.where = "noTask" => job[p.job].task = 0

TaskInv == PlansFit /\ TasksExist /\ LocksHold /\ OneTask

(* Before any rerun, sessions mean to update only jobs that are not done;  *)
(* the emitter starts or skips blocked ones, in one transaction, and all   *)
(* others start a task or finish a job.                                    *)
OpsFit ==
  \A s \in AllSessions :
    /\ op[s] = "rerun" => reruns > 0
    /\ op[s] \in Checking =>
         /\ \A p, q \in todo[s] \cup own[s] : p.job = q.job => p = q
         /\ \A p \in todo[s] \cup own[s] :
              /\ p.to \in {"waiting", "skipped"} /\ p.seen = "blocked"
              /\ p.where = "same" /\ p.id = "keep"
         /\ agg[s] # "none" => todo[s] = {}
    /\ op[s] \notin {"idle", "reset", "rerun"} \cup Checking =>
         \A p \in todo[s] \cup own[s] :
           p.seen \notin DoneStatus /\ (p.id = "new" \/ p.to \in DoneStatus)

(* the need n allows job j to start *)
Allows(n, j) ==
  job[n].status = "success" \/ (j \in IfJobs /\ job[n].status \in DoneStatus)

(* What the emitter means to start has its needs, or gets them skipped in  *)
(* the same transaction.                                                   *)
ChecksFit ==
  raced \/ reruns > 0 \/
  \A s \in AllSessions : \A p \in todo[s] \cup own[s] :
    op[s] \in Checking /\ p.to = "waiting" =>
      \A n \in Needs[p.job] :
        \/ Allows(n, p.job)
        \/ /\ p.job \in IfJobs
           /\ \E q \in todo[s] \cup own[s] : q.job = n /\ q.to = "skipped"

StartInv == OpsFit /\ ChecksFit /\ StartsAfterNeeds

(* What a session sees of a job is the committed row, or one of its        *)
(* updates applied to it.                                                  *)
LEMMA ViewCases ==
  ASSUME NEW s \in AllSessions, NEW j \in Jobs
  PROVE  \/ /\ View(s)[j] = job[j] /\ TasksOf(s)[j] = task[j]
            /\ \A p \in own[s] : p.job # j
         \/ \E p \in own[s] :
              /\ p.job = j
              /\ View(s)[j] = Updated(job[j], task[j], p)
              /\ TasksOf(s)[j] = IF p.id = "new" THEN Append(task[j], "running")
                                 ELSE IF p.ends # 0
                                      THEN [task[j] EXCEPT ![p.ends] = p.to]
                                      ELSE task[j]
<1>1. CASE \E p \in own[s] : p.job = j
  <2> DEFINE q == CHOOSE p \in own[s] : p.job = j
  <2>1. q \in own[s] /\ q.job = j
    BY <1>1
  <2>2. View(s)[j] = Updated(job[j], task[j], q)
    BY <1>1 DEF View
  <2>3. TasksOf(s)[j] = IF q.id = "new" THEN Append(task[j], "running")
                        ELSE IF q.ends # 0
                             THEN [task[j] EXCEPT ![q.ends] = q.to]
                             ELSE task[j]
    BY <1>1 DEF TasksOf
  <2> HIDE DEF q
  <2> QED
    BY <2>1, <2>2, <2>3
<1>2. CASE ~\E p \in own[s] : p.job = j
  BY <1>2 DEF View, TasksOf
<1> QED
  BY <1>1, <1>2

(* An update lets the tasks of a job only grow, and the column task_id     *)
(* refers to one of them.                                                  *)
LEMMA TasksGrow ==
  ASSUME TypeInv, TaskInv, NEW s \in AllSessions, NEW j \in Jobs
  PROVE  /\ DOMAIN task[j] \subseteq DOMAIN TasksOf(s)[j]
         /\ View(s)[j].task <= Len(TasksOf(s)[j])
<1>1. /\ task[j] \in Seq(TaskStatus) /\ job[j] \in Row
      /\ job[j].task <= Len(task[j])
  BY DEF TypeInv, TypeOK, TaskStatus, TaskInv, TasksExist
<1>2. ASSUME NEW p \in own[s],
             View(s)[j] = Updated(job[j], task[j], p),
             TasksOf(s)[j] = IF p.id = "new" THEN Append(task[j], "running")
                             ELSE IF p.ends # 0
                                  THEN [task[j] EXCEPT ![p.ends] = p.to]
                                  ELSE task[j]
      PROVE  /\ DOMAIN task[j] \subseteq DOMAIN TasksOf(s)[j]
             /\ View(s)[j].task <= Len(TasksOf(s)[j])
  <2>0. p \in Plan /\ PlanFits(p)
    BY DEF TypeInv, TypeOK, TaskInv, PlansFit
  <2>1. CASE p.id = "new"
    <3>1. /\ Len(Append(task[j], "running")) = Len(task[j]) + 1
          /\ DOMAIN task[j] = 1 .. Len(task[j])
          /\ DOMAIN Append(task[j], "running") = 1 .. Len(task[j]) + 1
      BY <1>1 DEF TaskStatus
    <3>2. View(s)[j].task = Len(task[j]) + 1 /\ Len(task[j]) \in Nat
      BY <1>1, <1>2, <2>1 DEF Updated
    <3> QED
      BY <1>2, <2>1, <3>1, <3>2
  <2>2. CASE p.id # "new"
    <3>1. View(s)[j].task \in {0, job[j].task}
      BY <1>2, <2>0, <2>2 DEF Updated, Plan
    <3>2. CASE p.ends = 0
      BY <1>1, <1>2, <2>2, <3>1, <3>2 DEF Row
    <3>3. CASE p.ends # 0
      <4>1. TasksOf(s)[j] = [task[j] EXCEPT ![p.ends] = p.to]
        BY <1>2, <2>2, <3>3
      <4>2. DOMAIN TasksOf(s)[j] = DOMAIN task[j]
        BY <4>1
      <4>3. p.to \in TaskStatus
        BY <3>3 DEF TypeInv, PlansEnd, TaskStatus
      <4>4. TasksOf(s)[j] \in Seq(TaskStatus)
        BY <1>1, <4>1, <4>3, SeqExcept
      <4>5. Len(TasksOf(s)[j]) = Len(task[j])
        BY <1>1, <4>2, <4>4
      <4> QED
        BY <1>1, <3>1, <4>2, <4>5 DEF Row
    <3> QED
      BY <3>2, <3>3
  <2> QED
    BY <2>1, <2>2
<1> QED
  BY <1>1, <1>2, ViewCases

(* An operation starts with updates that fit. *)
LEMMA StartKeepsTasks ==
  ASSUME TypeInv, TaskInv, NEW s \in AllSessions, NEW o, NEW plans,
         Start(s, o, plans), \A p \in plans : PlanFits(p),
         UNCHANGED <<job, task, own, raced>>
  PROVE  TaskInv'
<1>1. \A r \in AllSessions : todo'[r] = IF r = s THEN plans ELSE todo[r]
  BY DEF Start, TypeInv, TypeOK
<1>2. \A p : PlanFits(p)' <=> PlanFits(p)
  BY DEF PlanFits
<1>3. PlansFit'
  BY <1>1, <1>2 DEF TaskInv, PlansFit
<1> QED
  BY <1>3 DEF TaskInv, TasksExist, LocksHold, OneTask

(* Steps that only give updates up, or commit none. *)
LEMMA ShrinkKeepsTasks ==
  ASSUME TypeInv, TaskInv, UNCHANGED <<job, task, raced>>,
         \A r \in AllSessions : /\ own'[r] \subseteq own[r]
                                /\ todo'[r] \subseteq todo[r]
  PROVE  TaskInv'
<1>1. \A p : PlanFits(p)' <=> PlanFits(p)
  BY DEF PlanFits
<1>2. PlansFit'
  BY <1>1 DEF TaskInv, PlansFit
<1>3. LocksHold'
  BY DEF TaskInv, LocksHold
<1> QED
  BY <1>2, <1>3 DEF TaskInv, TasksExist, OneTask

\* The update that ends an examined task fits.
LEMMA ExamineKeepsTasks ==
  ASSUME TypeInv, TaskInv, NEW s \in AllSessions, Examine(s)
  PROVE  TaskInv'
<1>1. PICK p \in todo[s] :
        /\ todo' = [todo EXCEPT ![s] =
                      (@ \ {p}) \cup
                      (IF task[p.job][p.ends] \in DoneStatus THEN {}
                       ELSE {Ending(p.job, p.ends, p.to)})]
        /\ p.where = "task"
  BY DEF Examine
<1>2. UNCHANGED <<job, task, own, raced>>
  BY DEF Examine, rowVars, historyVars
<1>3. PlanFits(p) /\ p \in Plan
  BY DEF TaskInv, PlansFit, TypeInv, TypeOK
<1>4. PlanFits(Ending(p.job, p.ends, p.to))
  BY <1>1, <1>3 DEF PlanFits, Ending
<1>5. \A r \in AllSessions : \A q \in todo'[r] :
        q \in todo[r] \/ q = Ending(p.job, p.ends, p.to)
  BY <1>1 DEF TypeInv, TypeOK
<1>6. \A q : PlanFits(q)' <=> PlanFits(q)
  BY <1>2 DEF PlanFits
<1>7. PlansFit'
  BY <1>2, <1>4, <1>5, <1>6 DEF TaskInv, PlansFit
<1> QED
  BY <1>2, <1>7 DEF TaskInv, TasksExist, LocksHold, OneTask

\* An update takes the lock of a row that nobody else holds.
LEMMA WriteKeepsTasks ==
  ASSUME TypeInv, TaskInv, NEW s \in AllSessions, Write(s)
  PROVE  TaskInv'
<1>1. PICK p \in todo[s] :
        /\ p.where # "task"
        /\ \A r \in AllSessions \ {s} : ~Locks(r, p.job)
        /\ Affects(p)
        /\ own' = [own EXCEPT ![s] = @ \cup {p}]
        /\ todo' = [todo EXCEPT ![s] = @ \ {p}]
  BY DEF Write
<1>2. UNCHANGED <<job, task, raced>>
  BY DEF Write, rowVars, historyVars
<1>3. \A r \in AllSessions :
        /\ own'[r] = IF r = s THEN own[s] \cup {p} ELSE own[r]
        /\ todo'[r] \subseteq todo[r]
  BY <1>1 DEF TypeInv, TypeOK
<1>4. \A q : PlanFits(q)' <=> PlanFits(q)
  BY <1>2 DEF PlanFits
<1>5. PlansFit'
  BY <1>1, <1>3, <1>4 DEF TaskInv, PlansFit
<1>6. LocksHold'
  <2>1. p.where = "noTask" => job[p.job].task = 0
    BY <1>1 DEF Affects
  <2>2. \A r \in AllSessions \ {s} : \A q \in own[r] : q.job # p.job
    BY <1>1 DEF Locks
  <2> QED
    BY <1>2, <1>3, <2>1, <2>2 DEF TaskInv, LocksHold
<1> QED
  BY <1>2, <1>5, <1>6 DEF TaskInv, TasksExist, OneTask

\* A commit that replaces only what its session saw leaves a job that runs
\* with its one running task.
LEMMA CommitKeepsOneTask ==
  ASSUME TypeInv, TaskInv, ~raced, NEW s \in AllSessions,
         \A p \in own[s] : ~Overwrites(p), NEW j \in Jobs
  PROVE  /\ View(s)[j].status = "running" <=>
              \E t \in DOMAIN TasksOf(s)[j] : TasksOf(s)[j][t] = "running"
         /\ \A t \in DOMAIN TasksOf(s)[j] :
              TasksOf(s)[j][t] = "running" => t = View(s)[j].task
<1> DEFINE RunsOnce(row, tasks) ==
             /\ row.status = "running" <=>
                  \E t \in DOMAIN tasks : tasks[t] = "running"
             /\ \A t \in DOMAIN tasks : tasks[t] = "running" => t = row.task
<1>1. /\ task[j] \in Seq(TaskStatus) /\ job[j] \in Row
      /\ DOMAIN task[j] = 1 .. Len(task[j]) /\ Len(task[j]) \in Nat
  BY DEF TypeInv, TypeOK, TaskStatus
<1>2. RunsOnce(job[j], task[j])
  BY DEF TaskInv, OneTask
<1>3. ASSUME NEW p \in own[s], p.job = j,
             View(s)[j] = Updated(job[j], task[j], p),
             TasksOf(s)[j] = IF p.id = "new" THEN Append(task[j], "running")
                             ELSE IF p.ends # 0
                                  THEN [task[j] EXCEPT ![p.ends] = p.to]
                                  ELSE task[j]
      PROVE  RunsOnce(View(s)[j], TasksOf(s)[j])
  <2>0. /\ p \in Plan /\ PlanFits(p) /\ p.where # "task" /\ ~Overwrites(p)
        /\ p.where = "noTask" => job[j].task = 0
    BY <1>3 DEF TypeInv, TypeOK, TaskInv, PlansFit, LocksHold
  <2>n. job[j].task = 0 => job[j].status # "running"
    BY <1>1, <1>2
  <2>s. View(s)[j].status = p.to
    BY <1>3 DEF Updated
  <2>1. CASE p.id = "new"
    <3>1. job[j].status # "running"
      BY <2>0, <2>1, <2>n DEF PlanFits
    <3>2. \A t \in DOMAIN task[j] : task[j][t] # "running"
      BY <1>2, <3>1
    <3>3. View(s)[j].status = "running" /\ View(s)[j].task = Len(task[j]) + 1
      BY <1>3, <2>0, <2>1 DEF Updated, PlanFits
    <3>4. TasksOf(s)[j] = Append(task[j], "running")
      BY <1>3, <2>1
    <3>5. /\ DOMAIN Append(task[j], "running") = 1 .. Len(task[j]) + 1
          /\ Append(task[j], "running")[Len(task[j]) + 1] = "running"
          /\ \A t \in 1 .. Len(task[j]) :
               Append(task[j], "running")[t] = task[j][t]
      BY <1>1 DEF TaskStatus
    <3>6. \A t \in 1 .. Len(task[j]) + 1 :
            t \in 1 .. Len(task[j]) \/ t = Len(task[j]) + 1
      BY <1>1
    <3> QED
      BY <1>1, <3>2, <3>3, <3>4, <3>5, <3>6
  <2>2. CASE p.id # "new" /\ p.ends # 0
    <3>1. /\ p.id = "keep" /\ p.to # "running" /\ p.ends \in DOMAIN task[j]
          /\ task[j][p.ends] = "running"
      BY <1>3, <2>0, <2>2 DEF PlanFits, Overwrites
    <3>2. TasksOf(s)[j] = [task[j] EXCEPT ![p.ends] = p.to]
      BY <1>3, <2>2
    <3>3. \A t \in DOMAIN TasksOf(s)[j] : TasksOf(s)[j][t] # "running"
      BY <1>2, <3>1, <3>2
    <3> QED
      BY <2>s, <3>1, <3>3
  <2>3. CASE p.id # "new" /\ p.ends = 0
    <3>1. p.to # "running" /\ (p.seen # "running" \/ p.where = "noTask")
      BY <2>0, <2>3 DEF PlanFits
    <3>2. job[j].status = p.seen
      BY <1>3, <2>0, <2>3 DEF Overwrites
    <3>3. job[j].status # "running"
      BY <2>0, <2>n, <3>1, <3>2
    <3> QED
      BY <1>2, <1>3, <2>3, <2>s, <3>1, <3>3
  <2> QED
    BY <2>1, <2>2, <2>3
<1> QED
  BY <1>2, <1>3, ViewCases

\* A commit keeps all of it.
LEMMA CommitKeepsTasks ==
  ASSUME TypeInv, TaskInv, NEW s \in AllSessions, Publish(s)
  PROVE  TaskInv'
<1>1. /\ job' = View(s) /\ task' = TasksOf(s) /\ todo' = todo
      /\ own' = [own EXCEPT ![s] = {}]
      /\ raced' = (raced \/ \E p \in own[s] : Overwrites(p))
  BY DEF Publish
<1>2. \A r \in AllSessions : own'[r] = IF r = s THEN {} ELSE own[r]
  BY <1>1 DEF TypeInv, TypeOK
<1>3. /\ TasksExist'
      /\ \A j \in Jobs : DOMAIN task[j] \subseteq DOMAIN task'[j]
  BY <1>1, TasksGrow DEF TasksExist
<1>4. PlansFit'
  <2>1. \A p \in Plan : PlanFits(p) => PlanFits(p)'
    BY <1>3 DEF PlanFits, Plan
  <2>2. \A r \in AllSessions : \A p \in todo'[r] \cup own'[r] :
          p \in Plan /\ p \in todo[r] \cup own[r]
    BY <1>1, <1>2 DEF TypeInv, TypeOK
  <2> QED
    BY <1>2, <2>1, <2>2 DEF TaskInv, PlansFit
<1>5. LocksHold'
  <2>1. ASSUME NEW r \in AllSessions, NEW p \in own'[r], p.where = "noTask"
        PROVE  job'[p.job].task = 0
    <3>1. r # s /\ p \in own[r] /\ p.job \in Jobs
      BY <1>2 DEF TypeInv, TypeOK, Plan
    <3>2. \A q \in own[s] : q.job # p.job
      BY <3>1 DEF TaskInv, LocksHold
    <3>3. job'[p.job] = job[p.job]
      BY <1>1, <3>1, <3>2, ViewCases
    <3> QED
      BY <2>1, <3>1, <3>3 DEF TaskInv, LocksHold
  <2> QED
    BY <1>2, <2>1 DEF TaskInv, LocksHold
<1>6. OneTask'
  BY <1>1, CommitKeepsOneTask DEF OneTask
<1> QED
  BY <1>3, <1>4, <1>5, <1>6 DEF TaskInv

\* Whatever a request or a cron task has read, its updates fit.
LEMMA RequestKeepsTasks ==
  ASSUME TypeInv, TaskInv, NEW s \in Sessions, Request(s)
  PROVE  TaskInv'
<1> USE DEF AllSessions
<1>0. /\ job \in [Jobs -> Row] /\ task \in [Jobs -> Seq(TaskStatus)]
      /\ \A j \in Jobs : DOMAIN task[j] = 1 .. Len(task[j])
      /\ \A j \in Jobs : Len(task[j]) \in Nat /\ job[j].task <= Len(task[j])
  BY DEF TypeInv, TypeOK, TaskStatus, TaskInv, TasksExist
<1>u. StartUnchanged => UNCHANGED <<job, task, own, raced>>
  BY DEF StartUnchanged, rowVars, historyVars
<1>1. CASE Pick(s)
  <2>1. PICK j \in Jobs :
          Start(s, "pick",
                {[job |-> j, to |-> "running", id |-> "new",
                  where |-> "noTask", ends |-> 0, seen |-> "waiting"]})
    BY <1>1 DEF Pick
  <2>2. PlanFits([job |-> j, to |-> "running", id |-> "new",
                  where |-> "noTask", ends |-> 0, seen |-> "waiting"])
    BY DEF PlanFits
  <2> QED
    BY <1>1, <1>u, <2>1, <2>2, StartKeepsTasks DEF Pick
<1>2. CASE Report(s)
  <2>1. PICK j \in Jobs : \E t \in DOMAIN task[j], result \in Results :
          Start(s, "report", {Ending(j, t, result)})
    BY <1>2 DEF Report
  <2>2. PICK t \in DOMAIN task[j], result \in Results :
          Start(s, "report", {Ending(j, t, result)})
    BY <2>1
  <2>3. t # 0 /\ result # "running"
    BY <1>0, ConstantsAssumption DEF DoneStatus
  <2>4. PlanFits(Ending(j, t, result))
    BY <2>3 DEF PlanFits, Ending
  <2> QED
    BY <1>2, <1>u, <2>2, <2>4, StartKeepsTasks DEF Report
<1>3. CASE Cancel(s)
  <2> DEFINE open == {j \in Jobs : job[j].status \notin DoneStatus}
             plans == {Cancelling(j) : j \in open}
  <2>1. Start(s, "cancel", plans) /\ StartUnchanged
    BY <1>3 DEF Cancel
  <2>2. \A j \in Jobs : PlanFits(Cancelling(j))
    BY <1>0 DEF Cancelling, PlanFits, Row
  <2>3. \A p \in plans : PlanFits(p)
    BY <2>2
  <2> HIDE DEF plans
  <2> QED
    BY <1>u, <2>1, <2>3, StartKeepsTasks
<1>4. CASE Stop(s)
  <2> DEFINE running == {r \in Jobs \X (1 .. MaxTasks) :
                           /\ r[2] \in DOMAIN task[r[1]]
                           /\ task[r[1]][r[2]] = "running"}
             plan(r) == [job |-> r[1], to |-> "failure", id |-> "keep",
                         where |-> "task", ends |-> r[2], seen |-> "running"]
             plans == {plan(r) : r \in running}
  <2>1. Start(s, "stop", plans) /\ StartUnchanged
    BY <1>4 DEF Stop
  <2>2. \A r \in running : PlanFits(plan(r))
    BY ConstantsAssumption DEF PlanFits
  <2> HIDE DEF plan, running
  <2>3. \A p \in plans : PlanFits(p)
    BY <2>2
  <2> HIDE DEF plans
  <2> QED
    BY <1>u, <2>1, <2>3, StartKeepsTasks
<1>5. CASE Abandon(s)
  <2> DEFINE plan(j) == [job |-> j, to |-> "cancelled", id |-> "keep",
                         where |-> "any", ends |-> 0, seen |-> job[j].status]
  <2>1. PICK A \in SUBSET {j \in Jobs : job[j].status \in {"waiting", "blocked"}} :
          Start(s, "abandon", {plan(j) : j \in A})
    BY <1>5 DEF Abandon
  <2>2. \A j \in A : PlanFits(plan(j))
    BY DEF PlanFits
  <2> DEFINE plans == {plan(j) : j \in A}
  <2> HIDE DEF plan
  <2>3. \A p \in plans : PlanFits(p)
    BY <2>2
  <2>4. Start(s, "abandon", plans) /\ StartUnchanged
    BY <1>5, <2>1 DEF Abandon
  <2> HIDE DEF plans
  <2> QED
    BY <1>u, <2>3, <2>4, StartKeepsTasks
<1>6. CASE Rerun(s)
  <2> DEFINE plan(j, R) ==
        [job |-> j, id |-> "zero", where |-> "same", ends |-> 0,
         to |-> IF Needs[j] \cap R # {} THEN "blocked" ELSE "waiting",
         seen |-> job[j].status]
  <2>1. PICK R : Start(s, "reset",
                  {plan(j, R) : j \in {i \in Jobs : /\ i \in R
                                         /\ job[i].status \in DoneStatus}})
    BY <1>6 DEF Rerun
  <2>2. \A j \in Jobs : job[j].status \in DoneStatus => PlanFits(plan(j, R))
    BY DEF PlanFits, DoneStatus
  <2> DEFINE done == {i \in Jobs : i \in R /\ job[i].status \in DoneStatus}
             plans == {plan(j, R) : j \in done}
  <2>3. \A j \in done : PlanFits(plan(j, R))
    BY <2>2
  <2> HIDE DEF plan
  <2>4. \A p \in plans : PlanFits(p)
    BY <2>3
  <2>5. Start(s, "reset", plans)
    BY <2>1
  <2>6. UNCHANGED <<job, task, own, raced>>
    BY <1>6 DEF Rerun, rowVars, historyVars
  <2> HIDE DEF plans
  <2> QED
    BY <2>4, <2>5, <2>6, StartKeepsTasks
<1> QED
  BY <1>1, <1>2, <1>3, <1>4, <1>5, <1>6 DEF Request

\* What the emitter means to update fits, and it evaluates nothing else.
LEMMA CheckKeepsTasks ==
  ASSUME TypeInv, TaskInv, NEW e \in Emitters, Check(e) \/ EmitterStep(e)
  PROVE  TaskInv'
<1>0. e \in AllSessions
  BY DEF AllSessions
<1>1. UNCHANGED <<job, task, own, raced>>
  BY DEF Check, EmitterStep, Evaluate, Evaluated, GiveUp, rowVars, historyVars
<1>2. CASE Check(e) /\ Resolvable # {}
  <2>1. Start(e, "evaluate", Resolvable)
    BY <1>2 DEF Check
  <2>2. \A p \in Resolvable : PlanFits(p)
    BY ResolvablePlans DEF PlanFits
  <2> QED
    BY <1>0, <1>1, <2>1, <2>2, StartKeepsTasks
<1>3. CASE ~(Check(e) /\ Resolvable # {})
  <2>1. \A r \in AllSessions : todo'[r] \subseteq todo[r]
    BY <1>3 DEF Check, EmitterStep, Evaluate, Evaluated, GiveUp, TypeInv, TypeOK
  <2> QED
    BY <1>1, <2>1, ShrinkKeepsTasks
<1> QED
  BY <1>2, <1>3

\* Every step keeps the tasks of a job and its row in agreement.
LEMMA StepKeepsTasks == TypeInv /\ TaskInv /\ [Next]_vars => TaskInv'
<1> SUFFICES ASSUME TypeInv, TaskInv, [Next]_vars
             PROVE  TaskInv'
  OBVIOUS
<1>1. ASSUME NEW s \in Sessions, Request(s)
      PROVE  TaskInv'
  BY <1>1, RequestKeepsTasks
<1>f. ASSUME NEW s \in AllSessions, Fail(s) \/ Swallow(s)
      PROVE  TaskInv'
  BY <1>f, ShrinkKeepsTasks DEF Fail, Swallow, RollBack, rowVars, TypeInv, TypeOK
<1>2. ASSUME NEW s \in AllSessions, Continue(s) \/ Victim(s)
      PROVE  TaskInv'
  <2>1. CASE Examine(s)
    BY <2>1, ExamineKeepsTasks
  <2>2. CASE Write(s)
    BY <2>2, WriteKeepsTasks
  <2>3. CASE Miss(s) /\ ~Fail(s)
    BY <2>3, ShrinkKeepsTasks
       DEF Miss, rowVars, historyVars, TypeInv, TypeOK
  <2>4. CASE Fail(s) \/ Stale(s) \/ Victim(s)
    BY <1>f, <2>4 DEF Stale, Victim
  <2>5. CASE Load(s)
    BY <2>5, ShrinkKeepsTasks DEF Load, rowVars, historyVars
  <2>6. CASE Commit(s)
    BY <2>6, CommitKeepsTasks DEF Commit
  <2>7. CASE Reset(s)
    BY <2>7, ShrinkKeepsTasks DEF Reset, TypeInv, TypeOK
  <2>8. CASE Finish(s)
    BY <2>8, ShrinkKeepsTasks DEF Finish, rowVars, historyVars
  <2> QED
    BY <1>2, <2>1, <2>2, <2>3, <2>4, <2>5, <2>6, <2>7, <2>8 DEF Continue
<1>3. CASE ReportLate \/ UNCHANGED vars
  BY <1>3, ShrinkKeepsTasks
     DEF ReportLate, vars, rowVars, sessionVars, historyVars
<1>4. ASSUME NEW e \in Emitters, Check(e) \/ EmitterStep(e)
      PROVE  TaskInv'
  BY <1>4, CheckKeepsTasks
<1>5. CASE Approve
  <2>1. UNCHANGED <<task, own, todo>> /\ raced'
    BY <1>5 DEF Approve
  <2>2. \A j \in Jobs : job'[j].task = job[j].task
    BY <1>5 DEF Approve, TypeInv, TypeOK, Row
  <2>3. \A p : PlanFits(p)' <=> PlanFits(p)
    BY <2>1 DEF PlanFits
  <2>4. LocksHold'
    BY <1>5, <2>1 DEF Approve, HoldsRows, LocksHold
  <2> QED
    BY <2>1, <2>2, <2>3, <2>4 DEF TaskInv, PlansFit, TasksExist, OneTask
<1>6. CASE Crash
  BY <1>6, ShrinkKeepsTasks DEF Crash, rowVars
<1> QED
  BY <1>1, <1>2, <1>3, <1>4, <1>5, <1>6 DEF Next

\* There are no tasks at first.
LEMMA InitTasks == Init => TaskInv
BY DEF Init, TaskInv, PlansFit, TasksExist, LocksHold, OneTask

\* The rows and tasks agree in every reachable state.
LEMMA TasksAgree == Spec => []TaskInv
<1>1. Init => TaskInv
  BY InitTasks
<1>2. Init => TypeInv
  BY InitType
<1>3. TypeInv /\ TaskInv /\ [Next]_vars => (TypeInv /\ TaskInv)'
  BY StepType, StepKeepsTasks
<1> QED
  BY <1>1, <1>2, <1>3, PTL DEF Spec

(* As long as no update replaces a status that its session had not seen, a *)
(* job runs exactly when one task of it does, the one that it refers to:   *)
(* however runners, users, cron tasks and the emitter interleave, the      *)
(* condition of CreateTaskForRunner and the locks leave a job one task.    *)
THEOREM OneTaskAlways == Spec => []OneTask
<1>1. TaskInv => OneTask
  BY DEF TaskInv
<1> QED
  BY TasksAgree, <1>1, PTL

-----------------------------------------------------------------------------
(* Steps that change no job and keep or give up what a session means to    *)
(* do; of the emitter's updates all or none.                               *)
LEMMA QuietKeepsOrder ==
  ASSUME StartInv, UNCHANGED <<job, raced, reruns>>,
         \A r \in AllSessions :
           /\ \/ op'[r] \in {op[r], "idle"}
              \/ op[r] \in Checking /\ op'[r] \in Checking
           /\ todo'[r] \cup own'[r] \subseteq todo[r] \cup own[r]
           /\ op'[r] \in Checking =>
                /\ todo'[r] \cup own'[r] \in {{}, todo[r] \cup own[r]}
                /\ agg'[r] # "none" => todo'[r] = {}
  PROVE  StartInv'
<1>1. OpsFit'
  BY DEF StartInv, OpsFit, Checking
<1>2. ChecksFit'
  <2> SUFFICES ASSUME ~raced, ~(reruns > 0), NEW s \in AllSessions,
                      NEW p \in todo'[s] \cup own'[s], op'[s] \in Checking,
                      p.to = "waiting", NEW n \in Needs[p.job]
               PROVE  \/ Allows(n, p.job)'
                      \/ /\ p.job \in IfJobs
                         /\ \E q \in todo'[s] \cup own'[s] :
                              q.job = n /\ q.to = "skipped"
    BY DEF ChecksFit
  <2>1. op[s] \in Checking /\ todo'[s] \cup own'[s] = todo[s] \cup own[s]
    BY DEF Checking
  <2>2. Allows(n, p.job)' <=> Allows(n, p.job)
    BY DEF Allows
  <2> QED
    BY <2>1, <2>2 DEF StartInv, ChecksFit
<1>3. StartsAfterNeeds'
  BY DEF StartInv, StartsAfterNeeds
<1> QED
  BY <1>1, <1>2, <1>3 DEF StartInv

(* What a session that starts an operation may mean to do. *)
PlansInOrder(o, plans) ==
  /\ o \notin {"idle", "rerun"}
  /\ o \in Checking =>
       /\ \A p, q \in plans : p.job = q.job => p = q
       /\ \A p \in plans :
            /\ p.to \in {"waiting", "skipped"} /\ p.seen = "blocked"
            /\ p.where = "same" /\ p.id = "keep"
            /\ p.to = "waiting" => \A n \in Needs[p.job] :
                 \/ Allows(n, p.job)
                 \/ /\ p.job \in IfJobs
                    /\ \E q \in plans : q.job = n /\ q.to = "skipped"
  /\ o \notin {"reset"} \cup Checking =>
       \A p \in plans :
         p.seen \notin DoneStatus /\ (p.id = "new" \/ p.to \in DoneStatus)

\* An operation starts with such updates.
LEMMA StartKeepsOrder ==
  ASSUME TypeInv, RunInv, StartInv, NEW s \in AllSessions, NEW o, NEW plans,
         Start(s, o, plans), PlansInOrder(o, plans),
         UNCHANGED <<job, own, agg, raced, reruns>>
  PROVE  StartInv'
<1>1. \A r \in AllSessions :
        /\ todo'[r] = IF r = s THEN plans ELSE todo[r]
        /\ op'[r] = IF r = s THEN o ELSE op[r]
  BY DEF Start, TypeInv, TypeOK
<1>2. own[s] = {} /\ agg[s] = "none"
  BY DEF Start, RunInv, QuietInv
<1>3. \A n, j : Allows(n, j)' <=> Allows(n, j)
  BY DEF Allows
<1>4. OpsFit'
  BY <1>1, <1>2 DEF StartInv, OpsFit, PlansInOrder
<1>5. ChecksFit'
  <2> SUFFICES ASSUME ~raced, ~(reruns > 0), NEW r \in AllSessions,
                      NEW p \in todo'[r] \cup own[r], op'[r] \in Checking,
                      p.to = "waiting", NEW n \in Needs[p.job]
               PROVE  \/ Allows(n, p.job)
                      \/ /\ p.job \in IfJobs
                         /\ \E q \in todo'[r] \cup own[r] :
                              q.job = n /\ q.to = "skipped"
    BY <1>3 DEF ChecksFit
  <2>1. CASE r = s
    <3>1. p \in plans /\ o \in Checking /\ todo'[r] = plans
      BY <1>1, <1>2, <2>1
    <3> QED
      BY <3>1 DEF PlansInOrder
  <2>2. CASE r # s
    BY <1>1, <2>2 DEF StartInv, ChecksFit
  <2> QED
    BY <2>1, <2>2
<1>6. StartsAfterNeeds'
  BY DEF StartInv, StartsAfterNeeds
<1> QED
  BY <1>4, <1>5, <1>6 DEF StartInv

\* Requests and cron tasks mean to update what they may.
LEMMA RequestKeepsOrder ==
  ASSUME TypeInv, RunInv, StartInv, NEW s \in Sessions, Request(s)
  PROVE  StartInv'
<1> USE DEF AllSessions
<1>u. StartUnchanged => UNCHANGED <<job, own, agg, raced, reruns>>
  BY DEF StartUnchanged, rowVars, historyVars
<1>1. CASE Pick(s)
  <2>1. PICK j \in Jobs :
          Start(s, "pick",
                {[job |-> j, to |-> "running", id |-> "new",
                  where |-> "noTask", ends |-> 0, seen |-> "waiting"]})
    BY <1>1 DEF Pick
  <2>2. PlansInOrder("pick",
          {[job |-> j, to |-> "running", id |-> "new",
            where |-> "noTask", ends |-> 0, seen |-> "waiting"]})
    BY DEF Checking, PlansInOrder, DoneStatus
  <2> QED
    BY <1>1, <1>u, <2>1, <2>2, StartKeepsOrder DEF Pick
<1>2. CASE Report(s)
  <2>1. PICK j \in Jobs : \E t \in DOMAIN task[j], result \in Results :
          Start(s, "report", {Ending(j, t, result)})
    BY <1>2 DEF Report
  <2>2. PICK t \in DOMAIN task[j], result \in Results :
          Start(s, "report", {Ending(j, t, result)})
    BY <2>1
  <2>3. result \in DoneStatus
    BY ConstantsAssumption
  <2>4. PlansInOrder("report", {Ending(j, t, result)})
    BY <2>3 DEF Checking, PlansInOrder, Ending, DoneStatus
  <2> QED
    BY <1>2, <1>u, <2>2, <2>4, StartKeepsOrder DEF Report
<1>3. CASE Cancel(s)
  <2> DEFINE open == {j \in Jobs : job[j].status \notin DoneStatus}
             plans == {Cancelling(j) : j \in open}
  <2>1. Start(s, "cancel", plans) /\ StartUnchanged
    BY <1>3 DEF Cancel
  <2>2. \A j \in open : /\ Cancelling(j).seen \notin DoneStatus
                        /\ Cancelling(j).to \in DoneStatus
    BY DEF Cancelling, DoneStatus
  <2>3. \A p \in plans : p.seen \notin DoneStatus /\ p.to \in DoneStatus
    BY <2>2
  <2> HIDE DEF plans
  <2>4. PlansInOrder("cancel", plans)
    BY <2>3 DEF Checking, PlansInOrder
  <2> QED
    BY <1>u, <2>1, <2>4, StartKeepsOrder
<1>4. CASE Stop(s)
  <2> DEFINE running == {r \in Jobs \X (1 .. MaxTasks) :
                           /\ r[2] \in DOMAIN task[r[1]]
                           /\ task[r[1]][r[2]] = "running"}
             plan(r) == [job |-> r[1], to |-> "failure", id |-> "keep",
                         where |-> "task", ends |-> r[2], seen |-> "running"]
             plans == {plan(r) : r \in running}
  <2>1. Start(s, "stop", plans) /\ StartUnchanged
    BY <1>4 DEF Stop
  <2>2. \A p \in plans : p.seen \notin DoneStatus /\ p.to \in DoneStatus
    BY DEF DoneStatus
  <2> HIDE DEF plans
  <2>3. PlansInOrder("stop", plans)
    BY <2>2 DEF Checking, PlansInOrder
  <2> QED
    BY <1>u, <2>1, <2>3, StartKeepsOrder
<1>5. CASE Abandon(s)
  <2> DEFINE plan(j) == [job |-> j, to |-> "cancelled", id |-> "keep",
                         where |-> "any", ends |-> 0, seen |-> job[j].status]
  <2>1. PICK A \in SUBSET {j \in Jobs : job[j].status \in {"waiting", "blocked"}} :
          Start(s, "abandon", {plan(j) : j \in A})
    BY <1>5 DEF Abandon
  <2> DEFINE plans == {plan(j) : j \in A}
  <2>2. \A p \in plans : p.seen \notin DoneStatus /\ p.to \in DoneStatus
    BY DEF DoneStatus
  <2>3. Start(s, "abandon", plans) /\ StartUnchanged
    BY <1>5, <2>1 DEF Abandon
  <2> HIDE DEF plans
  <2>4. PlansInOrder("abandon", plans)
    BY <2>2 DEF Checking, PlansInOrder
  <2> QED
    BY <1>u, <2>3, <2>4, StartKeepsOrder
<1>6. CASE Rerun(s)
  <2>1. PICK plans : Start(s, "reset", plans)
    BY <1>6 DEF Rerun
  <2>2. UNCHANGED <<job, own, agg, raced, reruns>>
    BY <1>6 DEF Rerun, rowVars, historyVars
  <2>3. PlansInOrder("reset", plans)
    BY DEF Checking, PlansInOrder
  <2> QED
    BY <2>1, <2>2, <2>3, StartKeepsOrder
<1> QED
  BY <1>1, <1>2, <1>3, <1>4, <1>5, <1>6 DEF Request

\* The emitter starts only what its needs allow.
LEMMA CheckKeepsOrder ==
  ASSUME TypeInv, RunInv, StartInv, NEW e \in Emitters, Check(e),
         Resolvable # {}
  PROVE  StartInv'
<1> DEFINE status == [j \in Jobs |-> job[j].status]
           after == Resolve(status)
           plan(j) == [job |-> j, to |-> after[j], id |-> "keep",
                       where |-> "same", ends |-> 0, seen |-> "blocked"]
           found == {i \in Jobs : /\ status[i] = "blocked"
                                  /\ after[i] \in {"waiting", "skipped"}}
           plans == {plan(j) : j \in found}
<1>1. /\ Start(e, "evaluate", plans) /\ e \in AllSessions
      /\ UNCHANGED <<job, own, agg, raced, reruns>>
  BY DEF Check, Resolvable, rowVars, AllSessions
<1>2. status \in [Jobs -> Status] /\ Needs \in [Jobs -> SUBSET Jobs]
  BY ConstantsAssumption DEF TypeInv, TypeOK, Row
<1> HIDE DEF after
<1>3. Resolved(status, after)
  <2> HIDE DEF status
  <2> QED
    BY <1>2, ResolveIsSound DEF after
<1>4. ASSUME NEW j \in found, after[j] = "waiting", NEW n \in Needs[j]
      PROVE  \/ Allows(n, j)
             \/ j \in IfJobs /\ n \in found /\ after[n] = "skipped"
  <2>1. n \in Jobs /\ j \in Jobs
    BY <1>2
  <2>2. after[n] = "success" \/ (j \in IfJobs /\ after[n] \in DoneStatus)
    BY <1>3, <1>4, <2>1 DEF Resolved
  <2>3. \/ after[n] = status[n]
        \/ status[n] = "blocked" /\ after[n] \in {"waiting", "skipped"}
    BY <1>3, <2>1 DEF Resolved
  <2>4. status[n] = job[n].status
    BY <2>1
  <2> QED
    BY <2>1, <2>2, <2>3, <2>4 DEF Allows, DoneStatus
<1>5. PlansInOrder("evaluate", plans)
  <2>1. ASSUME NEW p \in plans, NEW q \in plans, p.job = q.job
        PROVE  p = q
    <3>1. PICK j \in found : p = plan(j)
      OBVIOUS
    <3>2. PICK k \in found : q = plan(k)
      OBVIOUS
    <3>3. p.job = j /\ q.job = k
      BY <3>1, <3>2
    <3> QED
      BY <2>1, <3>1, <3>2, <3>3
  <2>2. ASSUME NEW p \in plans
        PROVE  /\ p.to \in {"waiting", "skipped"} /\ p.seen = "blocked"
               /\ p.where = "same" /\ p.id = "keep"
               /\ p.to = "waiting" => \A n \in Needs[p.job] :
                    \/ Allows(n, p.job)
                    \/ /\ p.job \in IfJobs
                       /\ \E q \in plans : q.job = n /\ q.to = "skipped"
    <3>1. PICK j \in found : p = plan(j)
      OBVIOUS
    <3>2. p.job = j /\ p.to = after[j]
      BY <3>1
    <3>3. \A n \in found : plan(n) \in plans /\ plan(n).job = n
                           /\ plan(n).to = after[n]
      OBVIOUS
    <3>4. ASSUME p.to = "waiting", NEW n \in Needs[p.job]
          PROVE  \/ Allows(n, p.job)
                 \/ /\ p.job \in IfJobs
                    /\ \E q \in plans : q.job = n /\ q.to = "skipped"
      <4> HIDE DEF found, plan, plans
      <4>1. after[j] = "waiting" /\ n \in Needs[j]
        BY <3>2, <3>4
      <4>2. \/ Allows(n, j)
            \/ j \in IfJobs /\ n \in found /\ after[n] = "skipped"
        BY <1>4, <3>1, <4>1
      <4>3. CASE Allows(n, j)
        BY <3>2, <4>3
      <4>4. CASE j \in IfJobs /\ n \in found /\ after[n] = "skipped"
        BY <3>2, <3>3, <4>4
      <4> QED
        BY <4>2, <4>3, <4>4
    <3> QED
      BY <3>1, <3>4
  <2> HIDE DEF plans
  <2> QED
    BY <2>1, <2>2 DEF PlansInOrder, Checking
<1> HIDE DEF plans
<1> QED
  BY <1>1, <1>5, StartKeepsOrder

\* The update that ends an examined task finishes a job that ran.
LEMMA ExamineKeepsOrder ==
  ASSUME TypeInv, TaskInv, StartInv, NEW s \in AllSessions, Examine(s)
  PROVE  StartInv'
<1>1. PICK p \in todo[s] :
        /\ todo' = [todo EXCEPT ![s] =
                      (@ \ {p}) \cup
                      (IF task[p.job][p.ends] \in DoneStatus THEN {}
                       ELSE {Ending(p.job, p.ends, p.to)})]
        /\ p.where = "task"
  BY DEF Examine
<1>2. UNCHANGED <<job, op, own, agg, raced, reruns>>
  BY DEF Examine, rowVars, historyVars
<1>3. \A r \in AllSessions :
        /\ r # s => todo'[r] = todo[r]
        /\ \A q \in todo'[r] : q \in todo[r] \/ q = Ending(p.job, p.ends, p.to)
  BY <1>1 DEF TypeInv, TypeOK
<1>4. op[s] \notin Checking /\ p.id # "new"
  BY <1>1 DEF StartInv, OpsFit, TaskInv, PlansFit, PlanFits
<1>5. Ending(p.job, p.ends, p.to).seen = "running"
      /\ Ending(p.job, p.ends, p.to).to = p.to
  BY DEF Ending
<1>6. OpsFit'
  <2>1. op[s] \notin {"idle", "reset", "rerun"} \cup Checking => p.to \in DoneStatus
    BY <1>4 DEF StartInv, OpsFit
  <2> QED
    BY <1>2, <1>3, <1>4, <1>5, <2>1 DEF StartInv, OpsFit, DoneStatus
<1>7. ChecksFit'
  <2>1. \A n, j : Allows(n, j)' <=> Allows(n, j)
    BY <1>2 DEF Allows
  <2>2. \A r \in AllSessions : op'[r] \in Checking =>
          op[r] \in Checking /\ todo'[r] = todo[r] /\ own'[r] = own[r]
    BY <1>2, <1>3, <1>4
  <2> QED
    BY <1>2, <2>1, <2>2 DEF StartInv, ChecksFit
<1>8. StartsAfterNeeds'
  BY <1>2 DEF StartInv, StartsAfterNeeds
<1> QED
  BY <1>6, <1>7, <1>8 DEF StartInv

\* The status a session sees is the committed one, or one it has set.
LEMMA ViewStatus ==
  ASSUME NEW s \in AllSessions, NEW j \in Jobs
  PROVE  \/ /\ View(s)[j].status = job[j].status
            /\ \A p \in own[s] : p.job # j
         \/ \E p \in own[s] : p.job = j /\ View(s)[j].status = p.to
<1>1. CASE \E p \in own[s] : p.job = j
  <2>1. PICK p \in own[s] :
          p.job = j /\ View(s)[j] = Updated(job[j], task[j], p)
    BY <1>1, ViewCases
  <2>2. Updated(job[j], task[j], p).status = p.to
    BY DEF Updated
  <2> QED
    BY <2>1, <2>2
<1>2. CASE \A p \in own[s] : p.job # j
  BY <1>2, ViewCases
<1> QED
  BY <1>1, <1>2

\* A commit before any rerun, of updates that replace only what was seen,
\* leaves done jobs alone.
LEMMA DoneIsKept ==
  ASSUME TypeInv, RunInv, StartInv, ~(reruns > 0), NEW s \in AllSessions,
         \A p \in own[s] : ~Overwrites(p),
         NEW n \in Jobs, job[n].status \in DoneStatus
  PROVE  View(s)[n].status = job[n].status
<1>1. ASSUME NEW p \in own[s], p.job = n
      PROVE  FALSE
  <2>1. op[s] \notin {"idle", "reset", "rerun"}
    BY <1>1 DEF RunInv, QuietInv, StartInv, OpsFit
  <2>2. p.seen \notin DoneStatus
    BY <2>1 DEF StartInv, OpsFit, DoneStatus
  <2> QED
    BY <1>1, <2>2 DEF Overwrites, DoneStatus
<1> QED
  BY <1>1, ViewCases

\* Such a commit starts a job only if its needs allow it.
LEMMA CommitStartsInOrder ==
  ASSUME TypeInv, RunInv, TaskInv, StartInv, ~raced, ~(reruns > 0),
         NEW s \in AllSessions, agg[s] # "none",
         \A p \in own[s] : ~Overwrites(p),
         NEW j \in Jobs, View(s)[j].status \in {"waiting", "running"},
         NEW n \in Needs[j]
  PROVE  \/ View(s)[n].status = "success"
         \/ j \in IfJobs /\ View(s)[n].status \in DoneStatus
<1>0. n \in Jobs
  BY ConstantsAssumption
<1>1. CASE Allows(n, j)
  BY <1>0, <1>1, DoneIsKept DEF Allows, DoneStatus
<1>2. CASE job[j].status \in {"waiting", "running"}
  BY <1>1, <1>2 DEF StartInv, StartsAfterNeeds, Allows
<1>3. CASE job[j].status \notin {"waiting", "running"} /\ ~Allows(n, j)
  <2>1. PICK p \in own[s] : p.job = j /\ View(s)[j].status = p.to
    BY <1>3, ViewStatus
  <2>2. op[s] \notin {"idle", "reset", "rerun"}
    BY <2>1 DEF RunInv, QuietInv, StartInv, OpsFit
  <2>3. job[j].status = p.seen
    BY <1>3, <2>1 DEF Overwrites
  <2>4. p.to \notin DoneStatus
    BY <2>1 DEF DoneStatus
  <2>5. op[s] \in Checking
    <3>1. SUFFICES ASSUME op[s] \notin Checking
                   PROVE  FALSE
      OBVIOUS
    <3>2. p.id = "new"
      BY <2>2, <2>4, <3>1 DEF StartInv, OpsFit
    <3>3. p.seen = "waiting"
      BY <3>2 DEF TaskInv, PlansFit, PlanFits
    <3> QED
      BY <1>3, <2>3, <3>3
  <2>6. p.to = "waiting" /\ todo[s] = {}
    BY <2>1, <2>5 DEF StartInv, OpsFit
  <2>7. PICK q \in own[s] : j \in IfJobs /\ q.job = n /\ q.to = "skipped"
    BY <1>3, <2>1, <2>5, <2>6 DEF StartInv, ChecksFit
  <2>8. PICK r \in own[s] : r.job = n /\ View(s)[n].status = r.to
    BY <1>0, <2>7, ViewStatus
  <2>9. r = q
    BY <2>5, <2>7, <2>8 DEF StartInv, OpsFit
  <2> QED
    BY <2>7, <2>8, <2>9 DEF DoneStatus
<1> QED
  BY <1>1, <1>2, <1>3

\* A commit publishes only what the needs of the jobs allow.
LEMMA CommitKeepsOrder ==
  ASSUME TypeInv, RunInv, TaskInv, StartInv, NEW s \in AllSessions, Commit(s)
  PROVE  StartInv'
<1>1. /\ agg[s] # "none" /\ job' = View(s)
      /\ raced' = (raced \/ \E p \in own[s] : Overwrites(p))
      /\ UNCHANGED <<op, todo, reruns>>
  BY DEF Commit, Publish
<1>2. \A r \in AllSessions :
        /\ own'[r] = IF r = s THEN {} ELSE own[r]
        /\ agg'[r] = IF r = s THEN "none" ELSE agg[r]
  BY DEF Commit, Publish, TypeInv, TypeOK
<1>3. OpsFit'
  <2> SUFFICES ASSUME NEW r \in AllSessions
               PROVE  /\ op'[r] = "rerun" => reruns' > 0
                      /\ op'[r] \in Checking =>
                           /\ \A p, q \in todo'[r] \cup own'[r] :
                                p.job = q.job => p = q
                           /\ \A p \in todo'[r] \cup own'[r] :
                                /\ p.to \in {"waiting", "skipped"}
                                /\ p.seen = "blocked"
                                /\ p.where = "same" /\ p.id = "keep"
                           /\ agg'[r] # "none" => todo'[r] = {}
                      /\ op'[r] \notin {"idle", "reset", "rerun"} \cup Checking =>
                           \A p \in todo'[r] \cup own'[r] :
                             /\ p.seen \notin DoneStatus
                             /\ p.id = "new" \/ p.to \in DoneStatus
    BY DEF OpsFit
  <2>1. /\ own'[r] \subseteq own[r] /\ (agg'[r] # "none" => agg[r] # "none")
        /\ op'[r] = op[r] /\ todo'[r] = todo[r] /\ reruns' = reruns
    BY <1>1, <1>2
  <2> QED
    BY <2>1 DEF StartInv, OpsFit
<1>4. ASSUME ~raced', ~(reruns' > 0)
      PROVE  /\ ~raced /\ ~(reruns > 0)
             /\ \A p \in own[s] : ~Overwrites(p)
  BY <1>1, <1>4
<1>5. ChecksFit'
  <2> SUFFICES ASSUME ~raced', ~(reruns' > 0), NEW r \in AllSessions,
                      NEW p \in todo'[r] \cup own'[r], op'[r] \in Checking,
                      p.to = "waiting", NEW n \in Needs[p.job]
               PROVE  \/ Allows(n, p.job)'
                      \/ /\ p.job \in IfJobs
                         /\ \E q \in todo'[r] \cup own'[r] :
                              q.job = n /\ q.to = "skipped"
    BY DEF ChecksFit
  <2>1. CASE r = s
    <3>1. todo[s] = {}
      BY <1>1, <2>1 DEF StartInv, OpsFit
    <3> QED
      BY <1>1, <1>2, <2>1, <3>1
  <2>2. CASE r # s
    <3>1. todo'[r] \cup own'[r] = todo[r] \cup own[r] /\ op[r] \in Checking
      BY <1>1, <1>2, <2>2
    <3>2. CASE Allows(n, p.job)
      <4>1. p.job \in Jobs
        BY <3>1 DEF TypeInv, TypeOK, Plan
      <4>2. n \in Jobs
        BY <4>1, ConstantsAssumption
      <4>3. View(s)[n].status = job[n].status
        BY <1>4, <3>2, <4>2, DoneIsKept DEF Allows, DoneStatus
      <4> QED
        BY <1>1, <3>2, <4>3 DEF Allows
    <3>3. CASE ~Allows(n, p.job)
      BY <1>4, <3>1, <3>3 DEF StartInv, ChecksFit
    <3> QED
      BY <3>2, <3>3
  <2> QED
    BY <2>1, <2>2
<1>6. StartsAfterNeeds'
  <2> SUFFICES ASSUME ~raced', ~(reruns' > 0), NEW j \in Jobs,
                      job'[j].status \in {"waiting", "running"},
                      NEW n \in Needs[j]
               PROVE  \/ job'[n].status = "success"
                      \/ j \in IfJobs /\ job'[n].status \in DoneStatus
    BY DEF StartsAfterNeeds
  <2> QED
    BY <1>1, <1>4, CommitStartsInOrder
<1> QED
  BY <1>3, <1>5, <1>6 DEF StartInv

\* Every step keeps the order of the jobs.
LEMMA StepKeepsOrder ==
  TypeInv /\ RunInv /\ TaskInv /\ StartInv /\ [Next]_vars => StartInv'
<1> SUFFICES ASSUME TypeInv, RunInv, TaskInv, StartInv, [Next]_vars
             PROVE  StartInv'
  OBVIOUS
<1>a. \A r \in AllSessions :
        op[r] \in Checking /\ agg[r] # "none" => todo[r] = {}
  BY DEF StartInv, OpsFit
<1>1. ASSUME NEW s \in Sessions, Request(s)
      PROVE  StartInv'
  BY <1>1, RequestKeepsOrder
<1>f. ASSUME NEW s \in AllSessions, Fail(s) \/ Swallow(s)
      PROVE  StartInv'
  <2>1. \A r \in AllSessions :
          /\ own'[r] = IF r = s THEN {} ELSE own[r]
          /\ agg'[r] = IF r = s THEN "none" ELSE agg[r]
          /\ todo'[r] = IF r = s /\ op[s] \notin {"stop", "abandon"}
                        THEN {} ELSE todo[r]
    BY <1>f DEF Fail, Swallow, RollBack, TypeInv, TypeOK
  <2>2. UNCHANGED <<job, raced, reruns, op>>
    BY <1>f DEF Fail, Swallow, RollBack, rowVars
  <2> QED
    BY <1>a, <2>1, <2>2, QuietKeepsOrder DEF Checking
<1>2. ASSUME NEW s \in AllSessions, Continue(s) \/ Victim(s)
      PROVE  StartInv'
  <2>1. CASE Examine(s)
    BY <2>1, ExamineKeepsOrder
  <2>2. CASE Write(s)
    <3>1. PICK p \in todo[s] :
            /\ own' = [own EXCEPT ![s] = @ \cup {p}]
            /\ todo' = [todo EXCEPT ![s] = @ \ {p}]
            /\ agg[s] = "none"
      BY <2>2 DEF Write, IsNext
    <3>2. UNCHANGED <<job, raced, reruns, op, agg>>
      BY <2>2 DEF Write, rowVars, historyVars
    <3>3. \A r \in AllSessions :
            /\ own'[r] = IF r = s THEN own[s] \cup {p} ELSE own[r]
            /\ todo'[r] = IF r = s THEN todo[s] \ {p} ELSE todo[r]
      BY <3>1 DEF TypeInv, TypeOK
    <3>4. \A r \in AllSessions :
            todo'[r] \cup own'[r] = todo[r] \cup own[r]
      BY <3>1, <3>3
    <3> QED
      BY <1>a, <3>1, <3>2, <3>3, <3>4, QuietKeepsOrder
  <2>3. CASE Miss(s) /\ ~Fail(s)
    <3>1. PICK p \in todo[s] : todo' = [todo EXCEPT ![s] = @ \ {p}]
      BY <2>3 DEF Miss
    <3>2. /\ UNCHANGED <<job, raced, reruns, op, own, agg>>
          /\ op[s] \notin Checking
      BY <2>3 DEF Checking, IsNext, Miss, rowVars, historyVars
    <3>3. \A r \in AllSessions :
            todo'[r] = IF r = s THEN todo[s] \ {p} ELSE todo[r]
      BY <3>1 DEF TypeInv, TypeOK
    <3> QED
      BY <1>a, <3>2, <3>3, QuietKeepsOrder
  <2>4. CASE Fail(s) \/ Stale(s) \/ Victim(s)
    BY <1>f, <2>4 DEF Stale, Victim
  <2>5. CASE Load(s)
    <3>1. /\ op[s] \in JobByJob \/ todo[s] = {}
          /\ agg' = [agg EXCEPT ![s] = Aggregate(Statuses(s))]
          /\ UNCHANGED <<job, raced, reruns, op, todo, own>>
      BY <2>5 DEF Load, rowVars, historyVars
    <3>2. \A r \in AllSessions : r # s => agg'[r] = agg[r]
      BY <3>1 DEF TypeInv, TypeOK
    <3>3. Checking \cap JobByJob = {}
      BY DEF JobByJob, Checking
    <3> QED
      BY <1>a, <3>1, <3>2, <3>3, QuietKeepsOrder
  <2>6. CASE Commit(s)
    BY <2>6, CommitKeepsOrder
  <2>7. CASE Reset(s) /\ s \in fresh
    <3>1. /\ reruns' = reruns + 1 /\ op' = [op EXCEPT ![s] = "rerun"]
          /\ UNCHANGED <<todo, own, agg>>
      BY <2>7 DEF Reset
    <3>2. reruns' > 0
      BY <3>1 DEF TypeInv, TypeOK
    <3>3. \A r \in AllSessions :
            op'[r] = IF r = s THEN "rerun" ELSE op[r]
      BY <3>1 DEF TypeInv, TypeOK
    <3>4. OpsFit'
      BY <3>1, <3>2, <3>3 DEF Checking, StartInv, OpsFit
    <3> QED
      BY <3>2, <3>4 DEF StartInv, ChecksFit, StartsAfterNeeds
  <2>8. CASE Reset(s) /\ s \notin fresh
    <3>1. /\ op' = [op EXCEPT ![s] = "idle"]
          /\ todo' = [todo EXCEPT ![s] = {}]
          /\ UNCHANGED <<job, raced, reruns, own, agg>>
      BY <2>8 DEF Reset
    <3>2. \A r \in AllSessions :
            /\ op'[r] = IF r = s THEN "idle" ELSE op[r]
            /\ todo'[r] = IF r = s THEN {} ELSE todo[r]
      BY <3>1 DEF TypeInv, TypeOK
    <3> QED
      BY <1>a, <3>1, <3>2, QuietKeepsOrder DEF Checking
  <2>9. CASE Finish(s)
    <3>1. /\ op' = [op EXCEPT ![s] = "idle"]
          /\ UNCHANGED <<job, raced, reruns, todo, own, agg>>
      BY <2>9 DEF Finish, rowVars, historyVars
    <3>2. \A r \in AllSessions : op'[r] = IF r = s THEN "idle" ELSE op[r]
      BY <3>1 DEF TypeInv, TypeOK
    <3> QED
      BY <1>a, <3>1, <3>2, QuietKeepsOrder DEF Checking
  <2> QED
    BY <1>2, <2>1, <2>2, <2>3, <2>4, <2>5, <2>6, <2>7, <2>8, <2>9
       DEF Continue
<1>3. CASE ReportLate \/ UNCHANGED vars
  <2>1. UNCHANGED <<job, raced, reruns, op, todo, own, agg>>
    BY <1>3 DEF ReportLate, vars, rowVars, sessionVars, historyVars
  <2> QED
    BY <1>a, <2>1, QuietKeepsOrder
<1>4. ASSUME NEW e \in Emitters, Check(e) \/ EmitterStep(e)
      PROVE  StartInv'
  <2>1. CASE Check(e) /\ Resolvable # {}
    BY <2>1, CheckKeepsOrder
  <2>2. CASE ~(Check(e) /\ Resolvable # {})
    <3>1. /\ UNCHANGED <<job, own, agg, raced, reruns>> /\ e \in AllSessions
          /\ own[e] = {} \/ todo' = todo
      BY <1>4, <2>2 DEF Check, EmitterStep, Evaluate, Evaluated, GiveUp,
         rowVars, historyVars, AllSessions, RunInv, QuietInv
    <3>2. \A r \in AllSessions :
            /\ op'[r] = op[r] \/ (op[r] \in Checking /\ op'[r] \in Checking)
            /\ todo'[r] = todo[r] \/ (r = e /\ todo'[r] = {})
      BY <1>4, <2>2 DEF Check, EmitterStep, Evaluate, Evaluated, GiveUp,
         Checking, TypeInv, TypeOK
    <3> QED
      BY <1>a, <3>1, <3>2, QuietKeepsOrder
  <2> QED
    BY <2>1, <2>2
<1>5. CASE Approve
  <2>1. UNCHANGED <<op, todo, own, agg, reruns>> /\ raced'
    BY <1>5 DEF Approve
  <2> QED
    BY <2>1 DEF StartInv, OpsFit, ChecksFit, StartsAfterNeeds
<1>6. CASE Crash
  <2>1. /\ UNCHANGED <<job, raced, reruns>>
        /\ \A r \in AllSessions : /\ op'[r] = "idle" /\ todo'[r] = {}
                                  /\ own'[r] = {}
    BY <1>6 DEF Crash, rowVars
  <2> QED
    BY <2>1, QuietKeepsOrder
<1> QED
  BY <1>1, <1>2, <1>3, <1>4, <1>5, <1>6 DEF Next

\* The run starts in order: a job that waits needs nothing.
LEMMA InitOrder == Init => StartInv
<1> SUFFICES ASSUME Init
             PROVE  StartInv
  OBVIOUS
<1>1. \A s \in AllSessions : op[s] = "idle" /\ todo[s] = {} /\ own[s] = {}
  BY DEF Init
<1>2. \A j \in Jobs :
        job[j].status = IF Needs[j] # {} \/ ~approved
                        THEN "blocked" ELSE "waiting"
  BY DEF Init
<1>3. OpsFit /\ ChecksFit
  BY <1>1 DEF OpsFit, ChecksFit
<1>4. StartsAfterNeeds
  BY <1>2 DEF StartsAfterNeeds
<1> QED
  BY <1>3, <1>4 DEF StartInv

(* As long as nobody reruns the run or replaces a status that was not      *)
(* seen, a job starts only after all its needs are done, and only if they  *)
(* succeeded or it has a condition: whatever the workflow, the number of   *)
(* sessions and the events, two operations that change the same jobs       *)
(* included (jobStatusResolver, checkJobsByRunID, UpdateRunJob).           *)
THEOREM StartsAfterNeedsAlways == Spec => []StartsAfterNeeds
<1>1. Init => TypeInv /\ RunInv /\ TaskInv /\ StartInv
  BY InitType, InitRun, InitTasks, InitOrder
<1>2. TypeInv /\ RunInv /\ TaskInv /\ StartInv /\ [Next]_vars
      => (TypeInv /\ RunInv /\ TaskInv /\ StartInv)'
  BY StepType, StepKeepsRun, StepKeepsTasks, StepKeepsOrder
<1>3. StartInv => StartsAfterNeeds
  BY DEF StartInv
<1> QED
  BY <1>1, <1>2, <1>3, PTL DEF Spec

-----------------------------------------------------------------------------
(* What a check leaves undone.                                             *)

\* A check plans to update every blocked job whose needs are done.
LEMMA CheckPlansAll ==
  ASSUME TypeInv, NEW e \in Emitters, Check(e),
         NEW j \in Jobs, Unblocked(job, j)
  PROVE  \E p \in todo'[e] : p.job = j
<1> DEFINE status == [i \in Jobs |-> job[i].status]
           after == Resolve(status)
           plan == [job |-> j, to |-> after[j], id |-> "keep",
                    where |-> "same", ends |-> 0, seen |-> "blocked"]
<1>1. status \in [Jobs -> Status] /\ Needs \in [Jobs -> SUBSET Jobs]
  BY ConstantsAssumption DEF TypeInv, TypeOK, Row
<1>2. /\ status[j] = "blocked"
      /\ \A n \in Needs[j] : n \in Jobs /\ status[n] \in DoneStatus
  BY <1>1 DEF Unblocked
<1>3. after[j] \in {"waiting", "skipped"}
  <2> HIDE DEF status
  <2>1. Resolved(status, after)
    BY <1>1, ResolveIsSound
  <2>2. after[j] = "blocked" => ~NeedsDone(after, j)
    BY <1>1, ResolveIsComplete
  <2> HIDE DEF after
  <2>3. \A n \in Needs[j] : after[n] = status[n]
    BY <1>2, <2>1 DEF Resolved, DoneStatus
  <2>4. NeedsDone(after, j)
    BY <1>2, <2>3 DEF NeedsDone
  <2> QED
    BY <1>2, <2>1, <2>2, <2>4 DEF Resolved
<1>4. plan \in Resolvable
  BY <1>2, <1>3 DEF Resolvable
<1>5. todo'[e] = Resolvable
  BY <1>4 DEF Check, Start, TypeInv, TypeOK, AllSessions
<1> QED
  BY <1>4, <1>5

\* A session that fails or is a deadlock victim leaves others alone.
LEMMA FailIsWhole ==
  ASSUME TypeInv, NEW s \in AllSessions, Fail(s) \/ Swallow(s),
         NEW e \in Emitters, op[e] \in Checking
  PROVE  \/ todo'[e] \cup own'[e] = todo[e] \cup own[e]
         \/ /\ UNCHANGED job /\ todo'[e] \cup own'[e] = {}
            /\ queued' \/ dropped' \/ broken'
<1>1. CASE s = e
  BY <1>1 DEF Fail, Swallow, RollBack, Checking, rowVars, TypeInv, TypeOK
<1>2. CASE s # e
  BY <1>2 DEF Fail, Swallow, RollBack, TypeInv, TypeOK, AllSessions
<1> QED
  BY <1>1, <1>2

\* What a commit publishes of the plan of a check is all of it.
LEMMA CommitIsWhole ==
  ASSUME TypeInv, StartInv, NEW s \in AllSessions, Commit(s),
         NEW e \in Emitters, op[e] \in Checking
  PROVE  \/ todo'[e] \cup own'[e] = todo[e] \cup own[e]
         \/ todo[e] = {} /\ \A p \in own[e] : job'[p.job].status = p.to
<1>1. CASE s = e
  <2>1. /\ todo[e] = {}
        /\ \A p, q \in own[e] : p.job = q.job => p = q
    BY <1>1 DEF Commit, StartInv, OpsFit, AllSessions
  <2>2. ASSUME NEW p \in own[e]
        PROVE  job'[p.job].status = p.to
    <3> DEFINE j == p.job
    <3>1. j \in Jobs
      BY DEF TypeInv, TypeOK, AllSessions, Plan
    <3>v. \/ \A q \in own[e] : q.job # j
          \/ \E q \in own[e] : /\ q.job = j
                               /\ View(e)[j] = Updated(job[j], task[j], q)
      <4> e \in AllSessions
        BY DEF AllSessions
      <4> HIDE DEF j
      <4> QED
        BY <3>1, ViewCases
    <3>2. PICK q \in own[e] :
            /\ q.job = j /\ View(e)[j] = Updated(job[j], task[j], q)
      BY <3>v
    <3>3. job'[p.job] = Updated(job[p.job], task[p.job], p)
      BY <1>1, <2>1, <3>2 DEF Commit, Publish
    <3> QED
      BY <3>3 DEF Updated
  <2> QED
    BY <2>1, <2>2
<1>2. CASE s # e
  BY <1>2 DEF Commit, Publish, TypeInv, TypeOK, AllSessions
<1> QED
  BY <1>1, <1>2

\* No other step of a session undoes a part of the plan of a check.
LEMMA ContinueIsWhole ==
  ASSUME TypeInv, RunInv, StartInv, NEW s \in AllSessions,
         Continue(s) \/ Victim(s), NEW e \in Emitters, op[e] \in Checking
  PROVE  \/ todo'[e] \cup own'[e] = todo[e] \cup own[e]
         \/ todo[e] = {} /\ \A p \in own[e] : job'[p.job].status = p.to
         \/ /\ UNCHANGED job /\ todo'[e] \cup own'[e] = {}
            /\ queued' \/ dropped' \/ broken'
<1>e. e \in AllSessions /\ op[e] \notin {"reset", "idle"}
  BY DEF AllSessions, Checking
<1>1. CASE Examine(s)
  <2>1. PICK p \in todo[s] : /\ IsNext(s, p) /\ p.where = "task"
                             /\ \E q : todo' = [todo EXCEPT ![s] = q]
    BY <1>1 DEF Examine
  <2>2. s # e
    BY <2>1 DEF IsNext, StartInv, OpsFit, Checking
  <2>3. own' = own
    BY <1>1 DEF Examine
  <2> QED
    BY <1>e, <2>1, <2>2, <2>3 DEF TypeInv, TypeOK
<1>2. CASE Write(s)
  <2>1. PICK p \in todo[s] :
          /\ own' = [own EXCEPT ![s] = @ \cup {p}]
          /\ todo' = [todo EXCEPT ![s] = @ \ {p}]
    BY <1>2 DEF Write
  <2> QED
    BY <1>e, <2>1 DEF TypeInv, TypeOK
<1>3. CASE Miss(s) /\ ~Fail(s)
  <2>1. PICK p \in todo[s] : /\ todo' = [todo EXCEPT ![s] = @ \ {p}]
                             /\ own' = own /\ IsNext(s, p)
    BY <1>3 DEF Miss
  <2>2. s # e
    BY <1>3, <2>1 DEF Miss, IsNext, Checking
  <2> QED
    BY <1>e, <2>1, <2>2 DEF TypeInv, TypeOK
<1>4. CASE Fail(s) \/ Stale(s) \/ Victim(s)
  BY <1>4, FailIsWhole DEF Stale, Victim
<1>5. CASE Load(s)
  BY <1>5 DEF Load
<1>6. CASE Commit(s)
  BY <1>6, CommitIsWhole
<1>7. CASE Reset(s)
  <2>1. s # e
    BY <1>7, <1>e DEF Reset
  <2>2. own' = own /\ (todo' = todo \/ todo' = [todo EXCEPT ![s] = {}])
    BY <1>7 DEF Reset
  <2> QED
    BY <1>e, <2>1, <2>2 DEF TypeInv, TypeOK
<1>8. CASE Finish(s)
  BY <1>8 DEF Finish
<1> QED
  BY <1>1, <1>2, <1>3, <1>4, <1>5, <1>6, <1>7, <1>8 DEF Continue

(* A check of the emitter means to update every blocked job whose needs    *)
(* are done, and it updates all that it means to or none of them; after a  *)
(* check in vain the run is in the queue again, or the check is dropped or *)
(* the process has died (checkJobsByRunID, jobEmitterQueueHandler).        *)
THEOREM CheckIsWholeAlways == Spec => CheckIsWhole
<1>1. TypeInv /\ RunInv /\ StartInv /\ [Next]_vars
      => [\A e \in Emitters : WholeCheck(e)]_vars
  <2> SUFFICES ASSUME TypeInv, RunInv, StartInv, Next, NEW e \in Emitters
               PROVE  WholeCheck(e)
    OBVIOUS
  <2>1. ASSUME Check(e), NEW j \in Jobs, Unblocked(job, j)
        PROVE  \E p \in todo'[e] : p.job = j
    BY <2>1, CheckPlansAll
  <2>2. ASSUME op[e] \in Checking
        PROVE  \/ todo'[e] \cup own'[e] = todo[e] \cup own[e]
               \/ /\ todo[e] = {}
                  /\ \A p \in own[e] : job'[p.job].status = p.to
               \/ /\ UNCHANGED job /\ todo'[e] \cup own'[e] = {}
                  /\ queued' \/ dropped' \/ broken'
    <3>e. e \in AllSessions /\ op[e] # "idle"
      BY <2>2 DEF AllSessions, Checking
    <3>1. ASSUME NEW s \in AllSessions, NEW o, NEW plans, Start(s, o, plans)
          PROVE  todo'[e] = todo[e]
      BY <3>1, <3>e DEF Start, TypeInv, TypeOK
    <3>2. ASSUME NEW s \in Sessions, Request(s)
          PROVE  todo'[e] = todo[e] /\ own' = own
      <4>1. \E o, plans : Start(s, o, plans)
        BY <3>2 DEF Request, Pick, Report, Cancel, Stop, Abandon, Rerun
      <4>2. own' = own
        BY <3>2 DEF Request, Pick, Report, Cancel, Stop, Abandon, Rerun,
                    StartUnchanged
      <4> QED
        BY <3>1, <4>1, <4>2 DEF AllSessions
    <3>3. CASE ReportLate \/ Approve
      BY <3>3 DEF ReportLate, Approve, sessionVars
    <3>4. CASE Crash
      BY <3>4, <3>e DEF Crash, rowVars
    <3>5. ASSUME NEW r \in Emitters, Check(r)
          PROVE  todo'[e] = todo[e] /\ own' = own
      BY <3>1, <3>5 DEF Check, AllSessions
    <3>6. ASSUME NEW r \in Emitters, Evaluate(r) \/ Evaluated(r)
          PROVE  todo' = todo /\ own' = own
      BY <3>6 DEF Evaluate, Evaluated
    <3>7. ASSUME NEW r \in Emitters, GiveUp(r)
          PROVE  \/ todo'[e] \cup own'[e] = todo[e] \cup own[e]
                 \/ /\ UNCHANGED job /\ todo'[e] \cup own'[e] = {}
                    /\ dropped'
      BY <3>e, <3>7 DEF GiveUp, RunInv, QuietInv, TypeInv, TypeOK,
                        AllSessions, rowVars
    <3>8. ASSUME NEW s \in AllSessions, Continue(s) \/ Victim(s)
          PROVE  \/ todo'[e] \cup own'[e] = todo[e] \cup own[e]
                 \/ /\ todo[e] = {}
                    /\ \A p \in own[e] : job'[p.job].status = p.to
                 \/ /\ UNCHANGED job /\ todo'[e] \cup own'[e] = {}
                    /\ queued' \/ dropped' \/ broken'
      BY <2>2, <3>8, ContinueIsWhole
    <3> QED
      BY <3>2, <3>3, <3>4, <3>5, <3>6, <3>7, <3>8 DEF Next, EmitterStep
  <2> QED
    BY <2>1, <2>2 DEF WholeCheck
<1>2. Init => TypeInv /\ RunInv /\ TaskInv /\ StartInv
  BY InitType, InitRun, InitTasks, InitOrder
<1>3. TypeInv /\ RunInv /\ TaskInv /\ StartInv /\ [Next]_vars
      => (TypeInv /\ RunInv /\ TaskInv /\ StartInv)'
  BY StepType, StepKeepsRun, StepKeepsTasks, StepKeepsOrder
<1> QED
  BY <1>1, <1>2, <1>3, PTL DEF Spec, CheckIsWhole

=============================================================================
