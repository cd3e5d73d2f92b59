# Verification of GitJet core-scm

TLA+ specifications of the concurrent core of core-scm (a fork of Gitea in Go), their TLC
configurations, and proofs for TLAPS. A specification is translated from the code under `src/`;
`PROJECT.json` maps every definition to the lines it stands for, and lists the runs, the findings,
the hazards and the theorems.

## 1. Inventory

| Component | State | Operations | Interacts with | What is hard |
|---|---|---|---|---|
| Worker pool queue (`modules/queue/workergroup.go`, `workerqueue.go`) | batch buffer, debounce timer, number and maximum of workers, two contexts, flush flag, shutdown timeout | `Push`, `Run`, `Cancel`, `ShutdownWait`, `FlushWithContext`, `SetWorkerMaxNumber`, `RemoveAllItems` | base queue, handlers of 16 queues, graceful manager, admin page | five kinds of goroutines meet on unbuffered channels; shutdown and flush while handlers run, fail or hang |
| Base queues (`base_*.go`) | list and, for unique queues, a set: memory, LevelDB or Redis | `PushItem`, `PopItem`, `HasItem`, `Len`, `RemoveAll` | worker pool queue; other nodes (Redis) | list and set are not updated together; crash between the two |
| Graceful manager (`modules/graceful`) | state, four contexts, two wait groups, servers with connection counters | shutdown, hammer, terminate, fork, `RunWithCancel`, `RunAtShutdown` | servers, queues, cron, child process | shutdown during start-up, repeated signals, order of the phases |
| Global locks (`modules/globallock`) | a mutex per key, in memory or in Redis with an expiry | `Lock`, `TryLock`, `LockAndDo` | pull requests, wikis, mirrors, repositories | expiry while the holder works, the periodic extension |
| Event source (`modules/eventsource`) | channels by user | `Register`, `Unregister`, `SendMessage(Blocking)` | notification counters, logout | two locks; blocking sends |
| Process manager (`modules/process`) | tree of processes | add, cancel, remove | everything with a context | little: one mutex |
| Actions (`models/actions`, `services/actions`) | runs, jobs, tasks, runners, task versions | pick a task, report its state, cancel, rerun, emit blocked jobs, concurrency groups | runners over RPC, cron clean-up, the emitter queue | concurrent transactions on one run, lost requests of runners |
| Pull requests (`services/pull`, `automerge`) | status, merged flag, scheduled merges | start a check, check, merge, detect manual merge | checking queue, global locks, git hooks | check results that are stale when written |
| Webhooks, mirrors, cron, tasks | task tables, schedules | deliver, sync, run | queues | at-most-once and retry |
| Database layer, DBFS | transactions, indexes, file blocks | `WithTx`, `GetNextResourceIndex`, read and write | all of the above | isolation level |
| Indexers, packages, issues, repositories, users | database rows, external engines | request handlers | queues | little between requests |
| Web, API, git front ends, templates, migrations | none of their own | | | input and output |

What makes each component correct:

- worker pool queue: an accepted item is in one place until it is handled; a batch always finds a
  worker; flush and shutdown finish, and what they leave behind is known;
- unique base queues: an item in the set is in the list or on its way, so that what is refused is
  served and can be pushed again after it was popped; the list has it once; no operation blocks;
- graceful manager: the phases come in order, every registered cancel function runs, the process ends;
- global locks: at most one holder whose lock has not expired; a live holder's lock is extended;
- event source: a registered channel gets messages and is closed at last; no one waits on everyone;
- actions: one task per job, the status of a run is that of its jobs, a done job stays done, blocked
  jobs are resolved at last, a concurrency group runs one at a time;
- pull requests: a status older than the last push is computed again, a merge is recorded at last, a
  merged pull request is left alone.

`PROJECT.json` lists the hazards behind these at their lines.

## 2. Plan

| Order | Module | Composes / implements | Proved | Left |
|---|---|---|---|---|
| 1, done | `WorkerPoolQueue` | implements `ItemLifecycle` | types, items in one place, the life cycle, timers, workers, flush, shutdown, losses | |
| 2, done | `UniqueBaseQueue` (Redis, level), `UniqueChannelQueue` | | types, set against list, capacity, no duplicates | the simple level queue (a push without a lock, its replacement in `RemoveAll`) |
| 3, done | `ActionsRun` | | types, the status of the run, one task per job, jobs after their needs, whole checks, what the emitter and a rerun select | concurrency groups, ephemeral runners, the version of the task list |
| 4, done | `GlobalLock`, composed in `PullCheck` | | types, one holder, no loss without a failure, `StaleIsRechecked`, `MergedStays` | scheduled merges |
| 5, done | `Graceful` | | types, drained servers, the termination comes last | the fork of a restart |
| 6, done | `EventSource` | | types, open channels, wake-ups, nobody forgotten | |
| 7 | `HookTask`, DBFS, mirrors | | | |

Modules to be proved about declare no recursive operator, take their parameters as constants with
named assumptions, and state invariants as conjunctions of named parts. A type invariant that is
proved is not run again (only `graceful` runs one).

## 3. The worker pool queue

### Modules

- `ItemLifecycle`: what a queue promises about an item: new, pending, running, handled or lost, and
  the steps between them. A handler call runs items that wait, and settles or returns all of them.
- `WorkerPoolQueue`: one queue with everything around it.
- `MCWorkerPoolQueue`: the symmetry used by TLC.
- `WorkerPoolQueueProofs`: the theorems about its properties, and that it implements `ItemLifecycle`.

### How the code is represented

| Code | Model |
|---|---|
| base queue (`PushItem`, `PopItem`) | the sequence `base` of at most `Length` items; a push checks the context (`CtxAllows`) and the room (`HasRoom`) |
| `popItemByChan` goroutine blocked on `chanItem <- it` | `popped`; `popper` is `"popping"` in `PopItem` of a persistent queue, past its look at the context, and `"closed"` after an error |
| position of `doRun` | `pc`: `loop` is the select of the main loop; `dispatch`, `spawn`, `send` the three parts of `doDispatchBatchToWorker`; `flushStart`, `flushWait`, `flushDrain` those of `doFlush`; `drain`, `giveBack`, `lastCall`, `waitWorkers` those of the deferred function |
| `wg.batchBuffer`, and the local `batch` | `buffer` |
| `batchDispatchC` | `timer` |
| `flushChan`, `flush.c`, `isFlushing` | `flush`, `isFlushing` |
| worker goroutines counted by `workerNum` | `live`; what a worker is doing in `doWorkerHandle` is its `stage` and the items it has left its `hold` |
| `doWorkerHandle` called by the main loop | the same actions with the actor `Main` |
| `ctxRun`, `ctxWorker` | `canceled`; `WorkersCanceled` |
| nothing | `outcome`: history of what became of an item; `flushes`, `restarts`: what was used of two bounds |

Every channel of the code is unbuffered, so a send and its receive are one step that needs both
sides: `SendToWorker`, `Receive`, `FlushRequest`. The non-blocking send (`Dispatch`) may also miss a
worker that exists, because that worker may be between two receives. `doStartNewWorker` and the
counting of a worker are one step, as both happen under `workerNumMu`; so are the test and the
decrement of an idle worker.

A handler is arbitrary: it may handle any part of its batch, return the rest, panic, or never
return. The main goroutine's last call (`safeHandler` without `doWorkerHandle`) loses what it
returns. Pushes of new items are by users; `Requeue`, `RequeueFails` and `ForceFails` are the loop
over unhandled items, in any order, with its push and `basePushForShutdown`.

A process may die at any step (`crash`), or exit after the queue shut down while late workers still
run. `Restart` constructs a queue on the base queue that is left: with `BaseType = "level"` the
persistent one, with `"channel"` an empty one.

Simplifications, each of them a step that the code takes in parts: the check of context and room
with the push (a pop, which can take an item after the context was canceled, has the check as a step
of its own); the two loads of `shutdownTimeout` in a shutdown; `ctxWorkerCancel` with the store of
`isFlushing`. A blocked push gives up only while there is no room. Durations are left out: a timer
may fire whenever it is armed, so every order of timers and other events is included. Items are
distinct, so unique and simple queues do not differ here; data that cannot be unmarshaled (a
corrupted database) is left out, as is the dummy queue.

### Runs

| Run | Instance | Shows |
|---|---|---|
| `queue_safety` | persistent queue, 3 items, 2 workers, room for 2, batches of 2, maxima 0 to 2, all faults, 1 flush, 1 restart | `InOnePlace`, `BufferIsTimed`, `SenderHasReceiver`, `FlushIsAlone` |
| `queue_shutdown` | persistent queue, 2 items, 2 workers, room for 2, batches of 1, no faults and no flush, handlers that may not return, a shutdown with a timeout, 1 restart | `ShutdownGivesBack`, `NothingLost`, `ShutdownFinishes` |
| `queue_progress` | in-memory queue, 2 items, room for 1, 1 worker, maxima 0 and 1, handlers that panic, 1 flush | `ItemsReachHandler`, `FlushFinishes`, `FlushLeavesNothing`, the refinement `LifecycleSpec` |

Why the bounds are enough: three items with room for two fill the base queue while one item is
popped, buffered or handled; batches of two are full, partial and overfull (after a cancelation); two
workers are the least with a spare one, and the maximum moves below, to and above their number. One
flush and one restart reach every state of a second one, except the bounds themselves. The liveness
runs are smaller because TLC checks them without symmetry; one worker with room for one item is the
tightest case, where everyone can wait for everyone.

Divergences that are behaviours of the model and have no run: "shutdown should finish in predictable
time" (`workerqueue.go:27`), but a flush waits for the workers without regard to the context, so that
a hung handler blocks a shutdown during a flush (`queue_shutdown` has no flush for that reason);
"no item is skipped or lost due to transient failures" (`queue.go:28`), but with a full base queue the
only worker cannot give its item back, because room is made by the popping goroutine, which waits for
the main loop, which waits for the worker: the push and the second push of `basePushForShutdown` time
out and the item is dropped; `basePushForShutdown` "does nothing"
outside of a shutdown (`workergroup.go:128`), but the shutdown timeout has a positive default, so it
pushes whenever a requeue fails; and a "negative timeout means discarding all items"
(`manager.go:37`), but a discarding flush stops as soon as no popped item is ready.

### Fairness

`Fairness` assumes that goroutines run, that a select does not forever pass over a case that is ready
again and again (Go chooses among ready cases at random), and that armed timers and back-offs fire.
Strong fairness is used only for the cases of a select. No fairness is assumed of users, the admin,
crashes, panics, or idle timers. `HandlersReturn` adds that a handler call returns, with any result:
failing forever is allowed. `queue_progress` needs it, since nothing in the code bounds a handler;
`queue_shutdown` does without.

### Proofs

`WorkerPoolQueueProofs` proves, for every set of items and workers, every length, maximum and bound:

- `TypeCorrect`: `Spec => []TypeOK`. The part that needs care is the capacity `Len(base) <= Length`,
  as three parties push. `TypeOK` is inductive.
- `ItemsInOnePlace`: `Spec => []InOnePlace`. The invariant is not inductive: a step that hands a
  batch to an actor overwrites what the actor held. The strengthening `PlaceInv` adds
  `IdleHoldsNothing` (an actor that waits for a batch holds nothing) and `MainHandlesInFlush` (the
  main goroutine is in `doWorkerHandle` only during a flush, and in the handler during the last
  call). Both are preserved by themselves (`StagesStep`); with them each action moves items in one
  of five ways, each a lemma: an item enters or leaves the base queue (`BaseGains`, `BaseLoses`), an
  actor is given a batch, keeps a part or nothing of it (`HoldGains`, `HoldLoses`, `HoldEmptied`).
  `PlacesStep` has one step for each action.
- `QueueImplementsLifecycle`: `Spec => LifecycleSpec`. The
  mapping `ItemState` calls an item running if a handler call has it, else reads `outcome`. Lemmas
  say what a step does to the set of running items (`HandlersGain`, `HandlersLose`, ...) and which
  step of `ItemLifecycle` follows (`Delivers`, `Returns`, `Loses`); `LifecycleStep` goes through the
  actions. It needs `PlaceInv`: without disjoint places an item could be lost while another handler
  runs it.

- `BufferIsTimedAlways`, `SenderHasReceiverAlways`: `Spec => []P` for the property of each name. The
  strengthening is `FlowInv`, which relates the step `doRun` is at to everything else: `isFlushing` is
  set from the wait to the end of a flush (`FlushIsInProgress`), the buffer is empty during a flush and
  at the end of a shutdown (`BufferIsEmptied`), the popping goroutine holds nothing once it has ended
  (`PopsEnd`), and a worker that is not counted handles nothing (`GoneAreIdle`).
- `FlushIsAloneAlways`, `ShutdownGivesBackAlways`: by `FlowInv` and `PlaceInv` together. An item is in
  one place, and at these steps all other places are empty.
- `FlushLeavesNothingAlways`: the action property, from the same two. Only one action ends a flush
  (`FlushEndsInFlushEnd`).
- `NothingLostAlways`: `Spec => []NothingLost`, from the assumptions of the property, which
  `queue_shutdown` has as well: room for all items, nobody flushes or empties the queue, no handler
  panics, and the shutdown waits. There is room for what is given back because the places are disjoint:
  an item outside of the base queue leaves room in it (`RoomForTheRest`, by cardinalities).

They rest on `ConstantsAssumption`, and on facts about sequences without repetition (`SequenceFacts`,
proved from the definitions). `ItemsReachHandler`, `FlushFinishes` and `ShutdownFinishes` are liveness
and are checked by TLC only.

## 4. The unique base queues

A unique queue refuses an item that its set has. Set and list are updated by separate steps, and what
those steps may interleave with differs between the three implementations.

### Modules

- `UniqueBaseQueue` (`base_redis.go`): one action for each Redis command. `at[n]` is the last command
  of the operation in progress on node `n`, and `arg[n]` its item. A node has at most one, because
  its mutex is held from the first command to the last. The mutex means nothing to other nodes: the
  queue is made for clusters (`queue.go:35`), and a restarted process runs beside its predecessor.
  The unique level queue (`base_levelqueue_unique.go`) takes the same steps under the same mutex on a
  database of one process, so it is this module with one node.
- `UniqueChannelQueue` (`base_channel.go`): pushers, the popping goroutine and `RemoveAll` on a
  buffered channel. The mutex is taken for single accesses to the set, and by `RemoveAll` for all it
  does: it holds the mutex unless `remove = "idle"`. Accesses of the others are one step each.
- `MCUniqueBaseQueue`, `MCUniqueChannelQueue`: the instances; who pushes what.
- `UniqueBaseQueueProofs`, `UniqueChannelQueueProofs`: the theorems. `SequenceFacts`: shared lemmas.

Faults of Redis (`Faults`): a context that ends, so that the next command fails (`cancel`); a command
that fails, carried out or not (`error`); the death of a process (`crash`). `faulted` is a history
variable: an operation was left half done since the set was last cleared; `raced`: the set was last
cleared among pushes and pops of other nodes. A pop waits without the
mutex while there is nothing to pop, as does a push while there is no room; both are not steps.
`HasItem` and `Len` change nothing. `Close` is left out: nothing is called after it.

### Runs

| Run | Instance | Shows |
|---|---|---|
| `redis_queue` | 2 nodes, 3 items, room for 2, all faults | `MarkedIsOwed`, `OverfillBounded`, `ListAgrees`, `MarksClear` |
| `channel` | 2 pushers with 3 items of their own, room for 2, and `RemoveAll` | `OneCopy`, `RemoveWaitsForPop`, `PushFinishesUnlessStuck` |

Nothing is bounded but the sets: with two nodes the capacity is exceeded by one, each stands between
two commands while the other runs through whole operations, and a list of two has a head that is not
its last; `MarkedIsOwed`, `OverfillBounded` and `ListAgrees` are proved for any number of nodes. The
liveness run has all faults. `channel` allows deadlock, as the code has one.

Divergences that are behaviours of the models and have no run: "already in queue" (`queue.go:68`) is
what a refused push is told, but if the context ends between SADD and RPUSH, or between LPOP and SREM,
the item remains in the set and is in no list, and nothing but `RemoveAll` makes it acceptable again
(`faulted`; a queue is always canceled at shutdown). "Push doesn't block forever" (`queue.go:42`), but
`RemoveAll` sees one item, `PopItem` receives it, `RemoveAll` waits for an item with the mutex, and
everyone else for the mutex (`Stuck`).

The channel also refuses items that it does not have, without any fault (no run of its own): a pop
between the send and the addition to the set removes the item from the set before it is added.

Fairness: an operation that has begun goes on, and no one waits forever for a mutex that is released
again and again (Go's mutex hands over to a waiter that starves). Each node pops again and again, as
its worker pool queue does. `PushGivesUp` is fair because a timer fires; pushers are not.

### Proofs

For every finite set of nodes, every set of pushers and items and every length:

- `RefusedIsOwed`: `Spec => []MarkedIsOwed`. With `TypeOK` it is inductive. Each action moves one
  item between the set, the hands of a node and the list, and `RemoveAll` passes through a state
  that the invariant exempts, in the order the comment at `base_redis.go:128` asks for.
- `CapacityHolds`: `Spec => []OverfillBounded`. Inductive because the nodes that have found room are
  counted with the list; the arithmetic is about cardinalities of the set of these nodes.
- `QueueAgrees`: `Spec => []ListAgrees`, for any number of nodes. The property speaks of states
  between operations; the strengthening `AgreeInv` says what holds after each command of each node:
  whose hands an item is in, that no two nodes have the same, and that none in the list is in a hand.
- `RemoveWaitsForPopOnly`: `Spec => []RemoveWaitsForPop`, inductive: whoever shortens the channel
  between the look and the receive is `PopItem`, which cannot finish.
- `NoDuplicates`: `Spec => []OneCopy`. `OwnInv` says that an item in the channel is refused or still
  to be added by its only pusher, so that the pusher cannot be sending it again.

`TypeCorrect` of both modules is the first step of each. `MarksClear` and `PushFinishesUnlessStuck`
are liveness and are checked by TLC only.

## 5. Workflow runs

`ActionsRun` models one run: its jobs and tasks, and every transaction that changes them.

### How the code is represented

| Code | Model |
|---|---|
| rows of `action_run_job`, `action_task`, `action_run` | `job` (status and `task_id`), `task` (for each job the statuses of its tasks), `run`: what is committed |
| a request or cron task; each worker of the emitter's queue | a session; a session in `Emitters`: `op` what it carries out, `todo` the updates it has still to make |
| its open transaction | `own` (its updates, which lock the rows of these jobs), `held` (rows locked by an evaluation), `agg` (the status of the run it has computed) |
| the `version` column of the run | `fresh`: the sessions that loaded the run since it last changed |
| the unique queue `actions_ready_job` | `queued`; `push`: sessions that will push when they have finished |
| `FetchTask` / `CreateTaskForRunner` | `Pick` |
| `UpdateTask` / `UpdateTaskByState` | `Report`, `ReportLate` |
| `CancelJobs`, `StopZombieTasks` and `StopEndlessTasks`, `CancelAbandonedJobs` | `Cancel`, `Stop`, `Abandon` |
| `RerunWorkflowRunJobs`, `approveRuns` | `Rerun` and `Reset`, `Approve` |
| `checkJobsByRunID`, `checkJobsOfRun`, the resolver | `Check` with `Resolvable`, `ResolveOnce`, `Resolve` |
| `updateConcurrencyEvaluationForJobWithNeeds` of each job | `Evaluate` (the update of the row, the load of the run), `Evaluated` (the update of the run) |
| its error, which is logged | `GiveUp` ("run has changed" at each job), `Swallow` (the victim of a deadlock) |
| the error that `jobEmitterQueueHandler` returns the item for | `Fail` of an emitter |
| `EmitJobsIfReadyByJobs`, whose error is logged | `Finish` |
| `UpdateRunJob` | `Write` or `Miss` (its condition), `Load` (`AggregateJobStatus`), `Commit` or `Stale` (`UpdateRun`) |

The isolation is "read committed", the weakest of the supported databases: a read sees what is
committed, and an update examines its condition when it has the lock of its row. Two transactions
that wait for each other are resolved by a deadlock victim (`Victim`). A plan carries the status its
session saw, which is only used to tell (`raced`) that an update has replaced a status it had not
seen. The other history variables say what the properties are excused by: `torn` between the reset
of the run and of its first job in a rerun, `missed` and `broken` when nobody was to push the run,
`dropped` when a push failed or a check found an error that it only logs, and no check began since.

Before the emitter changes the status of any job it updates the run once for each job it can resolve
(`job_emitter.go:370`). An error there is logged and the job is skipped in this round. After the first
update of the run that succeeds, its row is locked, so all that were skipped succeed in one of the
next rounds, of which there are as many as jobs; if none succeeds, the handler has no error to return
and the check is lost. An error of the updates of the statuses, which come after, is returned, and the
run is queued again. So a check takes all or none of what it found, which is `CheckIsWhole`.

Left out: concurrency groups, ephemeral runners, the version of the task list by which runners learn
of new jobs, labels (any runner may match), outputs, logs, notifications.

### Runs

| Run | Instance | Shows |
|---|---|---|
| `actions_run` | 2 jobs, the second needs the first, 2 sessions and 1 emitter, 2 tasks for each job, 1 rerun, cancelation, abandoned jobs | `RunAgrees`, `OneTask`, `StartsAfterNeeds` |
| `actions_progress` | a line of 3 jobs that fail, the last of which has a condition, 1 session and 2 emitters, 1 task for each job, 1 rerun, zombie tasks, an approval, pushes that fail, crashes | `CheckIsWhole`, `BlockedResolved` |

Two sessions besides the emitter are the least in which a transaction is overtaken, waits for a row
and is a deadlock victim; two jobs in a chain have a blocked one, and transactions over both that meet
in the row of the run. In a line of three whose first job fails, one check resolves two jobs in two
rounds, one to be skipped and one to start, and two emitters can do so at the same time. The theorems
are for any number of each. The second run is without symmetry, since its property is temporal, and
has the events the first one lacks.

`BlockedResolved` is stated for any needs and checked for a line, in which one job at a time can be
evaluated first. Where two can, as in a fork, two emitters evaluate them in any order (that of a Go map) and
TLC finds that they may be each other's deadlock victims forever; so may an emitter and a cancelation
that is repeated without end. Both need the same bad luck again and again, and the fairness below does
not exclude it.

A divergence that is a behaviour of the model and has no run: "IsDone returns whether the Status is
final" (`models/actions/status.go:49`), but a runner reads a waiting job, a user cancels it (its
`task_id` stays 0), and the update of the runner, whose only condition is `task_id = 0` (`task.go:327`),
makes the cancelled job run; the run, reported as done, is running again.

`OneTask` and `StartsAfterNeeds` are exempt once `raced` holds: the same update, the unconditional one
of `CancelAbandonedJobs` (`clear_tasks.go:206`) and an approval (`view.go:599`) replace a status that
nobody looked at, and a task may then run for a job that is cancelled, or a job before its needs.
`BlockedResolved` is exempt when a rerun that does not push (`rerun.go:161`) blocks a job whose needs
are done, when it fails in the middle, after a crash (`clear_tasks.go:179`), and when a push or a check
was lost (`job_emitter.go:46`, `:333`; `runner.go:233`).

Another divergence is the swallowed error: the job "will stay blocked" (`job_emitter.go:333`), says the
log of each evaluation that fails; it does only if all of them fail, or if nobody pushes the run again.

Fairness: a worker of the emitter's queue takes what is pushed, and the database ends a deadlock (weak).
The steps of a session that has begun (`Continue`, `EmitterStep`) are strongly fair, as databases grant
a row lock in the order of requests. No fairness is assumed of runners, users and cron tasks.

### Proofs

`ActionsRunProofs`, for any finite set of jobs, any needs, any sets of sessions and emitters and any bounds:

- `TypeCorrect`: `Spec => []TypeOK`. `TypeOK` alone is not inductive: that an update which ends a task
  gives it a final status (`PlansEnd`) is needed for the types of the tasks.
- `RunAgreesAlways`: `Spec => []RunAgrees`. The strengthening is `RunInv`: a session that has computed
  a status of the run has an open transaction (`QuietInv`), and as long as its version of the run is
  current, that status is what the jobs give as the session sees them (`FreshInv`). A commit of
  another session changes the version, so it takes the session out of `fresh`; this is where the proof
  uses the condition of `UpdateRun`, without which (`CommitUnversioned`) the run is wrong.

- `OneTaskAlways`: `Spec => []OneTask`. The strengthening is `TaskInv`: what an update may be
  (`PlanFits`: the one that starts a task expects none, those that end one name it), that `task_id` is a
  task (`TasksExist`), and that as long as a transaction has the row of a job, nobody else has, and the
  row is as the condition of the update found it (`LocksHold`). A commit then adds a task to a job that
  has none, or ends the one it has; else it has replaced a status that was not seen.
- `StartsAfterNeedsAlways`: `Spec => []StartsAfterNeeds`. The strengthening is `StartInv`. Before any
  rerun, sessions mean to change only jobs that are not done, and all but the emitter start a task or
  finish a job (`OpsFit`). So a need that is done stays done (`DoneIsKept`), and what the emitter
  found may be used later (`ChecksFit`), for a need that gets skipped in the same transaction as well
  (`CommitStartsInOrder`).
- `ResolveIsSound`, `ResolveIsComplete`: what the rounds of the emitter find, for any needs, cycles
  included. Sound: only blocked jobs change, and one starts only if its needs are done or skipped by
  then, and allow it. Complete: as many rounds as there are jobs are enough, because a round that
  unblocks nothing is followed by no other (`ChainStops`).
- `CheckIsWholeAlways`: `Spec => CheckIsWhole`. From `ResolveIsComplete`, a check plans an update of every
  job that is blocked although its needs are done (`CheckPlansAll`). It publishes its updates only when
  none is left to make, because the run is computed after the last one (`CommitIsWhole`), and every
  other way in which they vanish puts the run into the queue or sets `dropped` or `broken`
  (`FailIsWhole`, `ContinueIsWhole`).
- `DownstreamIsClosure`: what a rerun selects is closed under "needs" and is the least such set, so the
  bounded rounds of `Downstream` reach what the loop of `GetAllRerunJobs` does.

`ResolveIsSound`, `ResolveIsComplete` and `DownstreamIsClosure` are inductions over numbers. The
library's theorem takes the predicate as an operator, so `Induction` states it for sets, from a least
element (`WFMin`), and `Iteration` has from it that a function can be applied again and again: only so
does `round` of `Resolve` have the values of its definition. `BlockedResolved` is liveness and is
checked by TLC only.

## 6. The status of a pull request, and the global lock

`GlobalLock` is one key of the redis locker, and `PullCheck` composes it with those who take it: the
workers of the queue `pr_patch_checker`, views, merges, manual merges and changes of the target branch.

### How the code is represented

| Code | Model |
|---|---|
| the key in Redis: value and expiry | `owner`, `ttl` (in periods of the extension rounds) |
| `mutexM` of each process, `startExtend` | `entry`, `round`; `Extend` |
| `Lock`, `TryLock`, the release function | `Acquire`, `Release`; `held` are the sessions between them |
| row of `pull_request` | `status`, `merged`; `of`: the content the status was computed from |
| the repository | `content`: number of pushes to head or base, those of merges included; `landed`: the head is an ancestor of the base |
| queue `pr_patch_checker` | `queued`: what the modules of section 4 promise of a unique queue |
| `AddTestPullRequestTask`, `markPullRequestStatusAsChecking`, `StartPullRequestCheckDelayable` | `Push`, `Mark`, `Reread`, `PushToQueue` |
| `StartPullRequestCheckOnView` | `View`, `ViewAsks` |
| `checkPullRequestMergeable` | `Pop`, `CheckLocks` or `CheckGivesUp`, `Load`, `Examine`, `StoreError`, `Has`, `Update` |
| `manuallyMerged` and its errors | `Load` (the last two of its alternatives) |
| `Merge` | `Request`, `RequestLocks`, `Refuse`, `Land` (`doMergeAndPush`), `Again` (the deferred `AddTestPullRequestTask`) |
| the post-receive hook of the push of a merge | `Notify` (`PushUpdates`, by which a task starts), `Hook` (`handlePullRequestMerging`) |
| `MergedManually`; `ChangeTargetBranch` | `SetManually`; `Refresh`, `Retarget` |

"checked" stands for mergeable, conflict, empty and ancestor alike; the properties do not tell them
apart. Time is counted in periods: a round is half an expiry after the one before, and finds the lock
in any phase. `missed` is history: since the last mark no check was asked for, or it was lost; a loss
that a queued check repairs does not count. `overlooked` says the same of the look for a manual merge.

A merge commit or a fast-forward makes the head an ancestor of the base, and so may a push to either
branch; a squash or a rebase does not. `manuallyMerged` asks git just that (`check.go:290`), so a squash
or rebase whose hook failed is recorded by nobody: the pull request remains open, and `content` has
changed. A later push may take the head out of the base again (a force push, or a new commit on the
head). A merge hands its push to the queue `push_update`, which a worker of any process may serve when
the queue is in Redis, so that the task of `Notify` starts on any process (`services/repository/push.go`);
that of `Again` is a goroutine of the process that merged.

Faults, each bounded by `MaxFaults` (with `MaxFailures` for extensions and unlocks): a check, a look for
a manual merge or a hook that fails, an error of the queue, `Lock` giving up, the death of a process.
The queue survives a crash, as the level and Redis queues do.

Left out: scheduled merges (`automerge`), divergence, comments, closing, the check of all pull requests
at start-up (only with a negative `DelayCheckForInactiveDays`).

### Runs

| Run | Instance | Shows |
|---|---|---|
| `pull_check` | 2 processes, 2 checkers, 1 view, 1 merger, 1 pusher, 2 changes of the content, expiry of 2 periods, 1 fault or failed extension | `HolderOwns`, `LossNeedsFailure`, `StaleIsRechecked`, `MergedStays` |
| `pull_progress` | the same actors and changes, 1 fault, no failed extension | `MergeIsRecorded`, `CheckingEnds` |

Two changes (pushes, or a push and a merge in either order) have a check begun before the first, one
between them, and one after; two checkers in two processes wait for one lock; an expiry of two periods
is the shortest that rounds at half of it can save. One failure is what a lock needs to be lost while it
is held, and its late release meets the next holder's.

What the exemptions of the properties stand for, as behaviours of the code:

- a mark that was overwritten between `Mark` and `Reread` makes the push ask for nothing, although the
  result stored is that of an older content (`missed`);
- the result of a check in progress may overwrite the mark of a delayable check, and views, which
  look for "checking", ask for nothing (`check.go:88`);
- a merge whose hook failed is found by the next check, but not if git or the database fails there
  (`overlooked`) or if the check is lost (`missed`), and nobody looks again until the next push or view;
- a view that finds the lock free while a popped item waits for it queues the item again, and the check
  then skips its update (`check.go:265`); a merge that git refuses asks for a check all the same
  (`merge.go:250`), which may be queued while another is about to store its result. `CheckingEnds`
  assumes that neither goes on forever.

Fairness: what has begun goes on (weak). `CheckLocks` and `View` are strongly fair, as the polls for
the lock have random delays; a pull request that is "checking" is assumed to be viewed. Nobody has to
push, merge or request.

### Proofs

`PullCheckProofs`, for any processes, any pairwise disjoint sets of actors, any expiry and any bounds:

- `TypeCorrect`, `HolderOwnsAlways` and `LossNeedsFailureAlways`: `Spec => []Inv`, where `Inv` adds to
  these three that who is in a step with the lock has it (`HeldInv`), and that as long as nothing failed
  the holder is in the map of its process and the key outlives the next round (`TimeInv`). The last is
  what makes half an expiry enough; it also shows that a release which deletes the entry of another
  holder is that of a session whose lock had run out.
- `MergedStaysAlways`: `Spec => MergedStays`. A check that goes on with a merged pull request has lost
  its lock, or the merge has (`MergedInv`); `TypeOK` and the lock alone do not tell a check that loaded
  the row before the merge from one that did so after.
- `StaleIsRecheckedAlways`: `Spec => []StaleIsRechecked`. The strengthening is `OldInv`: a session that
  is about to store the result for an older content has kept the check of the present one waiting
  (`Awaited`), or has lost its lock. `StaleIsRechecked` says of the state now what `OldInv` says of the
  results under way.

`MergeIsRecorded` and `CheckingEnds` are checked by TLC only.

## 7. Shutdown: the graceful manager

`Graceful` models the manager of one process, its servers, and the tasks and functions registered with
it.

| Code | Model |
|---|---|
| `manager.state`, the contexts | `state`; `shutdown`, `hammer`, `terminate`, `done` (canceled) |
| `doShutdown`, called by signals and the start-up timeout | `DoShutdown` (the change of state, or the hammer), then `BeginShutdown` |
| the goroutine of `doShutdown` | `waiter`; `ServersOver`, `DoTerminate`, `FunctionsOver` |
| `doHammerTime` | `timer`; `HammerTime`; `DoImmediateHammer` is `ImmediateHammer` |
| `runningServerWaitGroup` | `running`: who is to call `Done` |
| `RunWithCancel`, `RunAtShutdown`; `RunWithShutdownContext` | tasks in `Cancelled`; in `Watching` |
| `RunAtTerminate` | `AddFunction` (the wait group), `ListFunction` (the list) |
| `Server.ListenAndServe`, `Serve` | `serve`; `Listen`, `SetRunning`, `Register`, `Accept`, `WrapConnection`, `ServeReturns`, `Drain`, `ServerDone` |
| `awaitShutdown`, `doShutdown`, `doHammer` of a server | `watch`; `AwaitShutdown`, `CloseListener`, `Hammer` |
| `connCounter`, and the connections that are open in fact | `counter`, `conns`; `wrapped` those accepted so far |
| `wrappedConn.Close` with `removeConnection` | `CloseConnection`, and `CloseAgain` if the connection is closed already, counted in `again` |

`net/http` is external: it accepts one connection after the other and returns when Accept does not give
one. Left out: inherited sockets and the fork of a restart, the count of created servers, systemd,
`GracefulHammerTime < 0`.

Run `graceful`: one server with two connections, a task of each kind, a function for the termination,
two calls of a shutdown or hammer by a signal and by the start-up timeout, registrations at any time.
Servers and tasks meet only in the wait group, which already holds one of each kind; two connections
are the least of which one closes before the hammer and one after, and of which one is closed twice
(`MaxAgain = 1`) while the other is open. It shows `TypeOK`, `DoneIsDrained`,
`TerminateIsLast`, `HammerEndsServers` and `ShutdownEnds`.

The exemptions (`late`, `tardy`, `cut`) are behaviours of the code. A server whose `awaitShutdown` saw
the shutdown before `Serve` set the state to running is never closed (`server_hooks.go:32`), although
"servers running within the running server wait group should respond to IsHammer if not shutdown
already" (`manager.go:204`). A cancel function that is
registered after the shutdown is never called (`manager.go:74`). A function for the termination that is
counted and not yet listed keeps `doTerminate` waiting (`manager.go:93`). A second caller of `doShutdown`
hammers at once, even before the first has canceled the shutdown context (`manager.go:130`).

`removeConnection` counts down at every `Close` (`server.go:290`), and some connections are closed twice:
one with a bad PROXY header by its reader (`proxyprotocol/conn.go:170`) and by `net/http`, one whose TLS
handshake failed, and those of the built-in SSH server. "Each connection is added to a sync.Waitgroup
so that all outstanding connections can be served before shutting down the server" (`server.go:149`) is
then not so: with two connections open, of which one is closed twice, the counter is 0, and `Serve`
returns without waiting for the other. `DoneIsDrained` and `TerminateIsLast` say what remains: no more
connections are left open than there were second calls of `Close`, and none if there was none.

Fairness: goroutines that can run do, and a task that is told to stop does. Nobody has to connect, to
close a connection, or to ask for a shutdown.

`GracefulProofs`, for any servers, tasks, functions, callers and bounds: `TypeCorrect`,
`DoneIsDrainedAlways` and `TerminateIsLastAlways`, each `Spec => []P`. `TypeOK` is not inductive, as the
range of `counter` depends on what it counts: it needs `CountIsKnown`, that the counter is short by the
second calls of `Close` until the hammer resets it, and from then on between the truth and that many
below it, less the connections accepted. `GracefulInv` adds that exactly the servers between `Register`
and `ServerDone` are in the wait group (`ServingIsRegistered`), that a server has connections only while
it serves or drains; of a drained one no more are left than were closed twice (`OthersAreEmpty`), that
one caller begins the shutdown (`OneBegins`: a second one only hammers), and that after the wait only
those are registered that joined too late (`OnlyTardyAreLeft`). `HammerEndsServers` and `ShutdownEnds`
are liveness and are checked by TLC only.

## 8. The event source

`EventSource` models the server-sent events of signed-in users: the manager with its messengers, the
streams that register and leave, the goroutine `Run`, a sign-out, and a shutdown.

| Code | Model |
|---|---|
| `Manager.messengers`; `Messenger.channels` | `messengers` by user, a messenger being named by the stream that created it; `channels` |
| `Manager.mutex`; `Messenger.mutex` | `mutex`, `lock`: who holds them over a step at which it waits |
| `Manager.connection` | `connection`: the channel is full |
| a channel with room for one event | `full`, `closed`; a channel has the name of its stream |
| `Manager.Register` | `Register` (with the mutex), `AddChannel` (without) |
| the loop of `Events`, and `unregister` | `Receive`, `Leave`; `Unregister`, `Close`, `Drain` |
| `SendMessageBlocking` of a sign-out | `Find`, `Lock`, `Put`, `Unlock` |
| `Run`: the ticker, the pause, `SendMessage`, `UnregisterAll` | `Tick`, `Resume`, `RunFinds`, `RunSends`, `Sent`, `Stop`, `BeginUnregisterAll`, `CloseAll`, `EndUnregisterAll` |

`ref` is the messenger an actor has found and still uses after it let go of the mutex of the manager,
which is where the hazards are. A mutex that is taken and released with nothing waited for in between
is one step. A blocking send goes through the channels in an order that is left open. Requests that
send without waiting do what `RunFinds` and `RunSends` do. What events say, pings and the response
are left out: a stream may leave at any time, and does if a write of an event fails.

Run `events`: two streams of one user, one of another, a sign-out of the first, and a shutdown at any
time. Two streams are the least of which one leaves while the other registers or is sent to; the third
keeps `Run` busy, or not, for a reason of its own. It shows `OnlyOpenChannels`, `PauseIsNoticed`,
`MessengersAreUsed`, `ListedIsKept`, `LeavingEnds` and `RunReturns`.

`doc_blocking_send` is violated: "SendMessageBlocking sends the message to all registered channels and
ensures it gets sent" (`messenger.go:70`). A stream whose channel is full leaves and no longer reads. Its
`Unregister` takes the mutex of the manager and waits for that of the messenger, with which the sign-out
waits for room in that channel. Neither goes on, and nobody else gets the mutex of the manager.

What the other properties exempt are behaviours of the code. `Stuck` is this deadlock. `Forgotten`: a
stream that has found its messenger and not yet added its channel (`manager.go:45`) while the last other
stream of the user leaves is with a messenger that nobody finds; it gets no event, and when it leaves,
its goroutine reads forever from a channel that nobody closes, although it is to "ensure the messageChan
is closed" (`events.go:51`). `UnregisterAll` may have been at a messenger before a channel is added to
it, with the same end. An error in the list of stopwatches ends `Run` without `UnregisterAll`
(`manager_run.go:91`): streams then get no events until they leave.

Fairness: what a stream, sign-out or `Run` can do it does at last, and streams leave after a shutdown
(the select of `Events` has that case). Strong fairness is assumed of `Sent` and `Stop` only: a tick
sends to finitely many users, and a select takes a ready case at random. No stream has to register or
leave before a shutdown, and nobody has to sign out.

`EventSourceProofs`, for any users, streams, sign-outs and any owners of them: `TypeCorrect`,
`OnlyOpenChannelsAlways`, `PauseIsNoticedAlways` and `MessengersAreUsedAlways`, each `Spec => []P` for the
property of its name, and `ListedIsKeptAlways`: `Spec => ListedIsKept`. The invariant `Inv` adds to the
properties: the mutex of the manager is with the stream or `Run` that is at the step of waiting with it,
and the stream's messenger is still that of its user (`MutexInv`), which is why deleting it forgets nobody
else; the channels a sign-out has still to send to stay in the messenger whose mutex it has (`LockInv`);
a channel is added once, to one messenger (`ChannelInv`); messengers are those of their users
(`UserInv`). `LeavingEnds` and `RunReturns` are checked by TLC only.

## 9. What the proofs do not reach, and what is not modelled

Liveness under fairness is out of reach of the prover, which does not reason about ENABLED, so
`ItemsReachHandler`, `FlushFinishes`, `ShutdownFinishes`, `MarksClear`, `PushFinishesUnlessStuck`,
`BlockedResolved`, `MergeIsRecorded`, `CheckingEnds`, `HammerEndsServers`, `ShutdownEnds`, `LeavingEnds` and
`RunReturns` are shown on their instances only. Every
invariant and every action property that a passing run checks is also the statement of a theorem
(`NothingLost` under the assumptions of section 3).

Not modelled: the dummy queue (it has no state); webhook delivery, mirrors, cron and
DBFS (in the plan, or of little concurrency of their own); the process manager (one mutex, no waiting
inside); the database layer, indexers, packages and the rows of issues, repositories and users (their
hazards are those of the transactions of each request, of which Actions is the most demanding);
git, web, API, templates and migrations (input and output).
