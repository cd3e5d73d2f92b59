-------------------------- MODULE WorkerPoolQueue --------------------------
(***************************************************************************)
(* modules/queue: one WorkerPoolQueue with its base queue, the goroutine   *)
(* that pops from it (base.go), the main loop doRun with its batch buffer, *)
(* flushing and shutdown (workergroup.go), the workers it starts, and the  *)
(* calls of its users and of the site admin (workerqueue.go).              *)
(*                                                                         *)
(* Items are tokens; each is pushed once by a user and again by whoever    *)
(* holds it when the handler returns it unhandled. Three pairs of steps of *)
(* the code are one here: the context and room checks of a push with the   *)
(* push; the two loads of shutdownTimeout during a shutdown (ShutdownWait  *)
(* is called once); the cancellation of ctxWorker with the change of       *)
(* isFlushing beside it. A timeout of a push expires only while the push   *)
(* is blocked.                                                             *)
(***************************************************************************)
EXTENDS Integers, Sequences, FiniteSets, Functions

CONSTANTS
  Items,             \* what users push
  Workers,           \* goroutine identities that workers can take
  Main,              \* the goroutine of doRun, which handles items itself in a flush
  Length,            \* capacity of the base queue
  BatchLength,       \* items that make a full batch
  MaxNums,           \* values workerMaxNum can be set to; 0 or less: one worker when needed
  BaseType,          \* "level": survives the process; "channel": memory of the process
  ShutdownTimeouts,  \* arguments of ShutdownWait: 0, or 1 for any positive timeout
  Faults,            \* which of AllFaults may happen
  MaxFlushes,        \* bound on the flush requests
  MaxRestarts        \* bound on the restarts of the process

AllFaults == {"panic", "popError", "removeAll", "crash"}

ASSUME ConstantsAssumption ==
  /\ Main \notin Workers
  /\ Length \in Nat \ {0} /\ BatchLength \in Nat \ {0}
  /\ MaxNums \in SUBSET Int
  /\ BaseType \in {"level", "channel"}
  /\ ShutdownTimeouts \subseteq {0, 1}
  /\ Faults \subseteq AllFaults
  /\ MaxFlushes \in Nat /\ MaxRestarts \in Nat

ASSUME WorkersAssumption ==
  IsFiniteSet(Workers) /\ \A n \in MaxNums \cup {1} : n <= Cardinality(Workers)

VARIABLES
  base,              \* the base queue
  outcome,           \* history: what has become of each item
  popped,            \* what popItemByChan's goroutine holds (at most one item)
  popper,            \* that goroutine: "open", "popping", or "closed" after an error
  pc,                \* where doRun is
  buffer,            \* batchBuffer, or the local batch while dispatching
  timer,             \* batchDispatchC is armed
  flush,             \* the flush request in progress: "none", "drain", "discard"
  isFlushing,        \* isFlushing is set and ctxWorker is canceled
  live,              \* the workers counted in workerNum
  stage, hold,       \* inside doWorkerHandle: how far, and with which items
  workerMaxNum, canceled, shutdownTimeout,
  flushes, restarts  \* what has been used of the two bounds

queueVars   == <<base, outcome>>
popVars     == <<popped, popper>>
mainVars    == <<buffer, timer, flush, isFlushing>>
workerVars  == <<live, stage, hold>>
controlVars == <<workerMaxNum, shutdownTimeout, canceled, flushes, restarts>>
vars == <<queueVars, popVars, pc, mainVars, workerVars, controlVars>>

Actors == Workers \cup {Main}

LostOutcomes ==
  {"overflow",       \* no room when it had to go back to the base queue
   "abandoned",      \* unhandled during a shutdown that gives nothing back
   "flushed",        \* in a batch that failed entirely during a flush
   "discarded",      \* by a discarding flush
   "removed",        \* by RemoveAllItems
   "panicked",       \* in a batch whose handler panicked
   "killed"}         \* in memory when the process ended

Outcomes == {"new", "accepted", "handled"} \cup LostOutcomes

Stages == {"idle", "handle", "backoff", "requeue", "force"}

MainSteps == {"created", "loop", "dispatch", "spawn", "send", "flushStart",
  "flushWait", "flushDrain", "drain", "giveBack", "lastCall", "waitWorkers",
  "done", "exited"}

Held == UNION {hold[a] : a \in Actors}

(* the items that handler calls are running *)
InHandlers == UNION {hold[a] : a \in {b \in Actors : stage[b] = "handle"}}

Accepted == {i \in Items : outcome[i] = "accepted"}

(* the history of a set of items settled in the same way *)
Settled(S, how) == [i \in Items |-> IF i \in S THEN how ELSE outcome[i]]

(* The retry loop of the persistent base queues looks at the context       *)
(* first; the channel's select may still take its other case.              *)
CtxAllows == ~canceled \/ BaseType = "channel"

HasRoom == Len(base) < Length

(* stage of an actor left with the items of S after one of them went back *)
StageAfter(S) == IF S = {} THEN "idle" ELSE "requeue"

(* the setting replaces a number of workers that is not positive *)
ConfiguredNums == {n \in MaxNums : n >= 1}

Init ==
  /\ base = <<>> /\ outcome = [i \in Items |-> "new"]
  /\ popped = {} /\ popper = "open"
  /\ pc = "created"
  /\ buffer = {} /\ timer = FALSE /\ flush = "none" /\ isFlushing = FALSE
  /\ live = {}
  /\ stage = [a \in Actors |-> "idle"] /\ hold = [a \in Actors |-> {}]
  /\ workerMaxNum \in ConfiguredNums
  /\ canceled = FALSE /\ shutdownTimeout = 1
  /\ flushes = 0 /\ restarts = 0

-----------------------------------------------------------------------------
(* Calls of users and of the site admin.                                   *)

Push(i) ==
  /\ pc # "exited"
  /\ outcome[i] = "new"
  /\ CtxAllows /\ HasRoom
  /\ base' = Append(base, i)
  /\ outcome' = Settled({i}, "accepted")
  /\ UNCHANGED <<popVars, pc, mainVars, workerVars, controlVars>>

SetWorkerMaxNumber(n) ==
  /\ pc # "exited"
  /\ workerMaxNum' = n
  /\ UNCHANGED <<queueVars, popVars, pc, mainVars, workerVars,
                 shutdownTimeout, canceled, flushes, restarts>>

RemoveAllItems ==
  /\ pc # "exited"
  /\ "removeAll" \in Faults
  /\ base' = <<>>
  /\ outcome' = Settled(Range(base), "removed")
  /\ UNCHANGED <<popVars, pc, mainVars, workerVars, controlVars>>

Cancel ==
  /\ pc # "exited"
  /\ canceled' = TRUE
  /\ UNCHANGED <<queueVars, popVars, pc, mainVars, workerVars, workerMaxNum,
                 shutdownTimeout, flushes, restarts>>

ShutdownWait(t) ==
  /\ pc # "exited"
  /\ ~canceled
  /\ canceled' = TRUE
  /\ shutdownTimeout' = t
  /\ UNCHANGED <<queueVars, popVars, pc, mainVars, workerVars, workerMaxNum,
                 flushes, restarts>>

-----------------------------------------------------------------------------
(* The goroutine of popItemByChan.                                         *)

(* The retry loop of a persistent base queue looks at the context, and then *)
(* at the queue, which it may find empty; the channel's select is one step. *)
PopStarts ==
  /\ pc \notin {"created", "exited"} /\ BaseType = "level"
  /\ popper = "open" /\ popped = {}
  /\ ~canceled
  /\ popper' = "popping"
  /\ UNCHANGED <<queueVars, popped, pc, mainVars, workerVars, controlVars>>

PopRetries ==
  /\ popper = "popping" /\ base = <<>>
  /\ popper' = "open"
  /\ UNCHANGED <<queueVars, popped, pc, mainVars, workerVars, controlVars>>

(* popItemByChan is in the operation that takes an item *)
InPopItem ==
  /\ pc \notin {"created", "exited"} /\ popped = {}
  /\ popper = IF BaseType = "level" THEN "popping" ELSE "open"

(* Mutant: the popped item stays in the base queue. *)
PopKeeping ==
  /\ InPopItem /\ base # <<>>
  /\ popped' = {Head(base)} /\ popper' = "open"
  /\ UNCHANGED <<queueVars, pc, mainVars, workerVars, controlVars>>

Pop ==
  /\ InPopItem /\ base # <<>>
  /\ popped' = {Head(base)} /\ popper' = "open"
  /\ base' = Tail(base)
  /\ UNCHANGED <<outcome, pc, mainVars, workerVars, controlVars>>

(* PopItem returns an error: the context is canceled, or the database failed *)
PopFails ==
  /\ pc \notin {"created", "exited"}
  /\ \/ popper = "open" /\ popped = {} /\ canceled
     \/ popper = "popping" /\ "popError" \in Faults
  /\ popper' = "closed"
  /\ UNCHANGED <<queueVars, popped, pc, mainVars, workerVars, controlVars>>

-----------------------------------------------------------------------------
(* doRun                                                                   *)

Run ==
  /\ pc = "created"
  /\ pc' = "loop"
  /\ UNCHANGED <<queueVars, popVars, mainVars, workerVars, controlVars>>

BatchFull(S) == Cardinality(S) >= BatchLength

(* Mutant: the first item of a batch does not arm the debounce timer. *)
ReceiveUntimed ==
  /\ pc = "loop" /\ popped # {}
  /\ buffer' = buffer \cup popped
  /\ popped' = {}
  /\ pc' = IF BatchFull(buffer') THEN "dispatch" ELSE "loop"
  /\ UNCHANGED <<queueVars, popper, timer, flush, isFlushing, workerVars,
                 controlVars>>

Receive ==
  /\ pc = "loop" /\ popped # {}
  /\ buffer' = buffer \cup popped
  /\ popped' = {}
  /\ \/ /\ BatchFull(buffer')
        /\ pc' = "dispatch" /\ UNCHANGED timer
     \/ /\ ~BatchFull(buffer')
        /\ timer' = TRUE /\ UNCHANGED pc
  /\ UNCHANGED <<queueVars, popper, flush, isFlushing, workerVars,
                 controlVars>>

BatchTimer ==
  /\ pc = "loop" /\ timer
  /\ timer' = FALSE
  /\ pc' = "dispatch"
  /\ UNCHANGED <<queueVars, popVars, buffer, flush, isFlushing, workerVars,
                 controlVars>>

FlushRequest(kind) ==
  /\ pc = "loop" /\ flushes < MaxFlushes
  /\ flushes' = flushes + 1
  /\ flush' = kind
  /\ pc' = "dispatch"
  /\ UNCHANGED <<queueVars, popVars, buffer, timer, isFlushing, workerVars,
                 workerMaxNum, shutdownTimeout, canceled, restarts>>

(* the context is canceled, or the pop channel is closed; the deferred     *)
(* function cancels the context and closes batchChan                       *)
Stop ==
  /\ pc = "loop"
  /\ canceled \/ popper = "closed"
  /\ canceled' = TRUE
  /\ pc' = "drain"
  /\ UNCHANGED <<queueVars, popVars, mainVars, workerVars, workerMaxNum,
                 shutdownTimeout, flushes, restarts>>

-----------------------------------------------------------------------------
(* doDispatchBatchToWorker                                                 *)

AfterDispatch == IF flush = "none" THEN "loop" ELSE "flushStart"

HandTo(a, S) ==
  /\ hold' = [hold EXCEPT ![a] = S]
  /\ stage' = [stage EXCEPT ![a] = "handle"]

(* The non-blocking send: nothing to send, a worker that waits takes the   *)
(* batch, or none does (the live ones may all be between two receives).    *)
Dispatch ==
  /\ pc = "dispatch"
  /\ \/ /\ buffer = {}
        /\ pc' = AfterDispatch
        /\ UNCHANGED <<buffer, stage, hold>>
     \/ /\ buffer # {}
        /\ \E w \in live : stage[w] = "idle" /\ HandTo(w, buffer)
        /\ buffer' = {}
        /\ pc' = "spawn"
     \/ /\ buffer # {}
        /\ pc' = "spawn"
        /\ UNCHANGED <<buffer, stage, hold>>
  /\ UNCHANGED <<queueVars, popVars, timer, flush, isFlushing, live,
                 controlVars>>

(* Mutant: a maximum of 0 starts no worker. *)
MayStartConfigured ==
  /\ buffer # {} \/ live = {}
  /\ Cardinality(live) < workerMaxNum

MayStartWorker ==
  /\ buffer # {} \/ live = {}
  /\ \/ Cardinality(live) < workerMaxNum
     \/ (live = {} /\ workerMaxNum <= 0)

Spawn ==
  /\ pc = "spawn"
  /\ \/ /\ MayStartWorker
        /\ \E w \in Workers \ live : live' = live \cup {w}
     \/ /\ ~MayStartWorker
        /\ UNCHANGED live
  /\ pc' = IF buffer # {} THEN "send" ELSE AfterDispatch
  /\ UNCHANGED <<queueVars, popVars, mainVars, stage, hold, controlVars>>

(* The blocking select: a worker takes the batch, a flush request makes    *)
(* the main goroutine handle it, or the context ends and it stays buffered *)
SendToWorker(w) ==
  /\ pc = "send"
  /\ w \in live /\ stage[w] = "idle"
  /\ HandTo(w, buffer)
  /\ buffer' = {}
  /\ pc' = AfterDispatch
  /\ UNCHANGED <<queueVars, popVars, timer, flush, isFlushing, live,
                 controlVars>>

SendFlush(kind) ==
  /\ pc = "send" /\ flush = "none" /\ flushes < MaxFlushes
  /\ flushes' = flushes + 1
  /\ flush' = kind
  /\ HandTo(Main, buffer)
  /\ buffer' = {}
  /\ pc' = "flushStart"
  /\ UNCHANGED <<queueVars, popVars, timer, isFlushing, live, workerMaxNum,
                 shutdownTimeout, canceled, restarts>>

(* Mutant: the batch is not returned to the buffer. *)
SendCanceledForgets ==
  /\ pc = "send" /\ canceled
  /\ pc' = AfterDispatch
  /\ buffer' = {}
  /\ UNCHANGED <<queueVars, popVars, timer, flush, isFlushing, workerVars,
                 controlVars>>

SendCanceled ==
  /\ pc = "send" /\ canceled
  /\ pc' = AfterDispatch
  /\ UNCHANGED <<queueVars, popVars, mainVars, workerVars, controlVars>>

-----------------------------------------------------------------------------
(* doFlush                                                                 *)

FlushStart ==
  /\ pc = "flushStart" /\ stage[Main] = "idle"
  /\ isFlushing' = TRUE
  /\ pc' = "flushWait"
  /\ UNCHANGED <<queueVars, popVars, buffer, timer, flush, workerVars,
                 controlVars>>

(* Mutant: workers that wait for a batch are not waited for. *)
NoWorkerIsBusy == \A w \in live : stage[w] = "idle"

AllWorkersDone == live = {}

(* wg.Wait, then a discarding flush empties the batch buffer *)
FlushWait ==
  /\ pc = "flushWait" /\ AllWorkersDone
  /\ pc' = "flushDrain"
  /\ \/ /\ flush = "discard"
        /\ outcome' = Settled(buffer, "discarded")
        /\ buffer' = {}
     \/ /\ flush = "drain"
        /\ UNCHANGED <<outcome, buffer>>
  /\ UNCHANGED <<base, popVars, timer, flush, isFlushing, workerVars,
                 controlVars>>

FlushReceive ==
  /\ pc = "flushDrain" /\ stage[Main] = "idle" /\ popped # {}
  /\ popped' = {}
  /\ \/ /\ flush = "discard"
        /\ outcome' = Settled(popped, "discarded")
        /\ UNCHANGED <<stage, hold>>
     \/ /\ flush = "drain"
        /\ HandTo(Main, popped)
        /\ UNCHANGED outcome
  /\ UNCHANGED <<base, popper, pc, mainVars, live, controlVars>>

(* Mutant: the first moment without a popped item ends the flush. *)
DrainLooksOver == popped = {}

(* The pop channel is closed, or the base queue has been seen empty, even  *)
(* if an item is on its way out of it.                                     *)
DrainIsOver == popper = "closed" \/ base = <<>>

(* A discarding flush ends when nothing is ready; a closed channel always  *)
(* is.                                                                     *)
FlushEnd ==
  /\ pc = "flushDrain" /\ stage[Main] = "idle"
  /\ \/ canceled
     \/ (flush = "drain" /\ DrainIsOver)
     \/ (flush = "discard" /\ popped = {} /\ popper # "closed")
  /\ isFlushing' = FALSE
  /\ flush' = "none"
  /\ pc' = "loop"
  /\ UNCHANGED <<queueVars, popVars, buffer, timer, workerVars, controlVars>>

-----------------------------------------------------------------------------
(* The deferred function of doRun                                          *)

Drain ==
  /\ pc = "drain" /\ popped # {}
  /\ buffer' = buffer \cup popped
  /\ popped' = {}
  /\ UNCHANGED <<queueVars, popper, pc, timer, flush, isFlushing, workerVars,
                 controlVars>>

(* Mutant: the range loop ends when no popped item is ready. *)
NoPopIsReady == popped = {}

PopsDrained == popper = "closed"

(* Mutant: a short timeout counts as none. *)
GivesBackLong == shutdownTimeout > 1

(* basePushForShutdown is to be used *)
GivesBack == shutdownTimeout # 0

(* the pop channel is drained: give the items back, or handle them at once *)
DrainEnd ==
  /\ pc = "drain" /\ PopsDrained
  /\ \/ /\ GivesBack
        /\ pc' = "giveBack"
        /\ UNCHANGED <<buffer, stage, hold>>
     \/ /\ ~GivesBack
        /\ pc' = "lastCall"
        /\ HandTo(Main, buffer)
        /\ buffer' = {}
  /\ UNCHANGED <<queueVars, popVars, timer, flush, isFlushing, live,
                 controlVars>>

GiveBack(i) ==
  /\ pc = "giveBack" /\ i \in buffer /\ HasRoom
  /\ base' = Append(base, i)
  /\ buffer' = buffer \ {i}
  /\ UNCHANGED <<outcome, popVars, pc, timer, flush, isFlushing, workerVars,
                 controlVars>>

(* a push back is blocked until its own timeout, or until the one of the   *)
(* shutdown, which fails the pushes after it as well                       *)
GiveBackFails(S) ==
  /\ pc = "giveBack" /\ ~HasRoom
  /\ S # {} /\ S \subseteq buffer
  /\ Cardinality(S) = 1 \/ S = buffer
  /\ outcome' = Settled(S, "overflow")
  /\ buffer' = buffer \ S
  /\ UNCHANGED <<base, popVars, pc, timer, flush, isFlushing, workerVars,
                 controlVars>>

GiveBackEnd ==
  /\ pc = "giveBack" /\ buffer = {}
  /\ pc' = "waitWorkers"
  /\ UNCHANGED <<queueVars, popVars, mainVars, workerVars, controlVars>>

(* Mutant: the workers are waited for without a timeout. *)
WaitAllWorkers ==
  /\ pc = "waitWorkers" /\ live = {}
  /\ pc' = "done"
  /\ UNCHANGED <<queueVars, popVars, mainVars, workerVars, controlVars>>

(* all workers are done, or the shutdown timeout passed *)
WaitWorkers ==
  /\ pc = "waitWorkers"
  /\ pc' = "done"
  /\ UNCHANGED <<queueVars, popVars, mainVars, workerVars, controlVars>>

LastCallReturns(unhandled) ==
  /\ pc = "lastCall" /\ unhandled \subseteq hold[Main]
  /\ outcome' = [i \in Items |->
                   IF i \in unhandled THEN "abandoned"
                   ELSE IF i \in hold[Main] THEN "handled" ELSE outcome[i]]
  /\ hold' = [hold EXCEPT ![Main] = {}]
  /\ stage' = [stage EXCEPT ![Main] = "idle"]
  /\ pc' = "done"
  /\ UNCHANGED <<base, popVars, mainVars, live, controlVars>>

-----------------------------------------------------------------------------
(* doWorkerHandle, by a worker or by the main goroutine                    *)

KeepHold(a, S, next) ==
  /\ hold' = [hold EXCEPT ![a] = S]
  /\ stage' = [stage EXCEPT ![a] = next]

(* The handler returns what it did not handle. If that is the whole batch, *)
(* it is dropped during a flush and kept for a back-off otherwise.         *)
HandlerReturns(a, unhandled) ==
  /\ stage[a] = "handle" /\ ~(a = Main /\ pc = "lastCall")
  /\ unhandled \subseteq hold[a]
  /\ LET dropped == unhandled = hold[a] /\ isFlushing
     IN /\ outcome' = [i \in Items |->
             IF i \in hold[a] \ unhandled THEN "handled"
             ELSE IF i \in hold[a] /\ dropped THEN "flushed" ELSE outcome[i]]
        /\ \/ dropped /\ KeepHold(a, {}, "idle")
           \/ /\ ~dropped /\ unhandled = hold[a]
              /\ KeepHold(a, unhandled, "backoff")
           \/ /\ unhandled # hold[a]
              /\ KeepHold(a, unhandled, StageAfter(unhandled))
  /\ UNCHANGED <<base, popVars, pc, mainVars, live, controlVars>>

(* safeHandler recovers, and returns no unhandled item *)
HandlerPanics(a) ==
  /\ "panic" \in Faults
  /\ stage[a] = "handle"
  /\ outcome' = Settled(hold[a], "panicked")
  /\ KeepHold(a, {}, "idle")
  /\ pc' = IF a = Main /\ pc = "lastCall" THEN "done" ELSE pc
  /\ UNCHANGED <<base, popVars, mainVars, live, controlVars>>

BackoffEnds(a) ==
  /\ stage[a] = "backoff"
  /\ stage' = [stage EXCEPT ![a] = "requeue"]
  /\ UNCHANGED <<queueVars, popVars, pc, mainVars, live, hold, controlVars>>

(* Push of one unhandled item, then basePushForShutdown if that fails *)
Requeue(a, i) ==
  /\ i \in hold[a] /\ HasRoom
  /\ (stage[a] = "requeue" /\ CtxAllows) \/ stage[a] = "force"
  /\ base' = Append(base, i)
  /\ KeepHold(a, hold[a] \ {i}, StageAfter(hold[a] \ {i}))
  /\ UNCHANGED <<outcome, popVars, pc, mainVars, live, controlVars>>

RequeueFails(a, i) ==
  /\ i \in hold[a] /\ stage[a] = "requeue"
  /\ canceled \/ ~HasRoom
  /\ \/ /\ GivesBack
        /\ stage' = [stage EXCEPT ![a] = "force"]
        /\ UNCHANGED <<outcome, hold>>
     \/ /\ ~GivesBack
        /\ outcome' = Settled({i}, "abandoned")
        /\ KeepHold(a, hold[a] \ {i}, StageAfter(hold[a] \ {i}))
  /\ UNCHANGED <<base, popVars, pc, mainVars, live, controlVars>>

ForceFails(a, i) ==
  /\ i \in hold[a] /\ stage[a] = "force"
  /\ ~HasRoom
  /\ outcome' = Settled({i}, "overflow")
  /\ KeepHold(a, hold[a] \ {i}, StageAfter(hold[a] \ {i}))
  /\ UNCHANGED <<base, popVars, pc, mainVars, live, controlVars>>

(* Mutant: a flush does not cancel the context of the workers. *)
QueueCanceled == canceled

(* ctxWorker, a child of ctxRun that a flush cancels *)
WorkersCanceled == canceled \/ isFlushing

(* The worker's select while it waits for a batch *)
WorkerStops(w) ==
  /\ w \in live /\ stage[w] = "idle"
  /\ WorkersCanceled
  /\ live' = live \ {w}
  /\ UNCHANGED <<queueVars, popVars, pc, mainVars, stage, hold, controlVars>>

(* Mutant: the last worker does not count itself. *)
AnyWorkerIsSpare == Cardinality(live) >= 1

WorkerIsSpare == Cardinality(live) > 1

WorkerIdles(w) ==
  /\ w \in live /\ stage[w] = "idle"
  /\ WorkerIsSpare
  /\ live' = live \ {w}
  /\ UNCHANGED <<queueVars, popVars, pc, mainVars, stage, hold, controlVars>>

-----------------------------------------------------------------------------
(* The process                                                             *)

(* It exits after the shutdown of the queue, or dies before; the memory of *)
(* the process goes with it, and the base queue too unless it persists.    *)
ProcessEnds ==
  /\ pc # "exited"
  /\ pc = "done" \/ "crash" \in Faults
  /\ pc' = "exited"
  /\ LET kept == IF BaseType = "level" THEN Range(base) ELSE {}
     IN outcome' = Settled(Accepted \ kept, "killed")
  /\ base' = IF BaseType = "level" THEN base ELSE <<>>
  /\ popped' = {} /\ popper' = "closed"
  /\ buffer' = {} /\ timer' = FALSE /\ flush' = "none" /\ isFlushing' = FALSE
  /\ live' = {}
  /\ stage' = [a \in Actors |-> "idle"] /\ hold' = [a \in Actors |-> {}]
  /\ canceled' = TRUE
  /\ UNCHANGED <<workerMaxNum, shutdownTimeout, flushes, restarts>>

(* NewWorkerPoolQueueWithContext on the base queue that is left *)
Restart ==
  /\ pc = "exited" /\ restarts < MaxRestarts
  /\ restarts' = restarts + 1
  /\ pc' = "created"
  /\ popper' = "open"
  /\ canceled' = FALSE /\ shutdownTimeout' = 1
  /\ workerMaxNum' \in ConfiguredNums
  /\ UNCHANGED <<queueVars, popped, mainVars, workerVars, flushes>>

Terminated ==
  /\ pc = "exited" /\ restarts = MaxRestarts
  /\ UNCHANGED vars

-----------------------------------------------------------------------------
UserStep ==
  \/ \E i \in Items : Push(i)
  \/ \E n \in MaxNums : SetWorkerMaxNumber(n)
  \/ \E t \in ShutdownTimeouts : ShutdownWait(t)
  \/ RemoveAllItems \/ Cancel

DispatchStep ==
  \/ Dispatch \/ Spawn \/ SendCanceled
  \/ \E w \in Workers : SendToWorker(w)
  \/ \E kind \in {"drain", "discard"} : SendFlush(kind)

FlushStep == FlushStart \/ FlushWait \/ FlushReceive \/ FlushEnd

ShutdownStep ==
  \/ Drain \/ DrainEnd \/ GiveBackEnd \/ WaitWorkers
  \/ \E i \in Items : GiveBack(i)
  \/ \E S \in SUBSET Items : GiveBackFails(S) \/ LastCallReturns(S)

HandlerStep(a) ==
  \/ \E S \in SUBSET Items : HandlerReturns(a, S)
  \/ HandlerPanics(a)

RequeueStep(a) ==
  \/ BackoffEnds(a)
  \/ \E i \in Items : Requeue(a, i) \/ RequeueFails(a, i) \/ ForceFails(a, i)

Next ==
  \/ UserStep
  \/ PopStarts \/ PopRetries \/ Pop \/ PopFails
  \/ Run \/ Receive \/ BatchTimer \/ Stop
  \/ \E kind \in {"drain", "discard"} : FlushRequest(kind)
  \/ DispatchStep \/ FlushStep \/ ShutdownStep
  \/ \E a \in Actors : HandlerStep(a) \/ RequeueStep(a)
  \/ \E w \in Workers : WorkerStops(w) \/ WorkerIdles(w)
  \/ ProcessEnds \/ Restart \/ Terminated

Spec == Init /\ [][Next]_vars

-----------------------------------------------------------------------------
(* Fairness: the goroutines run, a select that is reached again and again  *)
(* does not forever leave a ready case aside, and timers fire.             *)
Fairness ==
  /\ WF_vars(PopStarts) /\ WF_vars(PopRetries) /\ WF_vars(Pop)
  /\ WF_vars(canceled /\ PopFails)
  /\ WF_vars(Run) /\ SF_vars(Receive) /\ SF_vars(BatchTimer) /\ SF_vars(Stop)
  /\ WF_vars(Dispatch) /\ WF_vars(Spawn) /\ SF_vars(SendCanceled)
  /\ SF_vars(\E w \in Workers : SendToWorker(w))
  /\ WF_vars(FlushStart) /\ WF_vars(FlushWait)
  /\ SF_vars(FlushReceive) /\ SF_vars(FlushEnd)
  /\ WF_vars(ShutdownStep /\ pc # "lastCall")
  /\ \A a \in Actors : WF_vars(RequeueStep(a))
  /\ \A w \in Workers : WF_vars(WorkerStops(w))

(* The handlers of the repository's queues return; the queue assumes it    *)
(* nowhere except in a flush and in a shutdown without a timeout.          *)
HandlersReturn ==
  /\ \A a \in Actors : WF_vars(\E S \in SUBSET Items : HandlerReturns(a, S))
  /\ WF_vars(\E S \in SUBSET Items : LastCallReturns(S))

FairSpec == Spec /\ Fairness /\ HandlersReturn

HungSpec == Spec /\ Fairness

-----------------------------------------------------------------------------
(* Type correctness. *)
TypeOK ==
  /\ base \in Seq(Items) /\ Len(base) <= Length
  /\ outcome \in [Items -> Outcomes]
  /\ popped \in SUBSET Items /\ popper \in {"open", "popping", "closed"}
  /\ pc \in MainSteps
  /\ buffer \in SUBSET Items
  /\ timer \in BOOLEAN /\ isFlushing \in BOOLEAN
  /\ flush \in {"none", "drain", "discard"}
  /\ live \in SUBSET Workers
  /\ stage \in [Actors -> Stages] /\ hold \in [Actors -> SUBSET Items]
  /\ workerMaxNum \in MaxNums
  /\ canceled \in BOOLEAN /\ shutdownTimeout \in {0, 1}
  /\ flushes \in Nat /\ restarts \in Nat

AcceptedArePlaced == Accepted = Range(base) \cup popped \cup buffer \cup Held

BaseIsInjective == \A m, n \in 1 .. Len(base) : base[m] = base[n] => m = n

PlacesAreDisjoint ==
  /\ Range(base) \cap (popped \cup buffer \cup Held) = {}
  /\ popped \cap (buffer \cup Held) = {}
  /\ buffer \cap Held = {}

HoldsAreDisjoint ==
  \A a, b \in Actors : a # b => hold[a] \cap hold[b] = {}

(* An accepted item is in exactly one place: the base queue (once), the    *)
(* hands of the popping goroutine, the batch buffer, or those of one       *)
(* handler call; and nothing else is in any of them. It is what keeps an   *)
(* item from being handled twice or forgotten, however the goroutines, a   *)
(* flush, a shutdown or a crash interleave.                                *)
InOnePlace ==
  /\ AcceptedArePlaced /\ BaseIsInjective /\ PlacesAreDisjoint
  /\ HoldsAreDisjoint

(* Items that wait in the batch buffer of a running main loop have an      *)
(* armed timer, so they are dispatched even if no other item ever comes.   *)
BufferIsTimed ==
  pc = "loop" /\ buffer # {} /\ ~canceled => timer

(* While the main loop blocks on handing over a batch there is a worker to *)
(* receive it, whatever idle workers stopped and whatever maximum the      *)
(* admin set in between (the data race of the comment at workergroup.go:63)*)
SenderHasReceiver ==
  pc = "send" /\ ~canceled => live # {}

(* During the draining part of a flush no worker exists or holds items:    *)
(* the main goroutine handles everything, synchronously.                   *)
FlushIsAlone ==
  pc = "flushDrain" => live = {} /\ \A w \in Workers : hold[w] = {}

(* When the shutdown is over, every item that still waits is back in the   *)
(* base queue, except those of the workers that outlived the timeout.      *)
ShutdownGivesBack ==
  pc = "done" => \A i \in Accepted :
                    i \in Range(base) \/ \E w \in live : i \in hold[w]

(* A queue with room for all its items, whose handlers do not panic, that  *)
(* is shut down with a timeout and never flushed or emptied by the admin,  *)
(* loses nothing but what the process takes with it.                       *)
NothingLost ==
  \A i \in Items : outcome[i] \in {"new", "accepted", "handled", "killed"}

(* When a draining flush ends while the queue runs, everything accepted is *)
(* handled or was dropped, but for an item on its way out of the base      *)
(* queue: FlushWithContext's "process all items in the queue synchronously"*)
FlushLeavesNothing ==
  [][flush = "drain" /\ flush' = "none" /\ ~canceled' /\ popper # "closed"
       => Accepted \subseteq popped]_vars

(* The queue implements the life cycle of ItemLifecycle. *)
ItemState ==
  [i \in Items |->
     IF i \in InHandlers THEN "running"
     ELSE IF outcome[i] = "accepted" THEN "pending"
     ELSE IF outcome[i] \in LostOutcomes THEN "lost" ELSE outcome[i]]

Lifecycle == INSTANCE ItemLifecycle WITH state <- ItemState

LifecycleSpec == Lifecycle!Spec

(* Every accepted item is eventually given to a handler, whatever other    *)
(* items keep failing, unless it is lost or the queue is shut down.        *)
ItemsReachHandler ==
  \A i \in Items :
    outcome[i] = "accepted" ~>
      \/ canceled \/ outcome[i] # "accepted"
      \/ i \in InHandlers

(* A shutdown finishes: ShutdownWait and Run return. *)
ShutdownFinishes == canceled ~> pc \in {"done", "exited"}

(* A flush that the main loop took finishes. *)
FlushFinishes == flush # "none" ~> flush = "none"

=============================================================================
