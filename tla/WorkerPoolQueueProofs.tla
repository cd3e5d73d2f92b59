----------------------- MODULE WorkerPoolQueueProofs -----------------------
(***************************************************************************)
(* Theorems about WorkerPoolQueue, for any set of items, any number of     *)
(* workers and any capacity: type correctness, that an accepted item is in *)
(* exactly one place, that the queue implements ItemLifecycle, and what    *)
(* doRun, its flushes and its shutdown leave behind.                       *)
(***************************************************************************)
EXTENDS WorkerPoolQueue, SequenceFacts, FiniteSetTheorems, TLAPS

-----------------------------------------------------------------------------
(* Type correctness.                                                       *)

\* The types hold at first.
LEMMA TypeInit == Init => TypeOK
<1> SUFFICES ASSUME Init
             PROVE  TypeOK
  OBVIOUS
<1> USE ConstantsAssumption DEF Init
<1>1. base \in Seq(Items) /\ Len(base) <= Length
  OBVIOUS
<1>2. outcome \in [Items -> Outcomes]
  BY DEF Outcomes
<1>3. stage \in [Actors -> Stages] /\ hold \in [Actors -> SUBSET Items]
  BY DEF Stages
<1> QED
  BY <1>1, <1>2, <1>3 DEF TypeOK, ConfiguredNums, MainSteps

\* Every step keeps the types.
LEMMA TypeStep == TypeOK /\ [Next]_vars => TypeOK'
<1> SUFFICES ASSUME TypeOK, [Next]_vars
             PROVE  TypeOK'
  OBVIOUS
<1> USE ConstantsAssumption
        DEF TypeOK, queueVars, popVars, mainVars, workerVars, controlVars
<1>1. ASSUME NEW i \in Items, Push(i)
      PROVE  TypeOK'
  BY <1>1, AppendRange DEF Push, HasRoom, Settled, Outcomes
<1>2. ASSUME NEW n \in MaxNums, SetWorkerMaxNumber(n)
      PROVE  TypeOK'
  BY <1>2 DEF SetWorkerMaxNumber
<1>3. ASSUME NEW t \in ShutdownTimeouts, ShutdownWait(t)
      PROVE  TypeOK'
  BY <1>3 DEF ShutdownWait
<1>4. CASE RemoveAllItems
  BY <1>4 DEF RemoveAllItems, Settled, Outcomes, LostOutcomes
<1>5. CASE Cancel
  BY <1>5 DEF Cancel
<1>6. CASE Pop
  BY <1>6 DEF Pop, InPopItem
<1>7. CASE PopStarts \/ PopRetries \/ PopFails
  BY <1>7 DEF PopStarts, PopRetries, PopFails
<1>8. CASE Run
  BY <1>8 DEF Run, MainSteps
<1>9. CASE Receive
  BY <1>9 DEF Receive, MainSteps
<1>10. CASE BatchTimer
  BY <1>10 DEF BatchTimer, MainSteps
<1>11. CASE Stop
  BY <1>11 DEF Stop, MainSteps
<1>12. ASSUME NEW kind \in {"drain", "discard"}, FlushRequest(kind)
       PROVE  TypeOK'
  BY <1>12 DEF FlushRequest, MainSteps
<1>13. CASE Dispatch
  BY <1>13 DEF Dispatch, HandTo, AfterDispatch, MainSteps, Stages, Actors
<1>14. CASE Spawn
  BY <1>14 DEF Spawn, AfterDispatch, MainSteps
<1>15. CASE SendCanceled
  BY <1>15 DEF SendCanceled, AfterDispatch, MainSteps
<1>16. ASSUME NEW w \in Workers, SendToWorker(w)
       PROVE  TypeOK'
  BY <1>16 DEF SendToWorker, HandTo, AfterDispatch, MainSteps, Stages, Actors
<1>17. ASSUME NEW kind \in {"drain", "discard"}, SendFlush(kind)
       PROVE  TypeOK'
  BY <1>17 DEF SendFlush, HandTo, MainSteps, Stages, Actors
<1>18. CASE FlushStart
  BY <1>18 DEF FlushStart, MainSteps
<1>19. CASE FlushWait
  BY <1>19 DEF FlushWait, MainSteps, Settled, Outcomes, LostOutcomes
<1>20. CASE FlushReceive
  BY <1>20 DEF FlushReceive, HandTo, Stages, Settled, Outcomes, LostOutcomes
<1>21. CASE FlushEnd
  BY <1>21 DEF FlushEnd, MainSteps
<1>22. CASE Drain
  BY <1>22 DEF Drain
<1>23. CASE DrainEnd
  BY <1>23 DEF DrainEnd, HandTo, MainSteps, Stages, Actors
<1>24. CASE GiveBackEnd
  BY <1>24 DEF GiveBackEnd, MainSteps
<1>25. CASE WaitWorkers
  BY <1>25 DEF WaitWorkers, MainSteps
<1>26. ASSUME NEW i \in Items, GiveBack(i)
       PROVE  TypeOK'
  BY <1>26, AppendRange DEF GiveBack, HasRoom
<1>27. ASSUME NEW S \in SUBSET Items, GiveBackFails(S)
       PROVE  TypeOK'
  BY <1>27 DEF GiveBackFails, Settled, Outcomes, LostOutcomes
<1>28. ASSUME NEW S \in SUBSET Items, LastCallReturns(S)
       PROVE  TypeOK'
  BY <1>28 DEF LastCallReturns, MainSteps, Stages, Outcomes, LostOutcomes
<1>29. ASSUME NEW a \in Actors, NEW S \in SUBSET Items, HandlerReturns(a, S)
       PROVE  TypeOK'
  BY <1>29 DEF HandlerReturns, KeepHold, StageAfter, Stages, Outcomes,
     LostOutcomes
<1>30. ASSUME NEW a \in Actors, HandlerPanics(a)
       PROVE  TypeOK'
  BY <1>30 DEF HandlerPanics, KeepHold, MainSteps, Stages, Settled, Outcomes,
     LostOutcomes
<1>31. ASSUME NEW a \in Actors, BackoffEnds(a)
       PROVE  TypeOK'
  BY <1>31 DEF BackoffEnds, Stages
<1>32. ASSUME NEW a \in Actors, NEW i \in Items, Requeue(a, i)
       PROVE  TypeOK'
  BY <1>32, AppendRange DEF Requeue, HasRoom, KeepHold, StageAfter, Stages
<1>33. ASSUME NEW a \in Actors, NEW i \in Items, RequeueFails(a, i)
       PROVE  TypeOK'
  BY <1>33 DEF RequeueFails, KeepHold, StageAfter, Stages, Settled, Outcomes,
     LostOutcomes
<1>34. ASSUME NEW a \in Actors, NEW i \in Items, ForceFails(a, i)
       PROVE  TypeOK'
  BY <1>34 DEF ForceFails, KeepHold, StageAfter, Stages, Settled, Outcomes,
     LostOutcomes
<1>35. ASSUME NEW w \in Workers, WorkerStops(w)
       PROVE  TypeOK'
  BY <1>35 DEF WorkerStops
<1>36. ASSUME NEW w \in Workers, WorkerIdles(w)
       PROVE  TypeOK'
  BY <1>36 DEF WorkerIdles
<1>37. CASE ProcessEnds
  <2> USE <1>37 DEF ProcessEnds
  <2>1. base' \in Seq(Items) /\ Len(base') <= Length
    OBVIOUS
  <2>2. outcome' \in [Items -> Outcomes]
    BY DEF Settled, Outcomes, LostOutcomes
  <2>3. stage' \in [Actors -> Stages] /\ hold' \in [Actors -> SUBSET Items]
    BY DEF Stages
  <2> QED
    BY <2>1, <2>2, <2>3 DEF MainSteps
<1>38. CASE Restart
  <2>1. workerMaxNum' \in MaxNums
    BY <1>38 DEF Restart, ConfiguredNums
  <2>2. restarts' \in Nat
    BY <1>38 DEF Restart
  <2>3. base' = base /\ outcome' = outcome /\ stage' = stage /\ hold' = hold
    BY <1>38 DEF Restart
  <2> QED
    BY <1>38, <2>1, <2>2, <2>3 DEF Restart, MainSteps
<1>39. CASE Terminated \/ UNCHANGED vars
  BY <1>39 DEF Terminated, vars
<1> QED
  BY <1>1, <1>2, <1>3, <1>4, <1>5, <1>6, <1>7, <1>8, <1>9, <1>10, <1>11,
     <1>12, <1>13, <1>14, <1>15, <1>16, <1>17, <1>18, <1>19, <1>20, <1>21,
     <1>22, <1>23, <1>24, <1>25, <1>26, <1>27, <1>28, <1>29, <1>30, <1>31,
     <1>32, <1>33, <1>34, <1>35, <1>36, <1>37, <1>38, <1>39 DEF Next,
     UserStep, DispatchStep, FlushStep, ShutdownStep, HandlerStep,
     RequeueStep

(* Every variable keeps its type, and the base queue its capacity, whoever *)
(* pushes: users, the shutdown and the handlers that return items.         *)
THEOREM TypeCorrect == Spec => []TypeOK
BY TypeInit, TypeStep, PTL DEF Spec

-----------------------------------------------------------------------------
(* An accepted item is in one place. What makes that inductive: who waits  *)
(* for a batch holds nothing a new batch could replace, and the main       *)
(* goroutine is in doWorkerHandle only during a flush, and in the handler  *)
(* during the last call of a shutdown.                                     *)

IdleHoldsNothing == \A a \in Actors : stage[a] = "idle" => hold[a] = {}

MainHandlesInFlush ==
  /\ stage[Main] # "idle" => pc \in {"flushStart", "flushDrain", "lastCall"}
  /\ pc = "lastCall" => stage[Main] = "handle"

PlaceInv == InOnePlace /\ IdleHoldsNothing /\ MainHandlesInFlush

(* What one assignment to hold does to the items held. *)
LEMMA HeldUpdate ==
  ASSUME TypeOK, HoldsAreDisjoint, NEW a \in Actors, NEW S,
         hold' = [hold EXCEPT ![a] = S]
  PROVE  /\ hold[a] \subseteq Held
         /\ Held' = (Held \ hold[a]) \cup S
         /\ S \cap (Held \ hold[a]) = {} => HoldsAreDisjoint'
<1>1. hold' = [b \in Actors |-> IF b = a THEN S ELSE hold[b]]
  BY DEF TypeOK
<1>2. hold[a] \subseteq Held
  BY DEF Held
<1>3. Held' = (Held \ hold[a]) \cup S
  BY <1>1 DEF Held, HoldsAreDisjoint
<1>4. ASSUME S \cap (Held \ hold[a]) = {}
      PROVE  HoldsAreDisjoint'
  BY <1>1, <1>4 DEF Held, HoldsAreDisjoint
<1> QED
  BY <1>2, <1>3, <1>4

(* Settling items takes them from the accepted ones. *)
LEMMA SettledAccepted ==
  ASSUME NEW S, NEW how, how # "accepted", outcome' = Settled(S, how)
  PROVE  Accepted' = Accepted \ S
BY DEF Accepted, Settled

(* Steps that move no item. *)
LEMMA PlacesKept ==
  InOnePlace /\ UNCHANGED <<base, outcome, popped, buffer, hold>> => InOnePlace'
BY DEF InOnePlace, AcceptedArePlaced, BaseIsInjective, PlacesAreDisjoint,
       HoldsAreDisjoint, Accepted, Held

(* Steps that move items are one of five kinds; each lemma is about what   *)
(* such a step does to the places, whatever else it does.                  *)

(* an item enters the base queue: from a user, the buffer, or a handler *)
LEMMA BaseGains ==
  ASSUME TypeOK, InOnePlace, NEW i \in Items, i \notin Range(base),
         base' = Append(base, i)
  PROVE  /\ Range(base') = Range(base) \cup {i}
         /\ BaseIsInjective'
<1>1. Injective(base) /\ base \in Seq(Items)
  BY DEF Injective, InOnePlace, BaseIsInjective, TypeOK
<1>2. Injective(base') /\ Range(base') = Range(base) \cup {i}
  BY <1>1, AppendInjective, AppendRange
<1> QED
  BY <1>2 DEF Injective, BaseIsInjective

(* the first item leaves it *)
LEMMA BaseLoses ==
  ASSUME TypeOK, InOnePlace, base # <<>>, base' = Tail(base)
  PROVE  /\ Head(base) \in Range(base)
         /\ Range(base') = Range(base) \ {Head(base)}
         /\ BaseIsInjective'
<1>1. Injective(base) /\ base \in Seq(Items)
  BY DEF Injective, InOnePlace, BaseIsInjective, TypeOK
<1>2. /\ Injective(base') /\ Range(base') = Range(base) \ {Head(base)}
      /\ Head(base) \in Range(base)
  BY <1>1, TailRange
<1> QED
  BY <1>2 DEF Injective, BaseIsInjective

(* an actor that holds nothing is given a set of items from another place *)
LEMMA HoldGains ==
  ASSUME TypeOK, InOnePlace, NEW a \in Actors, NEW S, hold[a] = {},
         S \cap Held = {}, hold' = [hold EXCEPT ![a] = S]
  PROVE  Held' = Held \cup S /\ HoldsAreDisjoint'
BY HeldUpdate DEF InOnePlace

(* an actor keeps a part of what it holds *)
LEMMA HoldLoses ==
  ASSUME TypeOK, InOnePlace, NEW a \in Actors, NEW S, S \subseteq hold[a],
         hold' = [hold EXCEPT ![a] = S]
  PROVE  /\ hold[a] \subseteq Held
         /\ Held' = Held \ (hold[a] \ S)
         /\ HoldsAreDisjoint'
<1>1. S \cap (Held \ hold[a]) = {}
  OBVIOUS
<1> QED
  BY <1>1, HeldUpdate DEF InOnePlace

(* an actor is rid of all it holds *)
LEMMA HoldEmptied ==
  ASSUME TypeOK, InOnePlace, NEW a \in Actors, hold' = [hold EXCEPT ![a] = {}]
  PROVE  /\ hold[a] \subseteq Held
         /\ Held' = Held \ hold[a]
         /\ HoldsAreDisjoint'
<1> DEFINE none == hold[a] \ hold[a]
<1>1. none \subseteq hold[a] /\ hold' = [hold EXCEPT ![a] = none]
  OBVIOUS
<1>2. hold[a] \ none = hold[a]
  OBVIOUS
<1> HIDE DEF none
<1> QED
  BY <1>1, <1>2, HoldLoses

\* An untouched base queue holds what it held.
LEMMA BaseKept ==
  InOnePlace /\ base' = base => Range(base') = Range(base) /\ BaseIsInjective'
BY DEF InOnePlace, BaseIsInjective

\* Untouched hands hold what they held.
LEMMA HoldKept ==
  InOnePlace /\ hold' = hold => Held' = Held /\ HoldsAreDisjoint'
BY DEF InOnePlace, HoldsAreDisjoint, Held

\* Where no outcome changes, the accepted items stay the same.
LEMMA AcceptedKept == outcome' = outcome => Accepted' = Accepted
BY DEF Accepted

(* The parts of PlaceInv about who handles what. *)
LEMMA StagesStep ==
  TypeOK /\ IdleHoldsNothing /\ MainHandlesInFlush /\ [Next]_vars
    => (IdleHoldsNothing /\ MainHandlesInFlush)'
<1> SUFFICES ASSUME TypeOK, IdleHoldsNothing, MainHandlesInFlush, [Next]_vars
             PROVE  (IdleHoldsNothing /\ MainHandlesInFlush)'
  OBVIOUS
<1> USE ConstantsAssumption
        DEF TypeOK, IdleHoldsNothing, MainHandlesInFlush, Actors, queueVars,
            popVars, mainVars, workerVars, controlVars
<1>1. ASSUME NEW n \in MaxNums, SetWorkerMaxNumber(n)
      PROVE  (IdleHoldsNothing /\ MainHandlesInFlush)'
  BY <1>1 DEF SetWorkerMaxNumber
<1>2. ASSUME NEW t \in ShutdownTimeouts, ShutdownWait(t)
      PROVE  (IdleHoldsNothing /\ MainHandlesInFlush)'
  BY <1>2 DEF ShutdownWait
<1>3. CASE Cancel
  BY <1>3 DEF Cancel
<1>4. CASE PopStarts \/ PopRetries \/ PopFails
  BY <1>4 DEF PopStarts, PopRetries, PopFails
<1>5. CASE Run
  BY <1>5 DEF Run
<1>6. CASE BatchTimer
  BY <1>6 DEF BatchTimer
<1>7. CASE Stop
  BY <1>7 DEF Stop
<1>8. ASSUME NEW kind \in {"drain", "discard"}, FlushRequest(kind)
      PROVE  (IdleHoldsNothing /\ MainHandlesInFlush)'
  BY <1>8 DEF FlushRequest
<1>9. CASE Spawn
  BY <1>9 DEF Spawn, AfterDispatch
<1>10. CASE SendCanceled
  BY <1>10 DEF SendCanceled, AfterDispatch
<1>11. CASE FlushStart
  BY <1>11 DEF FlushStart
<1>12. CASE FlushEnd
  BY <1>12 DEF FlushEnd
<1>13. CASE GiveBackEnd
  BY <1>13 DEF GiveBackEnd
<1>14. CASE WaitWorkers
  BY <1>14 DEF WaitWorkers
<1>15. ASSUME NEW a \in Actors, BackoffEnds(a)
       PROVE  (IdleHoldsNothing /\ MainHandlesInFlush)'
  BY <1>15 DEF BackoffEnds
<1>16. ASSUME NEW w \in Workers, WorkerStops(w)
       PROVE  (IdleHoldsNothing /\ MainHandlesInFlush)'
  BY <1>16 DEF WorkerStops
<1>17. ASSUME NEW w \in Workers, WorkerIdles(w)
       PROVE  (IdleHoldsNothing /\ MainHandlesInFlush)'
  BY <1>17 DEF WorkerIdles
<1>18. CASE Restart
  BY <1>18 DEF Restart
<1>19. ASSUME NEW i \in Items, Push(i)
       PROVE  (IdleHoldsNothing /\ MainHandlesInFlush)'
  BY <1>19 DEF Push
<1>20. CASE RemoveAllItems
  BY <1>20 DEF RemoveAllItems
<1>21. CASE Pop
  BY <1>21 DEF Pop, InPopItem
<1>22. CASE Receive
  BY <1>22 DEF Receive
<1>23. CASE Dispatch
  BY <1>23 DEF Dispatch, HandTo, AfterDispatch
<1>24. ASSUME NEW w \in Workers, SendToWorker(w)
       PROVE  (IdleHoldsNothing /\ MainHandlesInFlush)'
  BY <1>24 DEF SendToWorker, HandTo, AfterDispatch
<1>25. ASSUME NEW kind \in {"drain", "discard"}, SendFlush(kind)
       PROVE  (IdleHoldsNothing /\ MainHandlesInFlush)'
  BY <1>25 DEF SendFlush, HandTo
<1>26. CASE FlushWait
  BY <1>26 DEF FlushWait
<1>27. CASE FlushReceive
  BY <1>27 DEF FlushReceive, HandTo
<1>28. CASE Drain
  BY <1>28 DEF Drain
<1>29. CASE DrainEnd
  BY <1>29 DEF DrainEnd, HandTo
<1>30. ASSUME NEW i \in Items, GiveBack(i)
       PROVE  (IdleHoldsNothing /\ MainHandlesInFlush)'
  BY <1>30 DEF GiveBack
<1>31. ASSUME NEW S \in SUBSET Items, GiveBackFails(S)
       PROVE  (IdleHoldsNothing /\ MainHandlesInFlush)'
  BY <1>31 DEF GiveBackFails
<1>32. ASSUME NEW S \in SUBSET Items, LastCallReturns(S)
       PROVE  (IdleHoldsNothing /\ MainHandlesInFlush)'
  BY <1>32 DEF LastCallReturns
<1>33. ASSUME NEW a \in Actors, NEW S \in SUBSET Items, HandlerReturns(a, S)
       PROVE  (IdleHoldsNothing /\ MainHandlesInFlush)'
  BY <1>33 DEF HandlerReturns, KeepHold, StageAfter
<1>34. ASSUME NEW a \in Actors, HandlerPanics(a)
       PROVE  (IdleHoldsNothing /\ MainHandlesInFlush)'
  BY <1>34 DEF HandlerPanics, KeepHold
<1>35. ASSUME NEW a \in Actors, NEW i \in Items, Requeue(a, i)
       PROVE  (IdleHoldsNothing /\ MainHandlesInFlush)'
  BY <1>35 DEF Requeue, KeepHold, StageAfter
<1>36. ASSUME NEW a \in Actors, NEW i \in Items, RequeueFails(a, i)
       PROVE  (IdleHoldsNothing /\ MainHandlesInFlush)'
  BY <1>36 DEF RequeueFails, KeepHold, StageAfter
<1>37. ASSUME NEW a \in Actors, NEW i \in Items, ForceFails(a, i)
       PROVE  (IdleHoldsNothing /\ MainHandlesInFlush)'
  BY <1>37 DEF ForceFails, KeepHold, StageAfter
<1>38. CASE ProcessEnds
  BY <1>38 DEF ProcessEnds
<1>39. CASE Terminated \/ UNCHANGED vars
  BY <1>39 DEF Terminated, vars
<1> QED
  BY <1>1, <1>2, <1>3, <1>4, <1>5, <1>6, <1>7, <1>8, <1>9, <1>10, <1>11,
     <1>12, <1>13, <1>14, <1>15, <1>16, <1>17, <1>18, <1>19, <1>20, <1>21,
     <1>22, <1>23, <1>24, <1>25, <1>26, <1>27, <1>28, <1>29, <1>30, <1>31,
     <1>32, <1>33, <1>34, <1>35, <1>36, <1>37, <1>38, <1>39 DEF Next,
     UserStep, DispatchStep, FlushStep, ShutdownStep, HandlerStep,
     RequeueStep

\* Every step keeps each item in one place.
LEMMA PlacesStep == TypeOK /\ PlaceInv /\ [Next]_vars => InOnePlace'
<1> SUFFICES ASSUME TypeOK, PlaceInv, [Next]_vars
             PROVE  InOnePlace'
  OBVIOUS
<1>a. /\ InOnePlace /\ AcceptedArePlaced /\ BaseIsInjective
      /\ PlacesAreDisjoint /\ HoldsAreDisjoint
  BY DEF PlaceInv, InOnePlace
<1> USE <1>a DEF queueVars, popVars, mainVars, workerVars, controlVars
<1>1. ASSUME NEW n \in MaxNums, SetWorkerMaxNumber(n)
      PROVE  InOnePlace'
  BY <1>1, PlacesKept DEF SetWorkerMaxNumber
<1>2. ASSUME NEW t \in ShutdownTimeouts, ShutdownWait(t)
      PROVE  InOnePlace'
  BY <1>2, PlacesKept DEF ShutdownWait
<1>3. CASE Cancel
  BY <1>3, PlacesKept DEF Cancel
<1>4. CASE PopStarts \/ PopRetries \/ PopFails
  BY <1>4, PlacesKept DEF PopStarts, PopRetries, PopFails
<1>5. CASE Run
  BY <1>5, PlacesKept DEF Run
<1>6. CASE BatchTimer
  BY <1>6, PlacesKept DEF BatchTimer
<1>7. CASE Stop
  BY <1>7, PlacesKept DEF Stop
<1>8. ASSUME NEW kind \in {"drain", "discard"}, FlushRequest(kind)
      PROVE  InOnePlace'
  BY <1>8, PlacesKept DEF FlushRequest
<1>9. CASE Spawn
  BY <1>9, PlacesKept DEF Spawn
<1>10. CASE SendCanceled
  BY <1>10, PlacesKept DEF SendCanceled
<1>11. CASE FlushStart
  BY <1>11, PlacesKept DEF FlushStart
<1>12. CASE FlushEnd
  BY <1>12, PlacesKept DEF FlushEnd
<1>13. CASE GiveBackEnd
  BY <1>13, PlacesKept DEF GiveBackEnd
<1>14. CASE WaitWorkers
  BY <1>14, PlacesKept DEF WaitWorkers
<1>15. ASSUME NEW a \in Actors, BackoffEnds(a)
       PROVE  InOnePlace'
  BY <1>15, PlacesKept DEF BackoffEnds
<1>16. ASSUME NEW w \in Workers, WorkerStops(w)
       PROVE  InOnePlace'
  BY <1>16, PlacesKept DEF WorkerStops
<1>17. ASSUME NEW w \in Workers, WorkerIdles(w)
       PROVE  InOnePlace'
  BY <1>17, PlacesKept DEF WorkerIdles
<1>18. CASE Restart
  BY <1>18, PlacesKept DEF Restart
<1>19. ASSUME NEW i \in Items, Push(i)
       PROVE  InOnePlace'
  <2>1. i \notin Accepted /\ Accepted' = Accepted \cup {i}
    BY <1>19 DEF Push, Settled, Accepted
  <2>2. i \notin Range(base) /\ base' = Append(base, i)
    BY <1>19, <2>1 DEF Push, AcceptedArePlaced
  <2> QED
    BY <1>19, <2>1, <2>2, BaseGains, HoldKept DEF Push, InOnePlace,
       AcceptedArePlaced, PlacesAreDisjoint
<1>20. CASE RemoveAllItems
  <2>1. Accepted' = Accepted \ Range(base)
    BY <1>20, SettledAccepted DEF RemoveAllItems
  <2>2. Range(base') = {} /\ BaseIsInjective'
    BY <1>20 DEF RemoveAllItems, Range, BaseIsInjective
  <2> QED
    BY <1>20, <2>1, <2>2, HoldKept DEF RemoveAllItems, InOnePlace,
       AcceptedArePlaced, PlacesAreDisjoint
<1>21. CASE Pop
  <2>1. base # <<>> /\ base' = Tail(base)
    BY <1>21 DEF Pop, InPopItem
  <2> QED
    BY <1>21, <2>1, BaseLoses, HoldKept, AcceptedKept DEF Pop, InPopItem,
       InOnePlace, AcceptedArePlaced, PlacesAreDisjoint
<1>22. CASE Receive
  <2> QED
    BY <1>22, BaseKept, HoldKept, AcceptedKept DEF Receive, InOnePlace,
       AcceptedArePlaced, PlacesAreDisjoint
<1>23. CASE Dispatch
  <2>1. CASE UNCHANGED <<buffer, stage, hold>>
    BY <1>23, <2>1, PlacesKept DEF Dispatch
  <2>2. CASE buffer' = {} /\ \E w \in live : stage[w] = "idle" /\ HandTo(w, buffer)
    <3>1. PICK w \in live : stage[w] = "idle" /\ HandTo(w, buffer)
      BY <2>2
    <3>2. w \in Actors /\ hold[w] = {} /\ buffer \cap Held = {}
      BY <3>1 DEF TypeOK, Actors, PlaceInv, IdleHoldsNothing, PlacesAreDisjoint
    <3>3. Held' = Held \cup buffer /\ HoldsAreDisjoint'
      BY <3>1, <3>2, HoldGains DEF HandTo
    <3> QED
      BY <1>23, <2>2, <3>3, BaseKept, AcceptedKept
         DEF Dispatch, InOnePlace, AcceptedArePlaced, PlacesAreDisjoint
  <2> QED
    BY <1>23, <2>1, <2>2 DEF Dispatch
<1>24. ASSUME NEW w \in Workers, SendToWorker(w)
       PROVE  InOnePlace'
  <2>1. w \in Actors /\ hold[w] = {} /\ buffer \cap Held = {}
    BY <1>24 DEF SendToWorker, Actors, PlaceInv, IdleHoldsNothing, PlacesAreDisjoint
  <2>2. Held' = Held \cup buffer /\ HoldsAreDisjoint'
    BY <1>24, <2>1, HoldGains DEF SendToWorker, HandTo
  <2> QED
    BY <1>24, <2>2, BaseKept, AcceptedKept DEF SendToWorker, InOnePlace,
       AcceptedArePlaced, PlacesAreDisjoint
<1>25. ASSUME NEW kind \in {"drain", "discard"}, SendFlush(kind)
       PROVE  InOnePlace'
  <2>1. Main \in Actors /\ hold[Main] = {} /\ buffer \cap Held = {}
    BY <1>25 DEF SendFlush, Actors, PlaceInv, IdleHoldsNothing, PlacesAreDisjoint,
       MainHandlesInFlush
  <2>2. Held' = Held \cup buffer /\ HoldsAreDisjoint'
    BY <1>25, <2>1, HoldGains DEF SendFlush, HandTo
  <2> QED
    BY <1>25, <2>2, BaseKept, AcceptedKept DEF SendFlush, InOnePlace,
       AcceptedArePlaced, PlacesAreDisjoint
<1>26. CASE FlushWait
  <2>1. CASE outcome' = Settled(buffer, "discarded") /\ buffer' = {}
    <3>1. Accepted' = Accepted \ buffer
      BY <2>1, SettledAccepted
    <3> QED
      BY <1>26, <2>1, <3>1, BaseKept, HoldKept
         DEF FlushWait, InOnePlace, AcceptedArePlaced, PlacesAreDisjoint
  <2>2. CASE UNCHANGED <<outcome, buffer>>
    BY <1>26, <2>2, PlacesKept DEF FlushWait
  <2> QED
    BY <1>26, <2>1, <2>2 DEF FlushWait
<1>27. CASE FlushReceive
  <2>1. CASE outcome' = Settled(popped, "discarded") /\ hold' = hold
    <3>1. Accepted' = Accepted \ popped
      BY <2>1, SettledAccepted
    <3> QED
      BY <1>27, <2>1, <3>1, BaseKept, HoldKept
         DEF FlushReceive, InOnePlace, AcceptedArePlaced, PlacesAreDisjoint
  <2>2. CASE HandTo(Main, popped) /\ outcome' = outcome
    <3>1. Main \in Actors /\ hold[Main] = {} /\ popped \cap Held = {}
      BY <1>27 DEF FlushReceive, Actors, PlaceInv, IdleHoldsNothing,
                  PlacesAreDisjoint
    <3>2. Held' = Held \cup popped /\ HoldsAreDisjoint'
      BY <2>2, <3>1, HoldGains DEF HandTo
    <3> QED
      BY <1>27, <2>2, <3>2, BaseKept, AcceptedKept
         DEF FlushReceive, InOnePlace, AcceptedArePlaced, PlacesAreDisjoint
  <2> QED
    BY <1>27, <2>1, <2>2 DEF FlushReceive
<1>28. CASE Drain
  <2> QED
    BY <1>28, BaseKept, HoldKept, AcceptedKept DEF Drain, InOnePlace,
       AcceptedArePlaced, PlacesAreDisjoint
<1>29. CASE DrainEnd
  <2>1. CASE UNCHANGED <<buffer, stage, hold>>
    BY <1>29, <2>1, PlacesKept DEF DrainEnd
  <2>2. CASE HandTo(Main, buffer) /\ buffer' = {}
    <3>1. Main \in Actors /\ hold[Main] = {} /\ buffer \cap Held = {}
      BY <1>29 DEF DrainEnd, Actors, PlaceInv, IdleHoldsNothing,
                  PlacesAreDisjoint, MainHandlesInFlush
    <3>2. Held' = Held \cup buffer /\ HoldsAreDisjoint'
      BY <2>2, <3>1, HoldGains DEF HandTo
    <3> QED
      BY <1>29, <2>2, <3>2, BaseKept, AcceptedKept
         DEF DrainEnd, InOnePlace, AcceptedArePlaced, PlacesAreDisjoint
  <2> QED
    BY <1>29, <2>1, <2>2 DEF DrainEnd
<1>30. ASSUME NEW i \in Items, GiveBack(i)
       PROVE  InOnePlace'
  <2>1. i \notin Range(base) /\ base' = Append(base, i)
    BY <1>30 DEF GiveBack, PlacesAreDisjoint
  <2> QED
    BY <1>30, <2>1, BaseGains, HoldKept, AcceptedKept DEF GiveBack,
       InOnePlace, AcceptedArePlaced, PlacesAreDisjoint
<1>31. ASSUME NEW S \in SUBSET Items, GiveBackFails(S)
       PROVE  InOnePlace'
  <2>1. Accepted' = Accepted \ S
    BY <1>31, SettledAccepted DEF GiveBackFails
  <2> QED
    BY <1>31, <2>1, BaseKept, HoldKept DEF GiveBackFails, InOnePlace,
       AcceptedArePlaced, PlacesAreDisjoint
<1>32. ASSUME NEW S \in SUBSET Items, LastCallReturns(S)
       PROVE  InOnePlace'
  <2>1. Accepted' = Accepted \ hold[Main]
    BY <1>32 DEF LastCallReturns, Accepted
  <2>2. Main \in Actors /\ hold' = [hold EXCEPT ![Main] = {}]
    BY <1>32 DEF LastCallReturns, Actors
  <2>3. /\ hold[Main] \subseteq Held /\ HoldsAreDisjoint'
        /\ Held' = Held \ hold[Main]
    BY <2>2, HoldEmptied
  <2> QED
    BY <1>32, <2>1, <2>3, BaseKept DEF LastCallReturns, InOnePlace,
       AcceptedArePlaced, PlacesAreDisjoint
<1>33. ASSUME NEW a \in Actors, NEW S \in SUBSET Items, HandlerReturns(a, S)
       PROVE  InOnePlace'
  <2> DEFINE kept == IF S = hold[a] /\ isFlushing THEN {} ELSE S
  <2>1. kept \subseteq hold[a] /\ hold' = [hold EXCEPT ![a] = kept]
    BY <1>33 DEF HandlerReturns, KeepHold
  <2>2. Accepted \ Accepted' = Accepted \cap (hold[a] \ kept)
    BY <1>33 DEF HandlerReturns, Accepted
  <2>3. Accepted' \subseteq Accepted
    BY <1>33 DEF HandlerReturns, Accepted
  <2>4. /\ hold[a] \subseteq Held /\ HoldsAreDisjoint'
        /\ Held' = Held \ (hold[a] \ kept)
    <3> HIDE DEF kept
    <3> QED
      BY <2>1, HoldLoses
  <2> QED
    BY <1>33, <2>1, <2>2, <2>3, <2>4, BaseKept
       DEF HandlerReturns, InOnePlace, AcceptedArePlaced, PlacesAreDisjoint
<1>34. ASSUME NEW a \in Actors, HandlerPanics(a)
       PROVE  InOnePlace'
  <2>1. Accepted' = Accepted \ hold[a]
    BY <1>34, SettledAccepted DEF HandlerPanics
  <2>2. hold' = [hold EXCEPT ![a] = {}]
    BY <1>34 DEF HandlerPanics, KeepHold
  <2>3. /\ hold[a] \subseteq Held /\ HoldsAreDisjoint'
        /\ Held' = Held \ hold[a]
    BY <2>2, HoldEmptied
  <2> QED
    BY <1>34, <2>1, <2>3, BaseKept DEF HandlerPanics, InOnePlace,
       AcceptedArePlaced, PlacesAreDisjoint
<1>35. ASSUME NEW a \in Actors, NEW i \in Items, Requeue(a, i)
       PROVE  InOnePlace'
  <2>1. /\ hold[a] \subseteq Held /\ HoldsAreDisjoint'
        /\ Held' = Held \ (hold[a] \ (hold[a] \ {i}))
    BY <1>35, HoldLoses DEF Requeue, KeepHold
  <2>2. i \in hold[a] /\ i \notin Range(base) /\ base' = Append(base, i)
    BY <1>35, <2>1 DEF Requeue, PlacesAreDisjoint
  <2> QED
    BY <1>35, <2>1, <2>2, BaseGains, AcceptedKept DEF Requeue, InOnePlace,
       AcceptedArePlaced, PlacesAreDisjoint
<1>36. ASSUME NEW a \in Actors, NEW i \in Items, RequeueFails(a, i)
       PROVE  InOnePlace'
  <2>1. CASE UNCHANGED <<outcome, hold>>
    BY <1>36, <2>1, PlacesKept DEF RequeueFails
  <2>2. CASE /\ outcome' = Settled({i}, "abandoned")
             /\ KeepHold(a, hold[a] \ {i}, StageAfter(hold[a] \ {i}))
    <3>1. Accepted' = Accepted \ {i}
      BY <2>2, SettledAccepted
    <3>2. /\ hold[a] \subseteq Held /\ HoldsAreDisjoint'
          /\ Held' = Held \ (hold[a] \ (hold[a] \ {i}))
      BY <2>2, HoldLoses DEF KeepHold
    <3> QED
      BY <1>36, <3>1, <3>2, BaseKept
         DEF RequeueFails, InOnePlace, AcceptedArePlaced, PlacesAreDisjoint
  <2> QED
    BY <1>36, <2>1, <2>2 DEF RequeueFails
<1>37. ASSUME NEW a \in Actors, NEW i \in Items, ForceFails(a, i)
       PROVE  InOnePlace'
  <2>1. Accepted' = Accepted \ {i}
    BY <1>37, SettledAccepted DEF ForceFails
  <2>2. /\ hold[a] \subseteq Held /\ HoldsAreDisjoint'
        /\ Held' = Held \ (hold[a] \ (hold[a] \ {i}))
    BY <1>37, HoldLoses DEF ForceFails, KeepHold
  <2> QED
    BY <1>37, <2>1, <2>2, BaseKept DEF ForceFails, InOnePlace,
       AcceptedArePlaced, PlacesAreDisjoint
<1>38. CASE ProcessEnds
  <2> DEFINE kept == IF BaseType = "level" THEN Range(base) ELSE {}
  <2>1. Accepted' = Accepted \ (Accepted \ kept)
    BY <1>38, SettledAccepted DEF ProcessEnds
  <2>2. Range(base') = kept /\ BaseIsInjective'
    BY <1>38 DEF ProcessEnds, Range, BaseIsInjective
  <2>3. Held' = {} /\ HoldsAreDisjoint'
    BY <1>38 DEF ProcessEnds, Held, HoldsAreDisjoint
  <2> QED
    BY <1>38, <2>1, <2>2, <2>3
       DEF ProcessEnds, InOnePlace, AcceptedArePlaced, PlacesAreDisjoint
<1>39. CASE Terminated \/ UNCHANGED vars
  BY <1>39, PlacesKept DEF Terminated, vars
<1> QED
  BY <1>1, <1>2, <1>3, <1>4, <1>5, <1>6, <1>7, <1>8, <1>9, <1>10, <1>11,
     <1>12, <1>13, <1>14, <1>15, <1>16, <1>17, <1>18, <1>19, <1>20, <1>21,
     <1>22, <1>23, <1>24, <1>25, <1>26, <1>27, <1>28, <1>29, <1>30, <1>31,
     <1>32, <1>33, <1>34, <1>35, <1>36, <1>37, <1>38, <1>39 DEF Next,
     UserStep, DispatchStep, FlushStep, ShutdownStep, HandlerStep,
     RequeueStep

\* Every item is in one place at first.
LEMMA PlaceInit == Init => PlaceInv
<1> SUFFICES ASSUME Init
             PROVE  PlaceInv
  OBVIOUS
<1>1. Accepted = {} /\ Held = {} /\ Range(base) = {}
  BY DEF Init, Accepted, Held, Range
<1>2. BaseIsInjective /\ HoldsAreDisjoint
  BY DEF Init, BaseIsInjective, HoldsAreDisjoint
<1>3. IdleHoldsNothing /\ MainHandlesInFlush
  BY DEF Init, IdleHoldsNothing, MainHandlesInFlush, Actors
<1> QED
  BY <1>1, <1>2, <1>3
     DEF Init, PlaceInv, InOnePlace, AcceptedArePlaced, PlacesAreDisjoint

\* Every item is in one place in every reachable state.
LEMMA PlaceHolds == Spec => []PlaceInv
<1>1. TypeOK /\ PlaceInv /\ [Next]_vars => PlaceInv'
  BY PlacesStep, StagesStep DEF PlaceInv
<1> QED
  BY PlaceInit, TypeCorrect, <1>1, PTL DEF Spec

(* An accepted item is always in exactly one of the base queue, the hands  *)
(* of the popping goroutine, the batch buffer and one handler call:        *)
(* popItemByChan, doRun, doFlush, the workers, shutdown, crash and restart *)
(* never duplicate an item and never forget one without settling it.       *)
THEOREM ItemsInOnePlace == Spec => []InOnePlace
<1>1. PlaceInv => InOnePlace
  BY DEF PlaceInv
<1> QED
  BY PlaceHolds, <1>1, PTL

-----------------------------------------------------------------------------
(* The queue implements the life cycle of an item: every step is a step of *)
(* ItemLifecycle on ItemState, or leaves it alone.                         *)

(* What a step does to the set of items that handlers run. *)

\* Workers that do not move run the handler with the same items.
LEMMA HandlersKept ==
  UNCHANGED <<stage, hold>> => InHandlers' = InHandlers
BY DEF InHandlers

(* an actor between two parts of doWorkerHandle, outside of the handler *)
LEMMA HandlersUnaffected ==
  ASSUME TypeOK, NEW a \in Actors, NEW S, NEW s, stage[a] # "handle",
         s # "handle", hold' = [hold EXCEPT ![a] = S],
         stage' = [stage EXCEPT ![a] = s]
  PROVE  InHandlers' = InHandlers
<1>1. \A b \in Actors : /\ stage'[b] = "handle" <=> stage[b] = "handle"
                        /\ stage[b] = "handle" => hold'[b] = hold[b]
  BY DEF TypeOK
<1> QED
  BY <1>1 DEF InHandlers

(* a handler call starts *)
LEMMA HandlersGain ==
  ASSUME TypeOK, NEW a \in Actors, NEW S, stage[a] # "handle", HandTo(a, S)
  PROVE  InHandlers' = InHandlers \cup S
<1>1. \A b \in Actors :
        /\ stage'[b] = "handle" <=> stage[b] = "handle" \/ b = a
        /\ hold'[b] = IF b = a THEN S ELSE hold[b]
  BY DEF TypeOK, HandTo
<1> QED
  BY <1>1 DEF InHandlers

(* a handler call ends *)
LEMMA HandlersLose ==
  ASSUME TypeOK, HoldsAreDisjoint, NEW a \in Actors, NEW S, NEW s,
         stage[a] = "handle", s # "handle", hold' = [hold EXCEPT ![a] = S],
         stage' = [stage EXCEPT ![a] = s]
  PROVE  hold[a] \subseteq InHandlers /\ InHandlers' = InHandlers \ hold[a]
<1>1. \A b \in Actors :
        /\ stage'[b] = "handle" <=> stage[b] = "handle" /\ b # a
        /\ b # a => hold'[b] = hold[b]
  BY DEF TypeOK
<1>2. hold[a] \subseteq InHandlers
  BY DEF InHandlers
<1>3. InHandlers' = InHandlers \ hold[a]
  BY <1>1 DEF InHandlers, HoldsAreDisjoint
<1> QED
  BY <1>2, <1>3

\* Handlers run only with accepted items.
LEMMA HandlersAreAccepted ==
  ASSUME TypeOK, InOnePlace
  PROVE  InHandlers \subseteq Held /\ Held \subseteq Accepted
BY DEF InHandlers, Held, InOnePlace, AcceptedArePlaced

(* The four kinds of steps of the life cycle, and the stutter. *)

\* A step that leaves the state of the items alone is a stutter.
LEMMA Stutters ==
  outcome' = outcome /\ InHandlers' = InHandlers => ItemState' = ItemState
BY DEF ItemState

\* A step that only hands pending items to a handler is allowed.
LEMMA Delivers ==
  ASSUME NEW S \in SUBSET Items, outcome' = outcome,
         S \subseteq Accepted, S \cap InHandlers = {},
         InHandlers' = InHandlers \cup S
  PROVE  [Lifecycle!Next]_ItemState
<1>1. S \subseteq Lifecycle!In("pending")
  BY DEF Lifecycle!In, ItemState, Accepted
<1>2. ItemState' = [i \in Items |->
                      IF i \in S THEN "running" ELSE ItemState[i]]
  BY DEF ItemState
<1>3. Lifecycle!Deliver(S)
  BY <1>1, <1>2 DEF Lifecycle!Deliver
<1> QED
  BY <1>3 DEF Lifecycle!Next

\* A step that only drops items, pending or in a handler, is allowed.
LEMMA Loses ==
  ASSUME NEW S \in SUBSET Items, NEW how \in LostOutcomes,
         outcome' = Settled(S, how), S \subseteq Accepted,
         InHandlers' = InHandlers \ S
  PROVE  [Lifecycle!Next]_ItemState
<1>1. S \subseteq Lifecycle!In("pending") \cup Lifecycle!In("running")
  BY DEF Lifecycle!In, ItemState, Accepted
<1>2. ItemState' = [i \in Items |->
                      IF i \in S THEN "lost" ELSE ItemState[i]]
  BY DEF ItemState, Settled, LostOutcomes
<1>3. Lifecycle!Lose(S)
  BY <1>1, <1>2 DEF Lifecycle!Lose
<1> QED
  BY <1>3 DEF Lifecycle!Next

\* A step that ends a handler, settling or giving back its items, is allowed.
LEMMA Returns ==
  ASSUME NEW S \in SUBSET Items, NEW back \in SUBSET S, NEW gone \in SUBSET S,
         back \cap gone = {}, NEW how \in LostOutcomes,
         S \subseteq Accepted, S \subseteq InHandlers,
         InHandlers' = InHandlers \ S,
         \A i \in Items :
           outcome'[i] = IF i \in S \ (back \cup gone) THEN "handled"
                         ELSE IF i \in gone THEN how ELSE outcome[i]
  PROVE  Lifecycle!Return(S, back, gone)
<1>1. S \subseteq Lifecycle!In("running")
  BY DEF Lifecycle!In, ItemState
<1>2. ItemState' = [i \in Items |->
                      IF i \notin S THEN ItemState[i]
                      ELSE IF i \in back THEN "pending"
                      ELSE IF i \in gone THEN "lost" ELSE "handled"]
  BY DEF ItemState, LostOutcomes, Accepted
<1> QED
  BY <1>1, <1>2 DEF Lifecycle!Return

\* Every step of the queue is a step of the life cycle or a stutter.
LEMMA LifecycleStep == TypeOK /\ PlaceInv /\ [Next]_vars => [Lifecycle!Next]_ItemState
<1> SUFFICES ASSUME TypeOK, PlaceInv, [Next]_vars
             PROVE  [Lifecycle!Next]_ItemState
  OBVIOUS
<1>a. /\ InOnePlace /\ AcceptedArePlaced /\ BaseIsInjective
      /\ PlacesAreDisjoint /\ HoldsAreDisjoint
  BY DEF PlaceInv, InOnePlace
<1>b. InHandlers \subseteq Held /\ Held \subseteq Accepted
  BY <1>a, HandlersAreAccepted
<1>c. Main \in Actors /\ Workers \subseteq Actors
  BY DEF Actors
<1>d. Accepted \subseteq Items
  BY DEF Accepted
<1> USE <1>a, <1>b, <1>c, <1>d DEF queueVars, popVars, mainVars, workerVars, controlVars
<1>1. ASSUME NEW n \in MaxNums, SetWorkerMaxNumber(n)
      PROVE  [Lifecycle!Next]_ItemState
  BY <1>1, HandlersKept, Stutters DEF SetWorkerMaxNumber
<1>2. ASSUME NEW t \in ShutdownTimeouts, ShutdownWait(t)
      PROVE  [Lifecycle!Next]_ItemState
  BY <1>2, HandlersKept, Stutters DEF ShutdownWait
<1>3. CASE Cancel
  BY <1>3, HandlersKept, Stutters DEF Cancel
<1>4. CASE Pop
  BY <1>4, HandlersKept, Stutters DEF Pop
<1>5. CASE PopStarts \/ PopRetries \/ PopFails
  BY <1>5, HandlersKept, Stutters DEF PopStarts, PopRetries, PopFails
<1>6. CASE Run
  BY <1>6, HandlersKept, Stutters DEF Run
<1>7. CASE Receive
  BY <1>7, HandlersKept, Stutters DEF Receive
<1>8. CASE BatchTimer
  BY <1>8, HandlersKept, Stutters DEF BatchTimer
<1>9. CASE Stop
  BY <1>9, HandlersKept, Stutters DEF Stop
<1>10. ASSUME NEW kind \in {"drain", "discard"}, FlushRequest(kind)
       PROVE  [Lifecycle!Next]_ItemState
  BY <1>10, HandlersKept, Stutters DEF FlushRequest
<1>11. CASE Spawn
  BY <1>11, HandlersKept, Stutters DEF Spawn
<1>12. CASE SendCanceled
  BY <1>12, HandlersKept, Stutters DEF SendCanceled
<1>13. CASE FlushStart
  BY <1>13, HandlersKept, Stutters DEF FlushStart
<1>14. CASE FlushEnd
  BY <1>14, HandlersKept, Stutters DEF FlushEnd
<1>15. CASE Drain
  BY <1>15, HandlersKept, Stutters DEF Drain
<1>16. ASSUME NEW i \in Items, GiveBack(i)
       PROVE  [Lifecycle!Next]_ItemState
  BY <1>16, HandlersKept, Stutters DEF GiveBack
<1>17. CASE GiveBackEnd
  BY <1>17, HandlersKept, Stutters DEF GiveBackEnd
<1>18. CASE WaitWorkers
  BY <1>18, HandlersKept, Stutters DEF WaitWorkers
<1>19. ASSUME NEW w \in Workers, WorkerStops(w)
       PROVE  [Lifecycle!Next]_ItemState
  BY <1>19, HandlersKept, Stutters DEF WorkerStops
<1>20. ASSUME NEW w \in Workers, WorkerIdles(w)
       PROVE  [Lifecycle!Next]_ItemState
  BY <1>20, HandlersKept, Stutters DEF WorkerIdles
<1>21. CASE Restart
  BY <1>21, HandlersKept, Stutters DEF Restart
<1>22. ASSUME NEW a \in Actors, BackoffEnds(a)
       PROVE  [Lifecycle!Next]_ItemState
  <2>1. hold' = [hold EXCEPT ![a] = hold[a]]
    BY <1>22 DEF BackoffEnds, TypeOK
  <2>2. InHandlers' = InHandlers
    BY <1>22, <2>1, HandlersUnaffected DEF BackoffEnds
  <2> QED
    BY <1>22, <2>2, Stutters DEF BackoffEnds
<1>23. ASSUME NEW i \in Items, Push(i)
       PROVE  [Lifecycle!Next]_ItemState
  <2>1. ItemState[i] = "new"
    BY <1>23 DEF Push, ItemState, Accepted, LostOutcomes
  <2>2. InHandlers' = InHandlers
    BY <1>23, HandlersKept DEF Push
  <2>3. ItemState' = [ItemState EXCEPT ![i] = "pending"]
    BY <1>23, <2>2 DEF Push, ItemState, Settled, Accepted
  <2>4. Lifecycle!Accept(i)
    BY <2>1, <2>3 DEF Lifecycle!Accept
  <2> QED
    BY <2>4 DEF Lifecycle!Next
<1>24. CASE RemoveAllItems
  <2>1. Range(base) \subseteq Accepted /\ Range(base) \cap InHandlers = {}
    BY DEF AcceptedArePlaced, PlacesAreDisjoint
  <2>2. InHandlers' = InHandlers \ Range(base)
    BY <1>24, <2>1, HandlersKept DEF RemoveAllItems
  <2> QED
    BY <1>24, <2>1, <2>2, Loses DEF RemoveAllItems, LostOutcomes
<1>25. CASE Dispatch
  <2>1. CASE UNCHANGED <<stage, hold>>
    BY <1>25, <2>1, HandlersKept, Stutters DEF Dispatch
  <2>2. CASE \E w \in live : stage[w] = "idle" /\ HandTo(w, buffer)
    <3>1. PICK w \in Actors : stage[w] = "idle" /\ HandTo(w, buffer)
      BY <2>2 DEF TypeOK
    <3>2. InHandlers' = InHandlers \cup buffer
      BY <3>1, HandlersGain
    <3>3. buffer \subseteq Accepted /\ buffer \cap InHandlers = {}
      BY DEF AcceptedArePlaced, PlacesAreDisjoint
    <3> QED
      BY <1>25, <3>2, <3>3, Delivers DEF Dispatch
  <2> QED
    BY <1>25, <2>1, <2>2 DEF Dispatch
<1>26. ASSUME NEW w \in Workers, SendToWorker(w)
       PROVE  [Lifecycle!Next]_ItemState
  <2>1. InHandlers' = InHandlers \cup buffer
    BY <1>26, HandlersGain DEF SendToWorker
  <2>2. buffer \subseteq Accepted /\ buffer \cap InHandlers = {}
    BY DEF AcceptedArePlaced, PlacesAreDisjoint
  <2> QED
    BY <1>26, <2>1, <2>2, Delivers DEF SendToWorker
<1>27. ASSUME NEW kind \in {"drain", "discard"}, SendFlush(kind)
       PROVE  [Lifecycle!Next]_ItemState
  <2>1. InHandlers' = InHandlers \cup buffer
    BY <1>27, HandlersGain DEF SendFlush, PlaceInv, MainHandlesInFlush
  <2>2. buffer \subseteq Accepted /\ buffer \cap InHandlers = {}
    BY DEF AcceptedArePlaced, PlacesAreDisjoint
  <2> QED
    BY <1>27, <2>1, <2>2, Delivers DEF SendFlush
<1>28. CASE FlushWait
  <2>1. CASE outcome' = Settled(buffer, "discarded") /\ UNCHANGED <<stage, hold>>
    <3>1. buffer \subseteq Accepted /\ buffer \cap InHandlers = {}
      BY DEF AcceptedArePlaced, PlacesAreDisjoint
    <3>2. InHandlers' = InHandlers \ buffer
      BY <2>1, <3>1, HandlersKept
    <3> QED
      BY <2>1, <3>1, <3>2, Loses DEF LostOutcomes
  <2>2. CASE UNCHANGED <<outcome, stage, hold>>
    BY <2>2, HandlersKept, Stutters
  <2> QED
    BY <1>28, <2>1, <2>2 DEF FlushWait
<1>29. CASE FlushReceive
  <2>1. CASE outcome' = Settled(popped, "discarded") /\ UNCHANGED <<stage, hold>>
    <3>1. popped \subseteq Accepted /\ popped \cap InHandlers = {}
      BY DEF AcceptedArePlaced, PlacesAreDisjoint
    <3>2. InHandlers' = InHandlers \ popped
      BY <2>1, <3>1, HandlersKept
    <3> QED
      BY <2>1, <3>1, <3>2, Loses DEF LostOutcomes
  <2>2. CASE HandTo(Main, popped) /\ outcome' = outcome
    <3>1. InHandlers' = InHandlers \cup popped
      BY <1>29, <2>2, HandlersGain DEF FlushReceive
    <3>2. popped \subseteq Accepted /\ popped \cap InHandlers = {}
      BY DEF AcceptedArePlaced, PlacesAreDisjoint
    <3> QED
      BY <2>2, <3>1, <3>2, Delivers
  <2> QED
    BY <1>29, <2>1, <2>2 DEF FlushReceive
<1>30. CASE DrainEnd
  <2>1. CASE UNCHANGED <<outcome, stage, hold>>
    BY <2>1, HandlersKept, Stutters
  <2>2. CASE HandTo(Main, buffer) /\ outcome' = outcome
    <3>1. InHandlers' = InHandlers \cup buffer
      BY <1>30, <2>2, HandlersGain DEF DrainEnd, PlaceInv, MainHandlesInFlush
    <3>2. buffer \subseteq Accepted /\ buffer \cap InHandlers = {}
      BY DEF AcceptedArePlaced, PlacesAreDisjoint
    <3> QED
      BY <2>2, <3>1, <3>2, Delivers
  <2> QED
    BY <1>30, <2>1, <2>2 DEF DrainEnd
<1>31. ASSUME NEW S \in SUBSET Items, GiveBackFails(S)
       PROVE  [Lifecycle!Next]_ItemState
  <2>1. S \subseteq Accepted /\ S \cap InHandlers = {}
    BY <1>31 DEF GiveBackFails, AcceptedArePlaced, PlacesAreDisjoint
  <2>2. InHandlers' = InHandlers \ S
    BY <1>31, <2>1, HandlersKept DEF GiveBackFails
  <2> QED
    BY <1>31, <2>1, <2>2, Loses DEF GiveBackFails, LostOutcomes
<1>32. ASSUME NEW S \in SUBSET Items, LastCallReturns(S)
       PROVE  [Lifecycle!Next]_ItemState
  <2> DEFINE back == {}
  <2>1. stage[Main] = "handle"
    BY <1>32 DEF LastCallReturns, PlaceInv, MainHandlesInFlush
  <2>2. hold[Main] \subseteq InHandlers /\ InHandlers' = InHandlers \ hold[Main]
    BY <1>32, <2>1, HandlersLose DEF LastCallReturns
  <2>3. /\ back \in SUBSET hold[Main] /\ S \in SUBSET hold[Main]
        /\ back \cap S = {} /\ hold[Main] \subseteq Accepted
        /\ hold[Main] \in SUBSET Items
    BY <1>32, <2>2 DEF LastCallReturns
  <2>4. \A i \in Items :
          outcome'[i] = IF i \in hold[Main] \ (back \cup S) THEN "handled"
                        ELSE IF i \in S THEN "abandoned" ELSE outcome[i]
    BY <1>32 DEF LastCallReturns
  <2>5. "abandoned" \in LostOutcomes
    BY DEF LostOutcomes
  <2> HIDE DEF back
  <2>6. Lifecycle!Return(hold[Main], back, S)
    BY <2>2, <2>3, <2>4, <2>5, Returns
  <2> QED
    BY <2>3, <2>6 DEF Lifecycle!Next
<1>33. ASSUME NEW a \in Actors, NEW S \in SUBSET Items, HandlerReturns(a, S)
       PROVE  [Lifecycle!Next]_ItemState
  <2> DEFINE dropped == S = hold[a] /\ isFlushing
             kept == IF dropped THEN {} ELSE S
             gone == IF dropped THEN S ELSE {}
  <2>1. PICK s \in Stages \ {"handle"} : KeepHold(a, kept, s)
    BY <1>33 DEF HandlerReturns, KeepHold, StageAfter, Stages
  <2>2. hold[a] \subseteq InHandlers /\ InHandlers' = InHandlers \ hold[a]
    BY <1>33, <2>1, HandlersLose DEF HandlerReturns, KeepHold
  <2>3. /\ kept \in SUBSET hold[a] /\ gone \in SUBSET hold[a]
        /\ kept \cap gone = {} /\ hold[a] \subseteq Accepted
        /\ hold[a] \in SUBSET Items
    BY <1>33, <2>2 DEF HandlerReturns
  <2>4. \A i \in Items :
          outcome'[i] = IF i \in hold[a] \ (kept \cup gone) THEN "handled"
                        ELSE IF i \in gone THEN "flushed" ELSE outcome[i]
    BY <1>33 DEF HandlerReturns
  <2>5. "flushed" \in LostOutcomes
    BY DEF LostOutcomes
  <2> HIDE DEF kept, gone
  <2>6. Lifecycle!Return(hold[a], kept, gone)
    BY <2>2, <2>3, <2>4, <2>5, Returns
  <2> QED
    BY <2>3, <2>6 DEF Lifecycle!Next
<1>34. ASSUME NEW a \in Actors, HandlerPanics(a)
       PROVE  [Lifecycle!Next]_ItemState
  <2>1. hold[a] \subseteq InHandlers /\ InHandlers' = InHandlers \ hold[a]
    BY <1>34, HandlersLose DEF HandlerPanics, KeepHold
  <2> QED
    BY <1>34, <2>1, Loses DEF HandlerPanics, LostOutcomes
<1>35. ASSUME NEW a \in Actors, NEW i \in Items, Requeue(a, i)
       PROVE  [Lifecycle!Next]_ItemState
  <2>1. InHandlers' = InHandlers
    BY <1>35, HandlersUnaffected DEF Requeue, KeepHold, StageAfter
  <2> QED
    BY <1>35, <2>1, Stutters DEF Requeue
<1>36. ASSUME NEW a \in Actors, NEW i \in Items, RequeueFails(a, i)
       PROVE  [Lifecycle!Next]_ItemState
  <2>1. {i} \subseteq Accepted /\ {i} \cap InHandlers = {}
    <3>1. i \in Held /\ i \notin InHandlers
      BY <1>36 DEF RequeueFails, Held, InHandlers, HoldsAreDisjoint
    <3> QED
      BY <3>1
  <2>2. CASE outcome' = outcome /\ hold' = hold /\ stage' = [stage EXCEPT ![a] = "force"]
    <3>1. hold' = [hold EXCEPT ![a] = hold[a]]
      BY <2>2 DEF TypeOK
    <3>2. InHandlers' = InHandlers
      BY <1>36, <2>2, <3>1, HandlersUnaffected DEF RequeueFails
    <3> QED
      BY <2>2, <3>2, Stutters
  <2>3. CASE /\ outcome' = Settled({i}, "abandoned")
             /\ KeepHold(a, hold[a] \ {i}, StageAfter(hold[a] \ {i}))
    <3>1. InHandlers' = InHandlers
      BY <1>36, <2>3, HandlersUnaffected DEF RequeueFails, KeepHold, StageAfter
    <3> QED
      BY <2>1, <2>3, <3>1, Loses DEF LostOutcomes
  <2> QED
    BY <1>36, <2>2, <2>3 DEF RequeueFails
<1>37. ASSUME NEW a \in Actors, NEW i \in Items, ForceFails(a, i)
       PROVE  [Lifecycle!Next]_ItemState
  <2>1. {i} \subseteq Accepted /\ {i} \cap InHandlers = {}
    <3>1. i \in Held /\ i \notin InHandlers
      BY <1>37 DEF ForceFails, Held, InHandlers, HoldsAreDisjoint
    <3> QED
      BY <3>1
  <2>2. InHandlers' = InHandlers
    BY <1>37, HandlersUnaffected DEF ForceFails, KeepHold, StageAfter
  <2> QED
    BY <1>37, <2>1, <2>2, Loses DEF ForceFails, LostOutcomes
<1>38. CASE ProcessEnds
  <2> DEFINE kept == IF BaseType = "level" THEN Range(base) ELSE {}
             dead == Accepted \ kept
  <2>1. outcome' = Settled(dead, "killed")
    BY <1>38 DEF ProcessEnds
  <2>2. InHandlers' = {}
    BY <1>38 DEF ProcessEnds, InHandlers
  <2>3. InHandlers \subseteq dead
    BY DEF PlacesAreDisjoint
  <2>4. dead \in SUBSET Items /\ dead \subseteq Accepted
    OBVIOUS
  <2>5. "killed" \in LostOutcomes
    BY DEF LostOutcomes
  <2> HIDE DEF dead
  <2> QED
    BY <2>1, <2>2, <2>3, <2>4, <2>5, Loses
<1>39. CASE Terminated \/ UNCHANGED vars
  <2>1. UNCHANGED <<outcome, stage, hold>>
    BY <1>39 DEF Terminated, vars
  <2> QED
    BY <2>1, HandlersKept, Stutters
<1> QED
  BY <1>1, <1>2, <1>3, <1>4, <1>5, <1>6, <1>7, <1>8, <1>9, <1>10, <1>11,
     <1>12, <1>13, <1>14, <1>15, <1>16, <1>17, <1>18, <1>19, <1>20, <1>21,
     <1>22, <1>23, <1>24, <1>25, <1>26, <1>27, <1>28, <1>29, <1>30, <1>31,
     <1>32, <1>33, <1>34, <1>35, <1>36, <1>37, <1>38, <1>39 DEF Next,
     UserStep, DispatchStep, FlushStep, ShutdownStep, HandlerStep,
     RequeueStep

(* The queue keeps the promise of ItemLifecycle about every item, for all  *)
(* items, workers and lengths: a handler call starts with items that wait, *)
(* its end settles or returns each of them, nothing else settles an item   *)
(* but a loss, and a handled or lost item never comes back.                *)
THEOREM QueueImplementsLifecycle == Spec => LifecycleSpec
<1>1. Init => Lifecycle!Init
  BY DEF Init, Lifecycle!Init, ItemState, InHandlers, Actors, LostOutcomes
<1>2. TypeOK /\ PlaceInv /\ [Next]_vars => [Lifecycle!Next]_ItemState
  BY LifecycleStep
<1> QED
  BY <1>1, <1>2, TypeCorrect, PlaceHolds, PTL
     DEF Spec, LifecycleSpec, Lifecycle!Spec

-----------------------------------------------------------------------------
(* The flow of items through doRun. FlowInv is the inductive invariant of  *)
(* what follows: it relates the step doRun is at to the buffer, to the     *)
(* popping goroutine, to the flush and to the workers.                     *)

(* isFlushing is set exactly while doFlush waits or drains *)
FlushIsInProgress == isFlushing <=> pc \in {"flushWait", "flushDrain"}

(* where doRun has no batch of its own left *)
BufferIsEmptied ==
  /\ pc \in {"created", "lastCall", "waitWorkers", "done", "exited"}
       => buffer = {}
  /\ pc \in {"flushStart", "flushWait", "flushDrain"} /\ ~canceled
       => buffer = {}

(* the popping goroutine stops between two items, and a shutdown waits for *)
(* it before it gives anything back                                        *)
PopsEnd ==
  /\ popper # "open" => popped = {}
  /\ pc \in {"giveBack", "lastCall", "waitWorkers", "done", "exited"}
       => popper = "closed"
  /\ pc \in {"drain", "giveBack", "lastCall", "waitWorkers", "done", "exited"}
       => canceled

(* a goroutine that is not counted in workerNum handles nothing *)
GoneAreIdle ==
  /\ \A w \in Workers \ live : stage[w] = "idle"
  /\ pc = "flushDrain" => live = {}

FlowInv ==
  /\ FlushIsInProgress /\ BufferIsEmptied /\ PopsEnd /\ GoneAreIdle
  /\ BufferIsTimed /\ SenderHasReceiver

\* The step of doRun stays in agreement with the buffer, the timer, the
\* popping goroutine and the flush.
LEMMA FlowStep ==
  /\ TypeOK /\ FlushIsInProgress /\ BufferIsEmptied /\ PopsEnd
  /\ BufferIsTimed /\ [Next]_vars
  => (FlushIsInProgress /\ BufferIsEmptied /\ PopsEnd /\ BufferIsTimed)'
<1> SUFFICES ASSUME TypeOK, FlushIsInProgress, BufferIsEmptied, PopsEnd,
                    BufferIsTimed, [Next]_vars
             PROVE  (FlushIsInProgress /\ BufferIsEmptied /\ PopsEnd
                       /\ BufferIsTimed)'
  OBVIOUS
<1> USE DEF TypeOK, FlushIsInProgress, BufferIsEmptied, PopsEnd, BufferIsTimed, queueVars, popVars,
            mainVars, workerVars, controlVars
<1>1. CASE PopStarts \/ PopRetries \/ PopFails
  BY <1>1 DEF PopStarts, PopRetries, PopFails
<1>2. ASSUME NEW i \in Items, Push(i)
      PROVE  (FlushIsInProgress /\ BufferIsEmptied /\ PopsEnd /\ BufferIsTimed)'
  BY <1>2 DEF Push
<1>3. ASSUME NEW n \in MaxNums, SetWorkerMaxNumber(n)
      PROVE  (FlushIsInProgress /\ BufferIsEmptied /\ PopsEnd /\ BufferIsTimed)'
  BY <1>3 DEF SetWorkerMaxNumber
<1>4. ASSUME NEW t \in ShutdownTimeouts, ShutdownWait(t)
      PROVE  (FlushIsInProgress /\ BufferIsEmptied /\ PopsEnd /\ BufferIsTimed)'
  BY <1>4 DEF ShutdownWait
<1>5. CASE RemoveAllItems
  BY <1>5 DEF RemoveAllItems
<1>6. CASE Cancel
  BY <1>6 DEF Cancel
<1>7. CASE Pop
  BY <1>7 DEF Pop, InPopItem
<1>8. CASE Run
  BY <1>8 DEF Run
<1>9. CASE Receive
  BY <1>9 DEF Receive
<1>10. CASE BatchTimer
  BY <1>10 DEF BatchTimer
<1>11. CASE Stop
  BY <1>11 DEF Stop
<1>12. ASSUME NEW kind \in {"drain", "discard"}, FlushRequest(kind)
      PROVE  (FlushIsInProgress /\ BufferIsEmptied /\ PopsEnd /\ BufferIsTimed)'
  BY <1>12 DEF FlushRequest
<1>13. CASE Dispatch
  BY <1>13 DEF Dispatch, HandTo, AfterDispatch
<1>14. CASE Spawn
  BY <1>14 DEF Spawn, AfterDispatch
<1>15. CASE SendCanceled
  BY <1>15 DEF SendCanceled, AfterDispatch
<1>16. ASSUME NEW w \in Workers, SendToWorker(w)
      PROVE  (FlushIsInProgress /\ BufferIsEmptied /\ PopsEnd /\ BufferIsTimed)'
  BY <1>16 DEF SendToWorker, HandTo, AfterDispatch
<1>17. ASSUME NEW kind \in {"drain", "discard"}, SendFlush(kind)
      PROVE  (FlushIsInProgress /\ BufferIsEmptied /\ PopsEnd /\ BufferIsTimed)'
  BY <1>17 DEF SendFlush, HandTo
<1>18. CASE FlushStart
  BY <1>18 DEF FlushStart
<1>19. CASE FlushWait
  BY <1>19 DEF FlushWait, AllWorkersDone
<1>20. CASE FlushReceive
  BY <1>20 DEF FlushReceive, HandTo
<1>21. CASE FlushEnd
  BY <1>21 DEF FlushEnd
<1>22. CASE Drain
  BY <1>22 DEF Drain
<1>23. CASE DrainEnd
  BY <1>23 DEF DrainEnd, PopsDrained, HandTo
<1>24. CASE GiveBackEnd
  BY <1>24 DEF GiveBackEnd
<1>25. CASE WaitWorkers
  BY <1>25 DEF WaitWorkers
<1>26. ASSUME NEW i \in Items, GiveBack(i)
      PROVE  (FlushIsInProgress /\ BufferIsEmptied /\ PopsEnd /\ BufferIsTimed)'
  BY <1>26 DEF GiveBack
<1>27. ASSUME NEW S \in SUBSET Items, GiveBackFails(S)
      PROVE  (FlushIsInProgress /\ BufferIsEmptied /\ PopsEnd /\ BufferIsTimed)'
  BY <1>27 DEF GiveBackFails
<1>28. ASSUME NEW S \in SUBSET Items, LastCallReturns(S)
      PROVE  (FlushIsInProgress /\ BufferIsEmptied /\ PopsEnd /\ BufferIsTimed)'
  BY <1>28 DEF LastCallReturns
<1>29. ASSUME NEW a \in Actors, NEW S \in SUBSET Items, HandlerReturns(a, S)
      PROVE  (FlushIsInProgress /\ BufferIsEmptied /\ PopsEnd /\ BufferIsTimed)'
  BY <1>29 DEF HandlerReturns, KeepHold, StageAfter
<1>30. ASSUME NEW a \in Actors, HandlerPanics(a)
      PROVE  (FlushIsInProgress /\ BufferIsEmptied /\ PopsEnd /\ BufferIsTimed)'
  BY <1>30 DEF HandlerPanics, KeepHold
<1>31. ASSUME NEW a \in Actors, BackoffEnds(a)
      PROVE  (FlushIsInProgress /\ BufferIsEmptied /\ PopsEnd /\ BufferIsTimed)'
  BY <1>31 DEF BackoffEnds
<1>32. ASSUME NEW a \in Actors, NEW i \in Items, Requeue(a, i)
      PROVE  (FlushIsInProgress /\ BufferIsEmptied /\ PopsEnd /\ BufferIsTimed)'
  BY <1>32 DEF Requeue, KeepHold, StageAfter
<1>33. ASSUME NEW a \in Actors, NEW i \in Items, RequeueFails(a, i)
      PROVE  (FlushIsInProgress /\ BufferIsEmptied /\ PopsEnd /\ BufferIsTimed)'
  BY <1>33 DEF RequeueFails, KeepHold, StageAfter
<1>34. ASSUME NEW a \in Actors, NEW i \in Items, ForceFails(a, i)
      PROVE  (FlushIsInProgress /\ BufferIsEmptied /\ PopsEnd /\ BufferIsTimed)'
  BY <1>34 DEF ForceFails, KeepHold, StageAfter
<1>35. ASSUME NEW w \in Workers, WorkerStops(w)
      PROVE  (FlushIsInProgress /\ BufferIsEmptied /\ PopsEnd /\ BufferIsTimed)'
  BY <1>35 DEF WorkerStops, WorkersCanceled
<1>36. ASSUME NEW w \in Workers, WorkerIdles(w)
      PROVE  (FlushIsInProgress /\ BufferIsEmptied /\ PopsEnd /\ BufferIsTimed)'
  BY <1>36 DEF WorkerIdles
<1>37. CASE ProcessEnds
  BY <1>37 DEF ProcessEnds
<1>38. CASE Restart
  BY <1>38 DEF Restart
<1>39. CASE Terminated \/ UNCHANGED vars
  BY <1>39 DEF Terminated, vars
<1> QED
  BY <1>1, <1>2, <1>3, <1>4, <1>5, <1>6, <1>7, <1>8, <1>9, <1>10, <1>11,
     <1>12, <1>13, <1>14, <1>15, <1>16, <1>17, <1>18, <1>19, <1>20, <1>21,
     <1>22, <1>23, <1>24, <1>25, <1>26, <1>27, <1>28, <1>29, <1>30, <1>31,
     <1>32, <1>33, <1>34, <1>35, <1>36, <1>37, <1>38, <1>39
     DEF Next, UserStep, DispatchStep, FlushStep, ShutdownStep, HandlerStep,
         RequeueStep

\* A worker leaves only when it is idle, and a flush starts none.
LEMMA GoneStep ==
  TypeOK /\ FlushIsInProgress /\ GoneAreIdle /\ [Next]_vars => GoneAreIdle'
<1> SUFFICES ASSUME TypeOK, FlushIsInProgress, GoneAreIdle, [Next]_vars
             PROVE  GoneAreIdle'
  OBVIOUS
<1> USE ConstantsAssumption DEF TypeOK, FlushIsInProgress, GoneAreIdle, Actors, queueVars, popVars,
            mainVars, workerVars, controlVars
<1>1. CASE PopStarts \/ PopRetries \/ PopFails
  BY <1>1 DEF PopStarts, PopRetries, PopFails
<1>2. ASSUME NEW i \in Items, Push(i)
      PROVE  GoneAreIdle'
  BY <1>2 DEF Push
<1>3. ASSUME NEW n \in MaxNums, SetWorkerMaxNumber(n)
      PROVE  GoneAreIdle'
  BY <1>3 DEF SetWorkerMaxNumber
<1>4. ASSUME NEW t \in ShutdownTimeouts, ShutdownWait(t)
      PROVE  GoneAreIdle'
  BY <1>4 DEF ShutdownWait
<1>5. CASE RemoveAllItems
  BY <1>5 DEF RemoveAllItems
<1>6. CASE Cancel
  BY <1>6 DEF Cancel
<1>7. CASE Pop
  BY <1>7 DEF Pop, InPopItem
<1>8. CASE Run
  BY <1>8 DEF Run
<1>9. CASE Receive
  BY <1>9 DEF Receive
<1>10. CASE BatchTimer
  BY <1>10 DEF BatchTimer
<1>11. CASE Stop
  BY <1>11 DEF Stop
<1>12. ASSUME NEW kind \in {"drain", "discard"}, FlushRequest(kind)
      PROVE  GoneAreIdle'
  BY <1>12 DEF FlushRequest
<1>13. CASE Dispatch
  BY <1>13 DEF Dispatch, HandTo, AfterDispatch
<1>14. CASE Spawn
  BY <1>14 DEF Spawn, AfterDispatch
<1>15. CASE SendCanceled
  BY <1>15 DEF SendCanceled, AfterDispatch
<1>16. ASSUME NEW w \in Workers, SendToWorker(w)
      PROVE  GoneAreIdle'
  BY <1>16 DEF SendToWorker, HandTo, AfterDispatch
<1>17. ASSUME NEW kind \in {"drain", "discard"}, SendFlush(kind)
      PROVE  GoneAreIdle'
  BY <1>17 DEF SendFlush, HandTo
<1>18. CASE FlushStart
  BY <1>18 DEF FlushStart
<1>19. CASE FlushWait
  BY <1>19 DEF FlushWait, AllWorkersDone
<1>20. CASE FlushReceive
  BY <1>20 DEF FlushReceive, HandTo
<1>21. CASE FlushEnd
  BY <1>21 DEF FlushEnd
<1>22. CASE Drain
  BY <1>22 DEF Drain
<1>23. CASE DrainEnd
  BY <1>23 DEF DrainEnd, PopsDrained, HandTo
<1>24. CASE GiveBackEnd
  BY <1>24 DEF GiveBackEnd
<1>25. CASE WaitWorkers
  BY <1>25 DEF WaitWorkers
<1>26. ASSUME NEW i \in Items, GiveBack(i)
      PROVE  GoneAreIdle'
  BY <1>26 DEF GiveBack
<1>27. ASSUME NEW S \in SUBSET Items, GiveBackFails(S)
      PROVE  GoneAreIdle'
  BY <1>27 DEF GiveBackFails
<1>28. ASSUME NEW S \in SUBSET Items, LastCallReturns(S)
      PROVE  GoneAreIdle'
  BY <1>28 DEF LastCallReturns
<1>29. ASSUME NEW a \in Actors, NEW S \in SUBSET Items, HandlerReturns(a, S)
      PROVE  GoneAreIdle'
  BY <1>29 DEF HandlerReturns, KeepHold, StageAfter
<1>30. ASSUME NEW a \in Actors, HandlerPanics(a)
      PROVE  GoneAreIdle'
  BY <1>30 DEF HandlerPanics, KeepHold
<1>31. ASSUME NEW a \in Actors, BackoffEnds(a)
      PROVE  GoneAreIdle'
  BY <1>31 DEF BackoffEnds
<1>32. ASSUME NEW a \in Actors, NEW i \in Items, Requeue(a, i)
      PROVE  GoneAreIdle'
  BY <1>32 DEF Requeue, KeepHold, StageAfter
<1>33. ASSUME NEW a \in Actors, NEW i \in Items, RequeueFails(a, i)
      PROVE  GoneAreIdle'
  BY <1>33 DEF RequeueFails, KeepHold, StageAfter
<1>34. ASSUME NEW a \in Actors, NEW i \in Items, ForceFails(a, i)
      PROVE  GoneAreIdle'
  BY <1>34 DEF ForceFails, KeepHold, StageAfter
<1>35. ASSUME NEW w \in Workers, WorkerStops(w)
      PROVE  GoneAreIdle'
  BY <1>35 DEF WorkerStops, WorkersCanceled
<1>36. ASSUME NEW w \in Workers, WorkerIdles(w)
      PROVE  GoneAreIdle'
  BY <1>36 DEF WorkerIdles, WorkerIsSpare
<1>37. CASE ProcessEnds
  BY <1>37 DEF ProcessEnds
<1>38. CASE Restart
  BY <1>38 DEF Restart
<1>39. CASE Terminated \/ UNCHANGED vars
  BY <1>39 DEF Terminated, vars
<1> QED
  BY <1>1, <1>2, <1>3, <1>4, <1>5, <1>6, <1>7, <1>8, <1>9, <1>10, <1>11,
     <1>12, <1>13, <1>14, <1>15, <1>16, <1>17, <1>18, <1>19, <1>20, <1>21,
     <1>22, <1>23, <1>24, <1>25, <1>26, <1>27, <1>28, <1>29, <1>30, <1>31,
     <1>32, <1>33, <1>34, <1>35, <1>36, <1>37, <1>38, <1>39
     DEF Next, UserStep, DispatchStep, FlushStep, ShutdownStep, HandlerStep,
         RequeueStep

\* doRun starts a worker where it is about to block without one, and the last
\* worker stops only with the context.
LEMMA SenderStep ==
  TypeOK /\ FlushIsInProgress /\ SenderHasReceiver /\ [Next]_vars => SenderHasReceiver'
<1> SUFFICES ASSUME TypeOK, FlushIsInProgress, SenderHasReceiver, [Next]_vars
             PROVE  SenderHasReceiver'
  OBVIOUS
<1> USE DEF TypeOK, FlushIsInProgress, SenderHasReceiver, queueVars, popVars,
            mainVars, workerVars, controlVars
<1>1. CASE PopStarts \/ PopRetries \/ PopFails
  BY <1>1 DEF PopStarts, PopRetries, PopFails
<1>2. ASSUME NEW i \in Items, Push(i)
      PROVE  SenderHasReceiver'
  BY <1>2 DEF Push
<1>3. ASSUME NEW n \in MaxNums, SetWorkerMaxNumber(n)
      PROVE  SenderHasReceiver'
  BY <1>3 DEF SetWorkerMaxNumber
<1>4. ASSUME NEW t \in ShutdownTimeouts, ShutdownWait(t)
      PROVE  SenderHasReceiver'
  BY <1>4 DEF ShutdownWait
<1>5. CASE RemoveAllItems
  BY <1>5 DEF RemoveAllItems
<1>6. CASE Cancel
  BY <1>6 DEF Cancel
<1>7. CASE Pop
  BY <1>7 DEF Pop, InPopItem
<1>8. CASE Run
  BY <1>8 DEF Run
<1>9. CASE Receive
  BY <1>9 DEF Receive
<1>10. CASE BatchTimer
  BY <1>10 DEF BatchTimer
<1>11. CASE Stop
  BY <1>11 DEF Stop
<1>12. ASSUME NEW kind \in {"drain", "discard"}, FlushRequest(kind)
      PROVE  SenderHasReceiver'
  BY <1>12 DEF FlushRequest
<1>13. CASE Dispatch
  BY <1>13 DEF Dispatch, HandTo, AfterDispatch
<1>14. CASE Spawn
  <2>1. Cardinality({}) = 0 /\ workerMaxNum \in Int
    BY FS_EmptySet, ConstantsAssumption
  <2>2. CASE MayStartWorker
    <3>1. PICK w \in Workers : live' = live \cup {w}
      BY <1>14, <2>2 DEF Spawn
    <3>2. w \in live'
      BY <3>1
    <3> QED
      BY <3>2
  <2>3. CASE ~MayStartWorker /\ buffer # {}
    <3>1. live # {}
      <4>1. SUFFICES ASSUME live = {}
                     PROVE  FALSE
        OBVIOUS
      <4>2. Cardinality(live) = 0
        BY <2>1, <4>1
      <4>3. ~(Cardinality(live) < workerMaxNum) /\ ~(workerMaxNum <= 0)
        BY <2>3, <4>1 DEF MayStartWorker
      <4> QED
        BY <2>1, <4>2, <4>3
    <3> QED
      BY <1>14, <2>3, <3>1 DEF Spawn
  <2>4. CASE ~MayStartWorker /\ buffer = {}
    BY <1>14, <2>4 DEF Spawn, AfterDispatch
  <2> QED
    BY <2>2, <2>3, <2>4
<1>15. CASE SendCanceled
  BY <1>15 DEF SendCanceled, AfterDispatch
<1>16. ASSUME NEW w \in Workers, SendToWorker(w)
      PROVE  SenderHasReceiver'
  BY <1>16 DEF SendToWorker, HandTo, AfterDispatch
<1>17. ASSUME NEW kind \in {"drain", "discard"}, SendFlush(kind)
      PROVE  SenderHasReceiver'
  BY <1>17 DEF SendFlush, HandTo
<1>18. CASE FlushStart
  BY <1>18 DEF FlushStart
<1>19. CASE FlushWait
  BY <1>19 DEF FlushWait, AllWorkersDone
<1>20. CASE FlushReceive
  BY <1>20 DEF FlushReceive, HandTo
<1>21. CASE FlushEnd
  BY <1>21 DEF FlushEnd
<1>22. CASE Drain
  BY <1>22 DEF Drain
<1>23. CASE DrainEnd
  BY <1>23 DEF DrainEnd, PopsDrained, HandTo
<1>24. CASE GiveBackEnd
  BY <1>24 DEF GiveBackEnd
<1>25. CASE WaitWorkers
  BY <1>25 DEF WaitWorkers
<1>26. ASSUME NEW i \in Items, GiveBack(i)
      PROVE  SenderHasReceiver'
  BY <1>26 DEF GiveBack
<1>27. ASSUME NEW S \in SUBSET Items, GiveBackFails(S)
      PROVE  SenderHasReceiver'
  BY <1>27 DEF GiveBackFails
<1>28. ASSUME NEW S \in SUBSET Items, LastCallReturns(S)
      PROVE  SenderHasReceiver'
  BY <1>28 DEF LastCallReturns
<1>29. ASSUME NEW a \in Actors, NEW S \in SUBSET Items, HandlerReturns(a, S)
      PROVE  SenderHasReceiver'
  BY <1>29 DEF HandlerReturns, KeepHold, StageAfter
<1>30. ASSUME NEW a \in Actors, HandlerPanics(a)
      PROVE  SenderHasReceiver'
  BY <1>30 DEF HandlerPanics, KeepHold
<1>31. ASSUME NEW a \in Actors, BackoffEnds(a)
      PROVE  SenderHasReceiver'
  BY <1>31 DEF BackoffEnds
<1>32. ASSUME NEW a \in Actors, NEW i \in Items, Requeue(a, i)
      PROVE  SenderHasReceiver'
  BY <1>32 DEF Requeue, KeepHold, StageAfter
<1>33. ASSUME NEW a \in Actors, NEW i \in Items, RequeueFails(a, i)
      PROVE  SenderHasReceiver'
  BY <1>33 DEF RequeueFails, KeepHold, StageAfter
<1>34. ASSUME NEW a \in Actors, NEW i \in Items, ForceFails(a, i)
      PROVE  SenderHasReceiver'
  BY <1>34 DEF ForceFails, KeepHold, StageAfter
<1>35. ASSUME NEW w \in Workers, WorkerStops(w)
      PROVE  SenderHasReceiver'
  BY <1>35 DEF WorkerStops, WorkersCanceled
<1>36. ASSUME NEW w \in Workers, WorkerIdles(w)
      PROVE  SenderHasReceiver'
  <2>1. Cardinality({w}) = 1 /\ Cardinality(live) > 1
    BY <1>36, FS_Singleton DEF WorkerIdles, WorkerIsSpare
  <2>2. live # {w}
    <3>1. SUFFICES ASSUME live = {w}
                   PROVE  FALSE
      OBVIOUS
    <3>2. Cardinality(live) = Cardinality({w})
      BY <3>1
    <3> QED
      BY <2>1, <3>2
  <2>3. live \ {w} # {}
    BY <1>36, <2>2 DEF WorkerIdles
  <2> QED
    BY <1>36, <2>3 DEF WorkerIdles
<1>37. CASE ProcessEnds
  BY <1>37 DEF ProcessEnds
<1>38. CASE Restart
  BY <1>38 DEF Restart
<1>39. CASE Terminated \/ UNCHANGED vars
  BY <1>39 DEF Terminated, vars
<1> QED
  BY <1>1, <1>2, <1>3, <1>4, <1>5, <1>6, <1>7, <1>8, <1>9, <1>10, <1>11,
     <1>12, <1>13, <1>14, <1>15, <1>16, <1>17, <1>18, <1>19, <1>20, <1>21,
     <1>22, <1>23, <1>24, <1>25, <1>26, <1>27, <1>28, <1>29, <1>30, <1>31,
     <1>32, <1>33, <1>34, <1>35, <1>36, <1>37, <1>38, <1>39
     DEF Next, UserStep, DispatchStep, FlushStep, ShutdownStep, HandlerStep,
         RequeueStep

\* The relations of FlowInv hold in every reachable state.
LEMMA FlowHolds == Spec => []FlowInv
<1>1. Init => FlowInv
  <2> SUFFICES ASSUME Init
               PROVE  FlowInv
    OBVIOUS
  <2>1. GoneAreIdle
    BY DEF Init, GoneAreIdle, Actors
  <2> QED
    BY <2>1 DEF Init, FlowInv, FlushIsInProgress, BufferIsEmptied, PopsEnd,
       BufferIsTimed, SenderHasReceiver
<1>2. TypeOK /\ FlowInv /\ [Next]_vars => FlowInv'
  BY FlowStep, GoneStep, SenderStep DEF FlowInv
<1> QED
  BY <1>1, <1>2, TypeCorrect, PTL DEF Spec

(* Whatever doRun has in its batch buffer while it waits in its loop will  *)
(* be dispatched by an armed timer: no batch, no returned send and no      *)
(* flush leaves a partial batch without one.                               *)
THEOREM BufferIsTimedAlways == Spec => []BufferIsTimed
<1>1. FlowInv => BufferIsTimed
  BY DEF FlowInv
<1> QED
  BY FlowHolds, <1>1, PTL

(* doDispatchBatchToWorker never blocks on a send that nobody can receive, *)
(* whatever maximum is set meanwhile and whichever workers stop idling.    *)
THEOREM SenderHasReceiverAlways == Spec => []SenderHasReceiver
<1>1. FlowInv => SenderHasReceiver
  BY DEF FlowInv
<1> QED
  BY FlowHolds, <1>1, PTL

(* After doFlush's wg.Wait no worker exists, and none holds an item, until *)
(* the flush ends.                                                         *)
THEOREM FlushIsAloneAlways == Spec => []FlushIsAlone
<1>1. FlowInv /\ PlaceInv => FlushIsAlone
  BY DEF FlowInv, PlaceInv, FlushIsAlone, GoneAreIdle, IdleHoldsNothing, Actors
<1> QED
  BY FlowHolds, PlaceHolds, <1>1, PTL

\* At the end of a shutdown an accepted item is in the base queue, or with a
\* worker that outlived the timeout.
LEMMA DoneGaveBack == FlowInv /\ PlaceInv => ShutdownGivesBack
<1> SUFFICES ASSUME FlowInv, PlaceInv, pc = "done",
                    NEW i \in Accepted, i \notin Range(base)
             PROVE  \E w \in live : i \in hold[w]
  BY DEF ShutdownGivesBack
<1>1. popped = {} /\ buffer = {}
  BY DEF FlowInv, PopsEnd, BufferIsEmptied
<1>2. PICK a \in Actors : i \in hold[a]
  BY <1>1 DEF PlaceInv, InOnePlace, AcceptedArePlaced, Held
<1>3. stage[a] # "idle"
  BY <1>2 DEF PlaceInv, IdleHoldsNothing
<1>4. a # Main
  BY <1>3 DEF PlaceInv, MainHandlesInFlush
<1> QED
  BY <1>2, <1>3, <1>4 DEF FlowInv, GoneAreIdle, Actors

(* When doRun has ended, nothing accepted is left in the pop channel, in   *)
(* the batch buffer or with the main goroutine: it is back in the base     *)
(* queue, or held by a worker that the shutdown did not wait for.          *)
THEOREM ShutdownGivesBackAlways == Spec => []ShutdownGivesBack
<1>1. FlowInv /\ PlaceInv => ShutdownGivesBack
  BY DoneGaveBack
<1> QED
  BY FlowHolds, PlaceHolds, <1>1, PTL

\* A flush ends in FlushEnd, or with the process.
LEMMA FlushEndsInFlushEnd ==
  ASSUME [Next]_vars, flush = "drain", flush' = "none", ~canceled'
  PROVE  FlushEnd
BY DEF Next,
   PopStarts, PopRetries, PopFails, Push, SetWorkerMaxNumber, ShutdownWait,
   RemoveAllItems, Cancel, Pop, InPopItem, Run, Receive, BatchTimer, Stop,
   FlushRequest, Dispatch, HandTo, AfterDispatch, Spawn, SendCanceled,
   SendToWorker, SendFlush, FlushStart, FlushWait, AllWorkersDone,
   FlushReceive, FlushEnd, Drain, DrainEnd, PopsDrained, GiveBackEnd,
   WaitWorkers, GiveBack, GiveBackFails, LastCallReturns, HandlerReturns,
   KeepHold, StageAfter, HandlerPanics, BackoffEnds, Requeue, RequeueFails,
   ForceFails, WorkerStops, WorkersCanceled, WorkerIdles, WorkerIsSpare,
   ProcessEnds, Restart, Terminated, vars, UserStep, DispatchStep, FlushStep,
   ShutdownStep, HandlerStep, RequeueStep, queueVars, popVars, mainVars,
   workerVars, controlVars

(* A draining flush that ends while the queue runs has handled everything  *)
(* accepted but an item on its way out of the base queue, which the loop   *)
(* of doFlush cannot see.                                                  *)
THEOREM FlushLeavesNothingAlways == Spec => FlushLeavesNothing
<1>1. FlowInv /\ PlaceInv /\ [Next]_vars
        => [flush = "drain" /\ flush' = "none" /\ ~canceled'
              /\ popper # "closed" => Accepted \subseteq popped]_vars
  <2> SUFFICES ASSUME FlowInv, PlaceInv, [Next]_vars, flush = "drain",
                      flush' = "none", ~canceled', popper # "closed"
               PROVE  Accepted \subseteq popped
    OBVIOUS
  <2>1. FlushEnd
    BY FlushEndsInFlushEnd
  <2>2. base = <<>> /\ buffer = {} /\ live = {} /\ stage[Main] = "idle"
    BY <2>1 DEF FlushEnd, DrainIsOver, FlowInv, BufferIsEmptied, GoneAreIdle,
       controlVars
  <2>3. \A a \in Actors : stage[a] = "idle"
    BY <2>2 DEF FlowInv, GoneAreIdle, Actors
  <2>4. Held = {}
    BY <2>3 DEF PlaceInv, IdleHoldsNothing, Held
  <2>5. Range(base) = {}
    BY <2>2 DEF Range
  <2> QED
    BY <2>2, <2>4, <2>5 DEF PlaceInv, InOnePlace, AcceptedArePlaced
<1> QED
  BY <1>1, FlowHolds, PlaceHolds, PTL DEF Spec, FlushLeavesNothing

-----------------------------------------------------------------------------
(* A queue that loses nothing. LosslessInv is inductive where the base     *)
(* queue has room for all items, handlers do not panic, a shutdown has a   *)
(* timeout, and nobody flushes the queue or removes its items.             *)

LosslessInv ==
  /\ NothingLost
  /\ shutdownTimeout = 1
  /\ flush = "none" /\ ~isFlushing
  /\ pc \notin {"flushStart", "flushWait", "flushDrain", "lastCall"}

(* A base queue that could take every item has room for one that is not    *)
(* in it, since it holds no item twice.                                    *)
LEMMA RoomForTheRest ==
  ASSUME TypeOK, BaseIsInjective, IsFiniteSet(Items),
         Cardinality(Items) <= Length, NEW i \in Items, i \notin Range(base)
  PROVE  HasRoom
<1> SUFFICES ASSUME Len(base) >= Length
             PROVE  FALSE
  BY ConstantsAssumption DEF HasRoom, TypeOK
<1> DEFINE T == Items \ {i}
<1>1. IsFiniteSet(T) /\ Cardinality(T) = Cardinality(Items) - 1
  BY FS_RemoveElement
<1>2. Cardinality(Items) \in Nat /\ Len(base) \in Nat /\ Length \in Nat
  BY FS_CardinalityType, ConstantsAssumption DEF TypeOK
<1>3. IsFiniteSet(1 .. Len(base)) /\ Cardinality(1 .. Len(base)) = Len(base)
  <2>1. /\ IsFiniteSet(1 .. Len(base))
        /\ Cardinality(1 .. Len(base))
             = IF 1 > Len(base) THEN 0 ELSE Len(base) - 1 + 1
    BY <1>2, FS_Interval, 1 \in Int, Len(base) \in Int
  <2> QED
    BY <1>2, <2>1
<1>4. base \in [1 .. Len(base) -> T]
  BY DEF TypeOK, Range
<1>5. Cardinality(T) < Cardinality(1 .. Len(base))
  BY <1>1, <1>2, <1>3
<1>6. \E m, n \in 1 .. Len(base) : m # n /\ base[m] = base[n]
  <2> HIDE DEF T
  <2> QED
    BY <1>1, <1>3, <1>4, <1>5, FS_PigeonHole
<1> QED
  BY <1>6 DEF BaseIsInjective

\* In such a queue every step keeps it so.
LEMMA LosslessStep ==
  ASSUME IsFiniteSet(Items), Cardinality(Items) <= Length,
         0 \notin ShutdownTimeouts, MaxFlushes = 0,
         Faults \cap {"panic", "removeAll"} = {},
         TypeOK, PlaceInv, LosslessInv, [Next]_vars
  PROVE  LosslessInv'
<1>a. /\ BaseIsInjective /\ Range(base) \cap (buffer \cup Held) = {}
  BY DEF PlaceInv, InOnePlace, PlacesAreDisjoint
<1> USE <1>a, ConstantsAssumption
        DEF TypeOK, LosslessInv, NothingLost, Settled, queueVars, popVars,
            mainVars, workerVars, controlVars
<1>1. CASE PopStarts \/ PopRetries \/ PopFails
  BY <1>1 DEF PopStarts, PopRetries, PopFails
<1>2. ASSUME NEW i \in Items, Push(i)
      PROVE  LosslessInv'
  BY <1>2 DEF Push
<1>3. ASSUME NEW n \in MaxNums, SetWorkerMaxNumber(n)
      PROVE  LosslessInv'
  BY <1>3 DEF SetWorkerMaxNumber
<1>4. ASSUME NEW t \in ShutdownTimeouts, ShutdownWait(t)
      PROVE  LosslessInv'
  BY <1>4 DEF ShutdownWait
<1>5. CASE RemoveAllItems
  BY <1>5 DEF RemoveAllItems
<1>6. CASE Cancel
  BY <1>6 DEF Cancel
<1>7. CASE Pop
  BY <1>7 DEF Pop, InPopItem
<1>8. CASE Run
  BY <1>8 DEF Run
<1>9. CASE Receive
  BY <1>9 DEF Receive
<1>10. CASE BatchTimer
  BY <1>10 DEF BatchTimer
<1>11. CASE Stop
  BY <1>11 DEF Stop
<1>12. ASSUME NEW kind \in {"drain", "discard"}, FlushRequest(kind)
      PROVE  LosslessInv'
  BY <1>12 DEF FlushRequest
<1>13. CASE Dispatch
  BY <1>13 DEF Dispatch, HandTo, AfterDispatch
<1>14. CASE Spawn
  BY <1>14 DEF Spawn, AfterDispatch
<1>15. CASE SendCanceled
  BY <1>15 DEF SendCanceled, AfterDispatch
<1>16. ASSUME NEW w \in Workers, SendToWorker(w)
      PROVE  LosslessInv'
  BY <1>16 DEF SendToWorker, HandTo, AfterDispatch
<1>17. ASSUME NEW kind \in {"drain", "discard"}, SendFlush(kind)
      PROVE  LosslessInv'
  BY <1>17 DEF SendFlush, HandTo
<1>18. CASE FlushStart
  BY <1>18 DEF FlushStart
<1>19. CASE FlushWait
  BY <1>19 DEF FlushWait, AllWorkersDone
<1>20. CASE FlushReceive
  BY <1>20 DEF FlushReceive, HandTo
<1>21. CASE FlushEnd
  BY <1>21 DEF FlushEnd
<1>22. CASE Drain
  BY <1>22 DEF Drain
<1>23. CASE DrainEnd
  BY <1>23 DEF GivesBack, DrainEnd, PopsDrained, HandTo
<1>24. CASE GiveBackEnd
  BY <1>24 DEF GiveBackEnd
<1>25. CASE WaitWorkers
  BY <1>25 DEF WaitWorkers
<1>26. ASSUME NEW i \in Items, GiveBack(i)
      PROVE  LosslessInv'
  BY <1>26 DEF GiveBack
<1>27. ASSUME NEW S \in SUBSET Items, GiveBackFails(S)
      PROVE  LosslessInv'
  <2>1. PICK i \in S : i \in Items /\ i \notin Range(base) /\ ~HasRoom
    BY <1>27 DEF GiveBackFails
  <2> QED
    BY <2>1, RoomForTheRest
<1>28. ASSUME NEW S \in SUBSET Items, LastCallReturns(S)
      PROVE  LosslessInv'
  BY <1>28 DEF LastCallReturns
<1>29. ASSUME NEW a \in Actors, NEW S \in SUBSET Items, HandlerReturns(a, S)
      PROVE  LosslessInv'
  BY <1>29 DEF HandlerReturns, KeepHold, StageAfter
<1>30. ASSUME NEW a \in Actors, HandlerPanics(a)
      PROVE  LosslessInv'
  BY <1>30 DEF HandlerPanics, KeepHold
<1>31. ASSUME NEW a \in Actors, BackoffEnds(a)
      PROVE  LosslessInv'
  BY <1>31 DEF BackoffEnds
<1>32. ASSUME NEW a \in Actors, NEW i \in Items, Requeue(a, i)
      PROVE  LosslessInv'
  BY <1>32 DEF Requeue, KeepHold, StageAfter
<1>33. ASSUME NEW a \in Actors, NEW i \in Items, RequeueFails(a, i)
      PROVE  LosslessInv'
  BY <1>33 DEF GivesBack, RequeueFails, KeepHold, StageAfter
<1>34. ASSUME NEW a \in Actors, NEW i \in Items, ForceFails(a, i)
      PROVE  LosslessInv'
  <2>1. i \in Items /\ i \notin Range(base) /\ ~HasRoom
    BY <1>34 DEF ForceFails, Held
  <2> QED
    BY <2>1, RoomForTheRest
<1>35. ASSUME NEW w \in Workers, WorkerStops(w)
      PROVE  LosslessInv'
  BY <1>35 DEF WorkerStops, WorkersCanceled
<1>36. ASSUME NEW w \in Workers, WorkerIdles(w)
      PROVE  LosslessInv'
  BY <1>36 DEF WorkerIdles, WorkerIsSpare
<1>37. CASE ProcessEnds
  BY <1>37 DEF ProcessEnds
<1>38. CASE Restart
  BY <1>38 DEF Restart
<1>39. CASE Terminated \/ UNCHANGED vars
  BY <1>39 DEF Terminated, vars
<1> QED
  BY <1>1, <1>2, <1>3, <1>4, <1>5, <1>6, <1>7, <1>8, <1>9, <1>10, <1>11,
     <1>12, <1>13, <1>14, <1>15, <1>16, <1>17, <1>18, <1>19, <1>20, <1>21,
     <1>22, <1>23, <1>24, <1>25, <1>26, <1>27, <1>28, <1>29, <1>30, <1>31,
     <1>32, <1>33, <1>34, <1>35, <1>36, <1>37, <1>38, <1>39
     DEF Next, UserStep, DispatchStep, FlushStep, ShutdownStep, HandlerStep,
         RequeueStep

(* Such a queue loses nothing but what the process takes with it: no push  *)
(* back finds the base queue full, and no other path of doWorkerHandle,    *)
(* doRun or ShutdownWait drops an item.                                    *)
THEOREM NothingLostAlways ==
  ASSUME IsFiniteSet(Items), Cardinality(Items) <= Length,
         0 \notin ShutdownTimeouts, MaxFlushes = 0,
         Faults \cap {"panic", "removeAll"} = {}
  PROVE  Spec => []NothingLost
<1>1. Init => LosslessInv
  BY DEF Init, LosslessInv, NothingLost
<1>2. TypeOK /\ PlaceInv /\ LosslessInv /\ [Next]_vars => LosslessInv'
  BY LosslessStep
<1>3. LosslessInv => NothingLost
  BY DEF LosslessInv
<1> QED
  BY <1>1, <1>2, <1>3, TypeCorrect, PlaceHolds, PTL DEF Spec

=============================================================================
