---------------------- MODULE UniqueChannelQueueProofs ---------------------
(***************************************************************************)
(* Theorems about UniqueChannelQueue, for any number of pushers and items  *)
(* and any capacity: type correctness, that the set keeps duplicates out   *)
(* as long as each item has one pusher, and whom RemoveAll waits for.      *)
(***************************************************************************)
EXTENDS UniqueChannelQueue, SequenceFacts, TLAPS

-----------------------------------------------------------------------------
(* Type correctness.                                                       *)

PushTypes ==
  /\ push \in [Pushers -> PushSteps] /\ pushed \in [Pushers -> SUBSET Items]
  /\ \A p \in Pushers : IF push[p] = "idle" THEN pushed[p] = {}
                                            ELSE \E i \in Items : pushed[p] = {i}

\* A push that goes on to its next step keeps the types of the pushes.
LEMMA PushMoves ==
  ASSUME PushTypes, NEW p \in Pushers, NEW step \in PushSteps, PushAt(p, step),
         step # "idle", push[p] # "idle"
  PROVE  PushTypes'
<1>1. \A q \in Pushers : push'[q] = IF q = p THEN step ELSE push[q]
  BY DEF PushAt, PushTypes
<1> QED
  BY <1>1 DEF PushAt, PushTypes

\* A push that returns keeps the types of the pushes.
LEMMA PushEnds ==
  ASSUME PushTypes, NEW p \in Pushers, PushReturns(p)
  PROVE  PushTypes'
<1> DEFINE none == {}
<1>1. none \in SUBSET Items /\ none = {} /\ "idle" \in PushSteps
  BY DEF PushSteps
<1>2. pushed' = [pushed EXCEPT ![p] = none] /\ push' = [push EXCEPT ![p] = "idle"]
  BY DEF PushReturns
<1> HIDE DEF none
<1>3. \A q \in Pushers : /\ push'[q] = IF q = p THEN "idle" ELSE push[q]
                         /\ pushed'[q] = IF q = p THEN none ELSE pushed[q]
  BY <1>2 DEF PushTypes
<1>4. push' \in [Pushers -> PushSteps] /\ pushed' \in [Pushers -> SUBSET Items]
  BY <1>1, <1>2 DEF PushTypes
<1> QED
  BY <1>1, <1>3, <1>4 DEF PushTypes

\* A push that is called with an item keeps the types of the pushes.
LEMMA PushBegins ==
  ASSUME PushTypes, NEW p \in Pushers, NEW i \in Items, PushCalled(p, i)
  PROVE  PushTypes'
<1> DEFINE one == {i}
<1>1. one \in SUBSET Items /\ one = {i} /\ "check" \in PushSteps
  BY DEF PushSteps
<1>2. pushed' = [pushed EXCEPT ![p] = one] /\ push' = [push EXCEPT ![p] = "check"]
  BY DEF PushCalled
<1> HIDE DEF one
<1>3. \A q \in Pushers : /\ push'[q] = IF q = p THEN "check" ELSE push[q]
                         /\ pushed'[q] = IF q = p THEN one ELSE pushed[q]
  BY <1>2 DEF PushTypes
<1>4. push' \in [Pushers -> PushSteps] /\ pushed' \in [Pushers -> SUBSET Items]
  BY <1>1, <1>2 DEF PushTypes
<1> QED
  BY <1>1, <1>3, <1>4 DEF PushTypes

\* What a push has in hand is an item.
LEMMA PushedIsItem ==
  ASSUME PushTypes, NEW p \in Pushers, push[p] # "idle"
  PROVE  \E i \in Items : pushed[p] = {i}
BY DEF PushTypes

\* The types hold at first.
LEMMA TypeInit == Init => TypeOK
<1> SUFFICES ASSUME Init
             PROVE  TypeOK
  OBVIOUS
<1>1. c \in Seq(Items) /\ Len(c) <= Length
  BY ConstantsAssumption DEF Init
<1>2. push \in [Pushers -> PushSteps]
  BY DEF Init, PushSteps
<1>3. pushed \in [Pushers -> SUBSET Items]
  BY DEF Init
<1>4. \A p \in Pushers : push[p] = "idle" /\ pushed[p] = {}
  BY DEF Init
<1> QED
  BY <1>1, <1>2, <1>3, <1>4 DEF Init, TypeOK

\* Every step keeps the types.
LEMMA TypeStep == TypeOK /\ [Next]_vars => TypeOK'
<1> SUFFICES ASSUME TypeOK, [Next]_vars
             PROVE  TypeOK'
  OBVIOUS
<1>0. PushTypes
  BY DEF TypeOK, PushTypes
<1>1. ASSUME NEW p \in Pushers, NEW i \in Items, PushCalled(p, i)
      PROVE  TypeOK'
  BY <1>0, <1>1, PushBegins DEF PushCalled, TypeOK, PushTypes
<1>2. ASSUME NEW p \in Pushers, PushChecks(p)
      PROVE  TypeOK'
  <2>1. PushTypes'
    BY <1>0, <1>2, PushMoves, PushEnds DEF PushChecks, PushSteps
  <2> QED
    BY <1>2, <2>1 DEF PushChecks, TypeOK, PushTypes
<1>3. ASSUME NEW p \in Pushers, PushSends(p)
      PROVE  TypeOK'
  <2>1. PushTypes'
    BY <1>0, <1>3, PushMoves DEF PushSends, PushSteps
  <2>2. PICK i \in Items : pushed[p] = {i}
    BY <1>0, <1>3, PushedIsItem DEF PushSends
  <2>3. c' \in Seq(Items) /\ Len(c') <= Length
    BY <1>3, <2>2, AppendRange, ConstantsAssumption DEF PushSends, TypeOK
  <2> QED
    BY <1>3, <2>1, <2>3 DEF PushSends, TypeOK, PushTypes
<1>4. ASSUME NEW p \in Pushers, PushGivesUp(p) \/ PushAdds(p)
      PROVE  TypeOK'
  <2>1. PushTypes'
    BY <1>0, <1>4, PushEnds DEF PushGivesUp, PushAdds
  <2>2. set' \subseteq Items /\ UNCHANGED <<c, pop, remove, removed>>
    BY <1>4 DEF PushGivesUp, PushAdds, TypeOK
  <2> QED
    BY <2>1, <2>2 DEF TypeOK, PushTypes
<1>5. CASE PopReceives \/ RemoveReceives
  <2>1. c # <<>> /\ c' = Tail(c) /\ UNCHANGED <<set, push, pushed>>
    BY <1>5 DEF PopReceives, RemoveReceives
  <2>2. c' \in Seq(Items) /\ Len(c') <= Length /\ Head(c) \in Items
    BY <2>1, HeadAndTailRange, ConstantsAssumption DEF TypeOK
  <2>3. /\ pop' \subseteq Items /\ remove' \in {"idle", "look", "receive"}
        /\ removed' \in BOOLEAN
    BY <1>5, <2>2 DEF PopReceives, RemoveReceives, TypeOK
  <2> QED
    BY <2>1, <2>2, <2>3 DEF TypeOK
<1>6. CASE PopRemoves \/ RemoveLocks \/ RemoveLooks
  BY <1>6 DEF PopRemoves, RemoveLocks, RemoveLooks, TypeOK
<1>7. CASE UNCHANGED vars
  BY <1>7 DEF vars, TypeOK
<1> QED
  BY <1>1, <1>2, <1>3, <1>4, <1>5, <1>6, <1>7 DEF Next, PushStep

(* The channel never has more items than its capacity, and each pusher     *)
(* that is in PushItem has one item (base_channel.go).                     *)
THEOREM TypeCorrect == Spec => []TypeOK
  BY TypeInit, TypeStep, PTL DEF Spec

-----------------------------------------------------------------------------
(* Whom RemoveAll waits for.                                               *)

(* When RemoveAll waits for an item with the mutex, it is because PopItem  *)
(* took the last one and waits for the mutex.                              *)
THEOREM RemoveWaitsForPopOnly == Spec => []RemoveWaitsForPop
<1>1. Init => RemoveWaitsForPop
  BY DEF Init, RemoveWaitsForPop, Stuck
<1>2. TypeOK /\ RemoveWaitsForPop /\ [Next]_vars => RemoveWaitsForPop'
  <2> SUFFICES ASSUME TypeOK, RemoveWaitsForPop, [Next]_vars
               PROVE  RemoveWaitsForPop'
    OBVIOUS
  <2>1. ASSUME NEW p \in Pushers, PushStep(p)
        PROVE  RemoveWaitsForPop'
    <3>1. UNCHANGED <<pop, remove>>
      BY <2>1 DEF PushStep, PushCalled, PushChecks, PushSends, PushGivesUp, PushAdds
    <3>2. c' = c \/ \E i \in pushed[p] : c' = Append(c, i)
      BY <2>1 DEF PushStep, PushCalled, PushChecks, PushSends, PushGivesUp, PushAdds
    <3>3. c' = <<>> => c = <<>>
      <4>1. pushed[p] \subseteq Items
        BY DEF TypeOK
      <4>2. ASSUME NEW i \in pushed[p], c' = Append(c, i)
            PROVE  c' # <<>>
        BY <4>1, <4>2, AppendRange DEF TypeOK
      <4> QED
        BY <3>2, <4>2
    <3> QED
      BY <3>1, <3>3 DEF RemoveWaitsForPop, Stuck
  <2>2. CASE PopReceives
    BY <2>2 DEF PopReceives, RemoveWaitsForPop, Stuck
  <2>3. CASE PopRemoves \/ RemoveLocks \/ RemoveLooks \/ RemoveReceives
    BY <2>3 DEF PopRemoves, RemoveLocks, RemoveLooks, RemoveReceives,
       RemoveWaitsForPop, Stuck, MutexFree
  <2>4. CASE UNCHANGED vars
    BY <2>4 DEF vars, RemoveWaitsForPop, Stuck
  <2> QED
    BY <2>1, <2>2, <2>3, <2>4 DEF Next
<1> QED
  BY <1>1, <1>2, TypeCorrect, PTL DEF Spec

-----------------------------------------------------------------------------
(* No duplicates.                                                          *)

AddingOf(p) == IF push[p] = "add" THEN pushed[p] ELSE {}

(* what is in the channel or just received is refused, or about to be *)
KnownIsMarked ==
  \A i \in Range(c) \cup pop : i \in set \/ \E p \in Pushers : i \in AddingOf(p)

(* what passed the check is nowhere yet *)
SentIsNew ==
  \A p \in Pushers : push[p] = "send" => pushed[p] \cap (Range(c) \cup pop) = {}

PushedIsOwn == \A p \in Pushers : \A i \in pushed[p] : <<p, i>> \in Pushes

OwnInv ==
  OnePusherEach /\ ~removed =>
    /\ Injective(c) /\ pop \cap Range(c) = {}
    /\ KnownIsMarked /\ SentIsNew /\ PushedIsOwn
    /\ remove = "idle"

(* a step of PushItem that changes nothing but where its pusher is *)
LEMMA OthersStay ==
  ASSUME PushTypes, NEW p \in Pushers,
         (\E step \in PushSteps : PushAt(p, step)) \/ PushReturns(p)
  PROVE  /\ \A q \in Pushers \ {p} : push'[q] = push[q] /\ pushed'[q] = pushed[q]
         /\ pushed'[p] \subseteq pushed[p]
BY DEF PushTypes, PushAt, PushReturns

\* Every step keeps the invariant about who owns which item.
LEMMA OwnStep == TypeOK /\ OwnInv /\ [Next]_vars => OwnInv'
<1> SUFFICES ASSUME TypeOK, OwnInv, [Next]_vars
             PROVE  OwnInv'
  OBVIOUS
<1>history. RemoveLocks \/ removed' = removed
  <2>1. ASSUME NEW p \in Pushers, PushStep(p)
        PROVE  removed' = removed
    BY <2>1 DEF PushStep, PushCalled, PushChecks, PushSends, PushGivesUp, PushAdds
  <2>2. CASE PopReceives \/ PopRemoves \/ RemoveLooks \/ RemoveReceives
    BY <2>2 DEF PopReceives, PopRemoves, RemoveLooks, RemoveReceives
  <2>3. CASE UNCHANGED vars
    BY <2>3 DEF vars
  <2> QED
    BY <2>1, <2>2, <2>3 DEF Next
<1>locks. RemoveLocks => OwnInv'
  BY DEF RemoveLocks, OwnInv
<1> SUFFICES ASSUME OnePusherEach, ~removed, removed' = removed
             PROVE  OwnInv'
  BY <1>history, <1>locks DEF OwnInv, OnePusherEach
<1>0. /\ Injective(c) /\ pop \cap Range(c) = {}
      /\ KnownIsMarked /\ SentIsNew /\ PushedIsOwn /\ remove = "idle"
      /\ PushTypes
  BY DEF OwnInv, TypeOK, PushTypes
<1>owner. ASSUME NEW p \in Pushers, NEW q \in Pushers, NEW i \in pushed[p],
                 i \in pushed[q]
          PROVE  p = q
  <2>1. <<p, i>> \in Pushes /\ <<q, i>> \in Pushes
    BY <1>0, <1>owner DEF PushedIsOwn
  <2> QED
    BY <2>1 DEF OnePusherEach
<1>1. ASSUME NEW p \in Pushers, NEW i \in Items, <<p, i>> \in Pushes, PushCalled(p, i)
      PROVE  OwnInv'
  <2> DEFINE one == {i}
  <2>1. /\ push[p] = "idle" /\ UNCHANGED <<c, set, pop, remove, removed>>
        /\ pushed' = [pushed EXCEPT ![p] = one] /\ push' = [push EXCEPT ![p] = "check"]
        /\ one = {i}
    BY <1>1 DEF PushCalled
  <2> HIDE DEF one
  <2>2. \A q \in Pushers : /\ push'[q] = IF q = p THEN "check" ELSE push[q]
                           /\ pushed'[q] = IF q = p THEN one ELSE pushed[q]
    BY <1>0, <2>1 DEF PushTypes
  <2>3. \A q \in Pushers : AddingOf(q)' = AddingOf(q)
    BY <2>1, <2>2 DEF AddingOf
  <2>4. KnownIsMarked'
    BY <1>0, <2>1, <2>3 DEF KnownIsMarked
  <2>5. SentIsNew'
    BY <1>0, <2>1, <2>2 DEF SentIsNew
  <2>6. PushedIsOwn'
    <3> SUFFICES ASSUME NEW q \in Pushers, NEW j \in pushed'[q]
                 PROVE  <<q, j>> \in Pushes
      BY DEF PushedIsOwn
    <3>1. CASE q = p
      BY <1>1, <2>1, <2>2, <3>1
    <3>2. CASE q # p
      BY <1>0, <2>2, <3>2 DEF PushedIsOwn
    <3> QED
      BY <3>1, <3>2
  <2> QED
    BY <1>0, <2>1, <2>4, <2>5, <2>6 DEF OwnInv
<1>2. ASSUME NEW p \in Pushers, PushChecks(p)
      PROVE  OwnInv'
  <2>1. /\ push[p] = "check" /\ UNCHANGED <<c, set, pop, remove, removed>>
        /\ \A q \in Pushers \ {p} : push'[q] = push[q] /\ pushed'[q] = pushed[q]
        /\ pushed'[p] \subseteq pushed[p]
    BY <1>0, <1>2, OthersStay DEF PushChecks, PushSteps
  <2>2. push'[p] = "idle" \/ (push'[p] = "send" /\ pushed'[p] \cap set = {})
    BY <1>0, <1>2 DEF PushChecks, PushAt, PushReturns, PushTypes
  <2>3. \A q \in Pushers : AddingOf(q)' = AddingOf(q)
    BY <2>1, <2>2 DEF AddingOf
  <2>4. KnownIsMarked'
    BY <1>0, <2>1, <2>3 DEF KnownIsMarked
  <2>5. ASSUME push'[p] = "send", NEW i \in pushed'[p], i \in Range(c) \cup pop
        PROVE  FALSE
    <3>1. i \notin set /\ i \in pushed[p]
      BY <2>1, <2>2, <2>5
    <3>2. PICK q \in Pushers : i \in AddingOf(q)
      BY <1>0, <2>5, <3>1 DEF KnownIsMarked
    <3>3. push[q] = "add" /\ i \in pushed[q]
      BY <3>2 DEF AddingOf
    <3> QED
      BY <1>owner, <2>1, <3>1, <3>3
  <2>6. SentIsNew'
    BY <1>0, <2>1, <2>5 DEF SentIsNew
  <2>7. PushedIsOwn'
    BY <1>0, <2>1 DEF PushedIsOwn
  <2> QED
    BY <1>0, <2>1, <2>4, <2>6, <2>7 DEF OwnInv
<1>3. ASSUME NEW p \in Pushers, PushSends(p)
      PROVE  OwnInv'
  <2>1. PICK i \in Items : pushed[p] = {i}
    BY <1>0, <1>3, PushedIsItem DEF PushSends
  <2>2. /\ push[p] = "send" /\ c' = Append(c, i) /\ PushAt(p, "add")
        /\ UNCHANGED <<set, pop, remove, removed, pushed>>
    BY <1>3, <2>1 DEF PushSends, PushAt
  <2>3. i \notin Range(c) /\ i \notin pop
    BY <1>0, <2>1, <2>2 DEF SentIsNew
  <2>4. /\ Range(c') = Range(c) \cup {i} /\ Injective(c')
    BY <1>0, <2>2, <2>3, AppendRange, AppendInjective DEF TypeOK
  <2>5. /\ push'[p] = "add"
        /\ \A q \in Pushers \ {p} : push'[q] = push[q]
    BY <1>0, <2>2 DEF PushAt, PushTypes
  <2>6. i \in AddingOf(p)' /\ \A q \in Pushers : AddingOf(q) \subseteq AddingOf(q)'
    BY <2>1, <2>2, <2>5 DEF AddingOf
  <2>7. KnownIsMarked'
    BY <1>0, <2>2, <2>4, <2>6 DEF KnownIsMarked
  <2>8. \A q \in Pushers \ {p} : i \notin pushed[q]
    BY <1>owner, <2>1
  <2>9. SentIsNew'
    BY <1>0, <2>2, <2>4, <2>5, <2>8 DEF SentIsNew
  <2>10. PushedIsOwn'
    BY <1>0, <2>2 DEF PushedIsOwn
  <2> QED
    BY <1>0, <2>2, <2>3, <2>4, <2>7, <2>9, <2>10 DEF OwnInv
<1>4. ASSUME NEW p \in Pushers, PushGivesUp(p) \/ PushAdds(p)
      PROVE  OwnInv'
  <2>1. /\ PushReturns(p) /\ UNCHANGED <<c, pop, remove, removed>>
        /\ set \subseteq set' /\ AddingOf(p) \subseteq set'
    BY <1>4 DEF PushGivesUp, PushAdds, AddingOf
  <2>2. /\ \A q \in Pushers \ {p} : push'[q] = push[q] /\ pushed'[q] = pushed[q]
        /\ pushed'[p] \subseteq pushed[p]
    BY <1>0, <2>1, OthersStay
  <2>3. push'[p] = "idle"
    BY <1>0, <2>1 DEF PushReturns, PushTypes
  <2>4. \A q \in Pushers \ {p} : AddingOf(q)' = AddingOf(q)
    BY <2>2 DEF AddingOf
  <2>5. KnownIsMarked'
    BY <1>0, <2>1, <2>4 DEF KnownIsMarked
  <2>6. SentIsNew'
    BY <1>0, <2>1, <2>2, <2>3 DEF SentIsNew
  <2>7. PushedIsOwn'
    BY <1>0, <2>2 DEF PushedIsOwn
  <2> QED
    BY <1>0, <2>1, <2>5, <2>6, <2>7 DEF OwnInv
<1>5. CASE PopReceives
  <2>1. /\ c # <<>> /\ pop = {} /\ pop' = {Head(c)} /\ c' = Tail(c)
        /\ UNCHANGED <<set, push, pushed, remove, removed>>
    BY <1>5 DEF PopReceives
  <2>2. /\ Range(c') = Range(c) \ {Head(c)} /\ Injective(c') /\ Head(c) \in Range(c)
    BY <1>0, <2>1, TailRange DEF TypeOK
  <2>3. Range(c') \cup pop' = Range(c) \cup pop
    BY <2>1, <2>2
  <2>4. KnownIsMarked' /\ SentIsNew' /\ PushedIsOwn'
    BY <1>0, <2>1, <2>3 DEF KnownIsMarked, SentIsNew, PushedIsOwn, AddingOf
  <2> QED
    BY <1>0, <2>1, <2>2, <2>4 DEF OwnInv
<1>6. CASE PopRemoves
  <2>1. set' = set \ pop /\ pop' = {} /\ UNCHANGED <<c, push, pushed, remove, removed>>
    BY <1>6 DEF PopRemoves
  <2>2. KnownIsMarked'
    BY <1>0, <2>1 DEF KnownIsMarked, AddingOf
  <2>3. SentIsNew' /\ PushedIsOwn'
    BY <1>0, <2>1 DEF SentIsNew, PushedIsOwn
  <2> QED
    BY <1>0, <2>1, <2>2, <2>3 DEF OwnInv
<1>7. CASE RemoveLocks \/ RemoveLooks \/ RemoveReceives
  BY <1>0, <1>7, <1>locks DEF RemoveLooks, RemoveReceives
<1>8. CASE UNCHANGED vars
  <2>1. KnownIsMarked' /\ SentIsNew' /\ PushedIsOwn'
    BY <1>0, <1>8 DEF vars, KnownIsMarked, SentIsNew, PushedIsOwn, AddingOf
  <2> QED
    BY <1>0, <1>8, <2>1 DEF vars, OwnInv
<1> QED
  BY <1>1, <1>2, <1>3, <1>4, <1>5, <1>6, <1>7, <1>8 DEF Next, PushStep

(* As long as each item is pushed by one goroutine at a time and nothing   *)
(* was removed by hand, the set keeps every duplicate out of the channel,   *)
(* although it is updated after the send and after the receive (PushItem,  *)
(* PopItem).                                                               *)
THEOREM NoDuplicates == Spec => []OneCopy
<1>1. Init => OwnInv
  <2> SUFFICES ASSUME Init
               PROVE  OwnInv
    OBVIOUS
  <2>1. Range(c) = {} /\ Injective(c) /\ pop = {} /\ remove = "idle"
    BY DEF Init, Range, Injective
  <2>2. KnownIsMarked /\ SentIsNew /\ PushedIsOwn
    BY <2>1 DEF Init, KnownIsMarked, SentIsNew, PushedIsOwn
  <2> QED
    BY <2>1, <2>2 DEF OwnInv
<1>2. OwnInv => OneCopy
  BY DEF OwnInv, OneCopy, Injective
<1> QED
  BY <1>1, <1>2, TypeCorrect, OwnStep, PTL DEF Spec

=============================================================================
