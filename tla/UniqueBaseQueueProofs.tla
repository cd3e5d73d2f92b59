----------------------- MODULE UniqueBaseQueueProofs -----------------------
(***************************************************************************)
(* Theorems about UniqueBaseQueue, for any number of nodes and items and   *)
(* any capacity: type correctness, that a refused item is owed, how far    *)
(* the nodes can exceed the capacity together, and that list and set agree *)
(* between operations.                                                     *)
(***************************************************************************)
EXTENDS UniqueBaseQueue, SequenceFacts, FiniteSetTheorems, TLAPS

-----------------------------------------------------------------------------
(* Type correctness.                                                       *)

(* what begins and ends operations keeps their items in shape *)
LEMMA BeginTypes ==
  ASSUME TypeOK, NEW n \in Nodes, NEW step \in Steps, NEW S \in SUBSET Items,
         IF step \in {"free", "clearing"} THEN S = {} ELSE \E i \in Items : S = {i},
         Begin(n, step, S)
  PROVE  /\ at' \in [Nodes -> Steps] /\ arg' \in [Nodes -> SUBSET Items]
         /\ \A m \in Nodes :
              IF at'[m] \in {"free", "clearing"} THEN arg'[m] = {}
                                        ELSE \E i \in Items : arg'[m] = {i}
<1>1. \A m \in Nodes : /\ at'[m] = IF m = n THEN step ELSE at[m]
                       /\ arg'[m] = IF m = n THEN S ELSE arg[m]
  BY DEF Begin, TypeOK
<1>2. at' \in [Nodes -> Steps] /\ arg' \in [Nodes -> SUBSET Items]
  BY DEF Begin, TypeOK
<1> QED
  BY <1>1, <1>2 DEF TypeOK

\* The end of an operation, done or half done, has the right types.
LEMMA EndTypes ==
  ASSUME TypeOK, NEW n \in Nodes, End(n)
  PROVE  /\ at' \in [Nodes -> Steps] /\ arg' \in [Nodes -> SUBSET Items]
         /\ \A m \in Nodes :
              IF at'[m] \in {"free", "clearing"} THEN arg'[m] = {}
                                        ELSE \E i \in Items : arg'[m] = {i}
<1> DEFINE none == {}
<1>1. none \in SUBSET Items /\ none = {} /\ "free" \in Steps
  BY DEF Steps
<1>2. Begin(n, "free", none)
  BY DEF End
<1> HIDE DEF none
<1> QED
  BY <1>1, <1>2, BeginTypes

(* the item of an operation that has one *)
LEMMA ArgIsItem ==
  ASSUME TypeOK, NEW n \in Nodes, at[n] \notin {"free", "clearing"}
  PROVE  \E i \in Items : arg[n] = {i}
BY DEF TypeOK

\* The types hold at first.
LEMMA TypeInit == Init => TypeOK
<1> SUFFICES ASSUME Init
             PROVE  TypeOK
  OBVIOUS
<1>1. list \in Seq(Items) /\ set \subseteq Items /\ canceled \subseteq Nodes
  BY DEF Init
<1>2. at \in [Nodes -> Steps]
  BY DEF Init, Steps
<1>3. arg \in [Nodes -> SUBSET Items]
  BY DEF Init
<1>4. faulted \in BOOLEAN /\ raced \in BOOLEAN
  BY DEF Init
<1>5. \A n \in Nodes : at[n] = "free" /\ arg[n] = {}
  BY DEF Init
<1> QED
  BY <1>1, <1>2, <1>3, <1>4, <1>5 DEF TypeOK

\* Every step keeps the types.
LEMMA TypeStep == TypeOK /\ [Next]_vars => TypeOK'
<1> SUFFICES ASSUME TypeOK, [Next]_vars
             PROVE  TypeOK'
  OBVIOUS
<1>1. ASSUME NEW n \in Nodes, NEW i \in Items, PushLooks(n, i)
      PROVE  TypeOK'
  <2> DEFINE one == {i}
  <2>1. one \in SUBSET Items /\ one = {i} /\ "checked" \in Steps
    BY DEF Steps
  <2>2. Begin(n, "checked", one) /\ UNCHANGED <<list, set, canceled, faulted, raced>>
    BY <1>1 DEF PushLooks
  <2> HIDE DEF one
  <2> QED
    BY <2>1, <2>2, BeginTypes DEF TypeOK
<1>2. ASSUME NEW n \in Nodes, PushMarks(n)
      PROVE  TypeOK'
  <2>1. PICK i \in Items : arg[n] = {i}
    BY <1>2, ArgIsItem DEF PushMarks
  <2>2. /\ arg[n] \in SUBSET Items /\ "marked" \in Steps
        /\ Begin(n, "marked", arg[n]) /\ set' = set \cup arg[n]
        /\ UNCHANGED <<list, canceled, faulted, raced>>
    BY <1>2, <2>1 DEF PushMarks, Steps
  <2>3. \E j \in Items : arg[n] = {j}
    BY <2>1
  <2> QED
    BY <2>2, <2>3, BeginTypes DEF TypeOK
<1>3. ASSUME NEW n \in Nodes, PushRefused(n)
      PROVE  TypeOK'
  BY <1>3, EndTypes DEF PushRefused, TypeOK
<1>4. ASSUME NEW n \in Nodes, PushAppends(n)
      PROVE  TypeOK'
  <2>1. PICK i \in Items : arg[n] = {i}
    BY <1>4, ArgIsItem DEF PushAppends
  <2>2. list' = Append(list, i) /\ End(n) /\ UNCHANGED <<set, canceled, faulted, raced>>
    BY <1>4, <2>1 DEF PushAppends
  <2>3. list' \in Seq(Items)
    BY <2>2 DEF TypeOK
  <2> QED
    BY <2>2, <2>3, EndTypes DEF TypeOK
<1>5. ASSUME NEW n \in Nodes, PushFails(n)
      PROVE  TypeOK'
  <2>1. /\ End(n) /\ UNCHANGED <<canceled, list, raced>> /\ faulted' \in BOOLEAN
        /\ set' \subseteq Items
    BY <1>5 DEF PushFails, TypeOK
  <2> QED
    BY <2>1, EndTypes DEF TypeOK
<1>6. ASSUME NEW n \in Nodes, PopTakes(n)
      PROVE  TypeOK'
  <2> DEFINE one == {Head(list)}
  <2>1. /\ one \in SUBSET Items /\ \E i \in Items : one = {i}
        /\ "popped" \in Steps /\ Tail(list) \in Seq(Items)
    BY <1>6, HeadAndTailRange DEF PopTakes, TypeOK, Steps
  <2>2. /\ Begin(n, "popped", one) /\ list' = Tail(list)
        /\ UNCHANGED <<set, canceled, faulted, raced>>
    BY <1>6 DEF PopTakes
  <2> HIDE DEF one
  <2> QED
    BY <2>1, <2>2, BeginTypes DEF TypeOK
<1>7. ASSUME NEW n \in Nodes, PopUnmarks(n)
      PROVE  TypeOK'
  BY <1>7, EndTypes DEF PopUnmarks, TypeOK
<1>8. ASSUME NEW n \in Nodes, PopFails(n)
      PROVE  TypeOK'
  <2>1. End(n) /\ UNCHANGED <<set, canceled, raced>> /\ faulted' \in BOOLEAN
    BY <1>8 DEF PopFails
  <2>2. list' = list \/ (list # <<>> /\ list' = Tail(list))
    BY <1>8 DEF PopFails
  <2>3. list' \in Seq(Items)
    BY <2>2, HeadAndTailRange DEF TypeOK
  <2> QED
    BY <2>1, <2>3, EndTypes DEF TypeOK
<1>9. ASSUME NEW n \in Nodes, RemoveList(n)
      PROVE  TypeOK'
  <2> DEFINE none == {}
  <2>1. none \in SUBSET Items /\ none = {} /\ "clearing" \in Steps
    BY DEF Steps
  <2>2. Begin(n, "clearing", none) /\ UNCHANGED <<set, canceled, faulted, raced>>
    BY <1>9 DEF RemoveList
  <2>3. list' = <<>> \/ list' = list
    BY <1>9 DEF RemoveList
  <2>4. list' \in Seq(Items)
    BY <2>3, <<>> \in Seq(Items) DEF TypeOK
  <2> HIDE DEF none
  <2> QED
    BY <2>1, <2>2, <2>4, BeginTypes DEF TypeOK
<1>10. ASSUME NEW n \in Nodes, RemoveSet(n)
       PROVE  TypeOK'
  <2>1. /\ End(n) /\ UNCHANGED <<list, canceled>> /\ faulted' \in BOOLEAN /\ raced' \in BOOLEAN
        /\ set' \subseteq Items
    BY <1>10 DEF RemoveSet, TypeOK
  <2> QED
    BY <2>1, EndTypes DEF TypeOK
<1>11. ASSUME NEW n \in Nodes, Cancel(n)
       PROVE  TypeOK'
  BY <1>11 DEF Cancel, TypeOK
<1>12. ASSUME NEW n \in Nodes, Restart(n)
       PROVE  TypeOK'
  <2>1. /\ End(n) /\ UNCHANGED <<list, set, raced>> /\ faulted' \in BOOLEAN
        /\ canceled' \subseteq Nodes
    BY <1>12 DEF Restart, TypeOK
  <2> QED
    BY <2>1, EndTypes DEF TypeOK
<1>13. CASE UNCHANGED vars
  BY <1>13 DEF vars, TypeOK
<1> QED
  BY <1>1, <1>2, <1>3, <1>4, <1>5, <1>6, <1>7, <1>8, <1>9, <1>10, <1>11,
     <1>12, <1>13 DEF Next, PushStep, PopStep, RemoveStep

(* The list, the set and the operations in progress have the shape that    *)
(* PushItem, PopItem and RemoveAll give them: one item per operation that  *)
(* has one.                                                                *)
THEOREM TypeCorrect == Spec => []TypeOK
  BY TypeInit, TypeStep, PTL DEF Spec

-----------------------------------------------------------------------------
(* A refused item is owed.                                                 *)

(* one node at a time changes what it has in its hands *)
LEMMA OneNodeMoves ==
  ASSUME TypeOK, NEW n \in Nodes, NEW step, NEW S, Begin(n, step, S)
  PROVE  /\ at'[n] = step /\ arg'[n] = S
         /\ \A m \in Nodes \ {n} : at'[m] = at[m] /\ arg'[m] = arg[m]
BY DEF Begin, TypeOK

(* items that the other nodes have in their hands stay there *)
OthersHold(n) ==
  UNION {arg[m] : m \in {k \in Nodes \ {n} : at[k] \in {"marked", "popped"}}}

\* The items in the hands of the nodes are those of one node and those of the others.
LEMMA InFlightSplits ==
  ASSUME TypeOK, NEW n \in Nodes, NEW step, NEW S, Begin(n, step, S)
  PROVE  /\ InFlight = OthersHold(n) \cup
                (IF at[n] \in {"marked", "popped"} THEN arg[n] ELSE {})
         /\ InFlight' = OthersHold(n) \cup
                (IF step \in {"marked", "popped"} THEN S ELSE {})
<1>1. /\ at'[n] = step /\ arg'[n] = S
      /\ \A m \in Nodes \ {n} : at'[m] = at[m] /\ arg'[m] = arg[m]
  BY OneNodeMoves
<1>2. /\ InFlight = UNION {arg[m] : m \in {k \in Nodes : at[k] \in {"marked", "popped"}}}
      /\ InFlight' = UNION {arg'[m] : m \in {k \in Nodes : at'[k] \in {"marked", "popped"}}}
  BY DEF InFlight, Doing
<1>3. InFlight = OthersHold(n) \cup
                (IF at[n] \in {"marked", "popped"} THEN arg[n] ELSE {})
  BY <1>2 DEF OthersHold
<1>4. InFlight' = OthersHold(n) \cup
                (IF step \in {"marked", "popped"} THEN S ELSE {})
  BY <1>1, <1>2 DEF OthersHold
<1> QED
  BY <1>3, <1>4

(* a clearing that goes on *)
LEMMA ClearingGoesOn ==
  ASSUME TypeOK, NEW n \in Nodes, NEW step, NEW S, Begin(n, step, S),
         Doing("clearing") # {}, at[n] # "clearing"
  PROVE  Doing("clearing")' # {}
<1>1. PICK m \in Nodes : at[m] = "clearing"
  BY DEF Doing
<1>2. at'[m] = "clearing"
  BY <1>1, OneNodeMoves
<1> QED
  BY <1>2 DEF Doing

\* Every step keeps each marked item in the list, in a hand, or written off.
LEMMA OwedStep == TypeOK /\ MarkedIsOwed /\ [Next]_vars => MarkedIsOwed'
<1> SUFFICES ASSUME TypeOK, MarkedIsOwed, [Next]_vars
             PROVE  MarkedIsOwed'
  OBVIOUS
<1>1. ASSUME NEW n \in Nodes, NEW i \in Items, PushLooks(n, i)
      PROVE  MarkedIsOwed'
  <2> DEFINE one == {i}
  <2>1. /\ Begin(n, "checked", one) /\ at[n] = "free"
        /\ UNCHANGED <<list, set, faulted>>
    BY <1>1 DEF PushLooks
  <2> HIDE DEF one
  <2>2. InFlight' = InFlight
    BY <2>1, InFlightSplits
  <2>3. Doing("clearing") # {} => Doing("clearing")' # {}
    BY <2>1, ClearingGoesOn
  <2> QED
    BY <2>1, <2>2, <2>3 DEF MarkedIsOwed, Owed
<1>2. ASSUME NEW n \in Nodes, PushMarks(n)
      PROVE  MarkedIsOwed'
  <2>1. /\ Begin(n, "marked", arg[n]) /\ at[n] = "checked"
        /\ set' = set \cup arg[n] /\ UNCHANGED <<list, faulted>>
    BY <1>2 DEF PushMarks
  <2>2. InFlight' = InFlight \cup arg[n]
    BY <2>1, InFlightSplits
  <2>3. Doing("clearing") # {} => Doing("clearing")' # {}
    BY <2>1, ClearingGoesOn
  <2> QED
    BY <2>1, <2>2, <2>3 DEF MarkedIsOwed, Owed
<1>3. ASSUME NEW n \in Nodes, PushRefused(n)
      PROVE  MarkedIsOwed'
  <2> DEFINE none == {}
  <2>1. /\ Begin(n, "free", none) /\ at[n] = "checked"
        /\ UNCHANGED <<list, set, faulted>>
    BY <1>3 DEF PushRefused, End
  <2> HIDE DEF none
  <2>2. InFlight' = InFlight
    BY <2>1, InFlightSplits
  <2>3. Doing("clearing") # {} => Doing("clearing")' # {}
    BY <2>1, ClearingGoesOn
  <2> QED
    BY <2>1, <2>2, <2>3 DEF MarkedIsOwed, Owed
<1>4. ASSUME NEW n \in Nodes, PushAppends(n)
      PROVE  MarkedIsOwed'
  <2> DEFINE none == {}
  <2>1. PICK i \in Items : arg[n] = {i}
    BY <1>4, ArgIsItem DEF PushAppends
  <2>2. /\ Begin(n, "free", none) /\ at[n] = "marked"
        /\ list' = Append(list, i) /\ UNCHANGED <<set, faulted>>
    BY <1>4, <2>1 DEF PushAppends, End
  <2>3. Range(list') = Range(list) \cup arg[n]
    BY <2>1, <2>2, AppendRange DEF TypeOK
  <2> HIDE DEF none
  <2>4. InFlight \subseteq InFlight' \cup arg[n]
    BY <2>2, InFlightSplits
  <2>5. Doing("clearing") # {} => Doing("clearing")' # {}
    BY <2>2, ClearingGoesOn
  <2> QED
    BY <2>2, <2>3, <2>4, <2>5 DEF MarkedIsOwed, Owed
<1>5. ASSUME NEW n \in Nodes, PushFails(n)
      PROVE  MarkedIsOwed'
  <2>1. CASE faulted' = TRUE
    BY <2>1 DEF MarkedIsOwed
  <2>2. CASE at[n] = "checked" /\ UNCHANGED <<list, set, faulted>>
    <3> DEFINE none == {}
    <3>1. Begin(n, "free", none)
      BY <1>5 DEF PushFails, End
    <3> HIDE DEF none
    <3>2. InFlight' = InFlight
      BY <2>2, <3>1, InFlightSplits
    <3>3. Doing("clearing") # {} => Doing("clearing")' # {}
      BY <2>2, <3>1, ClearingGoesOn
    <3> QED
      BY <2>2, <3>2, <3>3 DEF MarkedIsOwed, Owed
  <2> QED
    BY <1>5, <2>1, <2>2 DEF PushFails
<1>6. ASSUME NEW n \in Nodes, PopTakes(n)
      PROVE  MarkedIsOwed'
  <2> DEFINE one == {Head(list)}
  <2>1. /\ Begin(n, "popped", one) /\ at[n] = "free" /\ list # <<>>
        /\ list' = Tail(list) /\ UNCHANGED <<set, faulted>>
    BY <1>6 DEF PopTakes
  <2>2. Range(list) = one \cup Range(list')
    BY <2>1, HeadAndTailRange DEF TypeOK
  <2> HIDE DEF one
  <2>3. InFlight' = InFlight \cup one
    BY <2>1, InFlightSplits
  <2>4. Doing("clearing") # {} => Doing("clearing")' # {}
    BY <2>1, ClearingGoesOn
  <2> QED
    BY <2>1, <2>2, <2>3, <2>4 DEF MarkedIsOwed, Owed
<1>7. ASSUME NEW n \in Nodes, PopUnmarks(n)
      PROVE  MarkedIsOwed'
  <2> DEFINE none == {}
  <2>1. /\ Begin(n, "free", none) /\ at[n] = "popped"
        /\ set' = set \ arg[n] /\ UNCHANGED <<list, faulted>>
    BY <1>7 DEF PopUnmarks, End
  <2> HIDE DEF none
  <2>2. InFlight \subseteq InFlight' \cup arg[n]
    BY <2>1, InFlightSplits
  <2>3. Doing("clearing") # {} => Doing("clearing")' # {}
    BY <2>1, ClearingGoesOn
  <2> QED
    BY <2>1, <2>2, <2>3 DEF MarkedIsOwed, Owed
<1>8. ASSUME NEW n \in Nodes, PopFails(n)
      PROVE  MarkedIsOwed'
  BY <1>8 DEF PopFails, MarkedIsOwed
<1>9. ASSUME NEW n \in Nodes, RemoveList(n)
      PROVE  MarkedIsOwed'
  <2>1. at'[n] = "clearing"
    BY <1>9 DEF RemoveList, Begin, TypeOK
  <2> QED
    BY <2>1 DEF MarkedIsOwed, Doing
<1>10. ASSUME NEW n \in Nodes, RemoveSet(n)
       PROVE  MarkedIsOwed'
  BY <1>10 DEF RemoveSet, MarkedIsOwed
<1>11. ASSUME NEW n \in Nodes, Cancel(n)
       PROVE  MarkedIsOwed'
  BY <1>11 DEF Cancel, MarkedIsOwed, Owed, InFlight, Doing
<1>12. ASSUME NEW n \in Nodes, Restart(n)
       PROVE  MarkedIsOwed'
  <2>1. CASE at[n] \in {"marked", "popped", "clearing"}
    BY <1>12, <2>1 DEF Restart, MarkedIsOwed
  <2>2. CASE at[n] \notin {"marked", "popped", "clearing"}
    <3> DEFINE none == {}
    <3>1. Begin(n, "free", none) /\ UNCHANGED <<list, set>> /\ faulted' = faulted
      BY <1>12, <2>2 DEF Restart, End, TypeOK
    <3> HIDE DEF none
    <3>2. InFlight' = InFlight
      BY <2>2, <3>1, InFlightSplits
    <3>3. Doing("clearing") # {} => Doing("clearing")' # {}
      BY <2>2, <3>1, ClearingGoesOn
    <3> QED
      BY <3>1, <3>2, <3>3 DEF MarkedIsOwed, Owed
  <2> QED
    BY <2>1, <2>2
<1>13. CASE UNCHANGED vars
  BY <1>13 DEF vars, MarkedIsOwed, Owed, InFlight, Doing
<1> QED
  BY <1>1, <1>2, <1>3, <1>4, <1>5, <1>6, <1>7, <1>8, <1>9, <1>10, <1>11,
     <1>12, <1>13 DEF Next, PushStep, PopStep, RemoveStep

(* However the pushes, pops and removals of any number of nodes come       *)
(* between each other's commands, an item that a push would refuse is in   *)
(* the list or in the hands of an operation (PushItem, PopItem, RemoveAll),*)
(* as long as no operation was left half done since the last RemoveAll.    *)
THEOREM RefusedIsOwed == Spec => []MarkedIsOwed
<1>1. Init => MarkedIsOwed
  BY DEF Init, MarkedIsOwed
<1> QED
  BY <1>1, TypeCorrect, OwedStep, PTL DEF Spec

-----------------------------------------------------------------------------
(* The capacity.                                                           *)

\* Only finitely many nodes are between the commands of a push.
LEMMA PushingIsFinite ==
  /\ IsFiniteSet(Pushing) /\ Cardinality(Pushing) \in Nat
  /\ Cardinality(Nodes) \in Nat /\ Cardinality(Pushing) <= Cardinality(Nodes)
<1>1. Pushing \subseteq Nodes
  BY DEF Pushing, Doing
<1> QED
  BY <1>1, ConstantsAssumption, FS_Subset, FS_CardinalityType

\* A push that begins adds its node to those that are pushing.
LEMMA PushBegins ==
  ASSUME TypeOK, NEW n \in Nodes, NEW step \in {"checked", "marked"}, NEW S,
         Begin(n, step, S)
  PROVE  Pushing' = Pushing \cup {n}
<1>1. at'[n] = step /\ \A m \in Nodes \ {n} : at'[m] = at[m]
  BY OneNodeMoves
<1> QED
  BY <1>1 DEF Pushing, Doing

\* A node that goes on to anything else is not pushing.
LEMMA NoPushBegins ==
  ASSUME TypeOK, NEW n \in Nodes, NEW step, step \notin {"checked", "marked"},
         NEW S, Begin(n, step, S)
  PROVE  Pushing' = Pushing \ {n}
<1>1. at'[n] = step /\ \A m \in Nodes \ {n} : at'[m] = at[m]
  BY OneNodeMoves
<1> QED
  BY <1>1 DEF Pushing, Doing

(* an operation that is not a push neither grows the list nor the pushes *)
LEMMA OthersKeepRoom ==
  ASSUME TypeOK, TypeOK', OverfillBounded, NEW n \in Nodes,
         NEW step, step \notin {"checked", "marked"}, NEW S, Begin(n, step, S),
         Len(list') <= Len(list)
  PROVE  OverfillBounded'
<1>1. Pushing' = Pushing \ {n}
  BY NoPushBegins
<1>2. Cardinality(Pushing') \in Nat /\ Cardinality(Pushing') <= Cardinality(Pushing)
  <2>1. Pushing' \subseteq Pushing /\ IsFiniteSet(Pushing)
    BY <1>1, PushingIsFinite
  <2> QED
    BY <2>1, FS_Subset, FS_CardinalityType
<1>3. Len(list) \in Nat /\ Len(list') \in Nat
  BY DEF TypeOK
<1> QED
  BY <1>2, <1>3, PushingIsFinite, ConstantsAssumption DEF OverfillBounded

\* Every step keeps the list within the capacity and the pushes under way.
LEMMA CapacityStep ==
  TypeOK /\ TypeOK' /\ OverfillBounded /\ [Next]_vars => OverfillBounded'
<1> SUFFICES ASSUME TypeOK, TypeOK', OverfillBounded, [Next]_vars
             PROVE  OverfillBounded'
  OBVIOUS
<1>0. Len(list) \in Nat /\ Len(list') \in Nat /\ Length \in Nat
  BY ConstantsAssumption DEF TypeOK
<1>1. ASSUME NEW n \in Nodes, NEW i \in Items, PushLooks(n, i)
      PROVE  OverfillBounded'
  <2>1. Cardinality(Pushing)' <= Cardinality(Nodes) /\ Cardinality(Pushing)' \in Nat
    <3>1. Pushing' \subseteq Nodes
      BY DEF Pushing, Doing
    <3> QED
      BY <3>1, ConstantsAssumption, FS_Subset, FS_CardinalityType
  <2>2. Len(list') = Len(list) /\ Len(list) < Length
    BY <1>1 DEF PushLooks
  <2> QED
    BY <1>0, <2>1, <2>2, PushingIsFinite DEF OverfillBounded
<1>2. ASSUME NEW n \in Nodes, PushMarks(n)
      PROVE  OverfillBounded'
  <2>1. Begin(n, "marked", arg[n]) /\ at[n] = "checked" /\ list' = list
    BY <1>2 DEF PushMarks
  <2>2. Pushing' = Pushing
    BY <2>1, PushBegins DEF Pushing, Doing
  <2> QED
    BY <2>1, <2>2 DEF OverfillBounded
<1>3. ASSUME NEW n \in Nodes, PushAppends(n)
      PROVE  OverfillBounded'
  <2> DEFINE none == {}
  <2>1. Begin(n, "free", none) /\ at[n] = "marked"
    BY <1>3 DEF PushAppends, End
  <2> HIDE DEF none
  <2>2. Pushing' = Pushing \ {n} /\ n \in Pushing
    BY <2>1, NoPushBegins DEF Pushing, Doing
  <2>3. Cardinality(Pushing') = Cardinality(Pushing) - 1
    BY <2>2, PushingIsFinite, FS_RemoveElement
  <2>4. PICK i \in Items : arg[n] = {i}
    BY <1>3, ArgIsItem DEF PushAppends
  <2>5. Len(list') = Len(list) + 1
    BY <1>3, <2>4, AppendRange DEF PushAppends, TypeOK
  <2> QED
    BY <1>0, <2>3, <2>5, PushingIsFinite DEF OverfillBounded
<1>4. ASSUME NEW n \in Nodes, Len(list') <= Len(list),
             End(n) \/ Begin(n, "popped", {Head(list)}) \/ Begin(n, "clearing", {})
      PROVE  OverfillBounded'
  <2> DEFINE one == {Head(list)}
             none == {}
  <2>1. Begin(n, "free", none) \/ Begin(n, "popped", one) \/ Begin(n, "clearing", none)
    BY <1>4 DEF End
  <2> HIDE DEF one, none
  <2> QED
    BY <1>4, <2>1, OthersKeepRoom
<1>5. ASSUME NEW n \in Nodes, PushRefused(n) \/ PushFails(n) \/ PopUnmarks(n)
                              \/ RemoveSet(n) \/ Restart(n)
      PROVE  OverfillBounded'
  <2>1. End(n) /\ list' = list
    BY <1>5 DEF PushRefused, PushFails, PopUnmarks, RemoveSet, Restart
  <2> QED
    BY <1>0, <1>4, <2>1
<1>6. ASSUME NEW n \in Nodes, PopTakes(n) \/ PopFails(n)
      PROVE  OverfillBounded'
  <2>1. End(n) \/ Begin(n, "popped", {Head(list)})
    BY <1>6 DEF PopTakes, PopFails
  <2>2. list' = list \/ (list # <<>> /\ list' = Tail(list))
    BY <1>6 DEF PopTakes, PopFails
  <2>3. Len(list') <= Len(list)
    BY <1>0, <2>2, HeadAndTailRange DEF TypeOK
  <2> QED
    BY <1>4, <2>1, <2>3
<1>7. ASSUME NEW n \in Nodes, RemoveList(n)
      PROVE  OverfillBounded'
  <2>1. Begin(n, "clearing", {}) /\ (list' = <<>> \/ list' = list)
    BY <1>7 DEF RemoveList
  <2>2. Len(list') <= Len(list)
    BY <1>0, <2>1
  <2> QED
    BY <1>4, <2>1, <2>2
<1>8. CASE UNCHANGED vars
  BY <1>8 DEF vars, OverfillBounded, Pushing, Doing
<1>9. ASSUME NEW n \in Nodes, Cancel(n)
      PROVE  OverfillBounded'
  BY <1>9 DEF Cancel, OverfillBounded, Pushing, Doing
<1> QED
  BY <1>1, <1>2, <1>3, <1>5, <1>6, <1>7, <1>8, <1>9
     DEF Next, PushStep, PopStep, RemoveStep

(* Each of N nodes checks the room under a mutex of its own (PushItem):    *)
(* together they put at most N - 1 items too many into the list.           *)
THEOREM CapacityHolds == Spec => []OverfillBounded
<1>1. Init => OverfillBounded
  <2> SUFFICES ASSUME Init
               PROVE  OverfillBounded
    OBVIOUS
  <2>1. Pushing = {} /\ Len(list) = 0
    BY DEF Init, Pushing, Doing
  <2>2. Cardinality(Pushing) = 0
    BY <2>1, FS_EmptySet
  <2>3. Cardinality(Nodes) \in Nat \ {0}
    BY ConstantsAssumption, FS_CardinalityType, FS_EmptySet
  <2> QED
    BY <2>1, <2>2, <2>3, ConstantsAssumption DEF OverfillBounded
<1> QED
  BY <1>1, TypeCorrect, CapacityStep, PTL DEF Spec

-----------------------------------------------------------------------------
(* List and set agree.                                                     *)

(* what node n has in its hands *)
InHand(n) == IF at[n] \in {"marked", "popped"} THEN arg[n] ELSE {}

(* every item of the set is in one place *)
Agree ==
  /\ Injective(list) /\ set = Range(list) \cup InFlight
  /\ \A n \in Nodes : InHand(n) \cap (Range(list) \cup OthersHold(n)) = {}

AgreeInv == faulted \/ raced \/ Doing("clearing") # {} \/ Agree

\* A node that moves on changes nothing but its own hands.
LEMMA HandMoves ==
  ASSUME TypeOK, NEW n \in Nodes, NEW step, NEW S, Begin(n, step, S)
  PROVE  /\ InHand(n)' = IF step \in {"marked", "popped"} THEN S ELSE {}
         /\ OthersHold(n)' = OthersHold(n)
         /\ InFlight = OthersHold(n) \cup InHand(n)
         /\ InFlight' = OthersHold(n) \cup InHand(n)'
         /\ \A m \in Nodes \ {n} :
              /\ InHand(m)' = InHand(m) /\ InHand(m) \subseteq OthersHold(n)
              /\ OthersHold(m)' \subseteq OthersHold(m) \cup InHand(n)'
<1>1. /\ at'[n] = step /\ arg'[n] = S
      /\ \A m \in Nodes \ {n} : at'[m] = at[m] /\ arg'[m] = arg[m]
  BY OneNodeMoves
<1>2. InHand(n)' = IF step \in {"marked", "popped"} THEN S ELSE {}
  BY <1>1 DEF InHand
<1>3. OthersHold(n)' = OthersHold(n)
  BY <1>1 DEF OthersHold
<1>4. /\ InFlight = OthersHold(n) \cup InHand(n)
      /\ InFlight' = OthersHold(n) \cup InHand(n)'
  BY <1>2, InFlightSplits DEF InHand
<1>5. ASSUME NEW m \in Nodes \ {n}
      PROVE  /\ InHand(m)' = InHand(m) /\ InHand(m) \subseteq OthersHold(n)
             /\ OthersHold(m)' \subseteq OthersHold(m) \cup InHand(n)'
  <2>1. InHand(m)' = InHand(m) /\ InHand(m) \subseteq OthersHold(n)
    BY <1>1 DEF InHand, OthersHold
  <2>2. ASSUME NEW i \in OthersHold(m)', i \notin InHand(n)'
        PROVE  i \in OthersHold(m)
    <3>1. PICK k \in Nodes \ {m} : at'[k] \in {"marked", "popped"} /\ i \in arg'[k]
      BY <2>2 DEF OthersHold
    <3>2. k # n
      BY <2>2, <3>1 DEF InHand
    <3> QED
      BY <1>1, <3>1, <3>2 DEF OthersHold
  <2> QED
    BY <2>1, <2>2
<1> QED
  BY <1>2, <1>3, <1>4, <1>5

(* an operation of node n that leaves the others' items alone *)
LEMMA AgreeKept ==
  ASSUME TypeOK, Agree, NEW n \in Nodes, NEW step, NEW S, Begin(n, step, S),
         Injective(list'), set' = Range(list') \cup OthersHold(n) \cup InHand(n)',
         Range(list') \cap OthersHold(n) = {},
         InHand(n)' \cap (Range(list') \cup OthersHold(n)) = {}
  PROVE  Agree'
<1>1. InFlight' = OthersHold(n) \cup InHand(n)' /\ OthersHold(n)' = OthersHold(n)
  BY HandMoves
<1>2. ASSUME NEW m \in Nodes
      PROVE  InHand(m)' \cap (Range(list') \cup OthersHold(m)') = {}
  <2>1. CASE m = n
    BY <1>1, <2>1
  <2>2. CASE m # n
    <3>1. /\ InHand(m)' = InHand(m) /\ InHand(m) \subseteq OthersHold(n)
          /\ OthersHold(m)' \subseteq OthersHold(m) \cup InHand(n)'
      BY <2>2, HandMoves
    <3>2. InHand(m) \cap OthersHold(m) = {}
      BY DEF Agree
    <3> QED
      BY <3>1, <3>2
  <2> QED
    BY <2>1, <2>2
<1>3. set' = Range(list') \cup InFlight'
  BY <1>1
<1> QED
  BY <1>2, <1>3 DEF Agree

\* The list and the hands of the other nodes stay apart.
LEMMA ListAndOthers ==
  ASSUME Agree, NEW n \in Nodes
  PROVE  Range(list) \cap OthersHold(n) = {}
<1> SUFFICES ASSUME NEW i \in Range(list), i \in OthersHold(n)
             PROVE  FALSE
  OBVIOUS
<1>1. PICK m \in Nodes : at[m] \in {"marked", "popped"} /\ i \in arg[m]
  BY DEF OthersHold
<1> QED
  BY <1>1 DEF Agree, InHand

(* an operation that changes neither queue nor what is in hands *)
LEMMA AgreeStays ==
  ASSUME TypeOK, Agree, NEW n \in Nodes, NEW step, NEW S, Begin(n, step, S),
         InHand(n) = {}, InHand(n)' = {}, UNCHANGED <<list, set>>
  PROVE  Agree'
<1>1. set = Range(list) \cup OthersHold(n) /\ Injective(list)
  BY HandMoves DEF Agree
<1>2. Range(list) \cap OthersHold(n) = {}
  BY ListAndOthers
<1> QED
  BY <1>1, <1>2, AgreeKept

\* Every step keeps the set and the list in agreement after each command.
LEMMA AgreeStep == TypeOK /\ AgreeInv /\ [Next]_vars => AgreeInv'
<1> SUFFICES ASSUME TypeOK, AgreeInv, [Next]_vars
             PROVE  AgreeInv'
  OBVIOUS
(* a step that neither clears nor settles what is already out of step *)
<1>out. ASSUME NEW n \in Nodes, NEW step, NEW S, Begin(n, step, S),
               at[n] # "clearing", UNCHANGED <<faulted, raced>>, ~Agree
        PROVE  AgreeInv'
  <2>1. CASE Doing("clearing") # {}
    BY <1>out, <2>1, ClearingGoesOn DEF AgreeInv
  <2>2. CASE faulted \/ raced
    BY <1>out, <2>2 DEF AgreeInv
  <2> QED
    BY <1>out, <2>1, <2>2 DEF AgreeInv
<1>1. ASSUME NEW n \in Nodes, NEW i \in Items, PushLooks(n, i)
      PROVE  AgreeInv'
  <2> DEFINE one == {i}
  <2>1. /\ Begin(n, "checked", one) /\ at[n] = "free"
        /\ UNCHANGED <<list, set, faulted, raced>>
    BY <1>1 DEF PushLooks
  <2> HIDE DEF one
  <2>2. InHand(n) = {} /\ InHand(n)' = {}
    BY <2>1, HandMoves DEF InHand
  <2> QED
    BY <1>out, <2>1, <2>2, AgreeStays DEF AgreeInv
<1>2. ASSUME NEW n \in Nodes, PushMarks(n)
      PROVE  AgreeInv'
  <2>1. /\ Begin(n, "marked", arg[n]) /\ at[n] = "checked"
        /\ arg[n] \cap set = {} /\ set' = set \cup arg[n]
        /\ UNCHANGED <<list, faulted, raced>>
    BY <1>2 DEF PushMarks
  <2>2. CASE Agree
    <3>1. InHand(n) = {} /\ InHand(n)' = arg[n]
      BY <2>1, HandMoves DEF InHand
    <3>2. set = Range(list) \cup OthersHold(n) /\ Injective(list)
      BY <2>1, <2>2, <3>1, HandMoves DEF Agree
    <3> QED
      BY <2>1, <2>2, <3>1, <3>2, ListAndOthers, AgreeKept DEF AgreeInv
  <2> QED
    BY <1>out, <2>1, <2>2
<1>3. ASSUME NEW n \in Nodes, at[n] = "checked", End(n),
             UNCHANGED <<list, set, faulted, raced>>
      PROVE  AgreeInv'
  <2> DEFINE none == {}
  <2>1. Begin(n, "free", none)
    BY <1>3 DEF End
  <2>2. InHand(n) = {} /\ InHand(n)' = {}
    BY <1>3, <2>1, HandMoves DEF InHand
  <2> HIDE DEF none
  <2> QED
    BY <1>out, <1>3, <2>1, <2>2, AgreeStays DEF AgreeInv
<1>4. ASSUME NEW n \in Nodes, PushAppends(n)
      PROVE  AgreeInv'
  <2> DEFINE none == {}
  <2>1. PICK i \in Items : arg[n] = {i}
    BY <1>4, ArgIsItem DEF PushAppends
  <2>2. /\ Begin(n, "free", none) /\ at[n] = "marked" /\ list' = Append(list, i)
        /\ UNCHANGED <<set, faulted, raced>>
    BY <1>4, <2>1 DEF PushAppends, End
  <2>3. CASE Agree
    <3>1. InHand(n) = {i} /\ InHand(n)' = {}
      BY <2>1, <2>2, HandMoves DEF InHand
    <3>2. /\ i \notin Range(list) /\ i \notin OthersHold(n)
          /\ set = Range(list) \cup OthersHold(n) \cup {i} /\ Injective(list)
      BY <2>2, <2>3, <3>1, HandMoves DEF Agree
    <3>3. Range(list') = Range(list) \cup {i} /\ Injective(list')
      BY <2>2, <3>2, AppendRange, AppendInjective DEF TypeOK
    <3> HIDE DEF none
    <3> QED
      BY <2>2, <2>3, <3>1, <3>2, <3>3, ListAndOthers, AgreeKept DEF AgreeInv
  <2> HIDE DEF none
  <2> QED
    BY <1>out, <2>2, <2>3
<1>5. ASSUME NEW n \in Nodes, PopTakes(n)
      PROVE  AgreeInv'
  <2> DEFINE one == {Head(list)}
  <2>1. /\ Begin(n, "popped", one) /\ at[n] = "free" /\ list # <<>>
        /\ list' = Tail(list) /\ UNCHANGED <<set, faulted, raced>>
    BY <1>5 DEF PopTakes
  <2>2. CASE Agree
    <3>1. /\ Range(list') = Range(list) \ one /\ one \subseteq Range(list)
          /\ Injective(list')
      BY <2>1, <2>2, TailRange DEF TypeOK, Agree
    <3> HIDE DEF one
    <3>2. InHand(n) = {} /\ InHand(n)' = one
      BY <2>1, HandMoves DEF InHand
    <3>3. set = Range(list) \cup OthersHold(n)
      BY <2>1, <2>2, <3>2, HandMoves DEF Agree
    <3> QED
      BY <2>1, <2>2, <3>1, <3>2, <3>3, ListAndOthers, AgreeKept DEF AgreeInv
  <2> HIDE DEF one
  <2> QED
    BY <1>out, <2>1, <2>2
<1>6. ASSUME NEW n \in Nodes, PopUnmarks(n)
      PROVE  AgreeInv'
  <2> DEFINE none == {}
  <2>1. /\ Begin(n, "free", none) /\ at[n] = "popped" /\ set' = set \ arg[n]
        /\ UNCHANGED <<list, faulted, raced>>
    BY <1>6 DEF PopUnmarks, End
  <2>2. CASE Agree
    <3>1. InHand(n) = arg[n] /\ InHand(n)' = {}
      BY <2>1, HandMoves DEF InHand
    <3>2. /\ arg[n] \cap (Range(list) \cup OthersHold(n)) = {}
          /\ set = Range(list) \cup OthersHold(n) \cup arg[n] /\ Injective(list)
      BY <2>1, <2>2, <3>1, HandMoves DEF Agree
    <3> HIDE DEF none
    <3> QED
      BY <2>1, <2>2, <3>1, <3>2, ListAndOthers, AgreeKept DEF AgreeInv
  <2> HIDE DEF none
  <2> QED
    BY <1>out, <2>1, <2>2
<1>7. ASSUME NEW n \in Nodes, PushRefused(n) \/ PushFails(n) \/ PopFails(n)
      PROVE  AgreeInv'
  <2>1. faulted' \/ (at[n] = "checked" /\ End(n)
                       /\ UNCHANGED <<list, set, faulted, raced>>)
    BY <1>7 DEF PushRefused, PushFails, PopFails
  <2> QED
    BY <1>3, <2>1 DEF AgreeInv
<1>8. ASSUME NEW n \in Nodes, RemoveList(n)
      PROVE  AgreeInv'
  <2>1. at'[n] = "clearing"
    BY <1>8 DEF RemoveList, Begin, TypeOK
  <2> QED
    BY <2>1 DEF AgreeInv, Doing
<1>9. ASSUME NEW n \in Nodes, RemoveSet(n)
      PROVE  AgreeInv'
  <2> DEFINE none == {}
  <2>1. /\ Begin(n, "free", none) /\ at[n] = "clearing" /\ list' = list
        /\ \/ set' = {} /\ raced' = (list # <<>> \/ InFlight # {})
           \/ faulted' = TRUE
    BY <1>9 DEF RemoveSet, End
  <2>2. CASE faulted' = TRUE \/ raced'
    BY <2>2 DEF AgreeInv
  <2>3. CASE set' = {} /\ list = <<>> /\ InFlight = {}
    <3>1. InHand(n) = {} /\ InHand(n)' = {} /\ OthersHold(n) = {}
      BY <2>1, <2>3, HandMoves DEF InHand
    <3>2. Injective(list) /\ Range(list) = {}
      BY <2>3 DEF Injective, Range
    <3>3. InFlight' = {}
      <4> HIDE DEF none
      <4> QED
        BY <2>1, <3>1, HandMoves
    <3>4. \A m \in Nodes : InHand(m)' = {}
      BY <3>3 DEF InFlight, Doing, InHand
    <3> QED
      BY <2>1, <2>3, <3>2, <3>3, <3>4 DEF Agree, AgreeInv
  <2> QED
    BY <2>1, <2>2, <2>3
<1>10. ASSUME NEW n \in Nodes, Cancel(n)
       PROVE  AgreeInv'
  BY <1>10 DEF Cancel, AgreeInv, Agree, InFlight, InHand, OthersHold, Doing
<1>11. ASSUME NEW n \in Nodes, Restart(n)
       PROVE  AgreeInv'
  <2>1. CASE at[n] \in {"marked", "popped", "clearing"}
    BY <1>11, <2>1 DEF Restart, AgreeInv
  <2>2. CASE at[n] \notin {"marked", "popped", "clearing"}
    <3> DEFINE none == {}
    <3>1. /\ Begin(n, "free", none) /\ UNCHANGED <<list, set, raced>>
          /\ faulted' = faulted
      BY <1>11, <2>2 DEF Restart, End, TypeOK
    <3>2. InHand(n) = {} /\ InHand(n)' = {}
      BY <2>2, <3>1, HandMoves DEF InHand
    <3> HIDE DEF none
    <3> QED
      BY <1>out, <2>2, <3>1, <3>2, AgreeStays DEF AgreeInv
  <2> QED
    BY <2>1, <2>2
<1>12. CASE UNCHANGED vars
  BY <1>12 DEF vars, AgreeInv, Agree, InFlight, InHand, OthersHold, Doing
<1> QED
  BY <1>1, <1>2, <1>4, <1>5, <1>6, <1>7, <1>8, <1>9, <1>10, <1>11, <1>12
     DEF Next, PushStep, PopStep, RemoveStep

(* However many nodes push, pop and remove, set and list agree between     *)
(* operations and the list has no duplicates, unless an operation was left *)
(* half done, or RemoveAll cleared the set among operations of other       *)
(* nodes, since the set was last cleared (PushItem, PopItem, RemoveAll).   *)
THEOREM QueueAgrees == Spec => []ListAgrees
<1>1. Init => AgreeInv
  <2> SUFFICES ASSUME Init
               PROVE  Agree
    BY DEF AgreeInv
  <2>1. Range(list) = {} /\ Injective(list) /\ set = {}
    BY DEF Init, Range, Injective
  <2>2. InFlight = {} /\ \A n \in Nodes : InHand(n) = {}
    BY DEF Init, InFlight, InHand, Doing
  <2> QED
    BY <2>1, <2>2 DEF Agree
<1>2. AgreeInv => ListAgrees
  <2> SUFFICES ASSUME AgreeInv, ~faulted, ~raced, Doing("free") = Nodes
               PROVE  set = Range(list) /\ Injective(list)
    BY DEF ListAgrees, Injective
  <2>1. InFlight = {} /\ Doing("clearing") = {}
    BY DEF InFlight, Doing
  <2> QED
    BY <2>1 DEF AgreeInv, Agree
<1> QED
  BY <1>1, <1>2, TypeCorrect, AgreeStep, PTL DEF Spec

=============================================================================
