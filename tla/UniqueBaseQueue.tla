-------------------------- MODULE UniqueBaseQueue --------------------------
(***************************************************************************)
(* modules/queue/base_redis.go: a unique base queue in Redis. The items    *)
(* wait in a list; a set holds those that a push refuses as duplicates.    *)
(* The two are updated by separate commands. A mutex of the process keeps  *)
(* the operations of one node apart; nothing keeps those of two nodes      *)
(* apart (a cluster, or a restarted process beside the one it replaces).   *)
(* The unique level queue (base_levelqueue_unique.go) has the same steps   *)
(* under the same mutex, on a database that only one process opens.        *)
(*                                                                         *)
(* Since the mutex is held from the first command of an attempt to the     *)
(* last, a node has at most one operation in progress.                     *)
(***************************************************************************)
EXTENDS Integers, Sequences, FiniteSets, Functions

CONSTANTS
  Items,     \* what is pushed
  Nodes,     \* processes that use the queue
  Length,    \* capacity of the queue
  Faults     \* which of AllFaults may happen

AllFaults ==
  {"cancel",     \* the context of the queue ends: a later command may fail
   "error",      \* a command fails, whether Redis carried it out or not
   "crash"}      \* the process dies

ASSUME ConstantsAssumption ==
  /\ Length \in Nat \ {0}
  /\ IsFiniteSet(Nodes) /\ Nodes # {}
  /\ Faults \subseteq AllFaults

VARIABLES
  list,      \* the Redis list QueueFullName
  set,       \* the Redis set SetFullName
  at,        \* the last command of the operation in progress on each node
  arg,       \* the item of that operation (at most one)
  canceled,  \* nodes whose queue context has ended
  faulted,   \* history: an operation was left half done since the set was last cleared
  raced      \* history: the set was last cleared among operations of other nodes

vars == <<list, set, at, arg, canceled, faulted, raced>>

(* free: none; checked: LLEN of a push; marked: SADD of a push;            *)
(* popped: LPOP of a pop; clearing: DEL of the list by RemoveAll           *)
Steps == {"free", "checked", "marked", "popped", "clearing"}

Begin(n, step, S) ==
  /\ at' = [at EXCEPT ![n] = step]
  /\ arg' = [arg EXCEPT ![n] = S]

End(n) == Begin(n, "free", {})

(* A command of node n may fail without effect. Items that go back at a    *)
(* shutdown have a context of their own, which may end as well.            *)
MayFail(n) == "error" \in Faults \/ n \in canceled

Doing(step) == {n \in Nodes : at[n] = step}

(* items between the set and the list, in the hands of an operation *)
InFlight == UNION {arg[n] : n \in Doing("marked") \cup Doing("popped")}

Init ==
  /\ list = <<>> /\ set = {}
  /\ at = [n \in Nodes |-> "free"] /\ arg = [n \in Nodes |-> {}]
  /\ canceled = {} /\ faulted = FALSE /\ raced = FALSE

-----------------------------------------------------------------------------
(* PushItem                                                                *)

(* Mutant: a full list still has room. *)
PushLooksAtFull(n, i) ==
  /\ at[n] = "free"
  /\ Len(list) <= Length
  /\ Begin(n, "checked", {i})
  /\ UNCHANGED <<list, set, canceled, faulted, raced>>

(* a push that finds no room releases the mutex and tries again *)
PushLooks(n, i) ==
  /\ at[n] = "free"
  /\ Len(list) < Length
  /\ Begin(n, "checked", {i})
  /\ UNCHANGED <<list, set, canceled, faulted, raced>>

(* Mutant: an item that was already in the set is pushed too. *)
PushMarksTwice(n) ==
  /\ at[n] = "checked"
  /\ set' = set \cup arg[n]
  /\ Begin(n, "marked", arg[n])
  /\ UNCHANGED <<list, canceled, faulted, raced>>

PushMarks(n) ==
  /\ at[n] = "checked"
  /\ arg[n] \cap set = {}
  /\ set' = set \cup arg[n]
  /\ Begin(n, "marked", arg[n])
  /\ UNCHANGED <<list, canceled, faulted, raced>>

(* ErrAlreadyInQueue *)
PushRefused(n) ==
  /\ at[n] = "checked"
  /\ arg[n] \subseteq set
  /\ End(n)
  /\ UNCHANGED <<list, set, canceled, faulted, raced>>

(* Mutant: the room is checked again, after the item was marked. *)
PushAppendsIfRoom(n) ==
  /\ at[n] = "marked"
  /\ \E i \in arg[n] : list' = IF Len(list) < Length THEN Append(list, i) ELSE list
  /\ End(n)
  /\ UNCHANGED <<set, canceled, faulted, raced>>

PushAppends(n) ==
  /\ at[n] = "marked"
  /\ \E i \in arg[n] : list' = Append(list, i)
  /\ End(n)
  /\ UNCHANGED <<set, canceled, faulted, raced>>

(* A command fails and the push returns its error. SADD may have been      *)
(* carried out nevertheless, RPUSH may not have been: the item is in the   *)
(* set and in no list.                                                     *)
PushFails(n) ==
  /\ \/ /\ at[n] = "checked" /\ MayFail(n)
        /\ UNCHANGED <<list, set, faulted>>
     \/ /\ at[n] = "checked" /\ "error" \in Faults
        /\ set' = set \cup arg[n]
        /\ faulted' = TRUE
        /\ UNCHANGED list
     \/ /\ at[n] = "marked" /\ MayFail(n)
        /\ faulted' = TRUE
        /\ UNCHANGED <<list, set>>
  /\ End(n)
  /\ UNCHANGED <<canceled, raced>>

-----------------------------------------------------------------------------
(* PopItem                                                                 *)

(* The retry loop looks at the context before it calls Redis.              *)
PopTakes(n) ==
  /\ at[n] = "free" /\ n \notin canceled
  /\ list # <<>>
  /\ list' = Tail(list)
  /\ Begin(n, "popped", {Head(list)})
  /\ UNCHANGED <<set, canceled, faulted, raced>>

(* Mutant: a popped item stays in the set. *)
PopForgets(n) ==
  /\ at[n] = "popped"
  /\ End(n)
  /\ UNCHANGED <<list, set, canceled, faulted, raced>>

PopUnmarks(n) ==
  /\ at[n] = "popped"
  /\ set' = set \ arg[n]
  /\ End(n)
  /\ UNCHANGED <<list, canceled, faulted, raced>>

(* The error of SREM is ignored, that of LPOP makes the loop try again,    *)
(* although Redis may have removed the item.                               *)
PopFails(n) ==
  /\ \/ /\ at[n] = "popped" /\ MayFail(n)
        /\ UNCHANGED list
     \/ /\ at[n] = "free" /\ n \notin canceled /\ "error" \in Faults
        /\ list # <<>>
        /\ list' = Tail(list)
  /\ End(n)
  /\ faulted' = TRUE
  /\ UNCHANGED <<set, canceled, raced>>

-----------------------------------------------------------------------------
(* RemoveAll; its context is that of an admin's request.                   *)

RemoveList(n) ==
  /\ at[n] = "free"
  /\ list' = <<>> \/ ("error" \in Faults /\ UNCHANGED list)
  /\ Begin(n, "clearing", {})
  /\ UNCHANGED <<set, canceled, faulted, raced>>

RemoveSet(n) ==
  /\ at[n] = "clearing"
  /\ \/ set' = {} /\ faulted' = FALSE
        /\ raced' = (list # <<>> \/ InFlight # {})
     \/ "error" \in Faults /\ faulted' = TRUE /\ UNCHANGED <<set, raced>>
  /\ End(n)
  /\ UNCHANGED <<list, canceled>>

-----------------------------------------------------------------------------
(* The processes.                                                          *)

(* the queue is shut down *)
Cancel(n) ==
  /\ "cancel" \in Faults /\ n \notin canceled
  /\ canceled' = canceled \cup {n}
  /\ UNCHANGED <<list, set, at, arg, faulted, raced>>

(* The process dies, or exits after a shutdown, and is started again.      *)
Restart(n) ==
  /\ "crash" \in Faults \/ (n \in canceled /\ at[n] = "free")
  /\ faulted' = (faulted \/ at[n] \in {"marked", "popped", "clearing"})
  /\ canceled' = canceled \ {n}
  /\ End(n)
  /\ UNCHANGED <<list, set, raced>>

PushStep(n) ==
  \/ \E i \in Items : PushLooks(n, i)
  \/ PushMarks(n) \/ PushRefused(n) \/ PushAppends(n) \/ PushFails(n)

PopStep(n) == PopTakes(n) \/ PopUnmarks(n) \/ PopFails(n)

RemoveStep(n) == RemoveList(n) \/ RemoveSet(n)

Next ==
  \E n \in Nodes :
    PushStep(n) \/ PopStep(n) \/ RemoveStep(n) \/ Cancel(n) \/ Restart(n)

Spec == Init /\ [][Next]_vars

(* An operation that has begun goes on. Each node pops again and again; it *)
(* competes for a mutex that keeps no one waiting forever.                 *)
Fairness ==
  \A n \in Nodes :
    /\ WF_vars(PushMarks(n) \/ PushRefused(n) \/ PushAppends(n))
    /\ WF_vars(PopUnmarks(n)) /\ WF_vars(RemoveSet(n))
    /\ SF_vars(PopTakes(n))

FairSpec == Spec /\ Fairness

-----------------------------------------------------------------------------
(* Properties.                                                             *)

Owed == Range(list) \cup InFlight

TypeOK ==
  /\ list \in Seq(Items) /\ set \subseteq Items
  /\ at \in [Nodes -> Steps] /\ arg \in [Nodes -> SUBSET Items]
  /\ canceled \subseteq Nodes /\ faulted \in BOOLEAN /\ raced \in BOOLEAN
  /\ \A n \in Nodes :
       IF at[n] \in {"free", "clearing"} THEN arg[n] = {}
                                         ELSE \E i \in Items : arg[n] = {i}

(* An item that a push would refuse is in the list or in the hands of an   *)
(* operation that will put it there or unmark it: a refused item is served *)
(* later. The order of the commands in PushItem, PopItem and RemoveAll     *)
(* sees to it for any number of nodes. A half-done operation breaks it,    *)
(* and RemoveAll makes the queue work again (base_redis.go:55-138).        *)
MarkedIsOwed == faulted \/ Doing("clearing") # {} \/ set \subseteq Owed

(* pushes that have found room *)
Pushing == Doing("checked") \cup Doing("marked")

(* Each node checks the room before it pushes, under its own mutex: every  *)
(* other node can exceed the capacity by one, and no more, whatever was    *)
(* popped, removed or given up between (base_redis.go:57-77).              *)
OverfillBounded ==
  Len(list) + Cardinality(Pushing) <= Length + Cardinality(Nodes) - 1

(* Between operations the list has the items of the set, each of them      *)
(* once, however many nodes push, pop and remove: the order of the commands*)
(* is enough. It is not when an operation was left half done, or when      *)
(* RemoveAll cleared the set among pushes and pops of other nodes; a       *)
(* RemoveAll by itself makes it true again (base_redis.go:23,55-138,       *)
(* base_levelqueue_unique.go:25).                                          *)
ListAgrees ==
  ~faulted /\ ~raced /\ Doing("free") = Nodes
    => /\ set = Range(list)
       /\ \A j, k \in 1 .. Len(list) : list[j] = list[k] => j = k

(* No item is refused forever: an item of the set leaves it, however       *)
(* pushes and pops of several nodes come between each other's commands and *)
(* whatever commands fail, unless an operation is left half done or every  *)
(* node is shut down (base_redis.go:55-99).                                *)
MarksClear ==
  \A i \in Items :
    (i \in set) ~> (i \notin set \/ faulted \/ canceled = Nodes)

=============================================================================
