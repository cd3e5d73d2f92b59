------------------------ MODULE UniqueChannelQueue -------------------------
(***************************************************************************)
(* modules/queue/base_channel.go: a unique base queue in memory. A buffered*)
(* channel has the items, a set those that a push refuses as duplicates.   *)
(* A mutex protects the set. The channel is used without it by PushItem    *)
(* and PopItem, and with it by RemoveAll.                                  *)
(***************************************************************************)
EXTENDS Integers, Sequences, FiniteSets, Functions

CONSTANTS
  Items,      \* what is pushed
  Pushers,    \* goroutines that push
  Pushes,     \* who pushes what: pairs of a pusher and an item
  Length      \* capacity of the channel

ASSUME ConstantsAssumption ==
  /\ Length \in Nat \ {0}
  /\ Pushes \subseteq Pushers \X Items

VARIABLES
  c,          \* the channel
  set,        \* the items that are refused
  push,       \* where each pusher is in PushItem
  pushed,     \* the item it pushes (at most one)
  pop,        \* the item between the two steps of PopItem (at most one)
  remove,     \* where RemoveAll is; it holds the mutex unless it is "idle"
  removed     \* history: RemoveAll has been called

vars == <<c, set, push, pushed, pop, remove, removed>>

PushSteps == {"idle", "check", "send", "add"}

MutexFree == remove = "idle"

Init ==
  /\ c = <<>> /\ set = {}
  /\ push = [p \in Pushers |-> "idle"] /\ pushed = [p \in Pushers |-> {}]
  /\ pop = {} /\ remove = "idle" /\ removed = FALSE

-----------------------------------------------------------------------------
(* PushItem                                                                *)

PushAt(p, step) == push' = [push EXCEPT ![p] = step] /\ UNCHANGED pushed

PushReturns(p) ==
  /\ push' = [push EXCEPT ![p] = "idle"]
  /\ pushed' = [pushed EXCEPT ![p] = {}]

PushCalled(p, i) ==
  /\ push[p] = "idle"
  /\ push' = [push EXCEPT ![p] = "check"]
  /\ pushed' = [pushed EXCEPT ![p] = {i}]
  /\ UNCHANGED <<c, set, pop, remove, removed>>

PushChecks(p) ==
  /\ push[p] = "check" /\ MutexFree
  /\ \/ pushed[p] \cap set = {} /\ PushAt(p, "send")
     \/ pushed[p] \subseteq set /\ PushReturns(p)
  /\ UNCHANGED <<c, set, pop, remove, removed>>

PushSends(p) ==
  /\ push[p] = "send" /\ Len(c) < Length
  /\ \E i \in pushed[p] : c' = Append(c, i)
  /\ PushAt(p, "add")
  /\ UNCHANGED <<set, pop, remove, removed>>

(* Mutant: only room ends the wait for room. *)
PushWaits(p) ==
  /\ push[p] = "send" /\ Len(c) < Length
  /\ PushReturns(p)
  /\ UNCHANGED <<c, set, pop, remove, removed>>

(* pushBlockTime has passed, or the context is done *)
PushGivesUp(p) ==
  /\ push[p] = "send"
  /\ PushReturns(p)
  /\ UNCHANGED <<c, set, pop, remove, removed>>

(* Mutant: the item is not added to the set. *)
PushForgets(p) ==
  /\ push[p] = "add" /\ MutexFree
  /\ PushReturns(p)
  /\ UNCHANGED <<c, set, pop, remove, removed>>

PushAdds(p) ==
  /\ push[p] = "add" /\ MutexFree
  /\ set' = set \cup pushed[p]
  /\ PushReturns(p)
  /\ UNCHANGED <<c, pop, remove, removed>>

-----------------------------------------------------------------------------
(* PopItem, called by the one goroutine of popItemByChan.                  *)

PopReceives ==
  /\ pop = {} /\ c # <<>>
  /\ pop' = {Head(c)}
  /\ c' = Tail(c)
  /\ UNCHANGED <<set, push, pushed, remove, removed>>

(* Mutant: the set is updated without the mutex. *)
PopRemovesUnlocked ==
  /\ pop # {}
  /\ set' = set \ pop
  /\ pop' = {}
  /\ UNCHANGED <<c, push, pushed, remove, removed>>

PopRemoves ==
  /\ pop # {} /\ MutexFree
  /\ set' = set \ pop
  /\ pop' = {}
  /\ UNCHANGED <<c, push, pushed, remove, removed>>

-----------------------------------------------------------------------------
(* RemoveAll: with the mutex, receives as long as the channel has items.   *)

RemoveLocks ==
  /\ MutexFree
  /\ remove' = "look" /\ removed' = TRUE
  /\ UNCHANGED <<c, set, push, pushed, pop>>

RemoveLooks ==
  /\ remove = "look"
  /\ \/ /\ c # <<>>
        /\ remove' = "receive" /\ UNCHANGED set
     \/ /\ c = <<>>
        /\ set' = {} /\ remove' = "idle"
  /\ UNCHANGED <<c, push, pushed, pop, removed>>

RemoveReceives ==
  /\ remove = "receive" /\ c # <<>>
  /\ c' = Tail(c)
  /\ remove' = "look"
  /\ UNCHANGED <<set, push, pushed, pop, removed>>

PushStep(p) ==
  \/ \E i \in Items : <<p, i>> \in Pushes /\ PushCalled(p, i)
  \/ PushChecks(p) \/ PushSends(p) \/ PushGivesUp(p) \/ PushAdds(p)

Next ==
  \/ \E p \in Pushers : PushStep(p)
  \/ PopReceives \/ PopRemoves
  \/ RemoveLocks \/ RemoveLooks \/ RemoveReceives

Spec == Init /\ [][Next]_vars

(* Goroutines run, timers fire, and the mutex keeps no one waiting forever *)
(* while its holders release it.                                           *)
Fairness ==
  /\ \A p \in Pushers :
       SF_vars(PushChecks(p)) /\ WF_vars(PushGivesUp(p)) /\ SF_vars(PushAdds(p))
  /\ WF_vars(PopReceives) /\ SF_vars(PopRemoves)
  /\ WF_vars(RemoveLooks) /\ WF_vars(RemoveReceives)

FairSpec == Spec /\ Fairness

-----------------------------------------------------------------------------
(* Properties.                                                             *)

TypeOK ==
  /\ c \in Seq(Items) /\ Len(c) <= Length
  /\ set \subseteq Items /\ pop \subseteq Items
  /\ push \in [Pushers -> PushSteps] /\ pushed \in [Pushers -> SUBSET Items]
  /\ \A p \in Pushers : IF push[p] = "idle" THEN pushed[p] = {}
                                            ELSE \E i \in Items : pushed[p] = {i}
  /\ remove \in {"idle", "look", "receive"} /\ removed \in BOOLEAN

OnePusherEach ==
  \A x \in Pushes, y \in Pushes : x[2] = y[2] => x[1] = y[1]

(* No item is twice in the channel as long as each is pushed by one        *)
(* goroutine at a time and RemoveAll was not called: the late update of    *)
(* the set after a send, and after a receive, makes no room for a          *)
(* duplicate (base_channel.go:48-81). Two pushers of one item may well     *)
(* both pass, and a RemoveAll between a receive and the update of the set  *)
(* makes room for a second copy.                                           *)
OneCopy ==
  OnePusherEach /\ ~removed =>
    \A j, k \in 1..Len(c) : c[j] = c[k] => j = k

(* RemoveAll waits with the mutex for an item, and there is none *)
Stuck == remove = "receive" /\ c = <<>>

(* RemoveAll, which receives with the mutex, is kept waiting by PopItem    *)
(* only: the popping goroutine took the last item after RemoveAll looked,  *)
(* and now waits for the mutex (base_channel.go:72-81,119-125).            *)
RemoveWaitsForPop == Stuck => pop # {}

(* A push returns, whatever room, the mutex and the timeout do, unless     *)
(* RemoveAll and PopItem wait for each other (base_channel.go:43-70): that *)
(* is the only state in which a push is kept waiting.                      *)
PushFinishesUnlessStuck ==
  \A p \in Pushers : push[p] # "idle" ~> (push[p] = "idle" \/ Stuck)

=============================================================================
