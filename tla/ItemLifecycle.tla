--------------------------- MODULE ItemLifecycle ---------------------------
(***************************************************************************)
(* What a queue of modules/queue promises about each item, whatever its    *)
(* workers, buffers and base queue do: an accepted item waits until one    *)
(* handler call runs it, a call settles every item it was given or gives   *)
(* it back, and a handled or a lost item never comes back.                 *)
(***************************************************************************)
CONSTANT Items

VARIABLE state       \* what has become of each item

States == {"new", "pending", "running", "handled", "lost"}

Init == state = [i \in Items |-> "new"]

In(s) == {i \in Items : state[i] = s}

(* Push of one item succeeds. *)
Accept(i) ==
  /\ state[i] = "new"
  /\ state' = [state EXCEPT ![i] = "pending"]

(* One handler call starts with a batch of waiting items. *)
Deliver(S) ==
  /\ S \subseteq In("pending")
  /\ state' = [i \in Items |-> IF i \in S THEN "running" ELSE state[i]]

(* A handler call ends: some of its items wait again, some are lost, and  *)
(* the others are handled.                                                 *)
Return(S, back, gone) ==
  /\ S \subseteq In("running")
  /\ state' = [i \in Items |->
                 IF i \notin S THEN state[i]
                 ELSE IF i \in back THEN "pending"
                 ELSE IF i \in gone THEN "lost" ELSE "handled"]

(* Items are discarded, overflow, or die with the process. *)
Lose(S) ==
  /\ S \subseteq In("pending") \cup In("running")
  /\ state' = [i \in Items |-> IF i \in S THEN "lost" ELSE state[i]]

Next ==
  \/ \E i \in Items : Accept(i)
  \/ \E S \in SUBSET Items : Deliver(S) \/ Lose(S)
  \/ \E S \in SUBSET Items :
       \E back \in SUBSET S : \E gone \in SUBSET S : Return(S, back, gone)

Spec == Init /\ [][Next]_state
=============================================================================
