----------------------------- MODULE EventSource -----------------------------
(***************************************************************************)
(* Server-sent events (modules/eventsource): streams of signed-in users    *)
(* (routers/web/events) register a channel with the messenger of their     *)
(* user, the goroutine Run sends to messengers now and then, a sign-out    *)
(* sends as well and waits for room, and a shutdown closes every channel.  *)
(* The requests that send without waiting (purged users, stopwatches) do   *)
(* nothing that Run does not.                                              *)
(*                                                                         *)
(* A channel has the name of its stream, and room for one event; what the  *)
(* event says does not matter here.  A messenger has the name of the       *)
(* stream that created it.  The mutexes are held over several steps only   *)
(* where their holder waits for something: the one of the manager by       *)
(* Unregister and UnregisterAll, which wait for messengers, and the one of *)
(* a messenger by SendMessageBlocking, which waits for room.               *)
(***************************************************************************)
EXTENDS FiniteSets

CONSTANTS
  Users,
  Streams,    \* requests for events: a channel each
  SignOuts,   \* requests that sign out
  Run,        \* the goroutine of the manager
  UserOf,     \* whose streams and requests they are
  None

Actors == Streams \cup SignOuts \cup {Run}

ASSUME ActorsAssumption ==
  /\ \A a \in Streams \cup SignOuts : UserOf[a] \in Users
  /\ Streams \cap SignOuts = {} /\ Run \notin Streams \cup SignOuts
  /\ None \notin Actors

VARIABLES
  messengers, \* the messenger of each user, or None
  mutex,      \* who holds the mutex of the manager while it waits, or None
  connection, \* the channel that tells Run of a registration is full
  channels,   \* the open channels of each messenger
  lock,       \* who holds its mutex while it waits for room, or None
  full,       \* channels with an event in them
  closed,     \* closed channels
  at,         \* the next step of each stream and sender
  ref,        \* the messenger it has found
  left,       \* the channels a sign-out has still to send to
  todo,       \* the users UnregisterAll has still to unregister
  shutdown    \* the shutdown context is canceled

managerVars == <<messengers, mutex, connection>>
messengerVars == <<channels, lock>>
channelVars == <<full, closed>>
vars == <<managerVars, messengerVars, channelVars, at, ref, left, todo, shutdown>>

StreamSteps == {"idle", "register", "listen", "unregister", "close", "drain", "gone"}
SignOutSteps == {"idle", "send", "sending", "done"}
RunSteps == {"wait", "paused", "next", "send", "stop", "closing", "done", "failed"}

Init ==
  /\ messengers = [u \in Users |-> None] /\ mutex = None /\ connection = FALSE
  /\ channels = [m \in Streams |-> {}] /\ lock = [m \in Streams |-> None]
  /\ full = {} /\ closed = {}
  /\ at = [a \in Actors |-> IF a = Run THEN "wait" ELSE "idle"]
  /\ ref = [a \in Actors |-> None]
  /\ left = [b \in SignOuts |-> {}] /\ todo = {} /\ shutdown = FALSE

Go(a, step) == at' = [at EXCEPT ![a] = step]
Ref(a, m) == ref' = [ref EXCEPT ![a] = m]
MessengerFree(a) == lock[ref[a]] = None

-----------------------------------------------------------------------------
(* A stream. *)

(* Mutant: Run is not told of the registration with the mutex held. *)
RegisterUnsignalled(s) ==
  /\ at[s] = "idle" /\ mutex = None
  /\ LET m == IF messengers[UserOf[s]] = None THEN s ELSE messengers[UserOf[s]]
     IN  messengers' = [messengers EXCEPT ![UserOf[s]] = m] /\ Ref(s, m)
  /\ UNCHANGED connection
  /\ Go(s, "register")
  /\ UNCHANGED <<mutex, messengerVars, channelVars, left, todo, shutdown>>

\* Manager.Register: find or create the messenger, and wake Run.
Register(s) ==
  /\ at[s] = "idle" /\ mutex = None
  /\ LET m == IF messengers[UserOf[s]] = None THEN s ELSE messengers[UserOf[s]]
     IN  messengers' = [messengers EXCEPT ![UserOf[s]] = m] /\ Ref(s, m)
  /\ connection' = TRUE
  /\ Go(s, "register")
  /\ UNCHANGED <<mutex, messengerVars, channelVars, left, todo, shutdown>>

\* Messenger.Register, without the mutex of the manager.
AddChannel(s) ==
  /\ at[s] = "register" /\ MessengerFree(s)
  /\ channels' = [channels EXCEPT ![ref[s]] = @ \cup {s}]
  /\ Ref(s, None) /\ Go(s, "listen")
  /\ UNCHANGED <<managerVars, lock, channelVars, left, todo, shutdown>>

\* The connection is closed, a write failed, or the server shuts down.
Leave(s) ==
  /\ at[s] = "listen" /\ Go(s, "unregister")
  /\ UNCHANGED <<managerVars, messengerVars, channelVars, ref, left, todo, shutdown>>

\* An event is written; a failed write or the logout of this session ends
\* the stream.  A closed channel ends it without Unregister.
Receive(s) ==
  /\ at[s] = "listen"
  /\ \/ /\ s \in full /\ full' = full \ {s}
        /\ \E step \in {"listen", "unregister"} : Go(s, step)
     \/ s \in closed \ full /\ Go(s, "gone") /\ UNCHANGED full
  /\ UNCHANGED <<managerVars, messengerVars, closed, ref, left, todo, shutdown>>

\* Manager.Unregister looks for the messenger its user has now.
Unregister(s) ==
  /\ at[s] = "unregister" /\ mutex = None
  /\ LET m == messengers[UserOf[s]]
     IN  IF m = None
         THEN Go(s, "drain") /\ UNCHANGED <<mutex, ref>>
         ELSE Go(s, "close") /\ mutex' = s /\ Ref(s, m)
  /\ UNCHANGED <<messengers, connection, messengerVars, channelVars, left, todo,
                 shutdown>>

(* Mutant: the channels are counted before one of them is removed. *)
CloseCounted(s) ==
  /\ at[s] = "close" /\ MessengerFree(s)
  /\ channels' = [channels EXCEPT ![ref[s]] = @ \ {s}]
  /\ closed' = IF s \in channels[ref[s]] THEN closed \cup {s} ELSE closed
  /\ messengers' = IF channels[ref[s]] = {}
                   THEN [messengers EXCEPT ![UserOf[s]] = None] ELSE messengers
  /\ mutex' = None
  /\ Ref(s, None) /\ Go(s, "drain")
  /\ UNCHANGED <<connection, lock, full, left, todo, shutdown>>

(* Mutant: the messenger is forgotten whenever a channel is removed. *)
CloseForgets(s) ==
  /\ at[s] = "close" /\ MessengerFree(s)
  /\ channels' = [channels EXCEPT ![ref[s]] = @ \ {s}]
  /\ closed' = IF s \in channels[ref[s]] THEN closed \cup {s} ELSE closed
  /\ messengers' = IF s \in channels[ref[s]]
                   THEN [messengers EXCEPT ![UserOf[s]] = None] ELSE messengers
  /\ mutex' = None
  /\ Ref(s, None) /\ Go(s, "drain")
  /\ UNCHANGED <<connection, lock, full, left, todo, shutdown>>

(* Mutant: the channel is removed and not closed. *)
CloseUnclosed(s) ==
  /\ at[s] = "close" /\ MessengerFree(s)
  /\ channels' = [channels EXCEPT ![ref[s]] = @ \ {s}]
  /\ closed' = closed
  /\ messengers' = IF channels'[ref[s]] = {}
                   THEN [messengers EXCEPT ![UserOf[s]] = None] ELSE messengers
  /\ mutex' = None
  /\ Ref(s, None) /\ Go(s, "drain")
  /\ UNCHANGED <<connection, lock, full, left, todo, shutdown>>

\* Messenger.Unregister, and the end of Manager.Unregister.
Close(s) ==
  /\ at[s] = "close" /\ MessengerFree(s)
  /\ channels' = [channels EXCEPT ![ref[s]] = @ \ {s}]
  /\ closed' = IF s \in channels[ref[s]] THEN closed \cup {s} ELSE closed
  /\ messengers' = IF channels'[ref[s]] = {}
                   THEN [messengers EXCEPT ![UserOf[s]] = None] ELSE messengers
  /\ mutex' = None
  /\ Ref(s, None) /\ Go(s, "drain")
  /\ UNCHANGED <<connection, lock, full, left, todo, shutdown>>

\* The goroutine of unregister reads until the channel is closed.
Drain(s) ==
  /\ at[s] = "drain"
  /\ \/ s \in full /\ full' = full \ {s} /\ UNCHANGED at
     \/ s \in closed \ full /\ Go(s, "gone") /\ UNCHANGED full
  /\ UNCHANGED <<managerVars, messengerVars, closed, ref, left, todo, shutdown>>

-----------------------------------------------------------------------------
(* A sign-out. *)

\* Manager.SendMessageBlocking
Find(b) ==
  /\ at[b] = "idle" /\ mutex = None /\ messengers[UserOf[b]] # None
  /\ Ref(b, messengers[UserOf[b]]) /\ Go(b, "send")
  /\ UNCHANGED <<managerVars, messengerVars, channelVars, left, todo, shutdown>>

\* Messenger.SendMessageBlocking, from Lock to Unlock: one channel after the
\* other, in an order that is left open.
Lock(b) ==
  /\ at[b] = "send" /\ MessengerFree(b)
  /\ lock' = [lock EXCEPT ![ref[b]] = b]
  /\ left' = [left EXCEPT ![b] = channels[ref[b]]]
  /\ Go(b, "sending")
  /\ UNCHANGED <<managerVars, channels, channelVars, ref, todo, shutdown>>

Put(b) ==
  /\ at[b] = "sending"
  /\ \E c \in left[b] \ full :
       full' = full \cup {c} /\ left' = [left EXCEPT ![b] = @ \ {c}]
  /\ UNCHANGED <<managerVars, messengerVars, closed, at, ref, todo, shutdown>>

Unlock(b) ==
  /\ at[b] = "sending" /\ left[b] = {}
  /\ lock' = [lock EXCEPT ![ref[b]] = None]
  /\ Ref(b, None) /\ Go(b, "done")
  /\ UNCHANGED <<managerVars, channels, channelVars, left, todo, shutdown>>

-----------------------------------------------------------------------------
(* Manager.Run. *)

\* The ticker: without messengers, forget registrations and pause.
Tick ==
  /\ at[Run] = "wait" /\ mutex = None
  /\ IF \A u \in Users : messengers[u] = None
     THEN connection' = FALSE /\ Go(Run, "paused")
     ELSE Go(Run, "next") /\ UNCHANGED connection
  /\ UNCHANGED <<messengers, mutex, messengerVars, channelVars, ref, left, todo,
                 shutdown>>

Resume ==
  /\ at[Run] = "paused" /\ connection
  /\ connection' = FALSE /\ Go(Run, "wait")
  /\ UNCHANGED <<messengers, mutex, messengerVars, channelVars, ref, left, todo,
                 shutdown>>

\* SendMessage to a user for whom there are news.
RunFinds ==
  /\ at[Run] = "next" /\ mutex = None
  /\ \E u \in Users :
       messengers[u] # None /\ Ref(Run, messengers[u]) /\ Go(Run, "send")
  /\ UNCHANGED <<managerVars, messengerVars, channelVars, left, todo, shutdown>>

\* Messenger.SendMessage: channels with an event in them do not get this one.
RunSends ==
  /\ at[Run] = "send" /\ MessengerFree(Run)
  /\ full' = full \cup channels[ref[Run]]
  /\ Ref(Run, None) /\ Go(Run, "next")
  /\ UNCHANGED <<managerVars, messengerVars, closed, left, todo, shutdown>>

\* Everything is sent, or the list of stopwatches cannot be read: Run ends.
Sent ==
  /\ at[Run] = "next"
  /\ \E step \in {"wait", "failed"} : Go(Run, step)
  /\ UNCHANGED <<managerVars, messengerVars, channelVars, ref, left, todo, shutdown>>

Shutdown ==
  /\ ~shutdown /\ shutdown' = TRUE
  /\ UNCHANGED <<managerVars, messengerVars, channelVars, at, ref, left, todo>>

(* Mutant: a pausing Run waits for registrations only. *)
StopAwake ==
  /\ at[Run] = "wait" /\ shutdown /\ Go(Run, "stop")
  /\ UNCHANGED <<managerVars, messengerVars, channelVars, ref, left, todo, shutdown>>

Stop ==
  /\ at[Run] \in {"wait", "paused"} /\ shutdown /\ Go(Run, "stop")
  /\ UNCHANGED <<managerVars, messengerVars, channelVars, ref, left, todo, shutdown>>

\* Manager.UnregisterAll, with the mutex of the manager.
BeginUnregisterAll ==
  /\ at[Run] = "stop" /\ mutex = None
  /\ mutex' = Run /\ Go(Run, "closing")
  /\ todo' = {u \in Users : messengers[u] # None}
  /\ UNCHANGED <<messengers, connection, messengerVars, channelVars, ref, left,
                 shutdown>>

(* Mutant: the channels stay with their messenger. *)
CloseAllAndKeep ==
  /\ at[Run] = "closing"
  /\ \E u \in todo :
       LET m == messengers[u]
       IN  /\ lock[m] = None
           /\ closed' = closed \cup channels[m]
           /\ channels' = channels
           /\ todo' = todo \ {u}
  /\ UNCHANGED <<managerVars, lock, full, at, ref, left, shutdown>>

CloseAll ==
  /\ at[Run] = "closing"
  /\ \E u \in todo :
       LET m == messengers[u]
       IN  /\ lock[m] = None
           /\ closed' = closed \cup channels[m]
           /\ channels' = [channels EXCEPT ![m] = {}]
           /\ todo' = todo \ {u}
  /\ UNCHANGED <<managerVars, lock, full, at, ref, left, shutdown>>

EndUnregisterAll ==
  /\ at[Run] = "closing" /\ todo = {}
  /\ messengers' = [u \in Users |-> None] /\ mutex' = None /\ Go(Run, "done")
  /\ UNCHANGED <<connection, messengerVars, channelVars, ref, left, todo, shutdown>>

-----------------------------------------------------------------------------
\* what a stream does by itself, except to leave
StreamStep(s) ==
  AddChannel(s) \/ Receive(s) \/ Unregister(s) \/ Close(s) \/ Drain(s)

SignOutStep(b) == Lock(b) \/ Put(b) \/ Unlock(b)

RunStep ==
  \/ Tick \/ Resume \/ RunFinds \/ RunSends \/ Sent
  \/ Stop \/ BeginUnregisterAll \/ CloseAll \/ EndUnregisterAll

Next ==
  \/ \E s \in Streams : Register(s) \/ Leave(s) \/ StreamStep(s)
  \/ \E b \in SignOuts : Find(b) \/ SignOutStep(b)
  \/ RunStep \/ Shutdown

Spec == Init /\ [][Next]_vars

(***************************************************************************)
(* Goroutines that can go on do, and streams leave at a shutdown.  Strong  *)
(* fairness is for what Run chooses from: its select takes a case that is  *)
(* ready at random, and a tick sends to finitely many users.               *)
(***************************************************************************)
Fairness ==
  /\ \A s \in Streams : WF_vars(StreamStep(s)) /\ WF_vars(shutdown /\ Leave(s))
  /\ \A b \in SignOuts : WF_vars(SignOutStep(b))
  /\ WF_vars(RunStep) /\ SF_vars(Sent) /\ SF_vars(Stop)

FairSpec == Spec /\ Fairness

-----------------------------------------------------------------------------
TypeOK ==
  /\ messengers \in [Users -> Streams \cup {None}]
  /\ mutex \in Streams \cup {Run, None} /\ connection \in BOOLEAN
  /\ channels \in [Streams -> SUBSET Streams]
  /\ lock \in [Streams -> SignOuts \cup {None}]
  /\ full \subseteq Streams /\ closed \subseteq Streams
  /\ DOMAIN at = Actors
  /\ \A s \in Streams : at[s] \in StreamSteps
  /\ \A b \in SignOuts : at[b] \in SignOutSteps
  /\ at[Run] \in RunSteps
  /\ ref \in [Actors -> Streams \cup {None}]
  /\ \A a \in Actors :
       (ref[a] # None) = (at[a] \in {"register", "close", "send", "sending"})
  /\ left \in [SignOuts -> SUBSET Streams]
  /\ todo \subseteq Users /\ shutdown \in BOOLEAN

(***************************************************************************)
(* Nothing is sent on a closed channel and none is closed twice, which     *)
(* would be a panic: whatever messenger a request has found before it was  *)
(* forgotten or unregistered, the channels it has there, or is about to    *)
(* send to, are open (messenger.go:35-77).                                 *)
(***************************************************************************)
OnlyOpenChannels ==
  /\ \A m \in Streams : channels[m] \cap closed = {}
  /\ \A b \in SignOuts : left[b] \cap closed = {}

(***************************************************************************)
(* Run does not sleep while somebody listens: if there is a messenger, the *)
(* channel that wakes it is full, although Run empties it when it pauses   *)
(* (manager_run.go:47-63).                                                 *)
(***************************************************************************)
PauseIsNoticed ==
  at[Run] = "paused" /\ (\E u \in Users : messengers[u] # None) => connection

(***************************************************************************)
(* Run does not go on for nobody: a messenger that is kept has a channel,  *)
(* or is about to get one, whatever streams come and go meanwhile.         *)
(***************************************************************************)
MessengersAreUsed ==
  \A u \in Users :
    messengers[u] # None /\ at[Run] # "closing"
      => \/ channels[messengers[u]] # {}
         \/ \E s \in Streams : at[s] = "register" /\ ref[s] = messengers[u]

\* The channel of s is with a messenger that nobody finds any more.
Forgotten(s) ==
  \E m \in Streams : s \in channels[m] /\ messengers[UserOf[s]] # m

(***************************************************************************)
(* A stream that is registered is not forgotten when others leave.  It may *)
(* be while it registers, as it adds its channel after it let go of the    *)
(* mutex (manager.go:45), and if UnregisterAll has already been at its     *)
(* messenger.                                                              *)
(***************************************************************************)
ListedIsKept ==
  [][\A s \in Streams :
       Forgotten(s)' => Forgotten(s) \/ at[s] = "register" \/ at[Run] = "closing"]_vars

\* A sign-out waits for room in the channel of a stream that has left, and
\* the stream, before it reads on, for the mutex the sign-out holds.
Stuck ==
  \E b \in SignOuts : \E s \in left[b] \cap full : at[s] \in {"unregister", "close"}

Leaving(s) == at[s] \in {"unregister", "close", "drain"}

(***************************************************************************)
(* A stream that leaves is gone at last, unless it was forgotten, in which *)
(* case its goroutine reads forever (events.go:52), or somebody is stuck.  *)
(***************************************************************************)
LeavingEnds ==
  \A s \in Streams : <>[]Leaving(s) => <>[](Stuck \/ Forgotten(s))

(***************************************************************************)
(* After a shutdown Run returns, on which the shutdown waits, unless       *)
(* somebody is stuck (manager_run.go:39-121).                              *)
(***************************************************************************)
RunReturns ==
  <>[](shutdown /\ at[Run] \notin {"done", "failed"}) => <>[]Stuck

(***************************************************************************)
(* What messenger.go:70 says of SendMessageBlocking, that it "sends the    *)
(* message to all registered channels and ensures it gets sent".           *)
(***************************************************************************)
BlockingSendEnds ==
  \A b \in SignOuts : at[b] = "sending" ~> at[b] = "done"
=============================================================================
