--------------------------- MODULE EventSourceProofs ---------------------------
(***************************************************************************)
(* Proofs about EventSource, for any users, streams and sign-outs.         *)
(***************************************************************************)
EXTENDS EventSource, TLAPS

\* Who is waiting with the mutex of the manager, and for which messenger.
MutexInv ==
  /\ \A s \in Streams : (mutex = s) = (at[s] = "close")
  /\ (mutex = Run) = (at[Run] = "closing")
  /\ \A s \in Streams : at[s] = "close" => messengers[UserOf[s]] = ref[s]
  /\ at[Run] = "closing" => \A u \in todo : messengers[u] # None

\* A sign-out that waits for room has the mutex of the messenger, so that
\* the channels it still has to send to stay there.
LockInv ==
  /\ \A m \in Streams : lock[m] # None => at[lock[m]] = "sending" /\ ref[lock[m]] = m
  /\ \A b \in SignOuts :
       IF at[b] = "sending" THEN lock[ref[b]] = b /\ left[b] \subseteq channels[ref[b]]
                            ELSE left[b] = {}

\* A channel is added once, to one messenger.
ChannelInv ==
  /\ \A s \in Streams : at[s] \in {"idle", "register"} =>
       s \notin closed /\ \A m \in Streams : s \notin channels[m]
  /\ \A m, n \in Streams : m # n => channels[m] \cap channels[n] = {}

\* Messengers are those of their users.
UserInv == \A u \in Users : messengers[u] # None => UserOf[messengers[u]] = u

Inv ==
  /\ TypeOK /\ MutexInv /\ LockInv /\ ChannelInv /\ UserInv
  /\ OnlyOpenChannels /\ PauseIsNoticed /\ MessengersAreUsed

\* What a step does not do to a registered channel.
ListedKept ==
  \A s \in Streams :
    Forgotten(s)' => Forgotten(s) \/ at[s] = "register" \/ at[Run] = "closing"


\* UnregisterAll is at a messenger that no sign-out has locked.
LEMMA CloseAllEffect ==
  ASSUME TypeOK, MutexInv, CloseAll
  PROVE  \E m \in Streams : /\ channels' = [channels EXCEPT ![m] = {}]
                            /\ closed' = closed \cup channels[m] /\ lock[m] = None
                            /\ todo' \subseteq todo
<1>1. PICK u \in todo : /\ lock[messengers[u]] = None
                       /\ closed' = closed \cup channels[messengers[u]]
                       /\ channels' = [channels EXCEPT ![messengers[u]] = {}]
                       /\ todo' = todo \ {u}
  BY DEF CloseAll
<1>2. messengers[u] # None
  BY <1>1 DEF MutexInv, CloseAll
<1>3. u \in Users
  BY <1>1 DEF TypeOK
<1>4. messengers[u] \in Streams
  BY <1>2, <1>3 DEF TypeOK
<1> QED
  BY <1>1, <1>4

\* Every step keeps the types.
LEMMA TypeStep ==
  TypeOK /\ MutexInv /\ [Next]_vars
    => TypeOK'
<1> SUFFICES ASSUME TypeOK, MutexInv, [Next]_vars
             PROVE  TypeOK'
  OBVIOUS
<1> USE ActorsAssumption
        DEF TypeOK, Actors, Go, Ref, MessengerFree, managerVars, messengerVars,
        channelVars, StreamSteps, SignOutSteps, RunSteps, MutexInv
<1>1. ASSUME NEW s \in Streams, Register(s) PROVE TypeOK'
  BY <1>1 DEF Register
<1>2. ASSUME NEW s \in Streams, AddChannel(s) PROVE TypeOK'
  BY <1>2 DEF AddChannel
<1>3. ASSUME NEW s \in Streams, Leave(s) PROVE TypeOK'
  BY <1>3 DEF Leave
<1>4. ASSUME NEW s \in Streams, Receive(s) PROVE TypeOK'
  BY <1>4 DEF Receive
<1>5. ASSUME NEW s \in Streams, Unregister(s) PROVE TypeOK'
  BY <1>5 DEF Unregister
<1>6. ASSUME NEW s \in Streams, Close(s) PROVE TypeOK'
  BY <1>6 DEF Close
<1>7. ASSUME NEW s \in Streams, Drain(s) PROVE TypeOK'
  BY <1>7 DEF Drain
<1>8. ASSUME NEW b \in SignOuts, Find(b) PROVE TypeOK'
  BY <1>8 DEF Find
<1>9. ASSUME NEW b \in SignOuts, Lock(b) PROVE TypeOK'
  BY <1>9 DEF Lock
<1>10. ASSUME NEW b \in SignOuts, Put(b) PROVE TypeOK'
  BY <1>10 DEF Put
<1>11. ASSUME NEW b \in SignOuts, Unlock(b) PROVE TypeOK'
  BY <1>11 DEF Unlock
<1>12. CASE Tick
  <2>1. connection' \in BOOLEAN
    BY <1>12 DEF Tick
  <2>2. /\ UNCHANGED <<messengers, mutex, channels, lock, full, closed>>
        /\ UNCHANGED <<ref, left, todo, shutdown>>
        /\ at[Run] \notin {"send"} /\ \E step \in RunSteps \ {"send"} : Go(Run, step)
    BY <1>12 DEF Tick
  <2>3. /\ DOMAIN at' = Actors /\ at'[Run] \in RunSteps /\ at'[Run] # "send"
        /\ \A a \in Streams \cup SignOuts : at'[a] = at[a]
    BY <2>2
  <2> QED
    BY <2>1, <2>2, <2>3
<1>13. CASE Resume
  <2>1. connection' \in BOOLEAN
    BY <1>13 DEF Resume
  <2>2. /\ UNCHANGED <<messengers, mutex, channels, lock, full, closed>>
        /\ UNCHANGED <<ref, left, todo, shutdown>>
        /\ at[Run] \notin {"send"} /\ \E step \in RunSteps \ {"send"} : Go(Run, step)
    BY <1>13 DEF Resume
  <2>3. /\ DOMAIN at' = Actors /\ at'[Run] \in RunSteps /\ at'[Run] # "send"
        /\ \A a \in Streams \cup SignOuts : at'[a] = at[a]
    BY <2>2
  <2> QED
    BY <2>1, <2>2, <2>3
<1>14. CASE RunFinds
  BY <1>14 DEF RunFinds
<1>15. CASE RunSends
  BY <1>15 DEF RunSends
<1>16. CASE Sent
  BY <1>16 DEF Sent
<1>17. CASE Stop
  BY <1>17 DEF Stop
<1>18. CASE BeginUnregisterAll
  <2>1. todo' \subseteq Users
    BY <1>18 DEF BeginUnregisterAll
  <2>2. /\ UNCHANGED <<messengers, connection, channels, lock, full, closed>>
        /\ UNCHANGED <<ref, left, shutdown>>
        /\ mutex' = Run /\ at[Run] = "stop" /\ Go(Run, "closing")
    BY <1>18 DEF BeginUnregisterAll
  <2>3. /\ DOMAIN at' = Actors /\ at'[Run] = "closing"
        /\ \A a \in Streams \cup SignOuts : at'[a] = at[a]
    BY <2>2
  <2>4. \A a \in Actors : (ref'[a] # None)
           = (at'[a] \in {"register", "close", "send", "sending"})
    BY <2>2, <2>3
  <2>5. todo' \subseteq Users /\ mutex' \in Streams \cup {Run, None}
    BY <2>1, <2>2
  <2>6. /\ \A s \in Streams : at'[s] \in StreamSteps
        /\ \A b \in SignOuts : at'[b] \in SignOutSteps
        /\ at'[Run] \in RunSteps
    BY <2>3
  <2> QED
    BY <2>2, <2>3, <2>4, <2>5, <2>6
<1>19. CASE CloseAll
  <2>1. PICK m \in Streams : /\ channels' = [channels EXCEPT ![m] = {}]
                         /\ closed' = closed \cup channels[m] /\ lock[m] = None
                         /\ todo' \subseteq todo
    BY <1>19, CloseAllEffect
  <2>2. UNCHANGED <<messengers, mutex, connection, lock, full, at, ref, left, shutdown>>
    BY <1>19 DEF CloseAll
  <2> QED
    BY <2>1, <2>2
<1>20. CASE EndUnregisterAll
  BY <1>20 DEF EndUnregisterAll
<1>21. CASE Shutdown
  BY <1>21 DEF Shutdown
<1>22. CASE UNCHANGED vars
  BY <1>22 DEF vars
<1> QED
  BY <1>1, <1>2, <1>3, <1>4, <1>5, <1>6, <1>7, <1>8, <1>9, <1>10, <1>11, <1>12,
     <1>13, <1>14, <1>15, <1>16, <1>17, <1>18, <1>19, <1>20, <1>21, <1>22
     DEF Next, StreamStep, SignOutStep, RunStep

\* Every step keeps the mutex of the manager with who waits with it.
LEMMA MutexStep ==
  TypeOK /\ TypeOK' /\ MutexInv /\ LockInv /\ [Next]_vars
    => MutexInv'
<1> SUFFICES ASSUME TypeOK, TypeOK', MutexInv, LockInv, [Next]_vars
             PROVE  MutexInv'
  OBVIOUS
<1> USE ActorsAssumption
        DEF Actors, Go, Ref, MessengerFree, managerVars, messengerVars, channelVars,
            TypeOK, MutexInv
<1>1. ASSUME NEW s \in Streams, Register(s) PROVE MutexInv'
  BY <1>1 DEF Register
<1>2. ASSUME NEW s \in Streams, AddChannel(s) PROVE MutexInv'
  BY <1>2 DEF AddChannel
<1>3. ASSUME NEW s \in Streams, Leave(s) PROVE MutexInv'
  BY <1>3 DEF Leave
<1>4. ASSUME NEW s \in Streams, Receive(s) PROVE MutexInv'
  BY <1>4 DEF Receive
<1>5. ASSUME NEW s \in Streams, Unregister(s) PROVE MutexInv'
  BY <1>5 DEF Unregister
<1>6. ASSUME NEW s \in Streams, Close(s) PROVE MutexInv'
  BY <1>6 DEF Close
<1>7. ASSUME NEW s \in Streams, Drain(s) PROVE MutexInv'
  BY <1>7 DEF Drain
<1>8. ASSUME NEW b \in SignOuts, Find(b) PROVE MutexInv'
  BY <1>8 DEF Find
<1>9. ASSUME NEW b \in SignOuts, Lock(b) PROVE MutexInv'
  BY <1>9 DEF Lock
<1>10. ASSUME NEW b \in SignOuts, Put(b) PROVE MutexInv'
  BY <1>10 DEF Put
<1>11. ASSUME NEW b \in SignOuts, Unlock(b) PROVE MutexInv'
  BY <1>11 DEF Unlock
<1>12. CASE Tick
  BY <1>12 DEF Tick
<1>13. CASE Resume
  BY <1>13 DEF Resume
<1>14. CASE RunFinds
  BY <1>14 DEF RunFinds
<1>15. CASE RunSends
  BY <1>15 DEF RunSends
<1>16. CASE Sent
  BY <1>16 DEF Sent
<1>17. CASE Stop
  BY <1>17 DEF Stop
<1>18. CASE BeginUnregisterAll
  BY <1>18 DEF BeginUnregisterAll
<1>19. CASE CloseAll
  BY <1>19 DEF CloseAll
<1>20. CASE EndUnregisterAll
  BY <1>20 DEF EndUnregisterAll
<1>21. CASE Shutdown
  BY <1>21 DEF Shutdown
<1>22. CASE UNCHANGED vars
  BY <1>22 DEF vars
<1> QED
  BY <1>1, <1>2, <1>3, <1>4, <1>5, <1>6, <1>7, <1>8, <1>9, <1>10, <1>11, <1>12,
     <1>13, <1>14, <1>15, <1>16, <1>17, <1>18, <1>19, <1>20, <1>21, <1>22
     DEF Next, StreamStep, SignOutStep, RunStep

\* Every step keeps the mutex of a messenger with the sign-out that waits.
LEMMA LockStep ==
  TypeOK /\ MutexInv /\ LockInv /\ [Next]_vars
    => LockInv'
<1> SUFFICES ASSUME TypeOK, MutexInv, LockInv, [Next]_vars
             PROVE  LockInv'
  OBVIOUS
<1> USE ActorsAssumption
        DEF Actors, Go, Ref, MessengerFree, managerVars, messengerVars, channelVars,
            TypeOK, MutexInv, LockInv
<1>1. ASSUME NEW s \in Streams, Register(s) PROVE LockInv'
  BY <1>1 DEF Register
<1>2. ASSUME NEW s \in Streams, AddChannel(s) PROVE LockInv'
  BY <1>2 DEF AddChannel
<1>3. ASSUME NEW s \in Streams, Leave(s) PROVE LockInv'
  BY <1>3 DEF Leave
<1>4. ASSUME NEW s \in Streams, Receive(s) PROVE LockInv'
  BY <1>4 DEF Receive
<1>5. ASSUME NEW s \in Streams, Unregister(s) PROVE LockInv'
  BY <1>5 DEF Unregister
<1>6. ASSUME NEW s \in Streams, Close(s) PROVE LockInv'
  BY <1>6 DEF Close
<1>7. ASSUME NEW s \in Streams, Drain(s) PROVE LockInv'
  BY <1>7 DEF Drain
<1>8. ASSUME NEW b \in SignOuts, Find(b) PROVE LockInv'
  BY <1>8 DEF Find
<1>9. ASSUME NEW b \in SignOuts, Lock(b) PROVE LockInv'
  BY <1>9 DEF Lock
<1>10. ASSUME NEW b \in SignOuts, Put(b) PROVE LockInv'
  BY <1>10 DEF Put
<1>11. ASSUME NEW b \in SignOuts, Unlock(b) PROVE LockInv'
  BY <1>11 DEF Unlock
<1>12. CASE Tick
  BY <1>12 DEF Tick
<1>13. CASE Resume
  BY <1>13 DEF Resume
<1>14. CASE RunFinds
  BY <1>14 DEF RunFinds
<1>15. CASE RunSends
  BY <1>15 DEF RunSends
<1>16. CASE Sent
  BY <1>16 DEF Sent
<1>17. CASE Stop
  BY <1>17 DEF Stop
<1>18. CASE BeginUnregisterAll
  BY <1>18 DEF BeginUnregisterAll
<1>19. CASE CloseAll
  BY <1>19 DEF CloseAll
<1>20. CASE EndUnregisterAll
  BY <1>20 DEF EndUnregisterAll
<1>21. CASE Shutdown
  BY <1>21 DEF Shutdown
<1>22. CASE UNCHANGED vars
  BY <1>22 DEF vars
<1> QED
  BY <1>1, <1>2, <1>3, <1>4, <1>5, <1>6, <1>7, <1>8, <1>9, <1>10, <1>11, <1>12,
     <1>13, <1>14, <1>15, <1>16, <1>17, <1>18, <1>19, <1>20, <1>21, <1>22
     DEF Next, StreamStep, SignOutStep, RunStep

\* Every step keeps channels with one messenger.
LEMMA ChannelStep ==
  TypeOK /\ MutexInv /\ ChannelInv /\ [Next]_vars
    => ChannelInv'
<1> SUFFICES ASSUME TypeOK, MutexInv, ChannelInv, [Next]_vars
             PROVE  ChannelInv'
  OBVIOUS
<1> USE ActorsAssumption
        DEF Actors, Go, Ref, MessengerFree, managerVars, messengerVars, channelVars,
            TypeOK, MutexInv, ChannelInv
<1>1. ASSUME NEW s \in Streams, Register(s) PROVE ChannelInv'
  BY <1>1 DEF Register
<1>2. ASSUME NEW s \in Streams, AddChannel(s) PROVE ChannelInv'
  BY <1>2 DEF AddChannel
<1>3. ASSUME NEW s \in Streams, Leave(s) PROVE ChannelInv'
  BY <1>3 DEF Leave
<1>4. ASSUME NEW s \in Streams, Receive(s) PROVE ChannelInv'
  BY <1>4 DEF Receive
<1>5. ASSUME NEW s \in Streams, Unregister(s) PROVE ChannelInv'
  BY <1>5 DEF Unregister
<1>6. ASSUME NEW s \in Streams, Close(s) PROVE ChannelInv'
  BY <1>6 DEF Close
<1>7. ASSUME NEW s \in Streams, Drain(s) PROVE ChannelInv'
  BY <1>7 DEF Drain
<1>8. ASSUME NEW b \in SignOuts, Find(b) PROVE ChannelInv'
  BY <1>8 DEF Find
<1>9. ASSUME NEW b \in SignOuts, Lock(b) PROVE ChannelInv'
  BY <1>9 DEF Lock
<1>10. ASSUME NEW b \in SignOuts, Put(b) PROVE ChannelInv'
  BY <1>10 DEF Put
<1>11. ASSUME NEW b \in SignOuts, Unlock(b) PROVE ChannelInv'
  BY <1>11 DEF Unlock
<1>12. CASE Tick
  BY <1>12 DEF Tick
<1>13. CASE Resume
  BY <1>13 DEF Resume
<1>14. CASE RunFinds
  BY <1>14 DEF RunFinds
<1>15. CASE RunSends
  BY <1>15 DEF RunSends
<1>16. CASE Sent
  BY <1>16 DEF Sent
<1>17. CASE Stop
  BY <1>17 DEF Stop
<1>18. CASE BeginUnregisterAll
  BY <1>18 DEF BeginUnregisterAll
<1>19. CASE CloseAll
  <2>1. PICK m \in Streams : /\ channels' = [channels EXCEPT ![m] = {}]
                         /\ closed' = closed \cup channels[m] /\ lock[m] = None
                         /\ todo' \subseteq todo
    BY <1>19, CloseAllEffect
  <2>2. UNCHANGED <<messengers, mutex, connection, lock, full, at, ref, left, shutdown>>
    BY <1>19 DEF CloseAll
  <2> QED
    BY <2>1, <2>2
<1>20. CASE EndUnregisterAll
  BY <1>20 DEF EndUnregisterAll
<1>21. CASE Shutdown
  BY <1>21 DEF Shutdown
<1>22. CASE UNCHANGED vars
  BY <1>22 DEF vars
<1> QED
  BY <1>1, <1>2, <1>3, <1>4, <1>5, <1>6, <1>7, <1>8, <1>9, <1>10, <1>11, <1>12,
     <1>13, <1>14, <1>15, <1>16, <1>17, <1>18, <1>19, <1>20, <1>21, <1>22
     DEF Next, StreamStep, SignOutStep, RunStep

\* Every step keeps messengers with their users.
LEMMA UserStep ==
  TypeOK /\ UserInv /\ [Next]_vars
    => UserInv'
<1> SUFFICES ASSUME TypeOK, UserInv, [Next]_vars
             PROVE  UserInv'
  OBVIOUS
<1> USE ActorsAssumption
        DEF Actors, Go, Ref, MessengerFree, managerVars, messengerVars, channelVars,
            TypeOK, UserInv
<1>1. ASSUME NEW s \in Streams, Register(s) PROVE UserInv'
  BY <1>1 DEF Register
<1>2. ASSUME NEW s \in Streams, AddChannel(s) PROVE UserInv'
  BY <1>2 DEF AddChannel
<1>3. ASSUME NEW s \in Streams, Leave(s) PROVE UserInv'
  BY <1>3 DEF Leave
<1>4. ASSUME NEW s \in Streams, Receive(s) PROVE UserInv'
  BY <1>4 DEF Receive
<1>5. ASSUME NEW s \in Streams, Unregister(s) PROVE UserInv'
  BY <1>5 DEF Unregister
<1>6. ASSUME NEW s \in Streams, Close(s) PROVE UserInv'
  BY <1>6 DEF Close
<1>7. ASSUME NEW s \in Streams, Drain(s) PROVE UserInv'
  BY <1>7 DEF Drain
<1>8. ASSUME NEW b \in SignOuts, Find(b) PROVE UserInv'
  BY <1>8 DEF Find
<1>9. ASSUME NEW b \in SignOuts, Lock(b) PROVE UserInv'
  BY <1>9 DEF Lock
<1>10. ASSUME NEW b \in SignOuts, Put(b) PROVE UserInv'
  BY <1>10 DEF Put
<1>11. ASSUME NEW b \in SignOuts, Unlock(b) PROVE UserInv'
  BY <1>11 DEF Unlock
<1>12. CASE Tick
  BY <1>12 DEF Tick
<1>13. CASE Resume
  BY <1>13 DEF Resume
<1>14. CASE RunFinds
  BY <1>14 DEF RunFinds
<1>15. CASE RunSends
  BY <1>15 DEF RunSends
<1>16. CASE Sent
  BY <1>16 DEF Sent
<1>17. CASE Stop
  BY <1>17 DEF Stop
<1>18. CASE BeginUnregisterAll
  BY <1>18 DEF BeginUnregisterAll
<1>19. CASE CloseAll
  BY <1>19 DEF CloseAll
<1>20. CASE EndUnregisterAll
  BY <1>20 DEF EndUnregisterAll
<1>21. CASE Shutdown
  BY <1>21 DEF Shutdown
<1>22. CASE UNCHANGED vars
  BY <1>22 DEF vars
<1> QED
  BY <1>1, <1>2, <1>3, <1>4, <1>5, <1>6, <1>7, <1>8, <1>9, <1>10, <1>11, <1>12,
     <1>13, <1>14, <1>15, <1>16, <1>17, <1>18, <1>19, <1>20, <1>21, <1>22
     DEF Next, StreamStep, SignOutStep, RunStep

\* Every step keeps the channels of messengers open.
LEMMA OpenStep ==
  TypeOK /\ MutexInv /\ LockInv /\ ChannelInv /\ OnlyOpenChannels /\ [Next]_vars
    => OnlyOpenChannels'
<1> SUFFICES ASSUME TypeOK, MutexInv, LockInv, ChannelInv, OnlyOpenChannels, [Next]_vars
             PROVE  OnlyOpenChannels'
  OBVIOUS
<1> USE ActorsAssumption
        DEF Actors, Go, Ref, MessengerFree, managerVars, messengerVars, channelVars,
            TypeOK, MutexInv, LockInv, ChannelInv, OnlyOpenChannels
<1>1. ASSUME NEW s \in Streams, Register(s) PROVE OnlyOpenChannels'
  BY <1>1 DEF Register
<1>2. ASSUME NEW s \in Streams, AddChannel(s) PROVE OnlyOpenChannels'
  BY <1>2 DEF AddChannel
<1>3. ASSUME NEW s \in Streams, Leave(s) PROVE OnlyOpenChannels'
  BY <1>3 DEF Leave
<1>4. ASSUME NEW s \in Streams, Receive(s) PROVE OnlyOpenChannels'
  BY <1>4 DEF Receive
<1>5. ASSUME NEW s \in Streams, Unregister(s) PROVE OnlyOpenChannels'
  BY <1>5 DEF Unregister
<1>6. ASSUME NEW s \in Streams, Close(s) PROVE OnlyOpenChannels'
  BY <1>6 DEF Close
<1>7. ASSUME NEW s \in Streams, Drain(s) PROVE OnlyOpenChannels'
  BY <1>7 DEF Drain
<1>8. ASSUME NEW b \in SignOuts, Find(b) PROVE OnlyOpenChannels'
  BY <1>8 DEF Find
<1>9. ASSUME NEW b \in SignOuts, Lock(b) PROVE OnlyOpenChannels'
  BY <1>9 DEF Lock
<1>10. ASSUME NEW b \in SignOuts, Put(b) PROVE OnlyOpenChannels'
  BY <1>10 DEF Put
<1>11. ASSUME NEW b \in SignOuts, Unlock(b) PROVE OnlyOpenChannels'
  BY <1>11 DEF Unlock
<1>12. CASE Tick
  BY <1>12 DEF Tick
<1>13. CASE Resume
  BY <1>13 DEF Resume
<1>14. CASE RunFinds
  BY <1>14 DEF RunFinds
<1>15. CASE RunSends
  BY <1>15 DEF RunSends
<1>16. CASE Sent
  BY <1>16 DEF Sent
<1>17. CASE Stop
  BY <1>17 DEF Stop
<1>18. CASE BeginUnregisterAll
  BY <1>18 DEF BeginUnregisterAll
<1>19. CASE CloseAll
  <2>1. PICK m \in Streams : /\ channels' = [channels EXCEPT ![m] = {}]
                         /\ closed' = closed \cup channels[m] /\ lock[m] = None
                         /\ todo' \subseteq todo
    BY <1>19, CloseAllEffect
  <2>2. UNCHANGED <<messengers, mutex, connection, lock, full, at, ref, left, shutdown>>
    BY <1>19 DEF CloseAll
  <2> QED
    BY <2>1, <2>2
<1>20. CASE EndUnregisterAll
  BY <1>20 DEF EndUnregisterAll
<1>21. CASE Shutdown
  BY <1>21 DEF Shutdown
<1>22. CASE UNCHANGED vars
  BY <1>22 DEF vars
<1> QED
  BY <1>1, <1>2, <1>3, <1>4, <1>5, <1>6, <1>7, <1>8, <1>9, <1>10, <1>11, <1>12,
     <1>13, <1>14, <1>15, <1>16, <1>17, <1>18, <1>19, <1>20, <1>21, <1>22
     DEF Next, StreamStep, SignOutStep, RunStep

\* Every step keeps Run awake or about to wake.
LEMMA PauseStep ==
  TypeOK /\ PauseIsNoticed /\ [Next]_vars
    => PauseIsNoticed'
<1> SUFFICES ASSUME TypeOK, PauseIsNoticed, [Next]_vars
             PROVE  PauseIsNoticed'
  OBVIOUS
<1> USE ActorsAssumption
        DEF Actors, Go, Ref, MessengerFree, managerVars, messengerVars, channelVars,
            TypeOK, PauseIsNoticed
<1>1. ASSUME NEW s \in Streams, Register(s) PROVE PauseIsNoticed'
  BY <1>1 DEF Register
<1>2. ASSUME NEW s \in Streams, AddChannel(s) PROVE PauseIsNoticed'
  BY <1>2 DEF AddChannel
<1>3. ASSUME NEW s \in Streams, Leave(s) PROVE PauseIsNoticed'
  BY <1>3 DEF Leave
<1>4. ASSUME NEW s \in Streams, Receive(s) PROVE PauseIsNoticed'
  BY <1>4 DEF Receive
<1>5. ASSUME NEW s \in Streams, Unregister(s) PROVE PauseIsNoticed'
  BY <1>5 DEF Unregister
<1>6. ASSUME NEW s \in Streams, Close(s) PROVE PauseIsNoticed'
  BY <1>6 DEF Close
<1>7. ASSUME NEW s \in Streams, Drain(s) PROVE PauseIsNoticed'
  BY <1>7 DEF Drain
<1>8. ASSUME NEW b \in SignOuts, Find(b) PROVE PauseIsNoticed'
  BY <1>8 DEF Find
<1>9. ASSUME NEW b \in SignOuts, Lock(b) PROVE PauseIsNoticed'
  BY <1>9 DEF Lock
<1>10. ASSUME NEW b \in SignOuts, Put(b) PROVE PauseIsNoticed'
  BY <1>10 DEF Put
<1>11. ASSUME NEW b \in SignOuts, Unlock(b) PROVE PauseIsNoticed'
  BY <1>11 DEF Unlock
<1>12. CASE Tick
  BY <1>12 DEF Tick
<1>13. CASE Resume
  BY <1>13 DEF Resume
<1>14. CASE RunFinds
  BY <1>14 DEF RunFinds
<1>15. CASE RunSends
  BY <1>15 DEF RunSends
<1>16. CASE Sent
  BY <1>16 DEF Sent
<1>17. CASE Stop
  BY <1>17 DEF Stop
<1>18. CASE BeginUnregisterAll
  BY <1>18 DEF BeginUnregisterAll
<1>19. CASE CloseAll
  BY <1>19 DEF CloseAll
<1>20. CASE EndUnregisterAll
  BY <1>20 DEF EndUnregisterAll
<1>21. CASE Shutdown
  BY <1>21 DEF Shutdown
<1>22. CASE UNCHANGED vars
  BY <1>22 DEF vars
<1> QED
  BY <1>1, <1>2, <1>3, <1>4, <1>5, <1>6, <1>7, <1>8, <1>9, <1>10, <1>11, <1>12,
     <1>13, <1>14, <1>15, <1>16, <1>17, <1>18, <1>19, <1>20, <1>21, <1>22
     DEF Next, StreamStep, SignOutStep, RunStep

\* Every step keeps no messenger for nobody.
LEMMA UsedStep ==
  TypeOK /\ MutexInv /\ UserInv /\ MessengersAreUsed /\ [Next]_vars
    => MessengersAreUsed'
<1> SUFFICES ASSUME TypeOK, MutexInv, UserInv, MessengersAreUsed, [Next]_vars
             PROVE  MessengersAreUsed'
  OBVIOUS
<1> USE ActorsAssumption
        DEF Actors, Go, Ref, MessengerFree, managerVars, messengerVars, channelVars,
            TypeOK, MutexInv, UserInv, MessengersAreUsed
<1>1. ASSUME NEW s \in Streams, Register(s) PROVE MessengersAreUsed'
  BY <1>1 DEF Register
<1>2. ASSUME NEW s \in Streams, AddChannel(s) PROVE MessengersAreUsed'
  <2>1. ref[s] \in Streams
    BY <1>2 DEF AddChannel
  <2>2. channels' = [channels EXCEPT ![ref[s]] = channels[ref[s]] \cup {s}]
    BY <1>2 DEF AddChannel
  <2>3. s \in channels'[ref[s]]
    BY <2>1, <2>2
  <2>4. \A m \in Streams : channels[m] \subseteq channels'[m]
    BY <2>1, <2>2
  <2>5. UNCHANGED messengers /\ at'[Run] = at[Run]
    BY <1>2 DEF AddChannel
  <2>6. \A r \in Streams \ {s} : at'[r] = at[r] /\ ref'[r] = ref[r]
    BY <1>2 DEF AddChannel
  <2> SUFFICES ASSUME NEW u \in Users, messengers[u] # None, at[Run] # "closing"
               PROVE  \/ channels'[messengers[u]] # {}
                      \/ \E r \in Streams : at'[r] = "register" /\ ref'[r] = messengers[u]
    BY <2>5
  <2>7. messengers[u] \in Streams
    OBVIOUS
  <2>8. CASE channels[messengers[u]] # {}
    BY <2>4, <2>7, <2>8
  <2>9. CASE \E r \in Streams : at[r] = "register" /\ ref[r] = messengers[u]
    BY <2>3, <2>6, <2>9
  <2> QED
    BY <2>8, <2>9
<1>3. ASSUME NEW s \in Streams, Leave(s) PROVE MessengersAreUsed'
  BY <1>3 DEF Leave
<1>4. ASSUME NEW s \in Streams, Receive(s) PROVE MessengersAreUsed'
  BY <1>4 DEF Receive
<1>5. ASSUME NEW s \in Streams, Unregister(s) PROVE MessengersAreUsed'
  BY <1>5 DEF Unregister
<1>6. ASSUME NEW s \in Streams, Close(s) PROVE MessengersAreUsed'
  BY <1>6 DEF Close
<1>7. ASSUME NEW s \in Streams, Drain(s) PROVE MessengersAreUsed'
  BY <1>7 DEF Drain
<1>8. ASSUME NEW b \in SignOuts, Find(b) PROVE MessengersAreUsed'
  BY <1>8 DEF Find
<1>9. ASSUME NEW b \in SignOuts, Lock(b) PROVE MessengersAreUsed'
  BY <1>9 DEF Lock
<1>10. ASSUME NEW b \in SignOuts, Put(b) PROVE MessengersAreUsed'
  BY <1>10 DEF Put
<1>11. ASSUME NEW b \in SignOuts, Unlock(b) PROVE MessengersAreUsed'
  BY <1>11 DEF Unlock
<1>12. CASE Tick
  BY <1>12 DEF Tick
<1>13. CASE Resume
  BY <1>13 DEF Resume
<1>14. CASE RunFinds
  BY <1>14 DEF RunFinds
<1>15. CASE RunSends
  BY <1>15 DEF RunSends
<1>16. CASE Sent
  BY <1>16 DEF Sent
<1>17. CASE Stop
  BY <1>17 DEF Stop
<1>18. CASE BeginUnregisterAll
  BY <1>18 DEF BeginUnregisterAll
<1>19. CASE CloseAll
  BY <1>19 DEF CloseAll
<1>20. CASE EndUnregisterAll
  BY <1>20 DEF EndUnregisterAll
<1>21. CASE Shutdown
  BY <1>21 DEF Shutdown
<1>22. CASE UNCHANGED vars
  BY <1>22 DEF vars
<1> QED
  BY <1>1, <1>2, <1>3, <1>4, <1>5, <1>6, <1>7, <1>8, <1>9, <1>10, <1>11, <1>12,
     <1>13, <1>14, <1>15, <1>16, <1>17, <1>18, <1>19, <1>20, <1>21, <1>22
     DEF Next, StreamStep, SignOutStep, RunStep

\* No step forgets a channel but those that may.
LEMMA ListedStep ==
  TypeOK /\ MutexInv /\ [Next]_vars
    => ListedKept
<1> SUFFICES ASSUME TypeOK, MutexInv, [Next]_vars
             PROVE  ListedKept
  OBVIOUS
<1> USE ActorsAssumption
        DEF Actors, Go, Ref, MessengerFree, managerVars, messengerVars, channelVars,
            TypeOK, MutexInv, ListedKept, Forgotten
<1>1. ASSUME NEW s \in Streams, Register(s) PROVE ListedKept
  BY <1>1 DEF Register
<1>2. ASSUME NEW s \in Streams, AddChannel(s) PROVE ListedKept
  BY <1>2 DEF AddChannel
<1>3. ASSUME NEW s \in Streams, Leave(s) PROVE ListedKept
  BY <1>3 DEF Leave
<1>4. ASSUME NEW s \in Streams, Receive(s) PROVE ListedKept
  BY <1>4 DEF Receive
<1>5. ASSUME NEW s \in Streams, Unregister(s) PROVE ListedKept
  BY <1>5 DEF Unregister
<1>6. ASSUME NEW s \in Streams, Close(s) PROVE ListedKept
  BY <1>6 DEF Close
<1>7. ASSUME NEW s \in Streams, Drain(s) PROVE ListedKept
  BY <1>7 DEF Drain
<1>8. ASSUME NEW b \in SignOuts, Find(b) PROVE ListedKept
  BY <1>8 DEF Find
<1>9. ASSUME NEW b \in SignOuts, Lock(b) PROVE ListedKept
  BY <1>9 DEF Lock
<1>10. ASSUME NEW b \in SignOuts, Put(b) PROVE ListedKept
  BY <1>10 DEF Put
<1>11. ASSUME NEW b \in SignOuts, Unlock(b) PROVE ListedKept
  BY <1>11 DEF Unlock
<1>12. CASE Tick
  BY <1>12 DEF Tick
<1>13. CASE Resume
  BY <1>13 DEF Resume
<1>14. CASE RunFinds
  BY <1>14 DEF RunFinds
<1>15. CASE RunSends
  BY <1>15 DEF RunSends
<1>16. CASE Sent
  BY <1>16 DEF Sent
<1>17. CASE Stop
  BY <1>17 DEF Stop
<1>18. CASE BeginUnregisterAll
  BY <1>18 DEF BeginUnregisterAll
<1>19. CASE CloseAll
  BY <1>19 DEF CloseAll
<1>20. CASE EndUnregisterAll
  BY <1>20 DEF EndUnregisterAll
<1>21. CASE Shutdown
  BY <1>21 DEF Shutdown
<1>22. CASE UNCHANGED vars
  BY <1>22 DEF vars
<1> QED
  BY <1>1, <1>2, <1>3, <1>4, <1>5, <1>6, <1>7, <1>8, <1>9, <1>10, <1>11, <1>12,
     <1>13, <1>14, <1>15, <1>16, <1>17, <1>18, <1>19, <1>20, <1>21, <1>22
     DEF Next, StreamStep, SignOutStep, RunStep

\* The invariant holds at the start.
LEMMA InitInv == Init => Inv
<1> SUFFICES ASSUME Init PROVE Inv
  OBVIOUS
<1> USE ActorsAssumption DEF Init, Actors
<1>1. TypeOK
  <2>1. /\ \A a \in Streams \cup SignOuts : at[a] = "idle"
        /\ at[Run] = "wait" /\ DOMAIN at = Actors
    OBVIOUS
  <2>2. /\ \A s \in Streams : at[s] \in StreamSteps
        /\ \A b \in SignOuts : at[b] \in SignOutSteps
        /\ at[Run] \in RunSteps
    BY <2>1 DEF StreamSteps, SignOutSteps, RunSteps
  <2>3. \A a \in Actors :
          (ref[a] # None) = (at[a] \in {"register", "close", "send", "sending"})
    BY <2>1
  <2>4. connection \in BOOLEAN /\ shutdown \in BOOLEAN
    OBVIOUS
  <2>5. /\ messengers \in [Users -> Streams \cup {None}] /\ mutex = None
        /\ channels \in [Streams -> SUBSET Streams]
        /\ lock \in [Streams -> SignOuts \cup {None}]
        /\ ref \in [Actors -> Streams \cup {None}]
        /\ left \in [SignOuts -> SUBSET Streams]
        /\ full = {} /\ closed = {} /\ todo = {}
    OBVIOUS
  <2> QED
    BY <2>1, <2>2, <2>3, <2>4, <2>5 DEF TypeOK
<1>2. MutexInv /\ LockInv
  BY DEF MutexInv, LockInv
<1>3. ChannelInv /\ UserInv
  BY DEF ChannelInv, UserInv
<1>4. OnlyOpenChannels /\ PauseIsNoticed /\ MessengersAreUsed
  BY DEF OnlyOpenChannels, PauseIsNoticed, MessengersAreUsed
<1> QED
  BY <1>1, <1>2, <1>3, <1>4 DEF Inv

\* Every step keeps the invariant.
LEMMA StepInv ==
  Inv /\ [Next]_vars
    => Inv'
BY TypeStep, MutexStep, LockStep, ChannelStep, UserStep, OpenStep, PauseStep, UsedStep
   DEF Inv

\* The invariant holds of every behaviour.
LEMMA InvAlways == Spec => []Inv
BY InitInv, StepInv, PTL DEF Spec

\* The types, with any number of users, streams and sign-outs: a request
\* refers to a messenger just when it is at a step that uses one.
THEOREM TypeCorrect == Spec => []TypeOK
<1>1. Inv => TypeOK
  BY DEF Inv
<1> QED
  BY <1>1, InvAlways, PTL

\* No event is sent on a closed channel, and no channel is closed twice
\* (messenger.go:35-77), whatever requests hold a messenger that others
\* forget or UnregisterAll empties.
THEOREM OnlyOpenChannelsAlways == Spec => []OnlyOpenChannels
<1>1. Inv => OnlyOpenChannels
  BY DEF Inv
<1> QED
  BY <1>1, InvAlways, PTL

\* Run does not sleep while there is a messenger, unless it has been told
\* of a registration (manager_run.go:47-63).
THEOREM PauseIsNoticedAlways == Spec => []PauseIsNoticed
<1>1. Inv => PauseIsNoticed
  BY DEF Inv
<1> QED
  BY <1>1, InvAlways, PTL

\* A messenger that is kept has a channel or is about to get one
\* (manager.go:33-60, messenger.go:36-47).
THEOREM MessengersAreUsedAlways == Spec => []MessengersAreUsed
<1>1. Inv => MessengersAreUsed
  BY DEF Inv
<1> QED
  BY <1>1, InvAlways, PTL

\* A registered channel stays where it is found: Unregister holds the mutex
\* of the manager while the messenger tells it that it is empty, and deletes
\* the one it asked (manager.go:49-60).
THEOREM ListedIsKeptAlways == Spec => ListedIsKept
<1>1. Inv /\ [Next]_vars
        => [\A s \in Streams :
              Forgotten(s)' => Forgotten(s) \/ at[s] = "register" \/ at[Run] = "closing"]_vars
  BY ListedStep DEF Inv, ListedKept
<1> QED
  BY <1>1, InvAlways, PTL DEF Spec, ListedIsKept

=============================================================================
