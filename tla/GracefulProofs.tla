--------------------------- MODULE GracefulProofs ---------------------------
(***************************************************************************)
(* Theorems about Graceful, for any servers, tasks, functions, callers and *)
(* any number of connections: type correctness, that a server ends without *)
(* connections, and that nothing is in use when the termination begins.    *)
(***************************************************************************)
EXTENDS Graceful, TLAPS

(* Between RegisterServer and ServerDone, and only there, a server is in   *)
(* the wait group.                                                         *)
ServingIsRegistered ==
  \A s \in Servers :
    s \in running <=>
      serve[s] \in {"serving", "accepted", "draining", "drained"}

(* Until the hammer resets it, the count of a server's connections is      *)
(* short by one for each call of Close on a closed one, and it is never    *)
(* above the truth.                                                        *)
CountIsKnown ==
  \A s \in Servers :
    /\ s \notin cut => counter[s] = conns[s] - again[s]
    /\ conns[s] - wrapped[s] - again[s] <= counter[s]
    /\ counter[s] <= conns[s] /\ conns[s] <= wrapped[s]
    /\ serve[s] = "accepted" => wrapped[s] < MaxConns

(* A server has no connection before it serves; once it drained, it has    *)
(* those given up, or one for each call of Close on a closed one.          *)
OthersAreEmpty ==
  \A s \in Servers :
    /\ serve[s] \in {"new", "listening", "starting"} => conns[s] = 0
    /\ serve[s] \in {"drained", "done"} => conns[s] <= again[s] \/ s \in cut

(* One caller of doShutdown begins the shutdown, and only once. *)
OneBegins ==
  /\ state = "running" => waiter = "none"
  /\ \A k \in Callers :
       caller[k] = "won" => /\ state # "running" /\ waiter = "none"
                            /\ \A j \in Callers : caller[j] = "won" => j = k

(* After the wait for the servers only those are registered that joined    *)
(* too late, and the termination comes after that wait.                    *)
OnlyTardyAreLeft ==
  /\ waiter \notin {"none", "wait"} => running \subseteq tardy
  /\ terminate => waiter \in {"last", "over"}

GracefulInv ==
  /\ ServingIsRegistered /\ CountIsKnown /\ OthersAreEmpty /\ OneBegins
  /\ OnlyTardyAreLeft

-----------------------------------------------------------------------------
\* Every step keeps the types; the counts stay in their ranges because of
\* what they count.
LEMMA TypeStep ==
  TypeOK /\ CountIsKnown /\ [Next]_vars => TypeOK'
<1> SUFFICES ASSUME TypeOK, CountIsKnown, [Next]_vars
             PROVE  TypeOK'
  OBVIOUS
<1> USE GracefulAssumption
    DEF TypeOK, CountIsKnown, Tasks, mgrVars, srvVars, connVars, taskVars,
        Server, ServerTo
<1>1. ASSUME NEW k \in Callers, DoShutdown(k)
      PROVE  TypeOK'
  <2>1. calls' \in 0 .. MaxCalls
    BY <1>1 DEF DoShutdown
  <2>2. /\ state' \in {"running", "shuttingDown", "terminate"}
        /\ hammer' \in BOOLEAN
    BY <1>1 DEF DoShutdown
  <2>3. caller' \in [Callers -> {"idle", "won"}]
    BY <1>1 DEF DoShutdown
  <2> QED
    BY <1>1, <2>1, <2>2, <2>3 DEF DoShutdown
<1>2. CASE ImmediateHammer
  BY <1>2 DEF ImmediateHammer
<1>3. ASSUME NEW k \in Callers, BeginShutdown(k)
      PROVE  TypeOK'
  BY <1>3 DEF BeginShutdown
<1>4. CASE HammerTime
  BY <1>4 DEF HammerTime
<1>5. CASE ServersOver
  BY <1>5 DEF ServersOver
<1>6. CASE DoTerminate
  BY <1>6 DEF DoTerminate
<1>7. CASE FunctionsOver
  BY <1>7 DEF FunctionsOver
<1>8. ASSUME NEW t \in Tasks, ListCancel(t)
      PROVE  TypeOK'
  BY <1>8 DEF ListCancel
<1>9. ASSUME NEW t \in Tasks, StartTask(t)
      PROVE  TypeOK'
  BY <1>9 DEF StartTask, Join
<1>10. ASSUME NEW t \in Tasks, EndTask(t)
      PROVE  TypeOK'
  BY <1>10 DEF EndTask
<1>11. ASSUME NEW f \in Functions, AddFunction(f)
      PROVE  TypeOK'
  BY <1>11 DEF AddFunction
<1>12. ASSUME NEW f \in Functions, ListFunction(f)
      PROVE  TypeOK'
  BY <1>12 DEF ListFunction
<1>13. ASSUME NEW f \in Functions, EndFunction(f)
      PROVE  TypeOK'
  BY <1>13 DEF EndFunction
<1>14. ASSUME NEW s \in Servers, Listen(s)
      PROVE  TypeOK'
  BY <1>14 DEF Listen
<1>15. ASSUME NEW s \in Servers, Accept(s)
      PROVE  TypeOK'
  BY <1>15 DEF Accept
<1>16. ASSUME NEW s \in Servers, CloseConnection(s)
      PROVE  TypeOK'
  BY <1>16 DEF CloseConnection
<1>17. ASSUME NEW s \in Servers, SetRunning(s)
      PROVE  TypeOK'
  BY <1>17 DEF SetRunning
<1>18. ASSUME NEW s \in Servers, Register(s)
      PROVE  TypeOK'
  BY <1>18 DEF Register, Join
<1>19. ASSUME NEW s \in Servers, WrapConnection(s)
      PROVE  TypeOK'
  BY <1>19 DEF WrapConnection
<1>20. ASSUME NEW s \in Servers, ServeReturns(s)
      PROVE  TypeOK'
  BY <1>20 DEF ServeReturns
<1>21. ASSUME NEW s \in Servers, Drain(s)
      PROVE  TypeOK'
  BY <1>21 DEF Drain
<1>22. ASSUME NEW s \in Servers, ServerDone(s)
      PROVE  TypeOK'
  BY <1>22 DEF ServerDone
<1>23. ASSUME NEW s \in Servers, AwaitShutdown(s)
      PROVE  TypeOK'
  BY <1>23 DEF AwaitShutdown
<1>24. ASSUME NEW s \in Servers, CloseListener(s)
      PROVE  TypeOK'
  BY <1>24 DEF CloseListener
<1>25. ASSUME NEW s \in Servers, Hammer(s)
      PROVE  TypeOK'
  BY <1>25 DEF Hammer
<1>26. CASE UNCHANGED vars
  BY <1>26 DEF vars
<1>27. ASSUME NEW s \in Servers, CloseAgain(s)
      PROVE  TypeOK'
  BY <1>27 DEF CloseAgain
<1> QED
  BY <1>1, <1>2, <1>3, <1>4, <1>5, <1>6, <1>7, <1>8, <1>9, <1>10, <1>11,
     <1>12, <1>13, <1>14, <1>15, <1>16, <1>17, <1>18, <1>19, <1>20, <1>21,
     <1>22, <1>23, <1>24, <1>25, <1>26, <1>27
     DEF Next, ManagerStep, FunctionStep, ServerStep, WatchStep

\* What a server's goroutine is at agrees with the wait group, the count and
\* the connections.
LEMMA ServersStep ==
  TypeOK /\ ServingIsRegistered /\ CountIsKnown /\ OthersAreEmpty
    /\ [Next]_vars => (ServingIsRegistered /\ CountIsKnown /\ OthersAreEmpty)'
<1> SUFFICES ASSUME TypeOK, ServingIsRegistered, CountIsKnown, OthersAreEmpty,
                    [Next]_vars
             PROVE  (ServingIsRegistered /\ CountIsKnown /\ OthersAreEmpty)'
  OBVIOUS
<1> USE GracefulAssumption
    DEF TypeOK, ServingIsRegistered, CountIsKnown, OthersAreEmpty, Tasks,
        mgrVars, srvVars, connVars, taskVars,
            Server, ServerTo
<1>1. ASSUME NEW k \in Callers, DoShutdown(k)
      PROVE  (ServingIsRegistered /\ CountIsKnown /\ OthersAreEmpty)'
  BY <1>1 DEF DoShutdown
<1>2. CASE ImmediateHammer
  BY <1>2 DEF ImmediateHammer
<1>3. ASSUME NEW k \in Callers, BeginShutdown(k)
      PROVE  (ServingIsRegistered /\ CountIsKnown /\ OthersAreEmpty)'
  BY <1>3 DEF BeginShutdown
<1>4. CASE HammerTime
  BY <1>4 DEF HammerTime
<1>5. CASE ServersOver
  BY <1>5 DEF ServersOver
<1>6. CASE DoTerminate
  BY <1>6 DEF DoTerminate
<1>7. CASE FunctionsOver
  BY <1>7 DEF FunctionsOver
<1>8. ASSUME NEW t \in Tasks, ListCancel(t)
      PROVE  (ServingIsRegistered /\ CountIsKnown /\ OthersAreEmpty)'
  BY <1>8 DEF ListCancel
<1>9. ASSUME NEW t \in Tasks, StartTask(t)
      PROVE  (ServingIsRegistered /\ CountIsKnown /\ OthersAreEmpty)'
  BY <1>9 DEF StartTask, Join
<1>10. ASSUME NEW t \in Tasks, EndTask(t)
      PROVE  (ServingIsRegistered /\ CountIsKnown /\ OthersAreEmpty)'
  BY <1>10 DEF EndTask
<1>11. ASSUME NEW f \in Functions, AddFunction(f)
      PROVE  (ServingIsRegistered /\ CountIsKnown /\ OthersAreEmpty)'
  BY <1>11 DEF AddFunction
<1>12. ASSUME NEW f \in Functions, ListFunction(f)
      PROVE  (ServingIsRegistered /\ CountIsKnown /\ OthersAreEmpty)'
  BY <1>12 DEF ListFunction
<1>13. ASSUME NEW f \in Functions, EndFunction(f)
      PROVE  (ServingIsRegistered /\ CountIsKnown /\ OthersAreEmpty)'
  BY <1>13 DEF EndFunction
<1>14. ASSUME NEW s \in Servers, Listen(s)
      PROVE  (ServingIsRegistered /\ CountIsKnown /\ OthersAreEmpty)'
  BY <1>14 DEF Listen
<1>15. ASSUME NEW s \in Servers, Accept(s)
      PROVE  (ServingIsRegistered /\ CountIsKnown /\ OthersAreEmpty)'
  BY <1>15 DEF Accept
<1>16. ASSUME NEW s \in Servers, CloseConnection(s)
      PROVE  (ServingIsRegistered /\ CountIsKnown /\ OthersAreEmpty)'
  BY <1>16 DEF CloseConnection
<1>17. ASSUME NEW s \in Servers, SetRunning(s)
      PROVE  (ServingIsRegistered /\ CountIsKnown /\ OthersAreEmpty)'
  BY <1>17 DEF SetRunning
<1>18. ASSUME NEW s \in Servers, Register(s)
      PROVE  (ServingIsRegistered /\ CountIsKnown /\ OthersAreEmpty)'
  BY <1>18 DEF Register, Join
<1>19. ASSUME NEW s \in Servers, WrapConnection(s)
      PROVE  (ServingIsRegistered /\ CountIsKnown /\ OthersAreEmpty)'
  <2>1. ServingIsRegistered' /\ OthersAreEmpty'
    BY <1>19 DEF WrapConnection
  <2>2. CASE srvState[s] = "running"
    <3>1. /\ serve' = [serve EXCEPT ![s] = "serving"]
          /\ counter' = [counter EXCEPT ![s] = @ + 1]
          /\ conns' = [conns EXCEPT ![s] = @ + 1]
          /\ wrapped' = [wrapped EXCEPT ![s] = @ + 1]
          /\ UNCHANGED <<again, cut>> /\ serve[s] = "accepted"
      BY <1>19, <2>2 DEF WrapConnection
    <3> QED
      BY <2>1, <3>1
  <2>3. CASE srvState[s] # "running"
    BY <1>19, <2>1, <2>3 DEF WrapConnection
  <2> QED
    BY <2>2, <2>3
<1>20. ASSUME NEW s \in Servers, ServeReturns(s)
      PROVE  (ServingIsRegistered /\ CountIsKnown /\ OthersAreEmpty)'
  BY <1>20 DEF ServeReturns
<1>21. ASSUME NEW s \in Servers, Drain(s)
      PROVE  (ServingIsRegistered /\ CountIsKnown /\ OthersAreEmpty)'
  BY <1>21 DEF Drain
<1>22. ASSUME NEW s \in Servers, ServerDone(s)
      PROVE  (ServingIsRegistered /\ CountIsKnown /\ OthersAreEmpty)'
  BY <1>22 DEF ServerDone
<1>23. ASSUME NEW s \in Servers, AwaitShutdown(s)
      PROVE  (ServingIsRegistered /\ CountIsKnown /\ OthersAreEmpty)'
  BY <1>23 DEF AwaitShutdown
<1>24. ASSUME NEW s \in Servers, CloseListener(s)
      PROVE  (ServingIsRegistered /\ CountIsKnown /\ OthersAreEmpty)'
  BY <1>24 DEF CloseListener
<1>25. ASSUME NEW s \in Servers, Hammer(s)
      PROVE  (ServingIsRegistered /\ CountIsKnown /\ OthersAreEmpty)'
  BY <1>25 DEF Hammer
<1>26. CASE UNCHANGED vars
  BY <1>26 DEF vars
<1>27. ASSUME NEW s \in Servers, CloseAgain(s)
      PROVE  (ServingIsRegistered /\ CountIsKnown /\ OthersAreEmpty)'
  BY <1>27 DEF CloseAgain
<1> QED
  BY <1>1, <1>2, <1>3, <1>4, <1>5, <1>6, <1>7, <1>8, <1>9, <1>10, <1>11,
     <1>12, <1>13, <1>14, <1>15, <1>16, <1>17, <1>18, <1>19, <1>20, <1>21,
     <1>22, <1>23, <1>24, <1>25, <1>26, <1>27
     DEF Next, ManagerStep, FunctionStep, ServerStep, WatchStep

\* The shutdown begins once, and whoever joins after the wait is tardy.
LEMMA ShutdownStep ==
  TypeOK /\ OneBegins /\ OnlyTardyAreLeft /\ [Next]_vars
    => (OneBegins /\ OnlyTardyAreLeft)'
<1> SUFFICES ASSUME TypeOK, OneBegins, OnlyTardyAreLeft,
                    [Next]_vars
             PROVE  (OneBegins /\ OnlyTardyAreLeft)'
  OBVIOUS
<1> USE GracefulAssumption
    DEF TypeOK, OneBegins, OnlyTardyAreLeft, mgrVars, srvVars, connVars,
        taskVars, Server, ServerTo
<1>1. ASSUME NEW k \in Callers, DoShutdown(k)
      PROVE  (OneBegins /\ OnlyTardyAreLeft)'
  BY <1>1 DEF DoShutdown
<1>2. CASE ImmediateHammer
  BY <1>2 DEF ImmediateHammer
<1>3. ASSUME NEW k \in Callers, BeginShutdown(k)
      PROVE  (OneBegins /\ OnlyTardyAreLeft)'
  BY <1>3 DEF BeginShutdown
<1>4. CASE HammerTime
  BY <1>4 DEF HammerTime
<1>5. CASE ServersOver
  BY <1>5 DEF ServersOver
<1>6. CASE DoTerminate
  BY <1>6 DEF DoTerminate
<1>7. CASE FunctionsOver
  BY <1>7 DEF FunctionsOver
<1>8. ASSUME NEW t \in Tasks, ListCancel(t)
      PROVE  (OneBegins /\ OnlyTardyAreLeft)'
  BY <1>8 DEF ListCancel
<1>9. ASSUME NEW t \in Tasks, StartTask(t)
      PROVE  (OneBegins /\ OnlyTardyAreLeft)'
  BY <1>9 DEF StartTask, Join
<1>10. ASSUME NEW t \in Tasks, EndTask(t)
      PROVE  (OneBegins /\ OnlyTardyAreLeft)'
  BY <1>10 DEF EndTask
<1>11. ASSUME NEW f \in Functions, AddFunction(f)
      PROVE  (OneBegins /\ OnlyTardyAreLeft)'
  BY <1>11 DEF AddFunction
<1>12. ASSUME NEW f \in Functions, ListFunction(f)
      PROVE  (OneBegins /\ OnlyTardyAreLeft)'
  BY <1>12 DEF ListFunction
<1>13. ASSUME NEW f \in Functions, EndFunction(f)
      PROVE  (OneBegins /\ OnlyTardyAreLeft)'
  BY <1>13 DEF EndFunction
<1>14. ASSUME NEW s \in Servers, Listen(s)
      PROVE  (OneBegins /\ OnlyTardyAreLeft)'
  BY <1>14 DEF Listen
<1>15. ASSUME NEW s \in Servers, Accept(s)
      PROVE  (OneBegins /\ OnlyTardyAreLeft)'
  BY <1>15 DEF Accept
<1>16. ASSUME NEW s \in Servers, CloseConnection(s)
      PROVE  (OneBegins /\ OnlyTardyAreLeft)'
  BY <1>16 DEF CloseConnection
<1>17. ASSUME NEW s \in Servers, SetRunning(s)
      PROVE  (OneBegins /\ OnlyTardyAreLeft)'
  BY <1>17 DEF SetRunning
<1>18. ASSUME NEW s \in Servers, Register(s)
      PROVE  (OneBegins /\ OnlyTardyAreLeft)'
  BY <1>18 DEF Register, Join
<1>19. ASSUME NEW s \in Servers, WrapConnection(s)
      PROVE  (OneBegins /\ OnlyTardyAreLeft)'
  BY <1>19 DEF WrapConnection
<1>20. ASSUME NEW s \in Servers, ServeReturns(s)
      PROVE  (OneBegins /\ OnlyTardyAreLeft)'
  BY <1>20 DEF ServeReturns
<1>21. ASSUME NEW s \in Servers, Drain(s)
      PROVE  (OneBegins /\ OnlyTardyAreLeft)'
  BY <1>21 DEF Drain
<1>22. ASSUME NEW s \in Servers, ServerDone(s)
      PROVE  (OneBegins /\ OnlyTardyAreLeft)'
  BY <1>22 DEF ServerDone
<1>23. ASSUME NEW s \in Servers, AwaitShutdown(s)
      PROVE  (OneBegins /\ OnlyTardyAreLeft)'
  BY <1>23 DEF AwaitShutdown
<1>24. ASSUME NEW s \in Servers, CloseListener(s)
      PROVE  (OneBegins /\ OnlyTardyAreLeft)'
  BY <1>24 DEF CloseListener
<1>25. ASSUME NEW s \in Servers, Hammer(s)
      PROVE  (OneBegins /\ OnlyTardyAreLeft)'
  BY <1>25 DEF Hammer
<1>26. CASE UNCHANGED vars
  BY <1>26 DEF vars
<1>27. ASSUME NEW s \in Servers, CloseAgain(s)
      PROVE  (OneBegins /\ OnlyTardyAreLeft)'
  BY <1>27 DEF CloseAgain
<1> QED
  BY <1>1, <1>2, <1>3, <1>4, <1>5, <1>6, <1>7, <1>8, <1>9, <1>10, <1>11,
     <1>12, <1>13, <1>14, <1>15, <1>16, <1>17, <1>18, <1>19, <1>20, <1>21,
     <1>22, <1>23, <1>24, <1>25, <1>26, <1>27
     DEF Next, ManagerStep, FunctionStep, ServerStep, WatchStep

\* The types and the relations of GracefulInv hold in every reachable state.
LEMMA GracefulHolds == Spec => [](TypeOK /\ GracefulInv)
<1>1. Init => TypeOK /\ GracefulInv
  <2> SUFFICES ASSUME Init
               PROVE  TypeOK /\ GracefulInv
    OBVIOUS
  <2>1. /\ 0 \in -(MaxConns + MaxAgain) .. MaxConns /\ 0 \in 0 .. MaxConns
        /\ 0 \in 0 .. MaxAgain /\ 0 \in 0 .. MaxCalls
    BY GracefulAssumption
  <2>2. TypeOK
    BY <2>1 DEF Init, TypeOK
  <2>3. GracefulInv
    BY DEF Init, GracefulInv, ServingIsRegistered, CountIsKnown,
       OthersAreEmpty, OneBegins, OnlyTardyAreLeft
  <2> QED
    BY <2>2, <2>3
<1>2. TypeOK /\ GracefulInv /\ [Next]_vars => (TypeOK /\ GracefulInv)'
  BY TypeStep, ServersStep, ShutdownStep DEF GracefulInv
<1> QED
  BY <1>1, <1>2, PTL DEF Spec

(* Every variable keeps its type: no server has more connections than it   *)
(* accepted, and the count of connections, which Hammer resets and every   *)
(* call of Close decrements, is at most the number of connections and      *)
(* below zero at most by that number and the calls on closed ones.         *)
THEOREM TypeCorrect == Spec => []TypeOK
<1>1. TypeOK /\ GracefulInv => TypeOK
  OBVIOUS
<1> QED
  BY GracefulHolds, <1>1, PTL

(* A server whose goroutine of ListenAndServe has ended left no connection *)
(* open, unless the hammer gave its connections up, but for at most one    *)
(* for each call of Close on a closed one, whatever connections were       *)
(* accepted, wrapped and closed around its shutdown.                       *)
THEOREM DoneIsDrainedAlways == Spec => []DoneIsDrained
<1>1. TypeOK /\ GracefulInv => DoneIsDrained
  BY DEF GracefulInv, OthersAreEmpty, DoneIsDrained, Server
<1> QED
  BY GracefulHolds, <1>1, PTL

(* When doTerminate starts its functions, who joined the wait group before *)
(* it was found empty has left it, and has no connection but those given   *)
(* up or not waited for because a closed one was closed again: neither a   *)
(* second signal nor the hammer lets doTerminate come early.               *)
THEOREM TerminateIsLastAlways == Spec => []TerminateIsLast
<1>1. TypeOK /\ GracefulInv => TerminateIsLast
  <2> SUFFICES ASSUME TypeOK, GracefulInv, terminate
               PROVE  /\ running \subseteq tardy
                      /\ \A s \in Servers \ tardy :
                           conns[s] <= again[s] \/ s \in cut
    BY DEF TerminateIsLast
  <2>1. running \subseteq tardy
    BY DEF GracefulInv, OnlyTardyAreLeft
  <2>2. ASSUME NEW s \in Servers \ tardy
        PROVE  conns[s] <= again[s] \/ s \in cut
    <3>1. serve[s] \in {"new", "listening", "starting", "done"}
      BY <2>1 DEF GracefulInv, ServingIsRegistered, TypeOK
    <3> QED
      BY <3>1 DEF GracefulInv, OthersAreEmpty, TypeOK
  <2> QED
    BY <2>1, <2>2
<1> QED
  BY GracefulHolds, <1>1, PTL

=============================================================================
