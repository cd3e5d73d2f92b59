------------------------------ MODULE Graceful ------------------------------
(***************************************************************************)
(* The graceful manager of one process and the servers and tasks under it  *)
(* (modules/graceful: manager.go, manager_common.go, manager_unix.go,      *)
(* server.go, server_hooks.go).  The manager's contexts are cancelled one  *)
(* after the other - shutdown, hammer, terminate, manager - and a wait     *)
(* group holds back the end until the servers and the tasks are over.      *)
(* Servers, tasks and functions for the termination register at any time:  *)
(* a signal may arrive while the process still starts.                     *)
(*                                                                         *)
(* A server is the goroutine of ListenAndServe, the one of awaitShutdown   *)
(* and its open connections.  The network server (net/http) is external:   *)
(* it accepts one connection after the other and returns when Accept does  *)
(* not give one.  Not modelled: the sockets inherited from a parent, the   *)
(* fork of DoGracefulRestart (which then calls doShutdown like the         *)
(* others), the count of created servers, systemd.                         *)
(***************************************************************************)
EXTENDS Integers, FiniteSets

CONSTANTS
  Servers,     \* servers of the process
  Cancelled,   \* tasks of RunWithCancel
  Watching,    \* tasks of RunWithShutdownContext
  Functions,   \* functions given to RunAtTerminate
  Callers,     \* who may call doShutdown: signals, the start-up timeout
  MaxConns,    \* bound: connections accepted by a server
  MaxAgain,    \* bound: calls of Close on closed connections of a server
  MaxCalls     \* bound: calls of doShutdown and of DoImmediateHammer

Tasks == Cancelled \cup Watching

ASSUME GracefulAssumption ==
  /\ {MaxConns, MaxAgain, MaxCalls} \subseteq Nat
  /\ Cancelled \cap Watching = {} /\ Servers \cap Tasks = {}

VARIABLES
  state,       \* state of the manager
  shutdown, hammer, terminate, done,  \* its contexts that are cancelled
  caller,      \* what each caller of doShutdown is about to do
  waiter,      \* the goroutine that waits for the end
  timer,       \* doHammerTime sleeps
  calls,
  running,     \* runningServerWaitGroup: who is to call Done
  serve,       \* each server's goroutine
  srvState,    \* and its state
  watch,       \* its goroutine of awaitShutdown
  closed,      \* its listener is closed
  counter,     \* its connCounter
  conns,       \* its connections that are open in fact
  wrapped,     \* those it accepted and counted so far
  again,       \* calls of Close on connections that were closed already
  task,        \* each task
  toCancel,    \* cancel functions that run
  term,        \* each function for the termination
  late,        \* history: who came too late to be stopped
  tardy,       \* history: who joined the wait group after the wait for it
  cut          \* history: servers whose connections were given up

mgrVars == <<state, shutdown, hammer, terminate, done, caller, waiter, timer,
             calls>>
connVars == <<counter, conns, wrapped, again, cut>>
srvVars == <<serve, srvState, watch, closed, connVars>>
taskVars == <<task, toCancel>>
vars == <<mgrVars, running, srvVars, taskVars, term, late, tardy>>

Init ==
  /\ state = "running"
  /\ shutdown = FALSE /\ hammer = FALSE /\ terminate = FALSE /\ done = FALSE
  /\ caller = [k \in Callers |-> "idle"]
  /\ waiter = "none" /\ timer = FALSE /\ calls = 0
  /\ running = {}
  /\ serve = [s \in Servers |-> "new"]
  /\ srvState = [s \in Servers |-> "init"]
  /\ watch = [s \in Servers |-> "new"]
  /\ closed = {} /\ cut = {}
  /\ counter = [s \in Servers |-> 0]
  /\ conns = [s \in Servers |-> 0]
  /\ wrapped = [s \in Servers |-> 0]
  /\ again = [s \in Servers |-> 0]
  /\ task = [t \in Tasks |-> "new"] /\ toCancel = {}
  /\ term = [f \in Functions |-> "new"]
  /\ late = {} /\ tardy = {}

-----------------------------------------------------------------------------
(* The manager. *)

\* doShutdown: who changes the state goes on, everybody else hammers.
DoShutdown(k) ==
  /\ caller[k] = "idle" /\ calls < MaxCalls /\ calls' = calls + 1
  /\ IF state = "running"
     THEN /\ state' = "shuttingDown"
          /\ caller' = [caller EXCEPT ![k] = "won"]
          /\ UNCHANGED hammer
     ELSE hammer' = TRUE /\ UNCHANGED <<state, caller>>
  /\ UNCHANGED <<shutdown, terminate, done, waiter, timer, running, srvVars,
                 taskVars, term, late, tardy>>

\* A mutant: no timer for the hammer.
BeginPatiently(k) ==
  /\ caller[k] = "won" /\ caller' = [caller EXCEPT ![k] = "idle"]
  /\ shutdown' = TRUE
  /\ toCancel' = {t \in Cancelled : task[t] # "new"}
  /\ waiter' = "wait" /\ UNCHANGED timer
  /\ UNCHANGED <<state, hammer, terminate, done, calls, running, srvVars, task,
                 term, late, tardy>>

\* ... and, with the lock taken again, cancels the context and starts the
\* cancel functions, the timer and the goroutine that waits.
BeginShutdown(k) ==
  /\ caller[k] = "won" /\ caller' = [caller EXCEPT ![k] = "idle"]
  /\ shutdown' = TRUE
  /\ toCancel' = {t \in Cancelled : task[t] # "new"}
  /\ waiter' = "wait" /\ timer' = TRUE
  /\ UNCHANGED <<state, hammer, terminate, done, calls, running, srvVars, task,
                 term, late, tardy>>

\* DoImmediateHammer, on a signal of its own.
ImmediateHammer ==
  /\ calls < MaxCalls /\ calls' = calls + 1
  /\ hammer' = TRUE
  /\ UNCHANGED <<state, shutdown, terminate, done, caller, waiter, timer,
                 running, srvVars, taskVars, term, late, tardy>>

HammerTime ==
  /\ timer /\ timer' = FALSE /\ hammer' = TRUE
  /\ UNCHANGED <<state, shutdown, terminate, done, caller, waiter, calls,
                 running, srvVars, taskVars, term, late, tardy>>

\* A mutant: the hammer ends the wait.
ServersOverOrHammered ==
  /\ waiter = "wait" /\ (running = {} \/ hammer)
  /\ waiter' = "terminate" /\ hammer' = TRUE
  /\ UNCHANGED <<state, shutdown, terminate, done, caller, timer, calls,
                 running, srvVars, taskVars, term, late, tardy>>

\* The wait group is empty: whatever is left is hammered.
ServersOver ==
  /\ waiter = "wait" /\ running = {}
  /\ waiter' = "terminate" /\ hammer' = TRUE
  /\ UNCHANGED <<state, shutdown, terminate, done, caller, timer, calls,
                 running, srvVars, taskVars, term, late, tardy>>

\* doTerminate starts the functions it knows of.
DoTerminate ==
  /\ waiter = "terminate" /\ waiter' = "last"
  /\ state' = "terminate" /\ terminate' = TRUE
  /\ term' = [f \in Functions |->
               IF term[f] = "listed" THEN "started" ELSE term[f]]
  /\ late' = late \cup {f \in Functions : term[f] = "added"}
  /\ UNCHANGED <<shutdown, hammer, done, caller, timer, calls, running,
                 srvVars, taskVars, tardy>>

FunctionsOver ==
  /\ waiter = "last" /\ \A f \in Functions : term[f] \in {"new", "over"}
  /\ waiter' = "over" /\ done' = TRUE
  /\ UNCHANGED <<state, shutdown, hammer, terminate, caller, timer, calls,
                 running, srvVars, taskVars, term, late, tardy>>

\* RunAtTerminate: the wait group first, the list under the lock.
AddFunction(f) ==
  /\ term[f] = "new" /\ term' = [term EXCEPT ![f] = "added"]
  /\ late' = late \cup (IF terminate THEN {f} ELSE {})
  /\ UNCHANGED <<mgrVars, running, srvVars, taskVars, tardy>>

ListFunction(f) ==
  /\ term[f] = "added" /\ term' = [term EXCEPT ![f] = "listed"]
  /\ UNCHANGED <<mgrVars, running, srvVars, taskVars, late, tardy>>

EndFunction(f) ==
  /\ term[f] = "started" /\ term' = [term EXCEPT ![f] = "over"]
  /\ UNCHANGED <<mgrVars, running, srvVars, taskVars, late, tardy>>

-----------------------------------------------------------------------------
(* Tasks: RunWithCancel, RunWithShutdownContext. *)

Join(x) ==
  /\ running' = running \cup {x}
  /\ tardy' = tardy \cup (IF waiter \in {"none", "wait"} THEN {} ELSE {x})

\* RunAtShutdown: a cancel function listed after the shutdown never runs.
ListCancel(t) ==
  /\ t \in Cancelled /\ task[t] = "new"
  /\ task' = [task EXCEPT ![t] = "listed"]
  /\ late' = late \cup (IF shutdown THEN {t} ELSE {})
  /\ UNCHANGED <<mgrVars, running, srvVars, toCancel, term, tardy>>

StartTask(t) ==
  /\ task[t] = (IF t \in Cancelled THEN "listed" ELSE "new")
  /\ task' = [task EXCEPT ![t] = "running"]
  /\ Join(t)
  /\ UNCHANGED <<mgrVars, srvVars, toCancel, term, late>>

\* The task returns: because it was told to, or its work is done.
EndTask(t) ==
  /\ task[t] = "running" /\ task' = [task EXCEPT ![t] = "over"]
  /\ running' = running \ {t}
  /\ UNCHANGED <<mgrVars, srvVars, toCancel, term, late, tardy>>

Told(t) == IF t \in Cancelled THEN t \in toCancel ELSE shutdown

-----------------------------------------------------------------------------
(* Servers. *)

Server(s, step) == serve[s] = step
ServerTo(s, step) == serve' = [serve EXCEPT ![s] = step]

\* ListenAndServe: the listener, and the goroutine that awaits the shutdown.
Listen(s) ==
  /\ Server(s, "new") /\ ServerTo(s, "listening")
  /\ watch' = [watch EXCEPT ![s] = "await"]
  /\ UNCHANGED <<mgrVars, running, srvState, closed, connVars, taskVars, term,
                 late, tardy>>

\* Serve sets its state whatever happened before ...
SetRunning(s) ==
  /\ Server(s, "listening") /\ ServerTo(s, "starting")
  /\ srvState' = [srvState EXCEPT ![s] = "running"]
  /\ late' = late \cup (IF watch[s] # "await" THEN {s} ELSE {})
  /\ UNCHANGED <<mgrVars, running, watch, closed, connVars, taskVars, term,
                 tardy>>

\* ... and registers: RegisterServer.
Register(s) ==
  /\ Server(s, "starting") /\ ServerTo(s, "serving")
  /\ Join(s)
  /\ UNCHANGED <<mgrVars, srvState, watch, closed, connVars, taskVars, term,
                 late>>

\* Accept of the listener ...
Accept(s) ==
  /\ Server(s, "serving") /\ s \notin closed /\ wrapped[s] < MaxConns
  /\ ServerTo(s, "accepted")
  /\ UNCHANGED <<mgrVars, running, srvState, watch, closed, connVars,
                 taskVars, term, late, tardy>>

\* A mutant: the connection is counted twice.
WrapTwice(s) ==
  /\ Server(s, "accepted")
  /\ IF srvState[s] = "running"
     THEN /\ ServerTo(s, "serving")
          /\ counter' = [counter EXCEPT ![s] = @ + 2]
          /\ conns' = [conns EXCEPT ![s] = @ + 1]
          /\ wrapped' = [wrapped EXCEPT ![s] = @ + 1]
     ELSE ServerTo(s, "draining") /\ UNCHANGED <<counter, conns, wrapped>>
  /\ UNCHANGED <<mgrVars, running, srvState, watch, closed, again, cut,
                 taskVars, term, late, tardy>>

\* ... and wrapConnection: a server that shuts down closes the connection,
\* and the error ends the network server.
WrapConnection(s) ==
  /\ Server(s, "accepted")
  /\ IF srvState[s] = "running"
     THEN /\ ServerTo(s, "serving")
          /\ counter' = [counter EXCEPT ![s] = @ + 1]
          /\ conns' = [conns EXCEPT ![s] = @ + 1]
          /\ wrapped' = [wrapped EXCEPT ![s] = @ + 1]
     ELSE ServerTo(s, "draining") /\ UNCHANGED <<counter, conns, wrapped>>
  /\ UNCHANGED <<mgrVars, running, srvState, watch, closed, again, cut,
                 taskVars, term, late, tardy>>

\* wrappedConn.Close counts down, and closes the connection ...
CloseConnection(s) ==
  /\ conns[s] > 0
  /\ conns' = [conns EXCEPT ![s] = @ - 1]
  /\ counter' = [counter EXCEPT ![s] = @ - 1]
  /\ UNCHANGED <<mgrVars, running, serve, srvState, watch, closed, wrapped,
                 again, cut, taskVars, term, late, tardy>>

\* ... and counts down again if it is closed already: a connection with a
\* bad proxy header, for one, is closed by its reader and its server.
CloseAgain(s) ==
  /\ conns[s] < wrapped[s] /\ again[s] < MaxAgain
  /\ again' = [again EXCEPT ![s] = @ + 1]
  /\ counter' = [counter EXCEPT ![s] = @ - 1]
  /\ UNCHANGED <<mgrVars, running, serve, srvState, watch, closed, conns,
                 wrapped, cut, taskVars, term, late, tardy>>

ServeReturns(s) ==
  /\ Server(s, "serving") /\ s \in closed
  /\ ServerTo(s, "draining")
  /\ UNCHANGED <<mgrVars, running, srvState, watch, closed, connVars, taskVars,
                 term, late, tardy>>

\* A mutant: the connections are not waited for.
DrainNothing(s) ==
  /\ Server(s, "draining") /\ ServerTo(s, "drained")
  /\ srvState' = [srvState EXCEPT ![s] = "terminate"]
  /\ UNCHANGED <<mgrVars, running, watch, closed, connVars, taskVars, term,
                 late, tardy>>

\* waitForActiveConnections.
Drain(s) ==
  /\ Server(s, "draining") /\ counter[s] <= 0
  /\ ServerTo(s, "drained")
  /\ srvState' = [srvState EXCEPT ![s] = "terminate"]
  /\ UNCHANGED <<mgrVars, running, watch, closed, connVars, taskVars, term,
                 late, tardy>>

ServerDone(s) ==
  /\ Server(s, "drained") /\ ServerTo(s, "done")
  /\ running' = running \ {s}
  /\ UNCHANGED <<mgrVars, srvState, watch, closed, connVars, taskVars, term,
                 late, tardy>>

\* awaitShutdown: doShutdown only acts on a server that runs.
AwaitShutdown(s) ==
  /\ watch[s] = "await" /\ (shutdown \/ hammer)
  /\ IF srvState[s] = "running"
     THEN /\ srvState' = [srvState EXCEPT ![s] = "shuttingDown"]
          /\ watch' = [watch EXCEPT ![s] = "close"]
     ELSE watch' = [watch EXCEPT ![s] = "hammer"] /\ UNCHANGED srvState
  /\ UNCHANGED <<mgrVars, running, serve, closed, connVars, taskVars, term,
                 late, tardy>>

CloseListener(s) ==
  /\ watch[s] = "close" /\ watch' = [watch EXCEPT ![s] = "hammer"]
  /\ closed' = closed \cup {s}
  /\ UNCHANGED <<mgrVars, running, serve, srvState, connVars, taskVars, term,
                 late, tardy>>

\* A mutant: the waiting goroutine is woken, the count stays.
HammerInVain(s) ==
  /\ watch[s] = "hammer" /\ hammer
  /\ watch' = [watch EXCEPT ![s] = "over"]
  /\ UNCHANGED <<mgrVars, running, serve, srvState, closed, connVars, taskVars,
                 term, late, tardy>>

\* doHammer: a server that shuts down no longer waits for its connections,
\* which the end of the process closes.
Hammer(s) ==
  /\ watch[s] = "hammer" /\ hammer
  /\ watch' = [watch EXCEPT ![s] = "over"]
  /\ IF srvState[s] = "shuttingDown" /\ counter[s] > 0
     THEN counter' = [counter EXCEPT ![s] = 0] /\ cut' = cut \cup {s}
     ELSE UNCHANGED <<counter, cut>>
  /\ UNCHANGED <<mgrVars, running, serve, srvState, closed, conns, wrapped,
                 again, taskVars, term, late, tardy>>

-----------------------------------------------------------------------------
ManagerStep ==
  \/ \E k \in Callers : BeginShutdown(k)
  \/ HammerTime \/ ServersOver \/ DoTerminate \/ FunctionsOver
ServerStep(s) ==
  \/ SetRunning(s) \/ Register(s) \/ WrapConnection(s) \/ ServeReturns(s)
  \/ Drain(s) \/ ServerDone(s)
WatchStep(s) == AwaitShutdown(s) \/ CloseListener(s) \/ Hammer(s)
FunctionStep(f) == ListFunction(f) \/ EndFunction(f)
ToldTask(t) == Told(t) /\ EndTask(t)

Next ==
  \/ \E k \in Callers : DoShutdown(k)
  \/ ImmediateHammer \/ ManagerStep
  \/ \E t \in Tasks : ListCancel(t) \/ StartTask(t) \/ EndTask(t)
  \/ \E f \in Functions : AddFunction(f) \/ FunctionStep(f)
  \/ \E s \in Servers : \/ Listen(s) \/ Accept(s)
                        \/ CloseConnection(s) \/ CloseAgain(s)
                        \/ ServerStep(s) \/ WatchStep(s)

Spec == Init /\ [][Next]_vars

(***************************************************************************)
(* Goroutines that can run do; a task that is told to stop does.  Nobody   *)
(* has to connect or to close a connection.                                *)
(***************************************************************************)
Fairness ==
  /\ WF_vars(\E k \in Callers : BeginShutdown(k)) /\ WF_vars(HammerTime)
  /\ WF_vars(ServersOver \/ DoTerminate \/ FunctionsOver)
  /\ \A t \in Tasks : WF_vars(ToldTask(t)) /\ WF_vars(StartTask(t))
  /\ \A f \in Functions : WF_vars(FunctionStep(f))
  /\ \A s \in Servers : WF_vars(ServerStep(s)) /\ WF_vars(WatchStep(s))

FairSpec == Spec /\ Fairness

-----------------------------------------------------------------------------
TypeOK ==
  /\ state \in {"running", "shuttingDown", "terminate"}
  /\ {shutdown, hammer, terminate, done, timer} \subseteq BOOLEAN
  /\ caller \in [Callers -> {"idle", "won"}]
  /\ waiter \in {"none", "wait", "terminate", "last", "over"}
  /\ calls \in 0 .. MaxCalls
  /\ running \subseteq Servers \cup Tasks
  /\ serve \in [Servers -> {"new", "listening", "starting", "serving",
                            "accepted", "draining", "drained", "done"}]
  /\ srvState \in [Servers -> {"init", "running", "shuttingDown", "terminate"}]
  /\ watch \in [Servers -> {"new", "await", "close", "hammer", "over"}]
  /\ closed \subseteq Servers /\ cut \subseteq Servers
  /\ conns \in [Servers -> 0 .. MaxConns]
  /\ counter \in [Servers -> -(MaxConns + MaxAgain) .. MaxConns]
  /\ wrapped \in [Servers -> 0 .. MaxConns]
  /\ again \in [Servers -> 0 .. MaxAgain]
  /\ task \in [Tasks -> {"new", "listed", "running", "over"}]
  /\ toCancel \subseteq Cancelled
  /\ term \in [Functions -> {"new", "added", "listed", "started", "over"}]
  /\ late \subseteq Servers \cup Tasks \cup Functions
  /\ tardy \subseteq Servers \cup Tasks

(***************************************************************************)
(* A server that is done has no open connection, unless the hammer gave    *)
(* its connections up: what was accepted before the shutdown is served,    *)
(* and a connection accepted while it begins is counted or closed. But one *)
(* connection is not waited for, for each call of Close on a closed one.   *)
(***************************************************************************)
DoneIsDrained ==
  \A s \in Servers : Server(s, "done") => conns[s] <= again[s] \/ s \in cut

(***************************************************************************)
(* When the functions of the termination run, nobody uses what they take   *)
(* down: who joined the wait group before it was found empty has left it,  *)
(* with its connections closed, or given up by the hammer, but for one for *)
(* each call of Close on a closed one.                                     *)
(***************************************************************************)
TerminateIsLast ==
  terminate =>
    /\ running \subseteq tardy
    /\ \A s \in Servers \ tardy : conns[s] <= again[s] \/ s \in cut

(***************************************************************************)
(* A registered server ends after the hammer, whatever its clients do, if  *)
(* its goroutine of awaitShutdown saw it run.                              *)
(***************************************************************************)
HammerEndsServers ==
  \A s \in Servers :
    (hammer /\ s \in running) ~> (s \notin running \/ s \in late)

(***************************************************************************)
(* A shutdown comes to its end although clients keep their connections,    *)
(* unless a server, a cancel function or a function for the termination    *)
(* registered too late to be stopped or started.                           *)
(***************************************************************************)
ShutdownEnds == shutdown ~> (done \/ late # {})
=============================================================================
