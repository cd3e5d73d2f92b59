\* A server with two connections, a task of each kind, one function.
SPECIFICATION FairSpec
CONSTANTS
  s1 = s1
  t1 = t1
  t2 = t2
  f1 = f1
  Servers = {s1}
  Cancelled = {t1}
  Watching = {t2}
  Functions = {f1}
  Callers = {"signal", "timeout"}
  MaxConns = 2
  MaxAgain = 1
  MaxCalls = 2
INVARIANTS TypeOK DoneIsDrained TerminateIsLast
PROPERTIES HammerEndsServers ShutdownEnds
CHECK_DEADLOCK FALSE
