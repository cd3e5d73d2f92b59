\* Handlers return, but may fail forever; an in-memory queue flushed once.
SPECIFICATION FairSpec
CONSTANTS
  Items = {i1, i2}
  Workers = {w1}
  Main = main
  Length = 1
  BatchLength = 2
  MaxNums = {0, 1}
  BaseType = "channel"
  ShutdownTimeouts = {1}
  Faults = {"panic"}
  MaxFlushes = 1
  MaxRestarts = 0
PROPERTIES
  ItemsReachHandler
  FlushFinishes
  LifecycleSpec
  FlushLeavesNothing
