\* A persistent queue with room for every item and workers for all of them,
\* shut down with a timeout while handlers may never return, and restarted.
SPECIFICATION HungSpec
CONSTANTS
  Items = {i1, i2}
  Workers = {w1, w2}
  Main = main
  Length = 2
  BatchLength = 1
  MaxNums = {1, 2}
  BaseType = "level"
  ShutdownTimeouts = {1}
  Faults = {}
  MaxFlushes = 0
  MaxRestarts = 1
INVARIANTS
  ShutdownGivesBack
  NothingLost
PROPERTIES
  ShutdownFinishes
