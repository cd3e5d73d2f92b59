\* A persistent queue under every user call and fault, with one flush.
SPECIFICATION Spec
CONSTANTS
  Items = {i1, i2, i3}
  Workers = {w1, w2}
  Main = main
  Length = 2
  BatchLength = 2
  MaxNums = {0, 1, 2}
  BaseType = "level"
  ShutdownTimeouts = {0, 1}
  Faults = {"panic", "popError", "removeAll", "crash"}
  MaxFlushes = 1
  MaxRestarts = 1
INVARIANTS
  InOnePlace
  BufferIsTimed
  SenderHasReceiver
  FlushIsAlone
SYMMETRY Symmetry
