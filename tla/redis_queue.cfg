\* Two nodes on one Redis queue, every fault; liveness, so no symmetry.
CONSTANTS
  Items = {i1, i2, i3}
  Nodes = {n1, n2}
  Length = 2
  Faults = {"cancel", "error", "crash"}
SPECIFICATION FairSpec
INVARIANTS MarkedIsOwed OverfillBounded ListAgrees
PROPERTIES MarksClear
