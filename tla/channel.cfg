\* Two goroutines push items of their own, the admin removes all. RemoveAll
\* and PopItem may wait for each other forever: no check for deadlock.
CONSTANTS
  p1 = p1  p2 = p2  i1 = i1  i2 = i2  i3 = i3
  Items = {i1, i2, i3}
  Pushers = {p1, p2}
  Pushes <- OwnItems
  Length = 2
SPECIFICATION FairSpec
INVARIANTS OneCopy RemoveWaitsForPop
PROPERTIES PushFinishesUnlessStuck
CHECK_DEADLOCK FALSE
