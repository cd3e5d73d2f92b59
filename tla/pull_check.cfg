\* Two changes of the content, one fault or failed extension.
SPECIFICATION Spec
CONSTANTS
  n1 = n1
  n2 = n2
  c1 = c1
  c2 = c2
  v1 = v1
  m1 = m1
  p1 = p1
  Nodes = {n1, n2}
  Checkers = {c1, c2}
  Viewers = {v1}
  Mergers = {m1}
  Pushers = {p1}
  Sessions = {c1, c2, v1, m1}
  NodeOf <- Places
  None = None
  Expiry = 2
  MaxFailures = 1
  MaxPushes = 2
  MaxFaults = 1
INVARIANTS HolderOwns LossNeedsFailure StaleIsRechecked
PROPERTIES MergedStays
CHECK_DEADLOCK FALSE
