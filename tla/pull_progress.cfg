\* Two changes of the content, one fault, and views again and again.
SPECIFICATION FairSpec
CONSTANTS
  n1 = n1
  n2 = n2
  c1 = c1
  c2 = c2
  v1 = v1
  m1 = m1
  p1 = p1
  Nodes = {n1, n2}
  Checkers = {c1, c2}
  Viewers = {v1}
  Mergers = {m1}
  Pushers = {p1}
  Sessions = {c1, c2, v1, m1}
  NodeOf <- Places
  None = None
  Expiry = 2
  MaxFailures = 0
  MaxPushes = 2
  MaxFaults = 1
PROPERTIES MergeIsRecorded CheckingEnds
CHECK_DEADLOCK FALSE
