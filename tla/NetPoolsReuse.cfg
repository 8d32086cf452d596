SPECIFICATION Spec
CONSTANTS
  k1 = k1
  k2 = k2
  n1 = n1
  n2 = n2
  Workers = {w1}
  Nodes = {n1}
  Projects = {p1, p2}
  Pools = {k1, k2}
  NodeOf <- TheNodes
  Base <- TheBase
  Size <- TheSize
  MaxRequests = 5
  MaxEvents = 1
  None = None
PROPERTY RefusedWhenFull
CHECK_DEADLOCK FALSE
