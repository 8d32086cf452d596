SPECIFICATION FairSpec
CONSTANTS
  Instances = {i1}
  Nodes = {n1}
  On <- OnFirst
  Ports = {1, 2}
  Gateways = {g1}
  SuccessThreshold = 2
  FailureThreshold = 1
  MaxEvents = 2
  None = None
PROPERTY SetAsideIsKept
