SPECIFICATION FairSpec
CONSTANTS
  Instances = {1, 2, 3}
  Nodes = {n1}
  Versions = {v1}
  Replicas = {0, 1}
  Indexes = {1, 2, 3}
  MaxFailures = 2
  MaxEvents = 2
  None = None
INVARIANTS EveryReplicaCounts IndexesDiffer IInv
PROPERTIES NoSurplus Converges
