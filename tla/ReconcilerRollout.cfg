SPECIFICATION FairSpec
CONSTANTS
  Instances = {1, 2, 3}
  Nodes = {n1}
  Versions = {v1, v2}
  Replicas = {1}
  Indexes = {1, 2}
  MaxFailures = 2
  MaxEvents = 1
  None = None
PROPERTIES OldVersionLeaves
