SPECIFICATION Spec
CONSTANTS
  Instances = {1, 2}
  Nodes = {n1}
  Versions = {v1}
  Replicas = {1}
  Indexes = {1, 2}
  MaxFailures = 2
  MaxEvents = 1
  None = None
PROPERTIES NoneCreatedAfterStop
