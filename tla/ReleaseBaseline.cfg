SPECIFICATION Spec
CONSTANTS
  Versions = {v1, v2}
  Releases = {r1, r2}
  Requests = {c1, c2}
  Autos = {}
  Strategies = {"canary"}
  Full = 2
  Initial = 1
  NoVersion = NoVersion
CHECK_DEADLOCK FALSE
PROPERTY StartsFromFull
