SPECIFICATION Spec
CONSTANTS
  Versions = {v1, v2}
  Releases = {r1, r2}
  Requests = {c1, c2}
  Autos = {a1}
  Strategies = {"canary", "bluegreen"}
  Full = 2
  Initial = 1
  NoVersion = NoVersion
INVARIANTS TrafficFollowsPhase SplitIsOwned IInv
PROPERTIES CompletedIsFinal Implements
CHECK_DEADLOCK FALSE
SYMMETRY Symmetry
