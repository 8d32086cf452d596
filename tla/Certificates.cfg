SPECIFICATION FairSpec
CONSTANTS
  Gateways = {g1}
  Requests = {a1, a2}
  MaxCerts = 2
  MaxOps = 2
  MaxEvents = 1
  None = None
INVARIANT IInv
PROPERTY Converges
