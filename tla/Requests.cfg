SPECIFICATION Spec
CONSTANTS
  Requests = {r1, r2}
  c1 = c1
  c2 = c2
  Clients <- MCClients
  Entries <- MCEntries
  Cleanup = 1
  None = None
INVARIANTS RoutedAsAsked ShareKept LimitKept
SYMMETRY Symmetry
