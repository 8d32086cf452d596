SPECIFICATION Spec
CONSTANTS
  Requests = {r1}
  c1 = c1
  c2 = c2
  Clients <- MCClients
  Entries <- OneRule
  Cleanup = 2
  None = None
INVARIANT WindowSlides
