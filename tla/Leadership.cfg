SPECIFICATION FairSpec
CONSTANTS
  Gateways = {g1, g2, g3}
  Redis = TRUE
  MaxEvents = 3
  Nobody = Nobody
INVARIANTS OneLeader IInv
PROPERTIES LeadsToItsEnd SomebodyLeads
