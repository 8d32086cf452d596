SPECIFICATION FairSpec
CONSTANTS
  Gateways = {g1, g2}
  Redis = TRUE
  MaxEvents = 2
  Nobody = Nobody
PROPERTIES LeadersBecomeOne
