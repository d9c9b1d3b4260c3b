SPECIFICATION FairSpec
CONSTANTS
  Socks = {t1, t2, t3}
  MAX_PENDING = 2
  MaxGen = 2
  h3_enabled = TRUE
INVARIANTS
  TunnelSound
PROPERTIES
  TunnelLives
  RequestsDecided
CHECK_DEADLOCK FALSE
