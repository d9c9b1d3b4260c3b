SPECIFICATION FairSpec
CONSTANTS
  Assocs = {a1}
  Targets = {t1, t2}
  SidMod = 2
  MAX_SESSIONS_PER_CONN = 1
  MAX_DST_PER_ASSOC = 1
  PREOPEN_DGRAMS = 1
  MaxSessions = 3
  None = None
PROPERTIES
  SessionsSettle
CHECK_DEADLOCK FALSE
