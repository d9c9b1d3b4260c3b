SPECIFICATION Spec
CONSTANTS
  Assocs = {a1}
  Targets = {t1, t2, t3}
  SidMod = 2
  MAX_SESSIONS_PER_CONN = 2
  MAX_DST_PER_ASSOC = 2
  PREOPEN_DGRAMS = 1
  MaxSessions = 3
  None = None
INVARIANTS
  SessionMaps
  SessionEnds
SYMMETRY Symmetry
CHECK_DEADLOCK FALSE
