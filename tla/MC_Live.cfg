SPECIFICATION MCSpec
CONSTANTS
  \* ShardOps
  Ops = {o1, o2, o3}
  SOCKET_CAP = 1
  \* ConnAdmission
  Conns = {a1, a2, a3}
  max_conns = 1
  BACKLOG_MIN = 1
  BACKLOG_MUL = 1
  MaxAdmitted = 4
  \* ServerCore
  SrvConns = {c1, c2}
  Streams = {s1, s2}
  Sids = {x1}
  None = None
  STREAM_BUDGET = 2
  MAX_SESSIONS_PER_CONN = 1
  udp_enabled = TRUE
  \* Relay
  RELAY_BUF = 1
  MaxUp = 2
  MaxDown = 2
  Faults = FALSE
INVARIANTS
  OpsSound
  AdmissionSound
PROPERTIES
  OpsLive
  PlacesComeBack
  ServerLives
  RelayLives
CHECK_DEADLOCK FALSE
