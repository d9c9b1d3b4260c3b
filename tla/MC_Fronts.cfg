SPECIFICATION MCSpec
CONSTANTS
  \* FetchFront
  MaxBody = 3
  MaxRoom = 1
  NoLen = NoLen
  DL_CHUNK = 2
  TCP_BUF = 3
  MaxUpload = 2
  \* GatewayRelay
  UPLOAD_CAP = 1
  MaxResp = 2
  masquerade = TRUE
  \* MitmConns
  Tcps = {t1, t2}
  max_conns = 1
  mstream_max = 2
  PUMP_CAP = 2
  INGRESS_CAP = 2
  MaxRx = 3
  \* TlsPump
  PIPE_CAP = 2
  TlsRead = 2
  TlsBuf = 1
  NIn = 4
  NOut = 5
  \* ServerCore
  Conns = {c1}
  Streams = {s1, s2, s3}
  Sids = {x1, x2}
  STREAM_BUDGET = 3
  MAX_SESSIONS_PER_CONN = 1
  None = None
  udp_enabled = TRUE
INVARIANTS
  ServerSound
  FetchSound
  GatewaySound
  ConnsSound
  PumpSound
CHECK_DEADLOCK FALSE
