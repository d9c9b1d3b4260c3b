SPECIFICATION OSpec
CONSTANTS
  Reqs = {q1, q2}
  MaxConns = 2
  MaxStreams = 1
  MaxFaults = 2
  None = None
INVARIANTS
  RequestsKept
  SocketsKept
SYMMETRY Symmetry
CHECK_DEADLOCK FALSE
