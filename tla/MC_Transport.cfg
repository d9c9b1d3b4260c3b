SPECIFICATION MCSpec
CONSTANTS
  \* TxQueues
  Conns = {1, 2}
  Links <- TwoAndOne
  Lens = {1, 2}
  Dsts = {1, 2}
  QUEUE_QUOTA = 3
  QUEUE_LOW = 1
  TOTAL_HIGH = 3
  RUN = 2
  TX_RING = 7
  HDR = 1
  \* Handles
  ConnSlots = {1}
  StreamSlots = {1}
  Objs = {o1, o2}
  STREAM_CEILING = 1
  MaxGen = 2
  MaxEvents = 2
  \* Paths
  FirstPath = pr
  Extra = {x1, x2}
  MaxConns = 2
  MaxIds = 8
  MaxQueue = 2
  \* DriverLoop
  Queue = 1
  IO_BUDGET = 1
  EVENTS_CAP = 2
  DRAIN_BOUND = 2
  Traffic <- OneSocket
  Segments = 3
  PER_CALL = 2
  \* DriverDials
  Ops = {o1, o2}
  RESOLVER_SLOTS = 1
INVARIANTS
  LoopRuns
  DialsEnd
  TransmitSound
  HandleSound
  PathSound
CHECK_DEADLOCK FALSE
SYMMETRY Sym
