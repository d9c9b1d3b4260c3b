SPECIFICATION MCSpec
CONSTANTS
  NameChars = {"a", "A", "b", "."}
  PathChars = {"/", ".", "a"}
  TargetChars = {"a", "1", ":", "/", "?", "[", "]", "@"}
  MaxName = 4
  MaxEntry = 3
  MaxPath = 6
  MaxTarget = 3
  NAME_MAX = 7
  LABEL_MAX = 2
  AUTHORITY_MAX = 4
  TARGET_PATH_MAX = 4
  FetchHeads <- MC_FetchHeads
  BrowserHeads <- MC_BrowserHeads
  OriginHeads <- MC_OriginHeads
  MAX_HEADERS = 4
  FIELD_MAX = 5
  SECTION_MAX = 24
  COUNT_MAX = 7
  OVERHEAD = 1
  RENDER_SLACK = 7
  PacketIds = 3
  SLOTS = 2
  MAX_TOTAL = 4
  MaxFrags = 3
  UDP_MSG_HDR = 1
  MSS_REFRESH = 2
  MssValues = {0, 2, 3, 4}
  Sizes = {0, 4}
  MaxPackets = 4
  MaxNet = 3
  MaxChanges = 1
  None = None
  INGRESS_CAP = 16
  MAX_HOST = 2
  V4LEN = 4
  V6LEN = 6
  MAX_FRAME = 12
  MAX_STRING = 2
  SID_MAX = 100
  Ints <- MC_Ints
  Strings <- MC_Strings
  Forms = {0, 2, 8}
INVARIANTS
  NamesAndPaths
  HeadsTrue
  FramesRead
  IngressServed
  FragmentsSound
CHECK_DEADLOCK FALSE
