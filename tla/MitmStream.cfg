SPECIFICATION SSpec
CONSTANTS
  MaxBody = 2
  MaxRoom = 1
  NoLen = NoLen
  DL_CHUNK = 2
  MaxWindow = 1
  MaxUpload = 2
INVARIANTS
  StreamHonest
  StreamLives
CHECK_DEADLOCK FALSE
