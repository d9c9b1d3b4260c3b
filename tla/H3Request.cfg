SPECIFICATION H3Spec
CONSTANTS
  BOOT_READ = 2
  BodyBuf = 1
  HeadBytes = 1
  UploadLen = 2
  MaxBody = 1
  MaxGrants = 4
  MaxBatch = 2
  MaxFaults = 2
INVARIANTS
  GatewayTold
  EndsAreHonest
PROPERTIES
  CompleteSurvives
CHECK_DEADLOCK FALSE
