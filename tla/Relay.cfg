SPECIFICATION FairSpec
CONSTANTS
  RELAY_BUF = 2
  MaxUp = 2
  MaxDown = 3
  Faults = TRUE
INVARIANTS
  TypeOK
  BytesConserved
  CleanComplete
  LateEventsDropped
PROPERTIES
  FlowLives
  ImplementsPipe
