SPECIFICATION RadioSpec
CONSTANTS
  Backends = {"airplay"}
  MaxTroubles = 1
  MaxScripts = 1
PROPERTIES
  FreezeRecovers
CHECK_DEADLOCK FALSE
