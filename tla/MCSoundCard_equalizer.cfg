SPECIFICATION CardSpec
CONSTANTS
  Cards = {"dac"}
  DefaultCard = "dac"
  Settings = {"flat", "bass"}
  Flat = "flat"
  Services <- TwoServices
  Levels = {20}
  SoundFaults = {"restart"}
  Overlap = FALSE
  MaxSoundFaults = 1
  MaxRequests = 2
  MaxTurns = 0
  MaxBoots = 0
INVARIANTS
  AllReopened
CHECK_DEADLOCK FALSE
