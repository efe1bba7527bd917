SPECIFICATION PartSpec
CONSTANTS
  Roots <- TwoRoots
  Firmwares <- Slots
  Current <- Schemas
  MinReader <- Readers
  FirstSchema = 0
  Uploads <- Files
  MaxBackups = 2
  ClockSet = TRUE
  Threads = {1}
  Services <- TwoServices
  MaxSoundFaults = 1
  MaxRestores = 2
  MaxLosses = 2
  MaxFaults = 1
  Card = 11
  Sizes = {4, 10, 11}
  Block = 2
  MinGrow = 3
  MaxTrouble = 3
  Cards = {"dac", "headphones"}
  DefaultCard = "headphones"
  Settings = {"flat", "bass"}
  Flat = "flat"
  Levels = {20, 60}
  SoundFaults <- AllSoundFaults
  Overlap = FALSE
  MaxRequests = 2
  MaxTurns = 1
  MaxBoots = 1
  Contents <- ThreeFiles
  Troubles <- AllTroubles
  MaxEdits = 1
  MaxSaves = 1
  MaxMishaps = 2
  MaxStarts = 3
INVARIANTS
  
  NothingLost
  Contained
  
  
  
PROPERTIES
  
  CardUsed
CHECK_DEADLOCK FALSE
