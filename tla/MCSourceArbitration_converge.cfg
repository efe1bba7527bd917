SPECIFICATION FairSpec
CONSTANTS
  Enabled <- WithUsb
  Faults <- DropFault
  SlowKeeper = TRUE
  Paced = FALSE
  Presets = {1}
  Repeats = TRUE
  MaxEvents = 3
PROPERTIES
  SilencedUntilStreamEnds
  Converges
