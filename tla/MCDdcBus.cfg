\* Six scripts, two of them one after the other, one fault anywhere.
SPECIFICATION FairSpec
CONSTANTS
  DDCCI_BRIGHTNESS_MAX = 100
  INITIAL_BRIGHTNESS = 50
  DDCCI_RX_MAX = 7
  I2C_STUCK_BOTH_LOW_SPINS = 0
  I2C_NO_EDGE_TIMEOUT_SPINS = 1
  s_edid <- SomeEdid
  Scripts <- SomeScripts
  MaxTransfers = 2
  MaxFaults = 1
  MayBeEarly = TRUE
  Nothing = Nothing
  Unknown = Unknown
  Null = Null
INVARIANTS
  TypeOK
  DrivesOnlyItsSlots
  AckedIsStored
  ReadsAreTrue
PROPERTIES
  ImplementsVcpDevice
  SilenceFreesCpu
CHECK_DEADLOCK FALSE
