\* Two levels, two tries each, one manual command, a link that comes and goes.
SPECIFICATION FairSpec
CONSTANTS
  Levels = {1, 50}
  OffTries = 2
  OnTries = 2
  MaxManual = 1
INVARIANTS
  TypeOK
  NoLostWakeup
PROPERTIES
  OffGoesDark
  OnLights
  LevelIsAdopted
  StopEnds
CHECK_DEADLOCK FALSE
