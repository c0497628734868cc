\* F9 and F10 move, Fn is held; one transaction and one edge in each pass.
SPECIFICATION Spec
CONSTANTS
  SCAN_MIN = 1
  SCAN_MAX = 1
  REQUIRED_HITS = 2
  RELEASE_TIMEOUT = 2
  REPEAT_INITIAL = 3
  REPEAT_INTERVAL = 2
  Fingers = {"f9", "f10"}
  LoopDelay = 1
  MaskLengths = {2}
INVARIANTS
  TypeOK
PROPERTIES
  PressedIsHeld
  HeldStaysPressed
  EventsAreFresh
  RepeatsUnlessLapsed
  HeldKeepsStepping
