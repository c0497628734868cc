\* Fn and F9 move, F10 is held down: one combination only.
SPECIFICATION Spec
CONSTANTS
  SCAN_MIN = 1
  SCAN_MAX = 1
  REQUIRED_HITS = 2
  RELEASE_TIMEOUT = 2
  REPEAT_INITIAL = 4
  REPEAT_INTERVAL = 3
  Fingers = {"fn", "f9"}
  LoopDelay = 1
  MaskLengths = {2}
PROPERTY RepeatsAtRate
