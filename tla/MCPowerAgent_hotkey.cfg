\* The emergency hotkey during a DIM: the DIM level becomes the saved one.
SPECIFICATION Spec
CONSTANTS
  BrightnessMax = 4
  INITIAL_SAVED = 4
  Settings <- LearnedTiming
  KeyLevels = {3}
  RestoreRetryInterval = 1
  RestoreRetryMaxAttempts = 2
  StartupDisplayStateWait = 1
  BrightnessCacheInterval = 1
  SettingsPollInterval = 1
  MaxSamples = 1
  MaxAge = 3
  Gaps = {1}
  DdcResults = {TRUE}
  SessionNotify = TRUE
  Inputs <- DisplayAndHotkey
  CrashPoints <- AtRest
INVARIANTS
  SavedIsChosen
