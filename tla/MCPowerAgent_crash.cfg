\* The agent dies after a pre-OFF and starts again during the same DIM, which
\* it takes for a duplicate: the panel stays black.
SPECIFICATION FairSpec
CONSTANTS
  BrightnessMax = 4
  INITIAL_SAVED = 4
  Settings <- LearnedTiming
  KeyLevels = {3}
  RestoreRetryInterval = 1
  RestoreRetryMaxAttempts = 2
  StartupDisplayStateWait = 1
  BrightnessCacheInterval = 1
  SettingsPollInterval = 1
  MaxSamples = 1
  MaxAge = 3
  Gaps = {1}
  DdcResults = {TRUE}
  SessionNotify = TRUE
  Inputs <- DisplayAndCrash
  CrashPoints <- AtRest
PROPERTIES
  PreOffTakenBack
