\* A shutdown is begun while the panel is dark and then cancelled: the ON that
\* came meanwhile was ignored, and the panel stays black.
SPECIFICATION FairSpec
CONSTANTS
  BrightnessMax = 4
  INITIAL_SAVED = 4
  Settings <- LearnedTiming
  KeyLevels = {3}
  RestoreRetryInterval = 1
  RestoreRetryMaxAttempts = 2
  StartupDisplayStateWait = 1
  BrightnessCacheInterval = 1
  SettingsPollInterval = 1
  MaxSamples = 1
  MaxAge = 3
  Gaps = {1}
  DdcResults = {TRUE}
  SessionNotify = TRUE
  Inputs <- DisplayAndShutdown
  CrashPoints <- AtRest
PROPERTIES
  LitWhenOn
