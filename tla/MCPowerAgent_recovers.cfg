\* A link that works and a process that only dies between messages: what the
\* agent will restore is the user's, off is dark, and the panel is lit again.
SPECIFICATION FairSpec
CONSTANTS
  BrightnessMax = 4
  INITIAL_SAVED = 4
  Settings <- BothTimings
  KeyLevels = {3}
  RestoreRetryInterval = 1
  RestoreRetryMaxAttempts = 2
  StartupDisplayStateWait = 1
  BrightnessCacheInterval = 1
  SettingsPollInterval = 1
  MaxSamples = 1
  MaxAge = 3
  Gaps = {1}
  DdcResults = {TRUE}
  SessionNotify = TRUE
  Inputs <- Ordinary
  CrashPoints <- AtRest
INVARIANTS
  SavedIsChosen
  DarkWhenOff
PROPERTIES
  LitWhenOn
  PreOffResolved
