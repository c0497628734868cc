\* Every kind of event, a link that may fail at any DDC call, a process that
\* may die between any two: what the agent may never do.
SPECIFICATION Spec
CONSTANTS
  BrightnessMax = 4
  INITIAL_SAVED = 4
  Settings <- LearnedTiming
  KeyLevels = {3}
  RestoreRetryInterval = 1
  RestoreRetryMaxAttempts = 2
  StartupDisplayStateWait = 1
  BrightnessCacheInterval = 1
  SettingsPollInterval = 1
  MaxSamples = 1
  MaxAge = 3
  Gaps = {1}
  DdcResults = {TRUE, FALSE}
  SessionNotify = TRUE
  Inputs <- Everything
  CrashPoints <- Anywhere
INVARIANTS
  TypeOK
PROPERTIES
  NoBlackoutWhileEnding
  NoLightWhileNobodyThere
  PredictsOnlyAfterDim
  LearnsOnlyCleanCycles
