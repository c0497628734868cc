\* Transactions outside the loop's read-then-clear windows, the laptop holding
\* and releasing both lines at any moment: what the host reads back is what the
\* loop does, and what it was told to do is eventually done.
SPECIFICATION FairSpec
CONSTANTS
  DDCCI_BRIGHTNESS_MAX = 4
  PERCENT_MAX = 4
  BACKLIGHT_PWM_DUTY_MAX = 10
  INITIAL_BRIGHTNESS = 2
  KEY_BRIGHTNESS_STEP = 2
  DDC_SLEW = 4
  KEYBOARD_SLEW = 1
  DDC_BOTH_LOW_OFF = 2
  Second = 2
  LoopDelays = {1}
  MaxStall = 1
  MaxAge = 8
  HostBrightness <- SomeBrightness
  HostPower <- SomePower
  InterruptPoints <- OutsideTheWindows
  BusMayHang = TRUE
  PwmMayFail = FALSE
INVARIANTS
  MailboxCoherent
  BusCutHolds
PROPERTIES
  NoJump
  FadeCompletes
  OffEventuallyDark
  OnEventuallyLit
