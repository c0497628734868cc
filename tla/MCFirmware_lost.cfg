SPECIFICATION WritesWhileOff
CONSTANTS
  DDCCI_BRIGHTNESS_MAX = 4
  PERCENT_MAX = 4
  BACKLIGHT_PWM_DUTY_MAX = 10
  INITIAL_BRIGHTNESS = 2
  KEY_BRIGHTNESS_STEP = 2
  DDC_SLEW = 4
  KEYBOARD_SLEW = 1
  DDC_BOTH_LOW_OFF = 2
  Second = 2
  LoopDelays = {1}
  MaxStall = 1
  MaxAge = 8
  HostBrightness <- SomeBrightness
  HostPower <- SomePower
  InterruptPoints <- Anywhere
  BusMayHang = FALSE
  PwmMayFail = FALSE
INVARIANT ChangesWhileOffAreRemembered
