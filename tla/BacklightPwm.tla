---------------------------- MODULE BacklightPwm ----------------------------
(***************************************************************************)
(* The PWM output (ESP32/main/backlight_pwm.c): the duty the LEDC channel  *)
(* drives, and the percentage the driver remembers, which is updated only  *)
(* after both LEDC calls have succeeded.                                   *)
(***************************************************************************)
EXTENDS Integers

CONSTANTS
    PERCENT_MAX,               \* 100
    BACKLIGHT_PWM_DUTY_MAX     \* 1023: a 10-bit duty

ASSUME PwmAssumption ==
    /\ PERCENT_MAX \in Nat \ {0}
    /\ BACKLIGHT_PWM_DUTY_MAX \in Nat
    /\ BACKLIGHT_PWM_DUTY_MAX >= PERCENT_MAX

VARIABLES
    s_percent,     \* the driver's own record of the level
    duty           \* what the LEDC channel outputs

pwmVars == << s_percent, duty >>

\* Rounded to the nearest duty.
percent_to_duty(percent) ==
    IF percent >= PERCENT_MAX
    THEN BACKLIGHT_PWM_DUTY_MAX
    ELSE (percent * BACKLIGHT_PWM_DUTY_MAX + PERCENT_MAX \div 2) \div PERCENT_MAX

AtMostFull(percent) == IF percent > PERCENT_MAX THEN PERCENT_MAX ELSE percent

\* An error here aborts the boot (ESP_ERROR_CHECK), so the loop starts from
\* the state of a successful initialisation.
backlight_pwm_init(initial) ==
    /\ s_percent = AtMostFull(initial)
    /\ duty = percent_to_duty(AtMostFull(initial))

\* Mutant: the percentage is recorded before the LEDC calls are known to work.
RecordedTooEarly(percent, mayFail) ==
    /\ s_percent' = AtMostFull(percent)
    /\ duty' = percent_to_duty(AtMostFull(percent)) \/ (mayFail /\ duty' = duty)

\* Both LEDC calls succeed; or one returns an error, the output is not updated
\* and the old percentage is kept.
backlight_pwm_set_percent(percent, mayFail) ==
    \/ /\ s_percent' = AtMostFull(percent)
       /\ duty' = percent_to_duty(AtMostFull(percent))
    \/ mayFail /\ UNCHANGED pwmVars

PwmTypeOK ==
    /\ s_percent \in 0..PERCENT_MAX
    /\ duty \in 0..BACKLIGHT_PWM_DUTY_MAX
=============================================================================
