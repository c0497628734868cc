------------------------------ MODULE Firmware ------------------------------
(***************************************************************************)
(* The control loop of the ESP32 firmware (ESP32/main/main.c) running      *)
(* against the software I2C interrupt.                                     *)
(*                                                                         *)
(* The loop is one task.  Its body is cut at every point where it touches  *)
(* state the interrupt also touches (the VCP mailbox of DdcMailbox, the    *)
(* two bus lines and the clock); a piece between two such points is one    *)
(* action, and "pc" names the piece that runs next.  The interrupt handles *)
(* a whole I2C transaction with interrupts masked, so a transaction is one *)
(* action, enabled between any two pieces in InterruptPoints.              *)
(*                                                                         *)
(* Time.  The code keeps absolute microsecond stamps; the model keeps the  *)
(* age of each stamp, in an arbitrary clock unit of which Second make one  *)
(* second.  Time passes while the loop sleeps and while a transaction      *)
(* holds the CPU.                                                          *)
(***************************************************************************)
EXTENDS DdcMailbox, BacklightPwm

CONSTANTS
    INITIAL_BRIGHTNESS,        \* 50
    KEY_BRIGHTNESS_STEP,       \* 10, also the lowest full rung of the ladder
    DDC_SLEW,                  \* 200 percent per second
    KEYBOARD_SLEW,             \* 50 percent per second
    DDC_BOTH_LOW_OFF,          \* 20 ms, in clock units
    Second,                    \* clock units in a second
    LoopDelays,                \* what vTaskDelay(1) may last
    MaxStall,                  \* bound: time transactions take from one pass
    MaxAge,                    \* bound: ages of the fade stamp stop here
    HostBrightness,            \* 16-bit values the host writes to VCP 0x10
    HostPower,                 \* 16-bit values the host writes to VCP 0xD6
    InterruptPoints,           \* the pieces before which a transaction may run
    BusMayHang,                \* the laptop may hold both DDC lines low
    PwmMayFail                 \* an LEDC call may return an error

NoStamp == -1     \* the age of s_ddc_both_low_since_us == 0, "not low"

Labels == { "takeBrightness", "clearBrightness", "takePower", "clearPower",
            "keys", "down", "downSet", "up", "upSet",
            "guard", "guardPins", "fade", "sleep" }

ASSUME FirmwareAssumption ==
    /\ PERCENT_MAX = DDCCI_BRIGHTNESS_MAX
    /\ INITIAL_BRIGHTNESS \in 1..PERCENT_MAX
    /\ KEY_BRIGHTNESS_STEP \in 1..PERCENT_MAX
    /\ DDC_SLEW \in Nat \ {0}
    /\ KEYBOARD_SLEW \in Nat \ {0}
    /\ DDC_BOTH_LOW_OFF \in Nat
    /\ Second \in Nat \ {0}
    /\ LoopDelays \subseteq Nat
    /\ \E d \in LoopDelays : \A e \in LoopDelays : e <= d
    /\ MaxStall \in Nat
    /\ MaxAge \in Nat /\ MaxAge >= MaxStall
    /\ HostBrightness \subseteq Nat
    /\ HostPower \subseteq Nat
    /\ InterruptPoints \subseteq Labels
    /\ BusMayHang \in BOOLEAN
    /\ PwmMayFail \in BOOLEAN

VARIABLES
    s_requested_brightness,    \* the remembered level
    s_target_brightness,       \* where the fade is heading
    s_ddcci_power_on,
    s_keyboard_forced_off,     \* Fn+F9 went down to the 0% step
    s_brightness_slew,         \* s_brightness_slew_percent_per_sec
    s_ddc_bus_forced_off,
    update_age,                \* age of s_last_brightness_update_us
    both_low_age,              \* age of s_ddc_both_low_since_us, or NoStamp
    pc,                        \* the piece of the loop body that runs next
    value,                     \* the loop's copy of a mailbox value, 0 when dead
    key_events,                \* s_down_event and s_up_event, as directions
    now_age,                   \* age of the now_us the bus guard has sampled
    stall,                     \* time transactions have taken from this pass
    both_low                   \* the wires: SDA and SCL are both held low

goalVars  == << s_requested_brightness, s_target_brightness, s_ddcci_power_on,
                s_keyboard_forced_off, s_brightness_slew >>
guardVars == << s_ddc_bus_forced_off, both_low_age, now_age >>
localVars == << value, key_events >>
timeVars  == << update_age, both_low_age, now_age, stall >>

vars == << mailboxVars, pwmVars, goalVars, s_ddc_bus_forced_off, timeVars,
           pc, localVars, both_low >>

Smaller(a, b) == IF a < b THEN a ELSE b
Larger(a, b)  == IF a < b THEN b ELSE a

-----------------------------------------------------------------------------
(* Time *)

\* The ages of the live stamps grow by d.  now_age is live only between the
\* two pieces of the bus guard.  An age past its bound no longer decides
\* anything: MaxAge is reached only while the fade is suspended, whose end
\* writes the stamp afresh, and the guard compares with DDC_BOTH_LOW_OFF.
Elapse(d) ==
    /\ update_age' = Smaller(update_age + d, MaxAge)
    /\ both_low_age' = IF both_low_age = NoStamp
                       THEN NoStamp
                       ELSE Smaller(both_low_age + d, DDC_BOTH_LOW_OFF + MaxStall)
    /\ now_age' = IF pc = "guardPins" THEN now_age + d ELSE now_age

-----------------------------------------------------------------------------
(* The interrupt: one I2C transaction of the host *)

Transaction(d) ==
    /\ pc \in InterruptPoints
    /\ ~both_low
    /\ stall + d <= MaxStall
    /\ stall' = stall + d
    /\ Elapse(d)
    /\ UNCHANGED << pwmVars, goalVars, s_ddc_bus_forced_off, pc, localVars,
                    both_low >>

HostSetsBrightness ==
    \E d \in 0..MaxStall, v \in HostBrightness :
        Transaction(d) /\ SetVcpBrightness(v)

HostSetsPower ==
    \E d \in 0..MaxStall, m \in HostPower :
        Transaction(d) /\ SetVcpPowerMode(m)

\* EDID reads, Get VCP, rejected packets: they change nothing here but take
\* the CPU away from the loop.
HostReads ==
    \E d \in 1..MaxStall : Transaction(d) /\ UNCHANGED mailboxVars

\* The wires, at any time: the laptop pulls both lines down or lets go.
LinesChange ==
    /\ BusMayHang
    /\ both_low' = ~both_low
    /\ UNCHANGED << mailboxVars, pwmVars, goalVars, s_ddc_bus_forced_off,
                    timeVars, pc, localVars >>

-----------------------------------------------------------------------------
(* The loop: changing the goal *)

\* set_target_brightness_with_rate: a new fade starts its clock now.
set_target_brightness(target, rate) ==
    /\ s_target_brightness' = AtMostFull(target)
    /\ s_brightness_slew' = rate
    /\ update_age' = 0

\* Mutant: a level is shown whether or not D6 is on.
ShownAlways(level) == level

\* The level to fade to: dark while D6 is off.
ShownLevel(level) == IF s_ddcci_power_on THEN level ELSE 0

apply_brightness_request(brightness) ==
    /\ IF brightness > 0
       THEN /\ s_requested_brightness' = brightness
            /\ s_keyboard_forced_off' = FALSE
       ELSE UNCHANGED << s_requested_brightness, s_keyboard_forced_off >>
    /\ set_target_brightness(ShownLevel(brightness), DDC_SLEW)
    /\ UNCHANGED s_ddcci_power_on

\* Mutant: the level to restore is the one the fade last headed for.
RestoredTarget == s_target_brightness

\* What D6=01 brings back.
RestoredLevel == IF s_keyboard_forced_off THEN 0 ELSE s_requested_brightness

\* Mutant: the flag falls but the fade keeps its target.
PowerDownFlagOnly ==
    /\ s_ddcci_power_on' = FALSE
    /\ UNCHANGED << s_target_brightness, s_brightness_slew, update_age >>

PowerDown ==
    /\ s_ddcci_power_on' = FALSE
    /\ set_target_brightness(0, DDC_SLEW)

apply_power_mode(mode) ==
    /\ UNCHANGED << s_requested_brightness, s_keyboard_forced_off >>
    /\ \/ /\ mode = DDCCI_POWER_ON
          /\ ~s_ddcci_power_on
          /\ s_ddcci_power_on' = TRUE
          /\ set_target_brightness(RestoredLevel, DDC_SLEW)
       \/ /\ mode = DDCCI_POWER_ON
          /\ s_ddcci_power_on
          /\ UNCHANGED << s_ddcci_power_on, s_target_brightness,
                          s_brightness_slew, update_age >>
       \/ mode \in PowerModes \ {DDCCI_POWER_ON} /\ PowerDown

\* The ladder of Fn+F9 (direction -1) and Fn+F10 (+1).
keyboard_next_brightness(current, direction) ==
    IF direction < 0
    THEN IF current <= 1 THEN 0
         ELSE IF current <= KEY_BRIGHTNESS_STEP THEN 1
         ELSE Larger(current - KEY_BRIGHTNESS_STEP, KEY_BRIGHTNESS_STEP)
    ELSE IF current = 0 THEN 1
         ELSE IF current < KEY_BRIGHTNESS_STEP THEN KEY_BRIGHTNESS_STEP
         ELSE Smaller(current + KEY_BRIGHTNESS_STEP, PERCENT_MAX)

\* Mutant: a key's level is shown even while D6 is off.
KeyGoalAlways(next) == set_target_brightness(next, KEYBOARD_SLEW)

\* The keyboard's fade rate while the panel is on; dark otherwise.
KeyGoal(next) ==
    IF s_ddcci_power_on
    THEN set_target_brightness(next, KEYBOARD_SLEW)
    ELSE set_target_brightness(0, DDC_SLEW)

\* Mutant: Get VCP keeps reporting the level before the key.
KeyNotReported(next) == UNCHANGED mailboxVars

\* Get VCP 0x10 follows the keyboard.
ReportKeyLevel(next) == ddcci_set_brightness(next)

\* The second half of apply_keyboard_brightness_step, next # current.
ApplyKeyboardLevel(next) ==
    /\ ReportKeyLevel(next)
    /\ UNCHANGED s_ddcci_power_on
    /\ IF next = 0
       THEN /\ s_keyboard_forced_off' = TRUE
            /\ UNCHANGED s_requested_brightness
            /\ set_target_brightness(0, KEYBOARD_SLEW)
       ELSE /\ s_keyboard_forced_off' = FALSE
            /\ s_requested_brightness' = next
            /\ KeyGoal(next)

KeepGoal == UNCHANGED << goalVars, update_age >>
KeepRest == UNCHANGED << pwmVars, guardVars, stall, both_low >>

-----------------------------------------------------------------------------
(* The loop: its pieces, in program order *)

TakeBrightness ==
    /\ pc = "takeBrightness"
    /\ IF s_brightness_update_pending
       THEN pc' = "clearBrightness" /\ value' = s_brightness
       ELSE pc' = "takePower" /\ UNCHANGED value
    /\ UNCHANGED << mailboxVars, key_events >> /\ KeepGoal /\ KeepRest

ClearBrightness ==
    /\ pc = "clearBrightness"
    /\ ClearBrightnessPending
    /\ apply_brightness_request(value)
    /\ pc' = "takePower"
    /\ value' = 0
    /\ UNCHANGED key_events /\ KeepRest

TakePower ==
    /\ pc = "takePower"
    /\ IF s_power_mode_update_pending
       THEN pc' = "clearPower" /\ value' = s_power_mode
       ELSE pc' = "keys" /\ UNCHANGED value
    /\ UNCHANGED << mailboxVars, key_events >> /\ KeepGoal /\ KeepRest

ClearPower ==
    /\ pc = "clearPower"
    /\ ClearPowerPending
    /\ apply_power_mode(value)
    /\ pc' = "keys"
    /\ value' = 0
    /\ UNCHANGED key_events /\ KeepRest

\* keyboard_matrix_service: any of the two one-shot events may come up.
ServiceKeys ==
    /\ pc = "keys"
    /\ \E events \in SUBSET {-1, 1} : key_events' = events
    /\ pc' = "down"
    /\ UNCHANGED << mailboxVars, value >> /\ KeepGoal /\ KeepRest

\* The event is taken and the step starts by reading the current level.
TakeKey(direction, here, set, next) ==
    /\ pc = here
    /\ IF direction \in key_events
       THEN /\ pc' = set
            /\ value' = s_brightness
            /\ key_events' = key_events \ {direction}
       ELSE pc' = next /\ UNCHANGED localVars
    /\ UNCHANGED mailboxVars /\ KeepGoal /\ KeepRest

\* ... and ends by writing the next rung, unless there is none.
SetKey(direction, here, next) ==
    /\ pc = here
    /\ LET rung == keyboard_next_brightness(value, direction) IN
       IF rung = value
       THEN UNCHANGED mailboxVars /\ KeepGoal
       ELSE ApplyKeyboardLevel(rung)
    /\ pc' = next
    /\ value' = 0
    /\ UNCHANGED key_events /\ KeepRest

TakeDown == TakeKey(-1, "down", "downSet", "up")
SetDown  == SetKey(-1, "downSet", "up")
TakeUp   == TakeKey(1, "up", "upSet", "guard")
SetUp    == SetKey(1, "upSet", "guard")

\* ddc_bus_low_service samples the clock ...
BusGuard ==
    /\ pc = "guard"
    /\ now_age' = 0
    /\ pc' = "guardPins"
    /\ UNCHANGED << mailboxVars, pwmVars, localVars, s_ddc_bus_forced_off,
                    both_low_age, stall, both_low >>
    /\ KeepGoal

\* Mutant: the fade runs while the bus guard holds the PWM down.
FadeAnyway == "fade"

\* The fade is skipped while the guard holds the PWM down.
AfterHeldLow == IF s_ddc_bus_forced_off' THEN "sleep" ELSE "fade"

\* ... and then the pins.  Both low: stamp the first time, cut the PWM once
\* the stamp is old enough.  The flag is set whether or not the write works.
BusHeldLow ==
    LET age  == IF both_low_age = NoStamp THEN now_age ELSE both_low_age
        trip == ~s_ddc_bus_forced_off /\ age - now_age >= DDC_BOTH_LOW_OFF
    IN  /\ pc = "guardPins"
        /\ both_low
        /\ both_low_age' = age
        /\ s_ddc_bus_forced_off' = (s_ddc_bus_forced_off \/ trip)
        /\ IF trip
           THEN backlight_pwm_set_percent(0, PwmMayFail)
           ELSE UNCHANGED pwmVars
        /\ now_age' = 0
        /\ pc' = AfterHeldLow
        /\ UNCHANGED << mailboxVars, localVars, stall, both_low >> /\ KeepGoal

\* Mutant: the fade clock keeps the time the bus was held.
ReleasedAgeKept == update_age

\* A released bus restarts the fade clock.
ReleasedAge == IF s_ddc_bus_forced_off THEN now_age ELSE update_age

\* Not both low: forget the stamp; if the PWM was cut, restart the fade clock.
BusReleased ==
    /\ pc = "guardPins"
    /\ ~both_low
    /\ both_low_age' = NoStamp
    /\ s_ddc_bus_forced_off' = FALSE
    /\ update_age' = ReleasedAge
    /\ now_age' = 0
    /\ pc' = "fade"
    /\ UNCHANGED << mailboxVars, pwmVars, goalVars, localVars, stall, both_low >>

\* brightness_service: whole percents only, the rest of the time is carried.
FadeSteps == (update_age * s_brightness_slew) \div Second
TimeOf(steps) == (steps * Second) \div s_brightness_slew

\* Mutant: the time that did not make a whole percent is dropped.
DropCarry == 0

CarriedAge == update_age - TimeOf(FadeSteps)

\* Mutant: the last step is not shortened to the distance left.
Overshoot(n) == IF s_percent < s_target_brightness THEN s_percent + n
                                                   ELSE Larger(s_percent - n, 0)

\* The level after at most n steps towards the target.
Towards(n) ==
    IF s_percent < s_target_brightness
    THEN Smaller(s_percent + n, s_target_brightness)
    ELSE Larger(s_percent - n, s_target_brightness)

\* brightness_service, in its three outcomes.
FadeTooSoon ==
    /\ FadeSteps = 0
    /\ update_age' = CarriedAge
    /\ UNCHANGED pwmVars

FadeAtTarget ==
    /\ FadeSteps > 0
    /\ s_percent = s_target_brightness
    /\ update_age' = 0
    /\ UNCHANGED pwmVars

FadeMoves ==
    /\ FadeSteps > 0
    /\ s_percent # s_target_brightness
    /\ update_age' = CarriedAge
    /\ backlight_pwm_set_percent(Towards(FadeSteps), PwmMayFail)

brightness_service ==
    /\ pc = "fade"
    /\ FadeTooSoon \/ FadeAtTarget \/ FadeMoves
    /\ pc' = "sleep"
    /\ UNCHANGED << mailboxVars, goalVars, guardVars, localVars, stall, both_low >>

Sleep ==
    /\ pc = "sleep"
    /\ \E d \in LoopDelays : Elapse(d)
    /\ stall' = 0
    /\ pc' = "takeBrightness"
    /\ UNCHANGED << mailboxVars, pwmVars, goalVars, s_ddc_bus_forced_off,
                    localVars, both_low >>

-----------------------------------------------------------------------------
(* app_main starts the loop on the state its initialisation calls leave. *)
Init ==
    /\ ddcci_init(INITIAL_BRIGHTNESS)
    /\ backlight_pwm_init(INITIAL_BRIGHTNESS)
    /\ s_requested_brightness = INITIAL_BRIGHTNESS
    /\ s_target_brightness = INITIAL_BRIGHTNESS
    /\ s_ddcci_power_on = TRUE
    /\ s_keyboard_forced_off = FALSE
    /\ s_brightness_slew = DDC_SLEW
    /\ s_ddc_bus_forced_off = FALSE
    /\ update_age = 0
    /\ both_low_age = NoStamp
    /\ pc = "takeBrightness"
    /\ value = 0
    /\ key_events = {}
    /\ now_age = 0
    /\ stall = 0
    /\ both_low = FALSE

Loop ==
    \/ TakeBrightness \/ ClearBrightness \/ TakePower \/ ClearPower
    \/ ServiceKeys \/ TakeDown \/ SetDown \/ TakeUp \/ SetUp
    \/ BusGuard \/ BusHeldLow \/ BusReleased
    \/ brightness_service \/ Sleep

Next ==
    \/ Loop
    \/ HostSetsBrightness \/ HostSetsPower \/ HostReads
    \/ LinesChange

\* The scheduler keeps running the only application task; the host and the
\* wires owe nothing.
Spec     == Init /\ [][Next]_vars
FairSpec == Spec /\ WF_vars(Loop)
-----------------------------------------------------------------------------
(* What the firmware keeps true *)

\* Every variable keeps its type, at every point where the interrupt can
\* look at it.
TypeOK ==
    /\ MailboxTypeOK
    /\ PwmTypeOK
    /\ s_requested_brightness \in 0..PERCENT_MAX
    /\ s_target_brightness \in 0..PERCENT_MAX
    /\ s_ddcci_power_on \in BOOLEAN
    /\ s_keyboard_forced_off \in BOOLEAN
    /\ s_brightness_slew \in {DDC_SLEW, KEYBOARD_SLEW}
    /\ s_ddc_bus_forced_off \in BOOLEAN
    /\ update_age \in 0..MaxAge
    /\ both_low_age \in {NoStamp} \cup 0..(DDC_BOTH_LOW_OFF + MaxStall)
    /\ pc \in Labels
    /\ value \in 0..Larger(PERCENT_MAX, DDCCI_POWER_OFF_WRITE)
    /\ key_events \in SUBSET {-1, 1}
    /\ now_age \in 0..MaxStall
    /\ stall \in 0..MaxStall
    /\ both_low \in BOOLEAN

\* The fade only ever heads for the remembered level or for dark, whatever
\* order brightness, power and keyboard requests were applied in; it heads
\* for dark while D6 is off and while Fn+F9 has selected 0%; and the level
\* kept for the next D6=01 is never itself dark
\* (apply_brightness_request, apply_power_mode, apply_keyboard_brightness_step).
GoalCoherent ==
    /\ s_requested_brightness > 0
    /\ s_target_brightness \in {0, s_requested_brightness}
    /\ ~s_ddcci_power_on => s_target_brightness = 0
    /\ s_keyboard_forced_off => s_target_brightness = 0

\* While D6 is off no step makes the panel brighter: not a brightness write,
\* not a key, not the end of a bus cut ("remembered without turning the
\* backlight on", ESP32/main/README.txt).
OffNeverBrightens == [][~s_ddcci_power_on => duty' <= duty]_vars

\* What the LEDC channel outputs is the duty of the percentage the driver
\* reports, failed writes included, so the fade starts from what is lit.
DutyTracksPercent == duty = percent_to_duty(s_percent)

\* Once the bus guard has cut the PWM it stays dark until the lines are
\* released, whatever is requested meanwhile; and the cut implies a stamp
\* that is old enough (ddc_bus_low_service).
BusCutHolds ==
    s_ddc_bus_forced_off =>
        /\ ~PwmMayFail => duty = 0
        /\ both_low_age >= DDC_BOTH_LOW_OFF

\* The longest time between two evaluations of the fade in successive passes.
LongestPass == MaxStall + CHOOSE d \in LoopDelays : \A e \in LoopDelays : e <= d

\* No elapsed time is ever spent as a jump: whatever happened before (a new
\* target, a new rate, a bus cut of any length, idle time at the target) one
\* step of the fade moves at most what the rate allows in one pass of the
\* loop plus one carried percent.  Only the bus guard's cut is abrupt.
NoJump ==
    [][ \/ s_ddc_bus_forced_off'
        \/ Larger(s_percent' - s_percent, s_percent - s_percent') * Second
               <= s_brightness_slew * (LongestPass + MaxStall) + Second ]_vars

\* Nothing is waiting to be applied and the wires are free.
Quiet ==
    /\ ~s_brightness_update_pending
    /\ ~s_power_mode_update_pending
    /\ key_events = {}
    /\ ~both_low

\* When requests stop and the bus is free, the fade reaches its target and
\* stays there, whatever races and bus cuts came before.
FadeCompletes == <>[]Quiet => <>[](s_percent = s_target_brightness)

\* At rest: a pass has ended with nothing taken in since.
AtRest == pc = "sleep" /\ ~s_brightness_update_pending
                       /\ ~s_power_mode_update_pending

\* If transactions fall only outside the loop's read-then-clear windows, then
\* at rest what the host reads back is what the loop acts on: the power state,
\* the remembered level, and the target.  (A host's 0 written with D6 off is a temporary
\* display-off: the next D6=01 restores the remembered level.)
MailboxCoherent ==
    AtRest =>
        /\ s_ddcci_power_on = (s_power_mode = DDCCI_POWER_ON)
        /\ s_brightness > 0 => /\ s_requested_brightness = s_brightness
                               /\ ~s_keyboard_forced_off
        /\ s_ddcci_power_on /\ s_target_brightness # s_brightness =>
               /\ s_brightness = 0
               /\ ~s_keyboard_forced_off

\* A display switched off by D6 goes dark and stays dark.
OffEventuallyDark ==
    <>[](Quiet /\ s_power_mode # DDCCI_POWER_ON) => <>[](duty = 0)

\* A display that is on ends up at the level it reports.
OnEventuallyLit ==
    \A v \in Percent \ {0} :
        <>[](Quiet /\ s_power_mode = DDCCI_POWER_ON /\ s_brightness = v)
            => <>[](s_percent = v)

\* ESP32/main/README.txt: "Brightness changes while off are remembered
\* without turning the backlight on.  D6=01 restores the remembered
\* brightness."  At rest the remembered level is the one the host set last.
ChangesWhileOffAreRemembered ==
    AtRest /\ ~s_ddcci_power_on /\ s_brightness > 0 =>
        s_requested_brightness = s_brightness

-----------------------------------------------------------------------------
\* What the loop promises without its mailbox, its clock and its pieces.
PanelView == INSTANCE Panel WITH
    Max        <- PERCENT_MAX,
    Initial    <- INITIAL_BRIGHTNESS,
    MayFail    <- PwmMayFail,
    on         <- s_ddcci_power_on,
    key_dark   <- s_keyboard_forced_off,
    remembered <- s_requested_brightness,
    goal       <- s_target_brightness,
    lit        <- s_percent,
    blanked    <- s_ddc_bus_forced_off

\* Every step of the loop and of the interrupt is a step the panel allows.
ImplementsPanel == PanelView!Spec
=============================================================================
