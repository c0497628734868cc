--------------------------- MODULE FirmwareProofs ---------------------------
(***************************************************************************)
(* Proofs about the control loop, for every value of its constants: any    *)
(* ladder, any slew rates, any loop delays, any set of points where the    *)
(* interrupt may fall.                                                     *)
(*                                                                         *)
(* The safety properties rest on one inductive invariant, IInv.  Over      *)
(* what is to be proved it adds what the loop's local state holds between  *)
(* its pieces (LocalInv), the pace of the two clocks of the bus guard      *)
(* (GuardInv), and that the fade never runs while the PWM is cut (CutInv). *)
(***************************************************************************)
EXTENDS Firmware, TLAPS

\* What the loop carries from one piece to the next.
LocalInv ==
    /\ pc \in {"clearBrightness", "downSet", "upSet"} => value \in Percent
    /\ pc = "clearPower" => value \in PowerModes

\* The guard's sampled clock is never older than the time transactions took.
GuardInv ==
    /\ now_age <= stall
    /\ pc # "guardPins" => now_age = 0

\* While the PWM is cut the stamp is old enough, the fade does not run and,
\* unless the cut itself failed, the level is 0.
CutInv ==
    s_ddc_bus_forced_off =>
        /\ pc # "fade"
        /\ both_low_age >= DDC_BOTH_LOW_OFF
        /\ ~PwmMayFail => s_percent = 0

IInv == TypeOK /\ GoalCoherent /\ DutyTracksPercent /\ LocalInv /\ GuardInv /\ CutInv

-----------------------------------------------------------------------------
(* Division, for divisors that are constants or variables *)

\* What \div says of the quotient, as two products.
LEMMA DivBounds ==
    ASSUME NEW a \in Nat, NEW b \in Nat \ {0}
    PROVE  /\ a \div b \in Nat
           /\ (a \div b) * b <= a
           /\ a < (a \div b) * b + b
  BY SMT

\* A product grows with its first factor.
LEMMA ProductMonotone ==
    ASSUME NEW a \in Nat, NEW b \in Nat, NEW c \in Nat, a <= b
    PROVE  a * c <= b * c /\ a * c \in Nat
  BY SMT

\* A quotient is bounded where the product bounds the dividend.
LEMMA DivAtMost ==
    ASSUME NEW a \in Nat, NEW b \in Nat \ {0}, NEW q \in Nat, a < (q + 1) * b
    PROVE  a \div b <= q
  <1>1. (a \div b) * b <= a /\ a \div b \in Nat
    BY DivBounds
  <1>2. SUFFICES ASSUME a \div b >= q + 1 PROVE FALSE
    BY <1>1
  <1>3. (q + 1) * b <= (a \div b) * b
    BY <1>1, <1>2, ProductMonotone
  <1> QED BY <1>1, <1>3

\* Division by the same number keeps the order.
LEMMA DivMonotone ==
    ASSUME NEW a \in Nat, NEW c \in Nat, NEW b \in Nat \ {0}, a <= c
    PROVE  a \div b <= c \div b
  <1>1. c < (c \div b) * b + b /\ c \div b \in Nat
    BY DivBounds
  <1>2. a < (c \div b + 1) * b
    BY <1>1
  <1> QED BY <1>1, <1>2, DivAtMost

-----------------------------------------------------------------------------
(* The operators of the model *)

\* The types of the constants, out of the assumptions of the three modules.
LEMMA ConstantTypes ==
    /\ PERCENT_MAX \in Nat \ {0}
    /\ DDCCI_BRIGHTNESS_MAX = PERCENT_MAX
    /\ BACKLIGHT_PWM_DUTY_MAX \in Nat
    /\ BACKLIGHT_PWM_DUTY_MAX >= PERCENT_MAX
    /\ INITIAL_BRIGHTNESS \in 1..PERCENT_MAX
    /\ KEY_BRIGHTNESS_STEP \in 1..PERCENT_MAX
    /\ DDC_SLEW \in Nat \ {0}
    /\ KEYBOARD_SLEW \in Nat \ {0}
    /\ DDC_BOTH_LOW_OFF \in Nat
    /\ Second \in Nat \ {0}
    /\ MaxStall \in Nat
    /\ MaxAge \in Nat /\ MaxAge >= MaxStall
  BY BrightnessMaxAssumption, PwmAssumption, FirmwareAssumption

\* percent_to_duty keeps the order of levels, is 0 at 0 and fits the channel.
LEMMA DutyInRange ==
    ASSUME NEW p \in 0..PERCENT_MAX
    PROVE  percent_to_duty(p) \in 0..BACKLIGHT_PWM_DUTY_MAX
  <1> DEFINE M == PERCENT_MAX
             D == BACKLIGHT_PWM_DUTY_MAX
  <1> USE ConstantTypes
  <1>1. CASE p >= M
    BY <1>1 DEF percent_to_duty
  <1>2. CASE p < M
    <2>1. p * D <= (M - 1) * D /\ p * D \in Nat /\ (M - 1) * D \in Nat
      BY <1>2, ProductMonotone
    <2>2. M \div 2 \in Nat /\ (M \div 2) * 2 <= M
      BY DivBounds
    <2>3. (M - 1) * D + D = D * M
      OBVIOUS
    <2>4. p * D + M \div 2 \in Nat
      BY <2>1, <2>2
    <2>5. p * D + M \div 2 < D * M + M
      BY <2>1, <2>2, <2>3
    <2>6. p * D + M \div 2 < (D + 1) * M
      BY <2>5
    <2>7. (p * D + M \div 2) \div M <= D
      BY <2>4, <2>6, DivAtMost
    <2>8. (p * D + M \div 2) \div M \in Nat
      BY <2>4, DivBounds
    <2> QED BY <1>2, <2>7, <2>8 DEF percent_to_duty
  <1> QED BY <1>1, <1>2

\* 0 percent is a duty of 0.
LEMMA DutyZero == percent_to_duty(0) = 0
  <1> USE ConstantTypes
  <1>1. PERCENT_MAX \div 2 \in Nat /\ (PERCENT_MAX \div 2) * 2 <= PERCENT_MAX
    BY DivBounds
  <1>2. PERCENT_MAX \div 2 < (0 + 1) * PERCENT_MAX
    BY <1>1
  <1>3. (PERCENT_MAX \div 2) \div PERCENT_MAX \in Nat
    BY <1>1, DivBounds
  <1>4. (PERCENT_MAX \div 2) \div PERCENT_MAX <= 0
    BY <1>1, <1>2, DivAtMost
  <1>5. 0 * BACKLIGHT_PWM_DUTY_MAX + PERCENT_MAX \div 2 = PERCENT_MAX \div 2
    BY <1>1
  <1> QED BY <1>3, <1>4, <1>5 DEF percent_to_duty

\* A lower level is never a higher duty.
LEMMA DutyMonotone ==
    ASSUME NEW p \in 0..PERCENT_MAX, NEW q \in 0..PERCENT_MAX, p <= q
    PROVE  percent_to_duty(p) <= percent_to_duty(q)
  <1> DEFINE M == PERCENT_MAX
             D == BACKLIGHT_PWM_DUTY_MAX
  <1> USE ConstantTypes
  <1>1. CASE q >= M
    BY <1>1, DutyInRange DEF percent_to_duty
  <1>2. CASE q < M
    <2>1. p * D <= q * D /\ p * D \in Nat /\ q * D \in Nat
      BY ProductMonotone
    <2>2. M \div 2 \in Nat
      BY DivBounds
    <2>3. (p * D + M \div 2) \div M <= (q * D + M \div 2) \div M
      BY <2>1, <2>2, DivMonotone
    <2> QED BY <1>2, <2>3 DEF percent_to_duty
  <1> QED BY <1>1, <1>2

\* The ladder never leaves the range of levels.
LEMMA LadderInRange ==
    ASSUME NEW c \in Percent, NEW direction \in {-1, 1}
    PROVE  keyboard_next_brightness(c, direction) \in Percent
  BY ConstantTypes DEF keyboard_next_brightness, Percent, Larger, Smaller

\* The fade never consumes more time than has passed.
LEMMA TimeConsumed ==
    ASSUME NEW age \in Nat, NEW slew \in Nat \ {0}
    PROVE  LET n == (age * slew) \div Second
           IN  /\ n \in Nat
               /\ (n * Second) \div slew \in 0..age
  <1> DEFINE n == (age * slew) \div Second
  <1> USE ConstantTypes
  <1>1. age * slew \in Nat
    BY ProductMonotone
  <1>2. n \in Nat /\ n * Second <= age * slew
    BY <1>1, DivBounds
  <1>3. n * Second \in Nat
    BY <1>2, ProductMonotone
  <1>4. n * Second < (age + 1) * slew
    BY <1>1, <1>2, <1>3
  <1>5. (n * Second) \div slew <= age
    BY <1>3, <1>4, DivAtMost
  <1>6. (n * Second) \div slew \in Nat
    BY <1>3, DivBounds
  <1> QED BY <1>2, <1>5, <1>6

-----------------------------------------------------------------------------
(* Init and every action keep the inductive invariant *)

\* app_main starts the loop in the invariant.
LEMMA InitIInv == Init => IInv
  <1> USE ConstantTypes
  <1> SUFFICES ASSUME Init PROVE IInv
    OBVIOUS
  <1>1. AtMostFull(INITIAL_BRIGHTNESS) = INITIAL_BRIGHTNESS
        /\ ClampPercent(INITIAL_BRIGHTNESS) = INITIAL_BRIGHTNESS
    BY DEF AtMostFull, ClampPercent
  <1>2. percent_to_duty(INITIAL_BRIGHTNESS) \in 0..BACKLIGHT_PWM_DUTY_MAX
    BY DutyInRange
  <1>3. /\ s_brightness_update_pending \in BOOLEAN
        /\ s_power_mode_update_pending \in BOOLEAN
        /\ s_ddcci_power_on \in BOOLEAN
        /\ s_keyboard_forced_off \in BOOLEAN
        /\ s_ddc_bus_forced_off \in BOOLEAN
        /\ both_low \in BOOLEAN
    BY Zenon DEF Init, ddcci_init
  <1>4. s_brightness \in Percent /\ s_power_mode \in PowerModes
    BY <1>1 DEF Init, ddcci_init, Percent, PowerModes,
       DDCCI_POWER_ON, DDCCI_POWER_OFF_WRITE
  <1>5. PwmTypeOK
    BY <1>1, <1>2 DEF Init, backlight_pwm_init, PwmTypeOK
  <1>6. /\ s_requested_brightness \in 0..PERCENT_MAX
        /\ s_target_brightness \in 0..PERCENT_MAX
        /\ s_brightness_slew \in {DDC_SLEW, KEYBOARD_SLEW}
        /\ update_age \in 0..MaxAge
        /\ both_low_age \in {NoStamp} \cup 0..(DDC_BOTH_LOW_OFF + MaxStall)
        /\ pc \in Labels
        /\ value \in 0..Larger(PERCENT_MAX, DDCCI_POWER_OFF_WRITE)
        /\ key_events \in SUBSET {-1, 1}
        /\ now_age \in 0..MaxStall
        /\ stall \in 0..MaxStall
    BY DEF Init, Labels, Larger, DDCCI_POWER_OFF_WRITE
  <1>7. TypeOK
    BY <1>3, <1>4, <1>5, <1>6 DEF TypeOK, MailboxTypeOK
  <1> QED BY <1>1, <1>7 DEF Init, ddcci_init, backlight_pwm_init, IInv,
       GoalCoherent, DutyTracksPercent, LocalInv, GuardInv, CutInv

\* Time passing keeps the types of the ages, and never undoes a cut.
LEMMA ElapseKeeps ==
    ASSUME IInv, NEW d \in Nat, Elapse(d)
    PROVE  /\ update_age' \in 0..MaxAge
           /\ both_low_age' \in {NoStamp} \cup 0..(DDC_BOTH_LOW_OFF + MaxStall)
           /\ both_low_age >= DDC_BOTH_LOW_OFF => both_low_age' >= DDC_BOTH_LOW_OFF
           /\ now_age' = IF pc = "guardPins" THEN now_age + d ELSE now_age
  BY ConstantTypes DEF Elapse, IInv, TypeOK, Smaller, NoStamp

\* A transaction disturbs the mailbox and the ages, nothing else.
LEMMA TransactionKeeps ==
    ASSUME IInv, NEW d \in Nat, Transaction(d), MailboxTypeOK'
    PROVE  IInv'
  <1> USE ConstantTypes
  <1>1. /\ update_age' \in 0..MaxAge
        /\ both_low_age' \in {NoStamp} \cup 0..(DDC_BOTH_LOW_OFF + MaxStall)
        /\ both_low_age >= DDC_BOTH_LOW_OFF => both_low_age' >= DDC_BOTH_LOW_OFF
        /\ now_age' = IF pc = "guardPins" THEN now_age + d ELSE now_age
    BY ElapseKeeps DEF Transaction
  <1>2. /\ stall' = stall + d
        /\ stall' <= MaxStall
        /\ UNCHANGED << s_percent, duty, s_requested_brightness,
                        s_target_brightness, s_ddcci_power_on,
                        s_keyboard_forced_off, s_brightness_slew,
                        s_ddc_bus_forced_off, pc, value, key_events, both_low >>
    BY DEF Transaction, pwmVars, goalVars, localVars
  <1>3. GuardInv' /\ now_age' \in 0..MaxStall /\ stall' \in 0..MaxStall
    BY <1>1, <1>2 DEF IInv, GuardInv, TypeOK
  <1>4. TypeOK'
    BY <1>1, <1>2, <1>3 DEF IInv, TypeOK, PwmTypeOK
  <1>5. (GoalCoherent /\ DutyTracksPercent /\ LocalInv)'
    BY <1>2 DEF IInv, GoalCoherent, DutyTracksPercent, LocalInv,
       percent_to_duty, Percent, PowerModes
  <1>6. CutInv'
    BY <1>1, <1>2 DEF IInv, CutInv
  <1> QED BY <1>3, <1>4, <1>5, <1>6 DEF IInv

\* The interrupt keeps the invariant when the host writes VCP 0x10.
LEMMA HostSetsBrightnessKeeps == IInv /\ HostSetsBrightness => IInv'
  <1> SUFFICES ASSUME IInv, NEW d \in 0..MaxStall, NEW v \in HostBrightness,
                      Transaction(d), SetVcpBrightness(v)
               PROVE  IInv'
    BY DEF HostSetsBrightness
  <1>1. v \in Nat /\ d \in Nat
    BY FirmwareAssumption, ConstantTypes
  <1>2. MailboxTypeOK'
    BY <1>1, ConstantTypes DEF SetVcpBrightness, ClampPercent, Percent,
       MailboxTypeOK, IInv, TypeOK
  <1> QED BY <1>1, <1>2, TransactionKeeps

\* The same when it writes VCP 0xD6.
LEMMA HostSetsPowerKeeps == IInv /\ HostSetsPower => IInv'
  <1> SUFFICES ASSUME IInv, NEW d \in 0..MaxStall, NEW m \in HostPower,
                      Transaction(d), SetVcpPowerMode(m)
               PROVE  IInv'
    BY DEF HostSetsPower
  <1>1. d \in Nat
    BY ConstantTypes
  <1>2. MailboxTypeOK'
    BY DEF SetVcpPowerMode, MailboxTypeOK, IInv, TypeOK
  <1> QED BY <1>1, <1>2, TransactionKeeps

\* The same when it reads, which only takes time.
LEMMA HostReadsKeeps == IInv /\ HostReads => IInv'
  <1> SUFFICES ASSUME IInv, NEW d \in 1..MaxStall,
                      Transaction(d), UNCHANGED mailboxVars
               PROVE  IInv'
    BY DEF HostReads
  <1>1. d \in Nat
    BY ConstantTypes
  <1>2. MailboxTypeOK'
    BY DEF MailboxTypeOK, mailboxVars, IInv, TypeOK, Percent, PowerModes
  <1> QED BY <1>1, <1>2, TransactionKeeps

\* The laptop takes or releases both lines: only the wires change.
LEMMA LinesChangeKeeps == IInv /\ LinesChange => IInv'
  <1> SUFFICES ASSUME IInv, LinesChange PROVE IInv'
    OBVIOUS
  <1>1. both_low' \in BOOLEAN
    BY Zenon DEF LinesChange
  <1>2. UNCHANGED << mailboxVars, pwmVars, goalVars, s_ddc_bus_forced_off,
                     timeVars, pc, localVars >>
    BY DEF LinesChange
  <1> QED BY <1>1, <1>2 DEF mailboxVars, pwmVars, goalVars, timeVars, localVars,
       IInv, TypeOK, MailboxTypeOK, PwmTypeOK, GoalCoherent, DutyTracksPercent,
       LocalInv, GuardInv, CutInv, Percent, PowerModes, percent_to_duty

\* A piece of the loop that changes only the goal, the mailbox and its locals
\* leaves the light, the clocks of the guard and the stall alone.
LEMMA LightUndisturbed ==
    ASSUME IInv, KeepRest,
           pc # "guardPins", pc' # "fade" \/ ~s_ddc_bus_forced_off
    PROVE  /\ PwmTypeOK' /\ DutyTracksPercent' /\ GuardInv' /\ CutInv'
           /\ s_ddc_bus_forced_off' \in BOOLEAN
           /\ both_low_age' \in {NoStamp} \cup 0..(DDC_BOTH_LOW_OFF + MaxStall)
           /\ now_age' \in 0..MaxStall
           /\ stall' \in 0..MaxStall
           /\ both_low' \in BOOLEAN
  BY DEF KeepRest, pwmVars, guardVars, IInv, TypeOK, PwmTypeOK,
     DutyTracksPercent, GuardInv, CutInv, percent_to_duty

\* The types and the coherence of the goal, and the age that goes with it.
GoalTyped ==
    /\ s_requested_brightness \in 0..PERCENT_MAX
    /\ s_target_brightness \in 0..PERCENT_MAX
    /\ s_ddcci_power_on \in BOOLEAN
    /\ s_keyboard_forced_off \in BOOLEAN
    /\ s_brightness_slew \in {DDC_SLEW, KEYBOARD_SLEW}
    /\ update_age \in 0..MaxAge
    /\ GoalCoherent

\* A piece that leaves the goal alone keeps it coherent.
LEMMA KeepGoalKeeps ==
    ASSUME IInv, KeepGoal PROVE GoalTyped'
  BY DEF KeepGoal, goalVars, IInv, TypeOK, GoalCoherent, GoalTyped

\* A new fade towards dark or towards the remembered level is always in range.
LEMMA SetTarget ==
    ASSUME NEW level \in Percent, NEW rate, set_target_brightness(level, rate)
    PROVE  /\ s_target_brightness' = level
           /\ s_brightness_slew' = rate
           /\ update_age' = 0
  BY ConstantTypes DEF set_target_brightness, AtMostFull, Percent

\* Whatever piece of the loop that does not touch the light runs, its parts
\* add up to the invariant.
LEMMA GoalStep ==
    ASSUME IInv, KeepRest, pc # "guardPins", pc' # "fade",
           GoalTyped', MailboxTypeOK', LocalInv', pc' \in Labels,
           value' \in 0..Larger(PERCENT_MAX, DDCCI_POWER_OFF_WRITE),
           key_events' \in SUBSET {-1, 1}
    PROVE  IInv'
  <1>1. /\ PwmTypeOK' /\ DutyTracksPercent' /\ GuardInv' /\ CutInv'
        /\ s_ddc_bus_forced_off' \in BOOLEAN
        /\ both_low_age' \in {NoStamp} \cup 0..(DDC_BOTH_LOW_OFF + MaxStall)
        /\ now_age' \in 0..MaxStall
        /\ stall' \in 0..MaxStall
        /\ both_low' \in BOOLEAN
    BY LightUndisturbed
  <1>2. TypeOK'
    BY <1>1 DEF TypeOK, GoalTyped
  <1> QED BY <1>1, <1>2 DEF IInv, GoalTyped

\* A piece that leaves the mailbox alone keeps its types.
LEMMA MailboxUnchanged ==
    ASSUME IInv, UNCHANGED mailboxVars PROVE MailboxTypeOK'
  BY DEF IInv, TypeOK, MailboxTypeOK, mailboxVars, Percent, PowerModes

\* The copy of a mailbox value is a level or a power mode.
LEMMA ValueRange ==
    /\ Percent \subseteq 0..Larger(PERCENT_MAX, DDCCI_POWER_OFF_WRITE)
    /\ PowerModes \subseteq 0..Larger(PERCENT_MAX, DDCCI_POWER_OFF_WRITE)
    /\ 0 \in Percent
  BY ConstantTypes DEF Percent, PowerModes, Larger, DDCCI_POWER_ON,
     DDCCI_POWER_OFF_WRITE

\* main.c:410, reading the brightness, keeps the invariant.
LEMMA TakeBrightnessKeeps == IInv /\ TakeBrightness => IInv'
  <1> SUFFICES ASSUME IInv, TakeBrightness PROVE IInv'
    OBVIOUS
  <1>1. /\ pc = "takeBrightness" /\ pc' \in {"clearBrightness", "takePower"}
        /\ pc' = "clearBrightness" => value' = s_brightness
        /\ value' \in {value, s_brightness}
        /\ UNCHANGED mailboxVars /\ key_events' = key_events
        /\ KeepGoal /\ KeepRest
    BY DEF TakeBrightness
  <1>2. GoalTyped' /\ MailboxTypeOK'
    BY <1>1, KeepGoalKeeps, MailboxUnchanged
  <1>3. s_brightness \in Percent
    BY DEF IInv, TypeOK, MailboxTypeOK
  <1>4. LocalInv'
    BY <1>1, <1>3 DEF LocalInv, Percent
  <1>5. value' \in 0..Larger(PERCENT_MAX, DDCCI_POWER_OFF_WRITE)
    BY <1>1, <1>3, ValueRange DEF IInv, TypeOK
  <1>6. key_events' \in SUBSET {-1, 1} /\ pc' \in Labels
    BY <1>1 DEF IInv, TypeOK, Labels
  <1> QED BY <1>1, <1>2, <1>4, <1>5, <1>6, GoalStep

\* main.c:414, reading the power mode, keeps the invariant.
LEMMA TakePowerKeeps == IInv /\ TakePower => IInv'
  <1> SUFFICES ASSUME IInv, TakePower PROVE IInv'
    OBVIOUS
  <1>1. /\ pc = "takePower" /\ pc' \in {"clearPower", "keys"}
        /\ pc' = "clearPower" => value' = s_power_mode
        /\ value' \in {value, s_power_mode}
        /\ UNCHANGED mailboxVars /\ key_events' = key_events
        /\ KeepGoal /\ KeepRest
    BY DEF TakePower
  <1>2. GoalTyped' /\ MailboxTypeOK'
    BY <1>1, KeepGoalKeeps, MailboxUnchanged
  <1>3. s_power_mode \in PowerModes
    BY DEF IInv, TypeOK, MailboxTypeOK
  <1>4. LocalInv'
    BY <1>1, <1>3 DEF LocalInv, PowerModes
  <1>5. value' \in 0..Larger(PERCENT_MAX, DDCCI_POWER_OFF_WRITE)
    BY <1>1, <1>3, ValueRange DEF IInv, TypeOK
  <1>6. key_events' \in SUBSET {-1, 1} /\ pc' \in Labels
    BY <1>1 DEF IInv, TypeOK, Labels
  <1> QED BY <1>1, <1>2, <1>4, <1>5, <1>6, GoalStep

\* A brightness request keeps the goal coherent.
LEMMA BrightnessRequestGoal ==
    ASSUME IInv, NEW level \in Percent, apply_brightness_request(level)
    PROVE  GoalTyped'
  <1> USE ConstantTypes
  <1>1. ShownLevel(level) \in Percent
    BY ValueRange DEF ShownLevel
  <1>2. /\ s_target_brightness' = ShownLevel(level)
        /\ s_brightness_slew' = DDC_SLEW
        /\ update_age' = 0
    BY <1>1, SetTarget DEF apply_brightness_request
  <1>3. s_ddcci_power_on' = s_ddcci_power_on
    BY DEF apply_brightness_request
  <1>4. s_keyboard_forced_off' \in BOOLEAN
    BY DEF apply_brightness_request, IInv, TypeOK
  <1>5. CASE level > 0
    <2>1. s_requested_brightness' = level /\ ~s_keyboard_forced_off'
      BY <1>5 DEF apply_brightness_request
    <2> QED BY <1>1, <1>2, <1>3, <1>4, <1>5, <2>1 DEF GoalTyped, GoalCoherent,
         ShownLevel, IInv, TypeOK, Percent
  <1>6. CASE level = 0
    <2>1. UNCHANGED << s_requested_brightness, s_keyboard_forced_off >>
      BY <1>6 DEF apply_brightness_request
    <2> QED BY <1>1, <1>2, <1>3, <1>4, <1>6, <2>1 DEF GoalTyped, GoalCoherent,
         ShownLevel, IInv, TypeOK, Percent
  <1> QED BY <1>5, <1>6 DEF Percent

\* Clearing the brightness flag and applying the request keeps the invariant.
LEMMA ClearBrightnessKeeps == IInv /\ ClearBrightness => IInv'
  <1> SUFFICES ASSUME IInv, ClearBrightness PROVE IInv'
    OBVIOUS
  <1>1. /\ pc = "clearBrightness" /\ pc' = "takePower"
        /\ value' = 0 /\ key_events' = key_events
        /\ KeepRest /\ apply_brightness_request(value)
    BY DEF ClearBrightness
  <1>2. GoalTyped'
    BY <1>1, BrightnessRequestGoal DEF IInv, LocalInv
  <1>3. MailboxTypeOK'
    <2>1. s_brightness_update_pending' \in BOOLEAN
      BY Zenon DEF ClearBrightness, ClearBrightnessPending
    <2> QED BY <2>1 DEF ClearBrightness, ClearBrightnessPending, IInv, TypeOK,
         MailboxTypeOK, Percent, PowerModes
  <1>4. LocalInv' /\ pc' \in Labels
    BY <1>1 DEF LocalInv, Labels
  <1>5. value' \in 0..Larger(PERCENT_MAX, DDCCI_POWER_OFF_WRITE)
        /\ key_events' \in SUBSET {-1, 1}
    BY <1>1, ValueRange DEF IInv, TypeOK
  <1> QED BY <1>1, <1>2, <1>3, <1>4, <1>5, GoalStep

\* So does a power request.
LEMMA PowerRequestGoal ==
    ASSUME IInv, NEW mode, apply_power_mode(mode)
    PROVE  GoalTyped'
  <1> USE ConstantTypes
  <1>1. UNCHANGED << s_requested_brightness, s_keyboard_forced_off >>
    BY DEF apply_power_mode
  <1>2. CASE /\ s_ddcci_power_on' = TRUE
             /\ set_target_brightness(RestoredLevel, DDC_SLEW)
    <2>1. RestoredLevel \in Percent
      BY DEF RestoredLevel, IInv, TypeOK, Percent
    <2>2. /\ s_target_brightness' = RestoredLevel
          /\ s_brightness_slew' = DDC_SLEW
          /\ update_age' = 0
      BY <1>2, <2>1, SetTarget
    <2>3. s_ddcci_power_on' \in BOOLEAN
      BY <1>2, Zenon
    <2> QED BY <1>1, <1>2, <2>1, <2>2, <2>3 DEF GoalTyped, GoalCoherent,
         RestoredLevel, IInv, TypeOK, Percent
  <1>3. CASE UNCHANGED << s_ddcci_power_on, s_target_brightness,
                          s_brightness_slew, update_age >>
    BY <1>1, <1>3 DEF GoalTyped, GoalCoherent, IInv, TypeOK
  <1>4. CASE PowerDown
    <2>1. /\ s_target_brightness' = 0
          /\ s_brightness_slew' = DDC_SLEW
          /\ update_age' = 0
      BY <1>4, SetTarget, ValueRange DEF PowerDown
    <2>2. s_ddcci_power_on' \in BOOLEAN
      BY <1>4, Zenon DEF PowerDown
    <2> QED BY <1>1, <1>4, <2>1, <2>2 DEF GoalTyped, GoalCoherent, IInv, TypeOK
  <1> QED BY <1>2, <1>3, <1>4 DEF apply_power_mode

\* Clearing the power flag and applying the mode keeps the invariant.
LEMMA ClearPowerKeeps == IInv /\ ClearPower => IInv'
  <1> SUFFICES ASSUME IInv, ClearPower PROVE IInv'
    OBVIOUS
  <1>1. /\ pc = "clearPower" /\ pc' = "keys"
        /\ value' = 0 /\ key_events' = key_events
        /\ KeepRest /\ apply_power_mode(value)
    BY DEF ClearPower
  <1>2. GoalTyped'
    BY <1>1, PowerRequestGoal
  <1>3. MailboxTypeOK'
    <2>1. s_power_mode_update_pending' \in BOOLEAN
      BY Zenon DEF ClearPower, ClearPowerPending
    <2> QED BY <2>1 DEF ClearPower, ClearPowerPending, IInv, TypeOK,
         MailboxTypeOK, Percent, PowerModes
  <1>4. LocalInv' /\ pc' \in Labels
    BY <1>1 DEF LocalInv, Labels
  <1>5. value' \in 0..Larger(PERCENT_MAX, DDCCI_POWER_OFF_WRITE)
        /\ key_events' \in SUBSET {-1, 1}
    BY <1>1, ValueRange DEF IInv, TypeOK
  <1> QED BY <1>1, <1>2, <1>3, <1>4, <1>5, GoalStep

\* Sampling the keyboard keeps the invariant.
LEMMA ServiceKeysKeeps == IInv /\ ServiceKeys => IInv'
  <1> SUFFICES ASSUME IInv, ServiceKeys PROVE IInv'
    OBVIOUS
  <1>1. /\ pc = "keys" /\ pc' = "down" /\ value' = value
        /\ key_events' \in SUBSET {-1, 1}
        /\ UNCHANGED mailboxVars /\ KeepGoal /\ KeepRest
    BY DEF ServiceKeys
  <1>2. GoalTyped' /\ MailboxTypeOK'
    BY <1>1, KeepGoalKeeps, MailboxUnchanged
  <1>3. LocalInv' /\ pc' \in Labels
    BY <1>1 DEF LocalInv, Labels
  <1>4. value' \in 0..Larger(PERCENT_MAX, DDCCI_POWER_OFF_WRITE)
    BY <1>1 DEF IInv, TypeOK
  <1> QED BY <1>1, <1>2, <1>3, <1>4, GoalStep

\* Reading the level a key starts from keeps the invariant.
LEMMA TakeKeyKeeps ==
    ASSUME IInv, NEW direction \in {-1, 1}, NEW here, NEW set, NEW next,
           TakeKey(direction, here, set, next),
           here # "guardPins", set \in {"downSet", "upSet"}, next \in {"up", "guard"}
    PROVE  IInv'
  <1>1. /\ pc # "guardPins" /\ pc' \in {set, next}
        /\ pc' = set => value' = s_brightness
        /\ value' \in {value, s_brightness}
        /\ key_events' \subseteq key_events
        /\ UNCHANGED mailboxVars /\ KeepGoal /\ KeepRest
    BY DEF TakeKey, localVars
  <1>2. GoalTyped' /\ MailboxTypeOK'
    BY <1>1, KeepGoalKeeps, MailboxUnchanged
  <1>3. s_brightness \in Percent
    BY DEF IInv, TypeOK, MailboxTypeOK
  <1>4. LocalInv' /\ pc' \in Labels /\ pc' # "fade"
    BY <1>1, <1>3 DEF LocalInv, Percent, Labels
  <1>5. value' \in 0..Larger(PERCENT_MAX, DDCCI_POWER_OFF_WRITE)
    BY <1>1, <1>3, ValueRange DEF IInv, TypeOK
  <1>6. key_events' \in SUBSET {-1, 1}
    BY <1>1 DEF IInv, TypeOK
  <1> QED BY <1>1, <1>2, <1>4, <1>5, <1>6, GoalStep

\* So does a keyboard step, at either end of the ladder and with D6 on or off.
LEMMA KeyLevelGoal ==
    ASSUME IInv, NEW next \in Percent, ApplyKeyboardLevel(next)
    PROVE  GoalTyped' /\ MailboxTypeOK'
  <1> USE ConstantTypes
  <1>1. MailboxTypeOK'
    BY DEF ApplyKeyboardLevel, ReportKeyLevel, ddcci_set_brightness,
       ClampPercent, Percent, PowerModes, IInv, TypeOK, MailboxTypeOK
  <1>2. s_ddcci_power_on' = s_ddcci_power_on
    BY DEF ApplyKeyboardLevel
  <1>3. s_keyboard_forced_off' \in BOOLEAN
    BY Zenon DEF ApplyKeyboardLevel
  <1>4. CASE next = 0
    <2>1. /\ s_requested_brightness' = s_requested_brightness
          /\ s_target_brightness' = 0
          /\ s_brightness_slew' = KEYBOARD_SLEW
          /\ update_age' = 0
      BY <1>4, SetTarget, ValueRange DEF ApplyKeyboardLevel
    <2> QED BY <1>1, <1>2, <1>3, <2>1 DEF GoalTyped, GoalCoherent, IInv, TypeOK
  <1>5. CASE next # 0
    <2>1. s_requested_brightness' = next /\ ~s_keyboard_forced_off' /\ KeyGoal(next)
      BY <1>5 DEF ApplyKeyboardLevel
    <2>2. /\ s_target_brightness' = IF s_ddcci_power_on THEN next ELSE 0
          /\ s_brightness_slew' \in {DDC_SLEW, KEYBOARD_SLEW}
          /\ update_age' = 0
      BY <2>1, SetTarget, ValueRange DEF KeyGoal
    <2> QED BY <1>1, <1>2, <1>3, <1>5, <2>1, <2>2 DEF GoalTyped, GoalCoherent,
         IInv, TypeOK, Percent
  <1> QED BY <1>4, <1>5

\* Storing the level a key leads to keeps the invariant.
LEMMA SetKeyKeeps ==
    ASSUME IInv, NEW direction \in {-1, 1},
           NEW here \in {"downSet", "upSet"}, NEW next \in {"up", "guard"},
           SetKey(direction, here, next)
    PROVE  IInv'
  <1> DEFINE rung == keyboard_next_brightness(value, direction)
  <1>1. /\ pc = here /\ pc' = next /\ value' = 0 /\ key_events' = key_events
        /\ KeepRest
    BY DEF SetKey
  <1>2. value \in Percent
    BY <1>1 DEF IInv, LocalInv
  <1>3. rung \in Percent
    BY <1>2, LadderInRange
  <1>4. GoalTyped' /\ MailboxTypeOK'
    <2>1. CASE rung = value
      BY <2>1, KeepGoalKeeps, MailboxUnchanged DEF SetKey
    <2>2. CASE rung # value
      BY <2>2, <1>3, KeyLevelGoal DEF SetKey
    <2> QED BY <2>1, <2>2
  <1>5. LocalInv' /\ pc' \in Labels
    BY <1>1 DEF LocalInv, Labels
  <1>6. value' \in 0..Larger(PERCENT_MAX, DDCCI_POWER_OFF_WRITE)
        /\ key_events' \in SUBSET {-1, 1}
    BY <1>1, ValueRange DEF IInv, TypeOK
  <1> QED BY <1>1, <1>4, <1>5, <1>6, GoalStep

\* Sampling the clock for the bus guard keeps the invariant.
LEMMA BusGuardKeeps == IInv /\ BusGuard => IInv'
  <1> SUFFICES ASSUME IInv, BusGuard PROVE IInv'
    OBVIOUS
  <1>1. GoalTyped' /\ MailboxTypeOK'
    BY KeepGoalKeeps, MailboxUnchanged DEF BusGuard
  <1>2. /\ pc' = "guardPins" /\ now_age' = 0
        /\ UNCHANGED << s_percent, duty, value, key_events,
                        s_ddc_bus_forced_off, both_low_age, stall, both_low >>
    BY DEF BusGuard, pwmVars, localVars
  <1>3. GuardInv' /\ now_age' \in 0..MaxStall
    BY <1>2, ConstantTypes DEF GuardInv, IInv, TypeOK
  <1>4. CutInv' /\ LocalInv' /\ DutyTracksPercent'
    BY <1>2 DEF CutInv, LocalInv, DutyTracksPercent, percent_to_duty, IInv
  <1>5. TypeOK'
    BY <1>1, <1>2, <1>3 DEF TypeOK, GoalTyped, PwmTypeOK, IInv, Labels
  <1> QED BY <1>1, <1>3, <1>4, <1>5 DEF IInv, GoalTyped

\* Writing a level to the PWM keeps the duty and the percentage together.
LEMMA SetPercent ==
    ASSUME IInv, NEW level \in 0..PERCENT_MAX, NEW mayFail,
           backlight_pwm_set_percent(level, mayFail)
    PROVE  /\ PwmTypeOK' /\ DutyTracksPercent'
           /\ s_percent' = level \/ (mayFail /\ s_percent' = s_percent)
  <1> USE ConstantTypes
  <1>1. AtMostFull(level) = level
    BY DEF AtMostFull
  <1>2. percent_to_duty(level) \in 0..BACKLIGHT_PWM_DUTY_MAX
    BY DutyInRange
  <1>3. CASE s_percent' = level /\ duty' = percent_to_duty(level)
    BY <1>2, <1>3 DEF PwmTypeOK, DutyTracksPercent, percent_to_duty
  <1>4. CASE mayFail /\ UNCHANGED << s_percent, duty >>
    BY <1>4 DEF PwmTypeOK, DutyTracksPercent, percent_to_duty, IInv, TypeOK
  <1> QED BY <1>1, <1>3, <1>4 DEF backlight_pwm_set_percent, pwmVars

\* The guard over held lines, cut or not, keeps the invariant.
LEMMA BusHeldLowKeeps == IInv /\ BusHeldLow => IInv'
  <1> DEFINE age  == IF both_low_age = NoStamp THEN now_age ELSE both_low_age
             trip == ~s_ddc_bus_forced_off /\ age - now_age >= DDC_BOTH_LOW_OFF
  <1> USE ConstantTypes
  <1> SUFFICES ASSUME IInv, BusHeldLow PROVE IInv'
    OBVIOUS
  <1>1. /\ both_low_age' = age
        /\ s_ddc_bus_forced_off' = (s_ddc_bus_forced_off \/ trip)
        /\ IF trip THEN backlight_pwm_set_percent(0, PwmMayFail)
                   ELSE UNCHANGED pwmVars
        /\ now_age' = 0
        /\ pc' = IF s_ddc_bus_forced_off' THEN "sleep" ELSE "fade"
        /\ UNCHANGED << mailboxVars, localVars, stall, both_low >> /\ KeepGoal
    BY DEF BusHeldLow, AfterHeldLow
  <1>2. GoalTyped' /\ MailboxTypeOK'
    BY <1>1, KeepGoalKeeps, MailboxUnchanged
  <1>3. s_ddc_bus_forced_off' \in BOOLEAN
    BY <1>1, Zenon
  <1>4. /\ age \in 0..(DDC_BOTH_LOW_OFF + MaxStall) /\ age # NoStamp
        /\ now_age \in Nat
    BY DEF IInv, TypeOK, NoStamp
  <1>5. PwmTypeOK' /\ DutyTracksPercent'
    BY <1>1, SetPercent DEF pwmVars, PwmTypeOK, DutyTracksPercent,
       percent_to_duty, IInv, TypeOK
  <1>6. CutInv'
    <2>1. CASE trip
      <3>1. age >= DDC_BOTH_LOW_OFF
        BY <1>4, <2>1
      <3>2. ~PwmMayFail => s_percent' = 0
        BY <1>1, <2>1, SetPercent
      <3> QED BY <1>1, <2>1, <3>1, <3>2 DEF CutInv
    <2>2. CASE ~trip
      <3>1. s_ddc_bus_forced_off' = s_ddc_bus_forced_off
        BY <1>1, <2>2 DEF IInv, TypeOK
      <3>2. s_ddc_bus_forced_off => age = both_low_age
        BY <1>1 DEF IInv, CutInv, NoStamp
      <3> QED BY <1>1, <2>2, <3>1, <3>2 DEF CutInv, IInv, pwmVars
    <2> QED BY <2>1, <2>2
  <1>7. GuardInv' /\ now_age' \in 0..MaxStall
    BY <1>1 DEF GuardInv, IInv, TypeOK
  <1>8. LocalInv' /\ pc' \in Labels
    BY <1>1 DEF LocalInv, Labels
  <1>9. TypeOK'
    BY <1>1, <1>2, <1>3, <1>4, <1>5, <1>7, <1>8
       DEF TypeOK, GoalTyped, localVars, IInv
  <1> QED BY <1>2, <1>5, <1>6, <1>7, <1>8, <1>9 DEF IInv, GoalTyped

\* The guard over released lines, fade restarted or not, keeps the invariant.
LEMMA BusReleasedKeeps == IInv /\ BusReleased => IInv'
  <1> USE ConstantTypes
  <1> SUFFICES ASSUME IInv, BusReleased PROVE IInv'
    OBVIOUS
  <1>1. /\ both_low_age' = NoStamp
        /\ s_ddc_bus_forced_off' = FALSE
        /\ update_age' = ReleasedAge
        /\ now_age' = 0
        /\ pc' = "fade"
        /\ UNCHANGED << mailboxVars, pwmVars, goalVars, localVars, stall, both_low >>
    BY DEF BusReleased
  <1>2. s_ddc_bus_forced_off' \in BOOLEAN
    BY <1>1, Zenon
  <1>3. update_age' \in 0..MaxAge
    BY <1>1 DEF ReleasedAge, IInv, TypeOK
  <1>4. MailboxTypeOK'
    BY <1>1, MailboxUnchanged
  <1>5. GuardInv' /\ LocalInv' /\ CutInv'
    BY <1>1 DEF GuardInv, LocalInv, CutInv, IInv, TypeOK
  <1>6. (PwmTypeOK /\ DutyTracksPercent /\ GoalCoherent)'
    BY <1>1 DEF PwmTypeOK, DutyTracksPercent, GoalCoherent, percent_to_duty,
       pwmVars, goalVars, IInv, TypeOK
  <1>7. TypeOK'
    BY <1>1, <1>2, <1>3, <1>4, <1>6 DEF TypeOK, goalVars, localVars, Labels, IInv
  <1> QED BY <1>5, <1>6, <1>7 DEF IInv

\* One step of the fade lands between where it was and the target.
LEMMA TowardsBetween ==
    ASSUME IInv, NEW n \in Nat \ {0}, s_percent # s_target_brightness
    PROVE  /\ Towards(n) \in 0..PERCENT_MAX
           /\ s_percent < s_target_brightness =>
                Towards(n) \in (s_percent + 1)..s_target_brightness
           /\ s_percent > s_target_brightness =>
                Towards(n) \in s_target_brightness..(s_percent - 1)
  BY ConstantTypes DEF Towards, Smaller, Larger, IInv, TypeOK, PwmTypeOK

\* The clock the fade carries over stays an age.
LEMMA CarriedAgeTyped ==
    ASSUME IInv
    PROVE  FadeSteps \in Nat /\ CarriedAge \in 0..MaxAge
  <1>1. update_age \in Nat /\ update_age <= MaxAge
    BY ConstantTypes DEF IInv, TypeOK
  <1>2. s_brightness_slew \in Nat \ {0}
    BY ConstantTypes DEF IInv, TypeOK
  <1>3. /\ FadeSteps \in Nat
        /\ TimeOf(FadeSteps) \in 0..update_age
    BY <1>1, <1>2, TimeConsumed DEF FadeSteps, TimeOf
  <1> QED BY <1>1, <1>3, ConstantTypes DEF CarriedAge

\* The fade keeps the invariant.
LEMMA brightness_serviceKeeps == IInv /\ brightness_service => IInv'
  <1> USE ConstantTypes
  <1> SUFFICES ASSUME IInv, brightness_service PROVE IInv'
    OBVIOUS
  <1>1. /\ pc = "fade" /\ pc' = "sleep"
        /\ FadeTooSoon \/ FadeAtTarget \/ FadeMoves
        /\ UNCHANGED << mailboxVars, goalVars, guardVars, localVars, stall, both_low >>
    BY DEF brightness_service
  <1>2. ~s_ddc_bus_forced_off
    BY <1>1 DEF IInv, CutInv
  <1>3. update_age' \in 0..MaxAge
    BY <1>1, CarriedAgeTyped DEF FadeTooSoon, FadeAtTarget, FadeMoves
  <1>4. PwmTypeOK' /\ DutyTracksPercent'
    <2>1. CASE UNCHANGED pwmVars
      BY <2>1 DEF pwmVars, PwmTypeOK, DutyTracksPercent, percent_to_duty,
         IInv, TypeOK
    <2>2. CASE FadeMoves
      <3>1. FadeSteps \in Nat \ {0}
        BY <2>2, CarriedAgeTyped DEF FadeMoves
      <3>2. Towards(FadeSteps) \in 0..PERCENT_MAX
        BY <2>2, <3>1, TowardsBetween DEF FadeMoves
      <3> QED BY <2>2, <3>2, SetPercent DEF FadeMoves
    <2> QED BY <1>1, <2>1, <2>2 DEF FadeTooSoon, FadeAtTarget
  <1>5. MailboxTypeOK'
    BY <1>1, MailboxUnchanged
  <1>6. GuardInv' /\ LocalInv' /\ CutInv'
    BY <1>1, <1>2 DEF GuardInv, LocalInv, CutInv, guardVars, localVars, IInv
  <1>7. GoalCoherent'
    BY <1>1 DEF GoalCoherent, goalVars, IInv
  <1>8. TypeOK'
    BY <1>1, <1>3, <1>4, <1>5 DEF TypeOK, goalVars, guardVars, localVars, Labels, IInv
  <1> QED BY <1>4, <1>6, <1>7, <1>8 DEF IInv

\* vTaskDelay keeps the invariant.
LEMMA SleepKeeps == IInv /\ Sleep => IInv'
  <1> USE ConstantTypes
  <1> SUFFICES ASSUME IInv, Sleep PROVE IInv'
    OBVIOUS
  <1>1. PICK d \in LoopDelays : Elapse(d)
    BY DEF Sleep
  <1>2. d \in Nat
    BY FirmwareAssumption
  <1>3. /\ pc = "sleep" /\ pc' = "takeBrightness" /\ stall' = 0
        /\ UNCHANGED << mailboxVars, pwmVars, goalVars, s_ddc_bus_forced_off,
                        localVars, both_low >>
    BY DEF Sleep
  <1>4. /\ update_age' \in 0..MaxAge
        /\ both_low_age' \in {NoStamp} \cup 0..(DDC_BOTH_LOW_OFF + MaxStall)
        /\ both_low_age >= DDC_BOTH_LOW_OFF => both_low_age' >= DDC_BOTH_LOW_OFF
        /\ now_age' = 0
    BY <1>1, <1>2, <1>3, ElapseKeeps DEF IInv, GuardInv
  <1>5. MailboxTypeOK'
    BY <1>3, MailboxUnchanged
  <1>6. (PwmTypeOK /\ DutyTracksPercent /\ GoalCoherent)'
    BY <1>3 DEF PwmTypeOK, DutyTracksPercent, GoalCoherent, percent_to_duty,
       pwmVars, goalVars, IInv, TypeOK
  <1>7. GuardInv' /\ LocalInv'
    BY <1>3, <1>4 DEF GuardInv, LocalInv
  <1>8. CutInv'
    BY <1>3, <1>4 DEF CutInv, pwmVars, IInv
  <1>9. TypeOK'
    BY <1>3, <1>4, <1>5, <1>6 DEF TypeOK, goalVars, localVars, Labels, IInv
  <1> QED BY <1>6, <1>7, <1>8, <1>9 DEF IInv

\* A step that changes nothing keeps the invariant.
LEMMA StutterKeeps == IInv /\ UNCHANGED vars => IInv'
  BY DEF vars, mailboxVars, pwmVars, goalVars, timeVars, localVars,
     IInv, TypeOK, MailboxTypeOK, PwmTypeOK, GoalCoherent, DutyTracksPercent,
     LocalInv, GuardInv, CutInv, Percent, PowerModes, percent_to_duty

\* Every step of the loop, the interrupt and the laptop keeps the invariant.
LEMMA NextIInv == IInv /\ [Next]_vars => IInv'
  <1> SUFFICES ASSUME IInv, [Next]_vars PROVE IInv'
    OBVIOUS
  <1>1. ASSUME TakeDown \/ TakeUp PROVE IInv'
    BY <1>1, TakeKeyKeeps DEF TakeDown, TakeUp
  <1>2. ASSUME SetDown \/ SetUp PROVE IInv'
    BY <1>2, SetKeyKeeps DEF SetDown, SetUp
  <1>3. ASSUME Loop PROVE IInv'
    BY <1>3, <1>1, <1>2, TakeBrightnessKeeps, ClearBrightnessKeeps,
       TakePowerKeeps, ClearPowerKeeps, ServiceKeysKeeps, BusGuardKeeps,
       BusHeldLowKeeps, BusReleasedKeeps, brightness_serviceKeeps, SleepKeeps
       DEF Loop
  <1> QED BY <1>3, HostSetsBrightnessKeeps, HostSetsPowerKeeps, HostReadsKeeps,
       LinesChangeKeeps, StutterKeeps DEF Next

-----------------------------------------------------------------------------
(* The invariants of every behaviour *)

\* The inductive invariant holds in every reachable state of the loop.
THEOREM Invariance == Spec => []IInv
  BY InitIInv, NextIInv, PTL DEF Spec

\* Type correctness, for every ladder, every rate and every interleaving of
\* the loop with the interrupt.
THEOREM TypeCorrect == Spec => []TypeOK
  <1>1. IInv => TypeOK
    BY DEF IInv
  <1> QED BY <1>1, Invariance, PTL

\* The fade heads for the remembered level or for dark, and for dark while D6
\* is off or Fn+F9 has selected 0%, wherever the interrupt falls.
THEOREM GoalAlwaysCoherent == Spec => []GoalCoherent
  <1>1. IInv => GoalCoherent
    BY DEF IInv
  <1> QED BY <1>1, Invariance, PTL

\* The duty the LEDC channel outputs is that of the percentage reported.
THEOREM DutyAlwaysTracks == Spec => []DutyTracksPercent
  <1>1. IInv => DutyTracksPercent
    BY DEF IInv
  <1> QED BY <1>1, Invariance, PTL

\* A cut of the bus guard holds until the lines are released.
THEOREM CutAlwaysHolds == Spec => []BusCutHolds
  <1>1. IInv => BusCutHolds
    BY DutyZero DEF IInv, CutInv, DutyTracksPercent, BusCutHolds
  <1> QED BY <1>1, Invariance, PTL

-----------------------------------------------------------------------------
(* What a step may do to the light *)

\* Only the guard and the fade change the light: to 0, or towards the target.
LEMMA LightStep ==
    ASSUME IInv, [Next]_vars
    PROVE  \/ s_percent' = s_percent
           \/ s_percent' = 0
           \/ s_percent < s_target_brightness
              /\ s_percent' \in (s_percent + 1)..s_target_brightness
           \/ s_percent > s_target_brightness
              /\ s_percent' \in s_target_brightness..(s_percent - 1)
  <1>1. CASE Next /\ ~BusHeldLow /\ ~brightness_service
    BY <1>1 DEF Next, Loop, TakeBrightness, ClearBrightness, TakePower,
       ClearPower, ServiceKeys, TakeDown, TakeUp, TakeKey, SetDown, SetUp,
       SetKey, BusGuard, BusReleased, Sleep, HostSetsBrightness, HostSetsPower,
       HostReads, Transaction, LinesChange, KeepRest, pwmVars
  <1>2. CASE BusHeldLow
    BY <1>2, SetPercent, ConstantTypes DEF BusHeldLow, pwmVars
  <1>3. CASE brightness_service
    <2>1. CASE UNCHANGED pwmVars
      BY <2>1 DEF pwmVars
    <2>2. CASE FadeMoves
      <3>1. FadeSteps \in Nat \ {0} /\ s_percent # s_target_brightness
        BY <2>2, CarriedAgeTyped DEF FadeMoves
      <3>2. s_percent' = Towards(FadeSteps) \/ s_percent' = s_percent
        BY <2>2, <3>1, TowardsBetween, SetPercent DEF FadeMoves
      <3> QED BY <3>1, <3>2, TowardsBetween
           DEF IInv, TypeOK, PwmTypeOK
    <2> QED BY <1>3, <2>1, <2>2 DEF brightness_service, FadeTooSoon, FadeAtTarget
  <1>4. CASE UNCHANGED vars
    BY <1>4 DEF vars, pwmVars
  <1> QED BY <1>1, <1>2, <1>3, <1>4

\* While D6 is off no step makes the panel brighter, for every ladder and duty
\* resolution.
THEOREM OffStaysDark == Spec => OffNeverBrightens
  <1>1. ASSUME IInv, IInv', [Next]_vars, ~s_ddcci_power_on
        PROVE  duty' <= duty
    <2>1. s_target_brightness = 0
      BY <1>1 DEF IInv, GoalCoherent
    <2>2. s_percent \in 0..PERCENT_MAX /\ s_percent' \in 0..PERCENT_MAX
      BY <1>1 DEF IInv, TypeOK, PwmTypeOK
    <2>3. s_percent' <= s_percent
      BY <1>1, <2>1, <2>2, LightStep, ConstantTypes
    <2>4. percent_to_duty(s_percent') <= percent_to_duty(s_percent)
      BY <2>2, <2>3, DutyMonotone
    <2>5. duty = percent_to_duty(s_percent)
      BY <1>1 DEF IInv, DutyTracksPercent
    <2>6. duty' = percent_to_duty(s_percent')
      BY <1>1 DEF IInv, DutyTracksPercent, percent_to_duty
    <2> QED BY <2>4, <2>5, <2>6
  <1>2. IInv /\ IInv' /\ [Next]_vars => [~s_ddcci_power_on => duty' <= duty]_vars
    BY <1>1
  <1> QED BY <1>2, Invariance, PTL DEF Spec, OffNeverBrightens

-----------------------------------------------------------------------------
(* The loop implements the panel *)

\* The loop starts as the panel starts.
LEMMA PanelInit == Init => PanelView!Init
  BY ConstantTypes DEF Init, backlight_pwm_init, AtMostFull, PanelView!Init

\* Pieces that touch neither goal nor light are stutters of the panel.
LEMMA PanelStutter ==
    ASSUME UNCHANGED << goalVars, pwmVars, s_ddc_bus_forced_off >>
    PROVE  UNCHANGED PanelView!panelVars
  BY DEF goalVars, pwmVars, PanelView!panelVars

\* A brightness request is Remember or Darken of the panel, or a stutter.
LEMMA PanelClearBrightness ==
    ASSUME IInv, ClearBrightness
    PROVE  PanelView!Next
  <1> USE ConstantTypes
  <1>1. /\ value \in Percent
        /\ apply_brightness_request(value)
        /\ UNCHANGED << s_percent, s_ddc_bus_forced_off >>
    BY DEF ClearBrightness, KeepRest, pwmVars, guardVars, IInv, LocalInv
  <1>2. s_target_brightness' = ShownLevel(value)
    <2>1. ShownLevel(value) \in Percent
      BY <1>1, ValueRange DEF ShownLevel
    <2> QED BY <1>1, <2>1, SetTarget DEF apply_brightness_request
  <1>3. s_ddcci_power_on' = s_ddcci_power_on
    BY <1>1 DEF apply_brightness_request
  <1>4. CASE value > 0
    <2>1. s_requested_brightness' = value /\ s_keyboard_forced_off' = FALSE
      BY <1>1, <1>4 DEF apply_brightness_request
    <2>2. value \in 1..PERCENT_MAX
      BY <1>1, <1>4 DEF Percent
    <2>3. PanelView!Remember(value)
      BY <1>1, <1>2, <1>3, <2>1 DEF PanelView!Remember, ShownLevel
    <2> QED BY <2>2, <2>3 DEF PanelView!Next
  <1>5. CASE value = 0
    <2>1. UNCHANGED << s_requested_brightness, s_keyboard_forced_off >>
      BY <1>1, <1>5 DEF apply_brightness_request
    <2>2. PanelView!Darken
      BY <1>1, <1>2, <1>3, <1>5, <2>1 DEF PanelView!Darken, ShownLevel
    <2> QED BY <2>2 DEF PanelView!Next
  <1> QED BY <1>1, <1>4, <1>5 DEF Percent

\* A power request switches the panel on or off, or is a stutter.
LEMMA PanelClearPower ==
    ASSUME IInv, ClearPower
    PROVE  [PanelView!Next]_PanelView!panelVars
  <1> USE ConstantTypes
  <1>1. /\ apply_power_mode(value)
        /\ UNCHANGED << s_percent, s_ddc_bus_forced_off >>
        /\ UNCHANGED << s_requested_brightness, s_keyboard_forced_off >>
    BY DEF ClearPower, apply_power_mode, KeepRest, pwmVars, guardVars
  <1>2. CASE /\ ~s_ddcci_power_on
             /\ s_ddcci_power_on' = TRUE
             /\ set_target_brightness(RestoredLevel, DDC_SLEW)
    <2>1. RestoredLevel \in Percent
      BY DEF RestoredLevel, IInv, TypeOK, Percent
    <2>2. s_target_brightness' = RestoredLevel
      BY <1>2, <2>1, SetTarget
    <2>3. PanelView!SwitchOn
      BY <1>1, <1>2, <2>2 DEF PanelView!SwitchOn, RestoredLevel
    <2> QED BY <2>3 DEF PanelView!Next
  <1>3. CASE UNCHANGED << s_ddcci_power_on, s_target_brightness,
                          s_brightness_slew, update_age >>
    BY <1>1, <1>3 DEF PanelView!panelVars
  <1>4. CASE PowerDown
    <2>1. s_target_brightness' = 0
      BY <1>4, SetTarget, ValueRange DEF PowerDown
    <2>2. PanelView!SwitchOff
      BY <1>1, <1>4, <2>1 DEF PanelView!SwitchOff, PowerDown
    <2> QED BY <2>2 DEF PanelView!Next
  <1> QED BY <1>1, <1>2, <1>3, <1>4 DEF apply_power_mode

\* A key is Remember or KeyDarken of the panel, or a stutter.
LEMMA PanelSetKey ==
    ASSUME IInv, NEW direction \in {-1, 1},
           NEW here \in {"downSet", "upSet"}, NEW next,
           SetKey(direction, here, next)
    PROVE  [PanelView!Next]_PanelView!panelVars
  <1> DEFINE rung == keyboard_next_brightness(value, direction)
  <1> USE ConstantTypes
  <1>1. UNCHANGED << s_percent, s_ddc_bus_forced_off >>
    BY DEF SetKey, KeepRest, pwmVars, guardVars
  <1>2. rung \in Percent
    BY LadderInRange DEF SetKey, IInv, LocalInv
  <1>3. CASE rung = value
    BY <1>1, <1>3 DEF SetKey, KeepGoal, goalVars, PanelView!panelVars
  <1>4. CASE rung # value /\ rung = 0
    <2>1. ApplyKeyboardLevel(0)
      BY <1>4 DEF SetKey
    <2>2. PanelView!KeyDarken
      BY <1>1, <2>1, SetTarget, ValueRange
         DEF ApplyKeyboardLevel, PanelView!KeyDarken
    <2> QED BY <2>2 DEF PanelView!Next
  <1>5. CASE rung # value /\ rung # 0
    <2>1. ApplyKeyboardLevel(rung)
      BY <1>5 DEF SetKey
    <2>2. /\ s_ddcci_power_on' = s_ddcci_power_on
          /\ s_keyboard_forced_off' = FALSE
          /\ s_requested_brightness' = rung
          /\ KeyGoal(rung)
      BY <1>5, <2>1 DEF ApplyKeyboardLevel
    <2>3. s_target_brightness' = IF s_ddcci_power_on THEN rung ELSE 0
      BY <1>2, <2>2, SetTarget, ValueRange DEF KeyGoal
    <2>4. PanelView!Remember(rung)
      BY <1>1, <2>2, <2>3 DEF PanelView!Remember
    <2>5. rung \in 1..PERCENT_MAX
      BY <1>2, <1>5 DEF Percent
    <2> QED BY <2>4, <2>5 DEF PanelView!Next
  <1> QED BY <1>3, <1>4, <1>5

\* The guard over held lines blanks the panel, or is a stutter.
LEMMA PanelBusHeldLow ==
    ASSUME IInv, BusHeldLow
    PROVE  [PanelView!Next]_PanelView!panelVars
  <1> DEFINE age  == IF both_low_age = NoStamp THEN now_age ELSE both_low_age
             trip == ~s_ddc_bus_forced_off /\ age - now_age >= DDC_BOTH_LOW_OFF
  <1> USE ConstantTypes
  <1>1. /\ s_ddc_bus_forced_off' = (s_ddc_bus_forced_off \/ trip)
        /\ IF trip THEN backlight_pwm_set_percent(0, PwmMayFail)
                   ELSE UNCHANGED pwmVars
        /\ UNCHANGED goalVars
    BY DEF BusHeldLow, KeepGoal
  <1>2. CASE trip
    <2>1. s_percent' = 0 \/ (PwmMayFail /\ s_percent' = s_percent)
      BY <1>1, <1>2, SetPercent
    <2>2. s_ddc_bus_forced_off' = TRUE
      BY <1>1, <1>2
    <2>3. PanelView!Blank
      BY <1>1, <1>2, <2>1, <2>2 DEF PanelView!Blank, goalVars
    <2> QED BY <2>3 DEF PanelView!Next
  <1>3. CASE ~trip
    <2>1. s_ddc_bus_forced_off' = s_ddc_bus_forced_off
      BY <1>1, <1>3 DEF IInv, TypeOK
    <2> QED BY <1>1, <1>3, <2>1, PanelStutter
  <1> QED BY <1>2, <1>3

\* The guard over released lines unblanks the panel, or is a stutter.
LEMMA PanelBusReleased ==
    ASSUME IInv, BusReleased
    PROVE  [PanelView!Next]_PanelView!panelVars
  <1>1. s_ddc_bus_forced_off' = FALSE /\ UNCHANGED << pwmVars, goalVars >>
    BY DEF BusReleased
  <1>2. CASE s_ddc_bus_forced_off
    BY <1>1, <1>2 DEF PanelView!Next, PanelView!Unblank, pwmVars, goalVars
  <1>3. CASE ~s_ddc_bus_forced_off
    BY <1>1, <1>3, PanelStutter DEF IInv, TypeOK
  <1> QED BY <1>2, <1>3

\* The fade moves the light of the panel towards its goal, or is a stutter.
LEMMA PanelFade ==
    ASSUME IInv, brightness_service
    PROVE  [PanelView!Next]_PanelView!panelVars
  <1>1. /\ pc = "fade"
        /\ FadeTooSoon \/ FadeAtTarget \/ FadeMoves
        /\ UNCHANGED << goalVars, s_ddc_bus_forced_off >>
    BY DEF brightness_service, guardVars
  <1>2. ~s_ddc_bus_forced_off
    BY <1>1 DEF IInv, CutInv
  <1>3. CASE UNCHANGED pwmVars
    BY <1>1, <1>3, PanelStutter
  <1>4. CASE FadeMoves
    <2>1. FadeSteps \in Nat \ {0} /\ s_percent # s_target_brightness
      BY <1>4, CarriedAgeTyped DEF FadeMoves
    <2>2. s_percent' = Towards(FadeSteps) \/ s_percent' = s_percent
      BY <1>4, <2>1, TowardsBetween, SetPercent DEF FadeMoves
    <2>3. CASE s_percent' = Towards(FadeSteps)
      <3>1. s_percent' \in (s_percent + 1)..s_target_brightness
              \cup s_target_brightness..(s_percent - 1)
        BY <2>1, <2>3, TowardsBetween, ConstantTypes DEF IInv, TypeOK, PwmTypeOK
      <3> QED BY <1>1, <1>2, <3>1 DEF PanelView!Next, PanelView!Fade, goalVars
    <2>4. CASE s_percent' = s_percent
      BY <1>1, <2>4 DEF PanelView!panelVars, goalVars
    <2> QED BY <2>2, <2>3, <2>4
  <1> QED BY <1>1, <1>3, <1>4 DEF FadeTooSoon, FadeAtTarget

\* Every step maps to a step of the panel or a stutter.
LEMMA PanelStep ==
    ASSUME IInv, [Next]_vars
    PROVE  [PanelView!Next]_PanelView!panelVars
  <1>1. CASE SetDown \/ SetUp
    BY <1>1, PanelSetKey DEF SetDown, SetUp
  <1>2. CASE \/ HostSetsBrightness \/ HostSetsPower \/ HostReads \/ LinesChange
             \/ Sleep \/ UNCHANGED vars
    BY <1>2, PanelStutter DEF HostSetsBrightness, HostSetsPower, HostReads,
       Transaction, LinesChange, Sleep, vars
  <1>3. CASE \/ TakeBrightness \/ TakePower \/ ServiceKeys \/ TakeDown \/ TakeUp
             \/ BusGuard
    BY <1>3, PanelStutter DEF TakeBrightness, TakePower, ServiceKeys, TakeDown,
       TakeUp, TakeKey, BusGuard, KeepGoal, KeepRest, guardVars
  <1> QED BY <1>1, <1>2, <1>3, PanelClearBrightness, PanelClearPower,
       PanelBusHeldLow, PanelBusReleased, PanelFade DEF Next, Loop

\* The control loop, cut into its pieces and interrupted anywhere, implements
\* the panel: a light that only moves towards a remembered level or dark.
THEOREM Implements == Spec => ImplementsPanel
  BY PanelInit, PanelStep, Invariance, PTL
     DEF Spec, ImplementsPanel, PanelView!Spec

-----------------------------------------------------------------------------
(* The mailbox between the interrupt and the control loop.                 *)
(*                                                                         *)
(* As long as no transaction falls between the loop's read of a mailbox    *)
(* value and the write that ends its use, what the host reads back is what *)
(* the loop acts on.  (In those windows it is not: see the run             *)
(* firmware_lost.)                                                         *)

Windows == {"clearBrightness", "clearPower", "downSet", "upSet"}

WindowsClosed == InterruptPoints \cap Windows = {}

\* The loop's copy of a mailbox value is the value, while it is used.
CopyInv ==
    /\ pc = "clearBrightness" => value = s_brightness /\ s_brightness_update_pending
    /\ pc = "clearPower" => value = s_power_mode /\ s_power_mode_update_pending
    /\ pc \in {"downSet", "upSet"} => value = s_brightness

\* A power mode that is not waiting to be applied has been.
PowerApplied ==
    ~s_power_mode_update_pending =>
        (s_ddcci_power_on <=> s_power_mode = DDCCI_POWER_ON)

\* So has a brightness, by the host's write or by the key that reported it; a
\* host's 0 leaves the remembered level for the next D6=01.
LevelApplied ==
    ~s_brightness_update_pending =>
        /\ s_brightness > 0 => /\ s_requested_brightness = s_brightness
                               /\ ~s_keyboard_forced_off
        /\ s_ddcci_power_on /\ s_target_brightness # s_brightness =>
               s_brightness = 0 /\ ~s_keyboard_forced_off

MailboxInv == CopyInv /\ PowerApplied /\ LevelApplied

-----------------------------------------------------------------------------
\* A transaction outside the windows leaves its value waiting.
LEMMA TransactionApplied ==
    ASSUME WindowsClosed, IInv, MailboxInv,
           HostSetsBrightness \/ HostSetsPower \/ HostReads
    PROVE  MailboxInv'
  <1>1. /\ pc \notin Windows
        /\ UNCHANGED << goalVars, pc, localVars >>
        /\ \/ /\ s_brightness_update_pending'
              /\ UNCHANGED << s_power_mode, s_power_mode_update_pending >>
           \/ /\ s_power_mode_update_pending'
              /\ UNCHANGED << s_brightness, s_brightness_update_pending >>
           \/ UNCHANGED mailboxVars
    BY DEF HostSetsBrightness, HostSetsPower, HostReads, Transaction, SetVcpBrightness,
       SetVcpPowerMode, WindowsClosed, mailboxVars
  <1> QED BY <1>1 DEF MailboxInv, CopyInv, PowerApplied, LevelApplied, Windows,
       goalVars, localVars, mailboxVars

\* A copy is taken, and the flag is still up.
LEMMA TakingApplied ==
    ASSUME IInv, MailboxInv, TakeBrightness \/ TakePower \/ TakeDown \/ TakeUp
    PROVE  MailboxInv'
  BY DEF TakeBrightness, TakePower, TakeDown, TakeUp, TakeKey, KeepGoal, MailboxInv, CopyInv,
     PowerApplied, LevelApplied, goalVars, localVars, mailboxVars

\* The brightness that was waiting is the one that is applied.
LEMMA ClearBrightnessApplies ==
    ASSUME IInv, MailboxInv, ClearBrightness
    PROVE  MailboxInv'
  <1> USE ConstantTypes
  <1>1. /\ pc = "clearBrightness" /\ pc' = "takePower"
        /\ value = s_brightness /\ value \in Percent
    BY DEF ClearBrightness, MailboxInv, CopyInv, IInv, LocalInv
  <1>2. UNCHANGED << s_brightness, s_power_mode, s_power_mode_update_pending,
                     s_ddcci_power_on >>
    BY DEF ClearBrightness, ClearBrightnessPending, apply_brightness_request
  <1>3. ShownLevel(value) \in Percent
    BY <1>1, ValueRange DEF ShownLevel
  <1>4. s_target_brightness' = ShownLevel(value)
    BY <1>3, SetTarget DEF ClearBrightness, apply_brightness_request
  <1>5. value > 0 => s_requested_brightness' = value /\ ~s_keyboard_forced_off'
    BY DEF ClearBrightness, apply_brightness_request
  <1>6. s_ddcci_power_on' => s_target_brightness' = s_brightness'
    BY <1>1, <1>2, <1>4 DEF ShownLevel
  <1>7. s_brightness' > 0 => s_requested_brightness' = s_brightness' /\ ~s_keyboard_forced_off'
    BY <1>1, <1>2, <1>5
  <1> QED BY <1>1, <1>2, <1>6, <1>7 DEF MailboxInv, CopyInv, PowerApplied, LevelApplied

\* So is the power mode.
LEMMA ClearPowerApplies ==
    ASSUME IInv, MailboxInv, ClearPower
    PROVE  MailboxInv'
  <1> USE ConstantTypes
  <1>1. /\ pc = "clearPower" /\ pc' = "keys"
        /\ value = s_power_mode /\ value \in PowerModes
    BY DEF ClearPower, MailboxInv, CopyInv, IInv, LocalInv
  <1>2. /\ UNCHANGED << s_brightness, s_brightness_update_pending, s_power_mode >>
        /\ UNCHANGED << s_requested_brightness, s_keyboard_forced_off >>
    BY DEF ClearPower, ClearPowerPending, apply_power_mode
  <1>3. s_brightness \in Percent /\ s_requested_brightness \in Percent
    BY DEF IInv, TypeOK, MailboxTypeOK, Percent
  <1>4. CASE /\ value = DDCCI_POWER_ON /\ s_ddcci_power_on'
             /\ set_target_brightness(RestoredLevel, DDC_SLEW)
    <2>1. s_target_brightness' = RestoredLevel
      BY <1>3, <1>4, SetTarget, ValueRange DEF RestoredLevel
    <2> QED BY <1>1, <1>2, <1>3, <1>4, <2>1
         DEF MailboxInv, CopyInv, PowerApplied, LevelApplied, RestoredLevel, Percent
  <1>5. CASE /\ value = DDCCI_POWER_ON /\ s_ddcci_power_on
             /\ UNCHANGED << s_ddcci_power_on, s_target_brightness >>
    BY <1>1, <1>2, <1>5 DEF MailboxInv, CopyInv, PowerApplied, LevelApplied
  <1>6. CASE value # DDCCI_POWER_ON /\ ~s_ddcci_power_on'
    BY <1>1, <1>2, <1>6 DEF MailboxInv, CopyInv, PowerApplied, LevelApplied
  <1> QED BY <1>4, <1>5, <1>6 DEF ClearPower, apply_power_mode, PowerDown

\* A key steps from the level that is reported, and reports the next.
LEMMA SetKeyApplies ==
    ASSUME IInv, MailboxInv, NEW direction \in {-1, 1},
           NEW here \in {"downSet", "upSet"}, NEW next \in {"up", "guard"},
           SetKey(direction, here, next)
    PROVE  MailboxInv'
  <1> DEFINE rung == keyboard_next_brightness(value, direction)
  <1> USE ConstantTypes
  <1>1. /\ pc = here /\ pc' = next /\ value = s_brightness /\ value \in Percent
    BY DEF SetKey, MailboxInv, CopyInv, IInv, LocalInv
  <1>2. rung \in Percent
    BY <1>1, LadderInRange
  <1> HIDE DEF rung
  <1>3. CASE UNCHANGED << mailboxVars, goalVars >>
    BY <1>1, <1>3 DEF MailboxInv, CopyInv, PowerApplied, LevelApplied, mailboxVars, goalVars
  <1>4. CASE ApplyKeyboardLevel(rung)
    <2>1. /\ s_brightness' = rung
          /\ UNCHANGED << s_brightness_update_pending, s_power_mode,
                          s_power_mode_update_pending, s_ddcci_power_on >>
      BY <1>2, <1>4 DEF ApplyKeyboardLevel, ReportKeyLevel, ddcci_set_brightness,
         ClampPercent, Percent
    <2>2. CASE rung = 0
      <3>1. s_target_brightness' = 0
        BY <1>4, <2>2, SetTarget, ValueRange DEF ApplyKeyboardLevel
      <3> QED BY <1>1, <2>1, <2>2, <3>1 DEF MailboxInv, CopyInv, PowerApplied, LevelApplied
    <2>3. CASE rung # 0
      <3>1. /\ ~s_keyboard_forced_off' /\ s_requested_brightness' = rung
            /\ KeyGoal(rung)
        BY <1>4, <2>3 DEF ApplyKeyboardLevel
      <3>2. s_ddcci_power_on => s_target_brightness' = rung
        BY <1>2, <3>1, SetTarget DEF KeyGoal
      <3> QED BY <1>1, <2>1, <3>1, <3>2 DEF MailboxInv, CopyInv, PowerApplied, LevelApplied
    <2> QED BY <2>2, <2>3
  <1> QED BY <1>3, <1>4 DEF SetKey, KeepGoal, rung

\* The rest of the loop, and the wires, leave the goal and the mailbox alone.
LEMMA OthersKeepMailbox ==
    ASSUME MailboxInv,
           \/ ServiceKeys \/ BusGuard \/ BusHeldLow \/ BusReleased
           \/ brightness_service \/ Sleep \/ LinesChange \/ UNCHANGED vars
    PROVE  MailboxInv'
  <1>1. /\ UNCHANGED << mailboxVars, goalVars >>
        /\ \/ UNCHANGED << pc, value >>
           \/ pc' \in {"down", "guardPins", "sleep", "fade", "takeBrightness"}
    BY DEF ServiceKeys, BusGuard, BusHeldLow, BusReleased, brightness_service, Sleep,
       LinesChange, KeepGoal, AfterHeldLow, localVars, vars
  <1> QED BY <1>1 DEF MailboxInv, CopyInv, PowerApplied, LevelApplied, mailboxVars, goalVars

\* With no transaction in the windows, what the host reads back at rest is what
\* the loop acts on, whatever order keys, brightness and power writes came in.
THEOREM MailboxIsCoherent ==
    ASSUME WindowsClosed
    PROVE  Spec => []MailboxCoherent
  <1>1. Init => MailboxInv
    BY ConstantTypes DEF Init, ddcci_init, MailboxInv, CopyInv, PowerApplied, LevelApplied,
       ClampPercent
  <1>2. IInv /\ MailboxInv /\ [Next]_vars => MailboxInv'
    BY TransactionApplied, TakingApplied, ClearBrightnessApplies, ClearPowerApplies,
       SetKeyApplies, OthersKeepMailbox
       DEF Next, Loop, SetDown, SetUp
  <1>3. IInv /\ MailboxInv => MailboxCoherent
    BY DEF MailboxInv, PowerApplied, LevelApplied, MailboxCoherent, AtRest, IInv, TypeOK
  <1> QED BY <1>1, <1>2, <1>3, Invariance, PTL DEF Spec

-----------------------------------------------------------------------------
(* The pace of the fade: no time is ever spent as a jump.                  *)
(*                                                                         *)
(* What the fade may spend is the age of its stamp.  While the PWM is not  *)
(* cut, that age is what this pass and the sleep before it have taken and  *)
(* a carry of less than one percent (PaceInv); a new target, a new rate    *)
(* and the end of a cut start it afresh.                                   *)

\* A rate whose percent is a whole number of clock units, as 200 and 50 per
\* second are in microseconds, or whose clock unit is a whole number of
\* percents: TimeOf is then exact.  (Otherwise the carry may exceed one
\* percent by the time that one division drops, one clock unit.)
Whole(slew) == \E k \in Nat \ {0} : Second = k * slew \/ slew = k * Second

RatesAreWhole == Whole(DDC_SLEW) /\ Whole(KEYBOARD_SLEW)

\* What is left of a percent.
Carry(c) == c \in Nat /\ c * s_brightness_slew < Second

\* The time that has passed since the fade last ran, at most.
SinceFade == stall + (IF pc = "sleep" THEN 0 ELSE LongestPass)

PaceInv == ~s_ddc_bus_forced_off => \E c : Carry(c) /\ update_age <= c + SinceFade

-----------------------------------------------------------------------------
\* No sleep is longer than the one LongestPass names.
LEMMA LongestPassIsLongest ==
    /\ LongestPass \in Nat
    /\ \A d \in LoopDelays : d \in Nat /\ MaxStall + d <= LongestPass
  <1> DEFINE longest == CHOOSE d \in LoopDelays : \A e \in LoopDelays : e <= d
  <1>1. longest \in LoopDelays /\ \A e \in LoopDelays : e <= longest
    BY FirmwareAssumption
  <1>2. LoopDelays \subseteq Nat /\ MaxStall \in Nat
    BY FirmwareAssumption
  <1>3. LongestPass = MaxStall + longest
    BY DEF LongestPass
  <1> HIDE DEF longest
  <1>4. LongestPass \in Nat
    BY <1>1, <1>2, <1>3
  <1>5. ASSUME NEW d \in LoopDelays
        PROVE  d \in Nat /\ MaxStall + d <= LongestPass
    BY <1>1, <1>2, <1>3
  <1> QED BY <1>4, <1>5

\* A multiple divides exactly.
LEMMA DivExact ==
    ASSUME NEW q \in Nat, NEW b \in Nat \ {0}
    PROVE  (q * b) \div b = q
  <1>1. q * b \in Nat /\ q * b < (q + 1) * b
    BY ProductMonotone
  <1>2. (q * b) \div b <= q /\ (q * b) \div b \in Nat
    BY <1>1, DivAtMost, DivBounds
  <1>3. SUFFICES ASSUME (q * b) \div b + 1 <= q PROVE FALSE
    BY <1>2
  <1>4. ((q * b) \div b + 1) * b <= q * b
    BY <1>2, <1>3, ProductMonotone
  <1>5. q * b < ((q * b) \div b) * b + b
    BY <1>1, DivBounds
  <1> QED BY <1>1, <1>2, <1>4, <1>5

\* What is carried over is less than one percent.
LEMMA CarriedPace ==
    ASSUME NEW age \in Nat, NEW slew \in Nat \ {0}, Whole(slew)
    PROVE  LET n == (age * slew) \div Second
           IN  (age - (n * Second) \div slew) * slew < Second
  <1> DEFINE n == (age * slew) \div Second
  <1> USE ConstantTypes
  <1>1. age * slew \in Nat
    BY ProductMonotone
  <1>2. n \in Nat /\ n * Second <= age * slew /\ age * slew < n * Second + Second
    BY <1>1, DivBounds
  <1>3. PICK k \in Nat \ {0} : Second = k * slew \/ slew = k * Second
    BY DEF Whole
  <1>4. CASE Second = k * slew
    <2>1. n * Second = (n * k) * slew /\ n * k \in Nat
      BY <1>2, <1>4
    <2>2. (n * Second) \div slew = n * k
      BY <2>1, DivExact
    <2>3. (age - n * k) * slew = age * slew - (n * k) * slew
      BY <2>1
    <2> QED BY <1>2, <2>1, <2>2, <2>3
  <1>5. CASE slew = k * Second
    <2>1. age * slew = (age * k) * Second /\ age * k \in Nat
      BY <1>5
    <2>2. n = age * k
      BY <2>1, DivExact
    <2>3. n * Second = age * slew
      BY <2>1, <2>2
    <2>4. (n * Second) \div slew = age
      BY <2>3, DivExact
    <2> QED BY <2>4
  <1> QED BY <1>3, <1>4, <1>5

\* A stamp written in this pass owes nothing.
LEMMA FreshStamp ==
    ASSUME s_brightness_slew \in Nat, stall \in Nat,
           update_age \in Nat, update_age <= stall
    PROVE  PaceInv
  <1>1. Carry(0)
    BY ConstantTypes DEF Carry
  <1>2. SinceFade \in Nat /\ stall <= SinceFade
    BY LongestPassIsLongest DEF SinceFade
  <1> QED BY <1>1, <1>2 DEF PaceInv

\* The same in numbers, for a rate, an age and the time this pass has taken.
LEMMA FreshNumbers ==
    ASSUME NEW slew \in Nat, NEW taken \in Nat, NEW age \in Nat, age <= taken
    PROVE  /\ 0 * slew < Second
           /\ age <= 0 + (taken + 0)
           /\ age <= 0 + (taken + LongestPass)
  BY ConstantTypes, LongestPassIsLongest

\* ... and for the state after a step.
LEMMA FreshStampNext ==
    ASSUME s_brightness_slew' \in Nat, stall' \in Nat,
           update_age' \in Nat, update_age' <= stall'
    PROVE  PaceInv'
  <1>1. /\ 0 * s_brightness_slew' < Second
        /\ update_age' <= 0 + (stall' + 0)
        /\ update_age' <= 0 + (stall' + LongestPass)
    BY FreshNumbers
  <1>2. Carry(0)'
    BY <1>1 DEF Carry
  <1>3. update_age' <= 0 + SinceFade'
    BY <1>1 DEF SinceFade
  <1> QED BY <1>2, <1>3 DEF PaceInv

\* Time that passes for a transaction passes for both.
LEMMA TransactionPace ==
    ASSUME IInv, PaceInv, NEW d \in Nat, Transaction(d)
    PROVE  PaceInv'
  <1> USE ConstantTypes, LongestPassIsLongest
  <1>1. /\ update_age' <= update_age + d /\ update_age' \in Nat
        /\ stall' = stall + d
        /\ UNCHANGED << pc, s_ddc_bus_forced_off, s_brightness_slew >>
    BY ElapseKeeps DEF Transaction, Elapse, Smaller, goalVars, IInv, TypeOK
  <1>2. /\ SinceFade' = SinceFade + d /\ SinceFade \in Nat
        /\ update_age \in Nat
    BY <1>1 DEF SinceFade, IInv, TypeOK
  <1>3. SUFFICES ASSUME ~s_ddc_bus_forced_off' PROVE PaceInv'
    BY DEF PaceInv
  <1>4. PICK c : Carry(c) /\ update_age <= c + SinceFade
    BY <1>1, <1>3 DEF PaceInv
  <1>5. Carry(c)'
    BY <1>1, <1>4 DEF Carry
  <1>6. update_age' <= c + SinceFade'
    BY <1>1, <1>2, <1>4 DEF Carry
  <1> QED BY <1>5, <1>6 DEF PaceInv

\* A piece that leaves the stamp alone, and does not end the pass.
LEMMA SamePace ==
    ASSUME PaceInv, UNCHANGED << update_age, stall, s_brightness_slew >>,
           pc' \in {pc} \/ "sleep" \notin {pc, pc'},
           s_ddc_bus_forced_off => s_ddc_bus_forced_off'
    PROVE  PaceInv'
  BY DEF PaceInv, Carry, SinceFade

\* The pieces that may set a new target start its clock.
LEMMA GoalPace ==
    ASSUME IInv, PaceInv, ClearBrightness \/ ClearPower \/ SetDown \/ SetUp
    PROVE  PaceInv'
  <1>1. /\ UNCHANGED << stall, s_ddc_bus_forced_off >>
        /\ "sleep" \notin {pc, pc'}
        /\ \/ update_age' = 0
           \/ UNCHANGED << update_age, s_brightness_slew >>
    BY DEF ClearBrightness, ClearPower, SetDown, SetUp, SetKey, ApplyKeyboardLevel, KeyGoal,
       KeepGoal, KeepRest, apply_brightness_request, apply_power_mode, PowerDown,
       set_target_brightness, goalVars, guardVars
  <1>2. IInv'
    BY NextIInv DEF Next, Loop
  <1>3. CASE update_age' = 0
    <2>1. s_brightness_slew' \in Nat /\ stall' \in Nat
      BY <1>2, ConstantTypes DEF IInv, TypeOK
    <2> QED BY <1>3, <2>1, FreshStampNext
  <1>4. CASE UNCHANGED << update_age, s_brightness_slew >>
    BY <1>1, <1>4, SamePace
  <1> QED BY <1>1, <1>3, <1>4

\* The fade keeps less than one percent for the next pass.
LEMMA FadePace ==
    ASSUME RatesAreWhole, IInv, PaceInv, brightness_service
    PROVE  PaceInv'
  <1> USE ConstantTypes
  <1>1. /\ pc' = "sleep" /\ UNCHANGED << stall, s_brightness_slew >>
        /\ update_age' \in {0, CarriedAge}
    BY DEF brightness_service, FadeTooSoon, FadeAtTarget, FadeMoves, goalVars
  <1>2. /\ update_age \in Nat /\ stall \in Nat
        /\ s_brightness_slew \in Nat \ {0} /\ Whole(s_brightness_slew)
    BY DEF IInv, TypeOK, RatesAreWhole
  <1>3. CarriedAge \in Nat /\ CarriedAge * s_brightness_slew < Second
    <2>1. LET n == (update_age * s_brightness_slew) \div Second
          IN  (update_age - (n * Second) \div s_brightness_slew) * s_brightness_slew
                  < Second
      BY <1>2, CarriedPace
    <2>2. CarriedAge * s_brightness_slew < Second
      BY <2>1 DEF CarriedAge, FadeSteps, TimeOf
    <2>3. CarriedAge \in Nat
      BY <1>2, CarriedAgeTyped
    <2> QED BY <2>2, <2>3
  <1>4. /\ update_age' \in Nat
        /\ update_age' * s_brightness_slew' < Second
    <2>1. CASE update_age' = CarriedAge
      BY <1>1, <1>3, <2>1
    <2>2. CASE update_age' = 0
      BY <1>1, <1>2, <2>2
    <2> QED BY <1>1, <2>1, <2>2
  <1>5. Carry(update_age)'
    BY <1>4 DEF Carry
  <1>6. update_age' <= update_age' + SinceFade'
    <2>1. SinceFade' = stall + 0
      BY <1>1 DEF SinceFade
    <2>2. ASSUME NEW age \in Nat PROVE age <= age + (stall + 0)
      BY <1>2
    <2> QED BY <1>4, <2>1, <2>2
  <1> QED BY <1>5, <1>6 DEF PaceInv

\* The sleep is the only long part of a pass.
LEMMA SleepPace ==
    ASSUME IInv, PaceInv, Sleep
    PROVE  PaceInv'
  <1> USE ConstantTypes, LongestPassIsLongest
  <1>1. PICK d \in LoopDelays : Elapse(d)
    BY DEF Sleep
  <1>2. /\ pc = "sleep" /\ pc' = "takeBrightness" /\ stall' = 0
        /\ UNCHANGED << s_ddc_bus_forced_off, s_brightness_slew >>
    BY DEF Sleep, goalVars
  <1>3. /\ update_age \in Nat /\ stall \in 0..MaxStall
        /\ update_age' <= update_age + d /\ update_age' \in Nat
    BY <1>1 DEF Elapse, Smaller, IInv, TypeOK
  <1>4. SUFFICES ASSUME ~s_ddc_bus_forced_off' PROVE PaceInv'
    BY DEF PaceInv
  <1>5. PICK c : Carry(c) /\ update_age <= c + SinceFade
    BY <1>2, <1>4 DEF PaceInv
  <1>6. SinceFade = stall /\ SinceFade' = LongestPass
    BY <1>2, <1>3 DEF SinceFade
  <1>7. Carry(c)'
    BY <1>2, <1>5 DEF Carry
  <1>8. update_age' <= c + SinceFade'
    BY <1>3, <1>5, <1>6 DEF Carry
  <1> QED BY <1>7, <1>8 DEF PaceInv

\* The guard: a cut suspends the fade, and its end restarts the clock.
LEMMA GuardPace ==
    ASSUME IInv, PaceInv, BusGuard \/ BusHeldLow \/ BusReleased
    PROVE  PaceInv'
  <1> USE ConstantTypes
  <1>1. CASE BusGuard
    BY <1>1, SamePace DEF BusGuard, KeepGoal, goalVars
  <1>2. CASE BusHeldLow
    <2>1. CASE s_ddc_bus_forced_off'
      BY <2>1 DEF PaceInv
    <2>2. CASE ~s_ddc_bus_forced_off'
      <3>1. s_ddc_bus_forced_off => s_ddc_bus_forced_off'
        BY <1>2 DEF BusHeldLow
      <3> QED BY <1>2, <2>2, <3>1, SamePace DEF BusHeldLow, AfterHeldLow, KeepGoal, goalVars
    <2> QED BY <2>1, <2>2
  <1>3. CASE BusReleased /\ s_ddc_bus_forced_off
    <2>1. update_age' = now_age /\ stall' = stall /\ s_brightness_slew' = s_brightness_slew
      BY <1>3 DEF BusReleased, ReleasedAge, goalVars
    <2>2. now_age \in Nat /\ stall \in Nat /\ now_age <= stall /\ s_brightness_slew \in Nat
      BY DEF IInv, TypeOK, GuardInv
    <2> QED BY <2>1, <2>2, FreshStampNext
  <1>4. CASE BusReleased /\ ~s_ddc_bus_forced_off
    <2>1. /\ UNCHANGED << update_age, stall, s_brightness_slew >>
          /\ "sleep" \notin {pc, pc'}
      BY <1>4 DEF BusReleased, ReleasedAge, goalVars
    <2> QED BY <1>4, <2>1, SamePace
  <1> QED BY <1>1, <1>2, <1>3, <1>4

\* Every step keeps the pace.
LEMMA NextPace ==
    ASSUME RatesAreWhole, IInv, PaceInv, [Next]_vars
    PROVE  PaceInv'
  <1>1. CASE HostSetsBrightness \/ HostSetsPower \/ HostReads
    BY <1>1, TransactionPace, ConstantTypes DEF HostSetsBrightness, HostSetsPower, HostReads
  <1>2. CASE \/ TakeBrightness \/ TakePower \/ ServiceKeys \/ TakeDown \/ TakeUp
             \/ LinesChange \/ UNCHANGED vars
    <2>1. /\ UNCHANGED << update_age, stall, s_brightness_slew, s_ddc_bus_forced_off >>
          /\ pc' = pc \/ "sleep" \notin {pc, pc'}
      BY <1>2 DEF TakeBrightness, TakePower, ServiceKeys, TakeDown, TakeUp, TakeKey,
         LinesChange, KeepGoal, KeepRest, goalVars, guardVars, timeVars, vars
    <2> QED BY <2>1, SamePace
  <1> QED BY <1>1, <1>2, GoalPace, FadePace, SleepPace, GuardPace DEF Next, Loop

\* One run of the fade spends at most what it is owed.
LEMMA FadeStep ==
    ASSUME IInv, PaceInv, brightness_service
    PROVE  Larger(s_percent' - s_percent, s_percent - s_percent') * Second
               <= s_brightness_slew * (LongestPass + MaxStall) + Second
  <1> DEFINE delta == Larger(s_percent' - s_percent, s_percent - s_percent')
             owed  == LongestPass + MaxStall
  <1> USE ConstantTypes, LongestPassIsLongest
  <1>1. /\ update_age \in Nat /\ stall \in 0..MaxStall
        /\ s_brightness_slew \in Nat \ {0} /\ s_percent \in Nat
        /\ ~s_ddc_bus_forced_off /\ pc = "fade"
    BY DEF brightness_service, IInv, TypeOK, PwmTypeOK, CutInv
  <1>2. PICK c : Carry(c) /\ update_age <= c + SinceFade
    BY <1>1 DEF PaceInv
  <1>3. update_age <= c + owed /\ c \in Nat /\ owed \in Nat
    BY <1>1, <1>2 DEF SinceFade, Carry
  <1>4. update_age * s_brightness_slew <= (c + owed) * s_brightness_slew
    BY <1>1, <1>3, ProductMonotone
  <1>5. (c + owed) * s_brightness_slew = c * s_brightness_slew + s_brightness_slew * owed
    BY <1>1, <1>3
  <1>6. update_age * s_brightness_slew < s_brightness_slew * owed + Second
        /\ update_age * s_brightness_slew \in Nat
        /\ s_brightness_slew * owed \in Nat
    BY <1>1, <1>2, <1>3, <1>4, <1>5, ProductMonotone DEF Carry
  <1>7. FadeSteps \in Nat /\ FadeSteps * Second <= update_age * s_brightness_slew
    BY <1>6, DivBounds DEF FadeSteps
  <1>8. delta \in Nat /\ delta <= FadeSteps
    <2>1. CASE s_percent' = s_percent
      BY <1>1, <1>7, <2>1 DEF Larger
    <2>2. CASE FadeMoves /\ s_percent' # s_percent
      <3>1. FadeSteps \in Nat \ {0} /\ s_percent # s_target_brightness
        BY <1>7, <2>2 DEF FadeMoves
      <3>2. s_percent' = Towards(FadeSteps)
        BY <2>2, <3>1, TowardsBetween, SetPercent DEF FadeMoves
      <3>3. s_target_brightness \in Nat
        BY DEF IInv, TypeOK
      <3> QED BY <1>1, <3>1, <3>2, <3>3 DEF Towards, Larger, Smaller
    <2> QED BY <2>1, <2>2 DEF brightness_service, FadeTooSoon, FadeAtTarget, pwmVars
  <1>9. delta * Second <= FadeSteps * Second
    BY <1>7, <1>8, ProductMonotone
  <1> HIDE DEF delta
  <1>10. delta * Second \in Nat /\ FadeSteps * Second \in Nat
    BY <1>7, <1>8, ProductMonotone
  <1>11. delta * Second <= s_brightness_slew * owed + Second
    BY <1>6, <1>7, <1>9, <1>10
  <1> QED BY <1>11 DEF delta

\* However long the bus was cut, the fade idle or the interrupt busy, one step
\* of the fade moves at most what the rate allows in one pass of the loop, and
\* one carried percent; everything else but the cut leaves the level alone.
THEOREM NoJumps ==
    ASSUME RatesAreWhole
    PROVE  Spec => NoJump
  <1> USE ConstantTypes, LongestPassIsLongest
  <1> DEFINE Moved == Larger(s_percent' - s_percent, s_percent - s_percent') * Second
             Bound == s_brightness_slew * (LongestPass + MaxStall) + Second
  <1>1. Init => PaceInv
    BY InitIInv, FreshStamp DEF Init, IInv, TypeOK
  <1>2. IInv /\ PaceInv /\ [Next]_vars => PaceInv'
    BY NextPace
  <1>3. ASSUME IInv, PaceInv, [Next]_vars
        PROVE  s_ddc_bus_forced_off' \/ Moved <= Bound
    <2>1. CASE brightness_service
      BY <1>3, <2>1, FadeStep
    <2>2. CASE s_percent' = s_percent
      <3>1. Moved = 0
        BY <1>3, <2>2 DEF Larger, IInv, TypeOK, PwmTypeOK
      <3>2. s_brightness_slew * (LongestPass + MaxStall) \in Nat
        BY <1>3, ProductMonotone DEF IInv, TypeOK
      <3> QED BY <3>1, <3>2
    <2>3. s_percent' = s_percent \/ brightness_service \/ s_ddc_bus_forced_off'
      BY <1>3 DEF Next, Loop, TakeBrightness, ClearBrightness, TakePower, ClearPower,
         ServiceKeys, TakeDown, SetDown, TakeUp, SetUp, TakeKey, SetKey, BusGuard,
         BusHeldLow, BusReleased, Sleep, HostSetsBrightness, HostSetsPower, HostReads,
         Transaction, LinesChange, KeepRest, pwmVars, vars
    <2> QED BY <2>1, <2>2, <2>3
  <1>4. IInv /\ PaceInv /\ [Next]_vars => [s_ddc_bus_forced_off' \/ Moved <= Bound]_vars
    BY <1>3
  <1> QED BY <1>1, <1>2, <1>4, Invariance, PTL DEF Spec, NoJump
=============================================================================
