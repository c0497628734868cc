----------------------------- MODULE DdcMailbox -----------------------------
(***************************************************************************)
(* The VCP store of the DDC/CI device (ESP32/main/ddcci.c), seen at the    *)
(* level of whole Set VCP packets.  The software I2C interrupt writes it,  *)
(* the control loop of main.c polls it.  Each VCP feature is one value and *)
(* one "update pending" flag; they are separate volatile bytes, so a       *)
(* reader that is interrupted between the two sees them change under it.   *)
(*                                                                         *)
(* The operators below are the pieces the loop executes one at a time; the *)
(* module Firmware decides where the interrupt can fall between them.      *)
(***************************************************************************)
EXTENDS Naturals

CONSTANT DDCCI_BRIGHTNESS_MAX    \* 100 in ddcci.h

\* Levels are kept in a byte.
ASSUME BrightnessMaxAssumption == DDCCI_BRIGHTNESS_MAX \in 1..255

VARIABLES
    s_brightness,                  \* VCP 0x10: what Get VCP reports
    s_brightness_update_pending,   \* ... set since the loop last took it
    s_power_mode,                  \* VCP 0xD6
    s_power_mode_update_pending

mailboxVars == << s_brightness, s_brightness_update_pending,
                  s_power_mode, s_power_mode_update_pending >>

DDCCI_POWER_ON        == 1
DDCCI_POWER_STANDBY   == 2
DDCCI_POWER_SUSPEND   == 3
DDCCI_POWER_OFF       == 4
DDCCI_POWER_OFF_WRITE == 5

Percent    == 0..DDCCI_BRIGHTNESS_MAX
PowerModes == DDCCI_POWER_ON..DDCCI_POWER_OFF_WRITE

\* Mutant: the value is stored as it came.
Unclamped(v) == v

ClampPercent(v) == IF v > DDCCI_BRIGHTNESS_MAX THEN DDCCI_BRIGHTNESS_MAX ELSE v

ddcci_init(initial) ==
    /\ s_brightness = ClampPercent(initial)
    /\ s_brightness_update_pending = FALSE
    /\ s_power_mode = DDCCI_POWER_ON
    /\ s_power_mode_update_pending = FALSE

\* ISR: Set VCP 0x10 with a 16-bit value.
SetVcpBrightness(requested) ==
    /\ s_brightness' = ClampPercent(requested)
    /\ s_brightness_update_pending' = TRUE
    /\ UNCHANGED << s_power_mode, s_power_mode_update_pending >>

\* ISR: Set VCP 0xD6.  Only the low byte of the 16-bit value counts, and a
\* mode outside 1..5 is answered like any other but changes nothing.
SetVcpPowerMode(requested) ==
    LET mode == requested % 256 IN
    /\ IF mode \in PowerModes
       THEN /\ s_power_mode' = mode
            /\ s_power_mode_update_pending' = TRUE
       ELSE UNCHANGED << s_power_mode, s_power_mode_update_pending >>
    /\ UNCHANGED << s_brightness, s_brightness_update_pending >>

\* Loop: the keyboard's new level becomes what Get VCP reports.  The pending
\* flag is left as the interrupt last set it.
ddcci_set_brightness(b) ==
    /\ s_brightness' = ClampPercent(b)
    /\ UNCHANGED << s_brightness_update_pending, s_power_mode,
                    s_power_mode_update_pending >>

\* Loop: the second half of ddcci_take_brightness_update, after the value has
\* been read.
ClearBrightnessPending ==
    /\ s_brightness_update_pending' = FALSE
    /\ UNCHANGED << s_brightness, s_power_mode, s_power_mode_update_pending >>

\* Loop: the second half of ddcci_take_power_mode_update.
ClearPowerPending ==
    /\ s_power_mode_update_pending' = FALSE
    /\ UNCHANGED << s_brightness, s_brightness_update_pending, s_power_mode >>

MailboxTypeOK ==
    /\ s_brightness \in Percent
    /\ s_brightness_update_pending \in BOOLEAN
    /\ s_power_mode \in PowerModes
    /\ s_power_mode_update_pending \in BOOLEAN
=============================================================================
