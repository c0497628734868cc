------------------------------- MODULE Panel --------------------------------
(***************************************************************************)
(* What the firmware promises about the backlight, with no mailbox, no     *)
(* clock and no program points: a level to remember, a goal that is that   *)
(* level or dark, and a light that only ever moves towards the goal,       *)
(* unless the bus guard blanks it.                                         *)
(***************************************************************************)
EXTENDS Integers

CONSTANTS Max, Initial, MayFail

VARIABLES on, key_dark, remembered, goal, lit, blanked

panelVars == << on, key_dark, remembered, goal, lit, blanked >>

Init ==
    /\ on = TRUE
    /\ key_dark = FALSE
    /\ remembered = Initial
    /\ goal = Initial
    /\ lit = Initial
    /\ blanked = FALSE

\* A positive level is remembered; it is shown only if the panel is on.
Remember(level) ==
    /\ remembered' = level
    /\ key_dark' = FALSE
    /\ goal' = IF on THEN level ELSE 0
    /\ UNCHANGED << on, lit, blanked >>

\* The host's 0: dark for now, nothing forgotten.
Darken ==
    /\ goal' = 0
    /\ UNCHANGED << on, key_dark, remembered, lit, blanked >>

\* The keyboard's 0: dark until a level is chosen again.
KeyDarken ==
    /\ key_dark' = TRUE
    /\ goal' = 0
    /\ UNCHANGED << on, remembered, lit, blanked >>

SwitchOn ==
    /\ ~on
    /\ on' = TRUE
    /\ goal' = IF key_dark THEN 0 ELSE remembered
    /\ UNCHANGED << key_dark, remembered, lit, blanked >>

SwitchOff ==
    /\ on' = FALSE
    /\ goal' = 0
    /\ UNCHANGED << key_dark, remembered, lit, blanked >>

\* Towards the goal, never past it.
Fade ==
    /\ ~blanked
    /\ lit' \in (lit + 1)..goal \cup goal..(lit - 1)
    /\ UNCHANGED << on, key_dark, remembered, goal, blanked >>

Blank ==
    /\ ~blanked
    /\ blanked' = TRUE
    /\ lit' = 0 \/ (MayFail /\ lit' = lit)
    /\ UNCHANGED << on, key_dark, remembered, goal >>

Unblank ==
    /\ blanked
    /\ blanked' = FALSE
    /\ UNCHANGED << on, key_dark, remembered, goal, lit >>

Next ==
    \/ \E level \in 1..Max : Remember(level)
    \/ Darken \/ KeyDarken \/ SwitchOn \/ SwitchOff
    \/ Fade \/ Blank \/ Unblank

Spec == Init /\ [][Next]_panelVars
=============================================================================
