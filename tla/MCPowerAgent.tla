---------------------------- MODULE MCPowerAgent ----------------------------
(* The agent on a small ladder of levels and a coarse clock.               *)
EXTENDS PowerAgent

\* Ships with settings.ini: learn first, then predict one unit ahead.
Default == [ enabled |-> TRUE, learningEnabled |-> TRUE, requireLearned |-> TRUE,
             checkDisplayRequired |-> TRUE, dimPercent |-> 50, advance |-> 1,
             confirmTimeout |-> 1, fallbackInterval |-> 2, minDelay |-> 1,
             minLearn |-> 1, maxLearn |-> 2 ]

\* "MANUAL TIMING": no learning, a fixed interval, a different DIM level.
Manual == [Default EXCEPT !.learningEnabled = FALSE, !.checkDisplayRequired = FALSE,
                          !.dimPercent = 100]

LearnedTiming == {Default}
FixedTiming == {[Default EXCEPT !.learningEnabled = FALSE]}
BothTimings == {Default, Manual}

Everything == { "display", "suspend", "lid", "ending", "hotkey", "crash", "key", "settings" }
Ordinary == { "display", "suspend", "crash", "key", "settings" }
DisplayAndCrash == { "display", "crash" }
DisplayAndHotkey == { "display", "hotkey" }
DisplayAndShutdown == { "display", "ending" }

Anywhere == Pieces \ {"down"}
AtRest == {"idle"}
=============================================================================
