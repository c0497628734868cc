----------------------------- MODULE PowerAgent -----------------------------
(***************************************************************************)
(* The interactive Windows agent (Windows/Esp32DisplayPowerBridge.cpp): a  *)
(* hidden window whose message loop turns Windows' display, power and      *)
(* session notifications into writes of VCP 0x10.                          *)
(*                                                                         *)
(* The agent is one thread, so messages are handled one at a time; but a   *)
(* handler that talks DDC takes a while, and the ESP32 keyboard (which     *)
(* Windows does not see) may change the brightness between its DDC calls,  *)
(* and the process may die there.  Each handler is cut after every DDC     *)
(* call: "pc" names the piece that runs next, "idle" is GetMessage.  Any   *)
(* DDC call may fail; a read and a write each succeed or fail as a whole,  *)
(* with the three immediate retries of an OFF write counted as one.        *)
(*                                                                         *)
(* Time is counted in clock units; GetTickCount64 stamps are kept as ages  *)
(* or as the time left.  It passes while the agent waits for a message.    *)
(***************************************************************************)
EXTENDS Integers

CONSTANTS
    BrightnessMax,          \* 100
    INITIAL_SAVED,          \* CurrentBrightness when the agent is installed
    Settings,               \* what settings.ini may say, after clamping
    KeyLevels,              \* levels the keyboard or another DDC client sets
    RestoreRetryInterval,   \* 500 ms
    RestoreRetryMaxAttempts,\* 20
    StartupDisplayStateWait,\* 3000 ms
    BrightnessCacheInterval,\* 1000 ms
    SettingsPollInterval,   \* 1000 ms
    MaxSamples,             \* 1000000
    MaxAge,                 \* bound: the age of a DIM cycle stops here
    Gaps,                   \* clock units that may pass between two messages
    DdcResults,             \* {TRUE}, or {TRUE, FALSE} when the link may fail
    SessionNotify,          \* GUID_SESSION_DISPLAY_STATUS could be registered
    Inputs,                 \* the kinds of event that may happen
    CrashPoints             \* the pieces before which the process may die

None == -1                  \* a stamp that is 0 in the code

Pieces == { "down", "idle", "offWrite", "dimCache", "dimWrite", "dimSave",
            "restoreRead", "restoreWrite", "tickPredict", "predictWrite",
            "tickConfirm", "confirmWrite", "confirmNormal", "tickFallback",
            "tickRestore", "tickCache" }

Levels == 0..BrightnessMax
Visible == 1..BrightnessMax

SettingsRecord ==
    [ enabled : BOOLEAN, learningEnabled : BOOLEAN, requireLearned : BOOLEAN,
      checkDisplayRequired : BOOLEAN, dimPercent : 1..100, advance : Nat,
      confirmTimeout : 1..MaxAge, fallbackInterval : Nat, minDelay : Nat,
      minLearn : Nat, maxLearn : Nat ]

ASSUME AgentAssumption ==
    /\ BrightnessMax \in Nat \ {0}
    /\ INITIAL_SAVED \in Visible
    /\ MaxAge \in Nat \ {0}
    /\ Settings \subseteq SettingsRecord /\ Settings # {}
    /\ \A s \in Settings : /\ s.minLearn <= s.maxLearn /\ s.maxLearn < MaxAge
                          /\ s.minDelay <= MaxAge /\ s.fallbackInterval <= MaxAge
    /\ KeyLevels \subseteq Levels
    /\ RestoreRetryInterval \in Nat \ {0}
    /\ RestoreRetryMaxAttempts \in Nat \ {0}
    /\ StartupDisplayStateWait \in Nat
    /\ BrightnessCacheInterval \in Nat
    /\ SettingsPollInterval \in Nat
    /\ MaxSamples \in Nat \ {0}
    /\ Gaps \subseteq Nat \ {0}
    /\ DdcResults \subseteq BOOLEAN
    /\ SessionNotify \in BOOLEAN
    /\ CrashPoints \subseteq Pieces \ {"down"}

VARIABLES
    pc, after,      \* the next piece, and where a restore attempt returns to
    power,          \* g_agentDisplayOn ... g_agentSessionEnding
    prediction,     \* g_agentPrediction..., g_agentDimStartTick
    restore,        \* g_agentRestorePending, -Attempts, -NextTick
    clocks,         \* startup fallback, brightness cache, settings poll
    settings,       \* g_agentSettings
    registry,       \* HKLM: saved brightness, DIM marker, learned interval
    ini,            \* settings.ini on disk
    panel,          \* VCP 0x10 in the ESP32
    windows,        \* the display state Windows last notified
    wake,           \* "awake", "asleep" or "unattended"
    chosen,         \* history: levels the user ever chose
    touched,        \* history: a level was chosen since the last write of 0
    interrupted,    \* history: something broke into the current DIM cycle
    absence         \* history: see below

(***************************************************************************)
(* absence is "none" while somebody is there.  From a suspend until a      *)
(* resume by the user, user presence or the hotkey it is "heeded" when the *)
(* agent went dark for the suspend and is the same process still, and      *)
(* "missed" when it ignored the suspend because the session was ending, or *)
(* was not there.                                                          *)
(***************************************************************************)

agentVars  == << power, prediction, restore, clocks, settings >>
worldVars  == << ini, windows, wake, chosen, interrupted, absence >>
vars == << pc, after, agentVars, registry, panel, touched, worldVars >>

-----------------------------------------------------------------------------
(* Helpers on the agent's state.                                           *)

Larger(a, b) == IF a > b THEN a ELSE b
Smaller(a, b) == IF a < b THEN a ELSE b

\* GetTemporaryDimBrightness: a share of the saved level, rounded up.
DimOf(saved, percent) == Larger(1, (saved * percent + 99) \div 100)

NotDimmed(p) == [p EXCEPT !.dimmed = FALSE, !.appliedDim = 0]
NoMarker(r) == [r EXCEPT !.marker = 0]
NoRestore == [pending |-> FALSE, attempts |-> 0, next |-> 0]

\* SaveBrightness ignores 0.
Saved(r, level) == IF level \in Visible THEN [r EXCEPT !.saved = level] ELSE r

\* Mutant: what is visible is taken for the user's, the DIM level included.
AnyLevel(p, level) == level \in Visible

\* A visible level that is not the DIM level the agent itself applied.
UsersLevel(p, level) == level \in Visible /\ level # p.appliedDim

\* AgentWindowsSessionIsEnding.  Mutant: the freeze is forgotten.
NeverFrozen(p) == FALSE
Frozen(p) == p.ending

\* Mutants: the interval being timed, or the prediction, is not cancelled.
StillEligible(p, invalidate) ==
    [p EXCEPT !.pending = FALSE, !.due = None,
              !.preOffSent = FALSE, !.preOffAge = None]
StillPending(p, invalidate) ==
    [p EXCEPT !.preOffSent = FALSE, !.preOffAge = None,
              !.eligible = @ /\ ~invalidate]

\* CancelAgentPrediction(reason, invalidateLearning)
Cancelled(p, invalidate) ==
    [p EXCEPT !.pending = FALSE, !.due = None,
              !.preOffSent = FALSE, !.preOffAge = None,
              !.eligible = @ /\ ~invalidate,
              !.dimAge = IF invalidate THEN None ELSE @]

\* GetValidLearnedPredictionInterval
LearnedInRange(r, s) ==
    r.samples > 0 /\ r.learned \in s.minLearn..s.maxLearn

PredictionInterval(r, s) ==
    IF s.learningEnabled /\ LearnedInRange(r, s) THEN r.learned ELSE s.fallbackInterval

\* RecomputePredictionDueTick, with the due time counted from the DIM.
Recomputed(p, r, s) ==
    IF ~p.pending \/ p.dimAge = None
    THEN p
    ELSE IF \/ ~s.enabled
            \/ s.learningEnabled /\ s.requireLearned /\ ~LearnedInRange(r, s)
    THEN [p EXCEPT !.pending = FALSE, !.due = None]
    ELSE [p EXCEPT !.due =
             Larger(s.minDelay, PredictionInterval(r, s) - s.advance)]

\* The running average of LearnDimToOffInterval; history weighs at most 7.
Average(r, s, observed) ==
    LET weight == Smaller(r.samples, 7)
    IN IF LearnedInRange(r, s)
       THEN (r.learned * weight + observed) \div (weight + 1)
       ELSE observed

\* LearnDimToOffInterval
Learned(r, p, s) ==
    IF s.learningEnabled /\ p.eligible /\ p.dimAge \in s.minLearn..s.maxLearn
    THEN [r EXCEPT !.learned = Average(r, s, p.dimAge),
                   !.samples = Smaller(@ + 1, MaxSamples)]
    ELSE r

-----------------------------------------------------------------------------
(* One restore attempt (AgentTryRestoreOnce), in two pieces.               *)

\* ScheduleAgentRestore, which makes the first attempt at once.
ScheduleRestore(return) ==
    /\ restore' = [pending |-> TRUE, attempts |-> 0, next |-> 0]
    /\ pc' = "restoreRead"
    /\ after' = return

\* The panel is back at a level of the user's: nothing is transient any more.
RestoreDone ==
    /\ restore' = NoRestore
    /\ power' = NotDimmed(power)
    /\ pc' = after

\* A visible level that is not the agent's own DIM wins over the saved one.
RestoreRead ==
    /\ pc = "restoreRead"
    /\ \E ok \in DdcResults :
          IF ok /\ UsersLevel(power, panel)
          THEN /\ RestoreDone
               /\ registry' = NoMarker(Saved(registry, panel))
          ELSE /\ restore' = [restore EXCEPT !.attempts = @ + 1]
               /\ pc' = "restoreWrite"
               /\ UNCHANGED << power, registry >>
    /\ UNCHANGED << after, prediction, clocks, settings, panel, touched, worldVars >>

\* Mutant: the restore gives up one attempt late.
GivesUpLate == restore.attempts > RestoreRetryMaxAttempts
GivesUp == restore.attempts >= RestoreRetryMaxAttempts

RestoreFailed ==
    restore' = IF GivesUp THEN [restore EXCEPT !.pending = FALSE, !.next = 0]
                          ELSE [restore EXCEPT !.next = RestoreRetryInterval]

RestoreWrite ==
    /\ pc = "restoreWrite"
    /\ \/ /\ TRUE \in DdcResults
          /\ panel' = registry.saved
          /\ RestoreDone
          /\ registry' = NoMarker(registry)
       \/ /\ FALSE \in DdcResults
          /\ RestoreFailed
          /\ pc' = after
          /\ UNCHANGED << power, registry, panel >>
    /\ UNCHANGED << after, prediction, clocks, settings, touched, worldVars >>

-----------------------------------------------------------------------------
(* Windows' display notifications (AgentApplyDisplayState).                *)

\* A notification is processed: it becomes Windows' last word.
Notified(state) ==
    /\ pc = "idle"
    /\ "display" \in Inputs
    /\ wake # "asleep"
    /\ windows' = state
    /\ UNCHANGED << settings, ini, wake, panel, chosen, touched, absence >>

\* Only the session notification is authoritative.
Known(p) == [p EXCEPT !.known = @ \/ SessionNotify,
                      !.fallbackDone = @ \/ SessionNotify]

DisplayIgnored ==
    /\ Frozen(power)
    /\ \E state \in {"on", "dim", "off"} : Notified(state)
    /\ UNCHANGED << pc, after, power, prediction, restore, clocks, registry,
                    interrupted >>

\* Mutant: a prediction that is only pending counts as sent.
OffPieceEarly(p) == IF p.preOffSent \/ p.pending THEN "idle" ELSE "offWrite"

\* After a pre-OFF the write of 0 is not repeated.
OffPiece(p) == IF p.preOffSent THEN "idle" ELSE "offWrite"

DisplayOff ==
    /\ Notified("off")
    /\ ~Frozen(power)
    /\ restore' = NoRestore
    /\ registry' = NoMarker(IF SessionNotify /\ prediction.dimAge # None
                            THEN Learned(registry, prediction, settings)
                            ELSE registry)
    /\ prediction' = Cancelled(prediction, TRUE)
    /\ power' = [NotDimmed(Known(power)) EXCEPT !.displayOn = FALSE]
    /\ pc' = OffPiece(prediction)
    /\ UNCHANGED << after, clocks, interrupted >>

\* The OFF write of OFF, suspend and lid-close; its failure is only logged.
OffWrite ==
    /\ pc = "offWrite"
    /\ \E ok \in DdcResults :
          /\ panel' = IF ok THEN 0 ELSE panel
          /\ touched' = (touched /\ ~ok)
    /\ pc' = "idle"
    /\ UNCHANGED << after, agentVars, registry, worldVars >>

\* Mutants: an ON in an unattended resume, or after a DIM, is like any other.
NeverDeferred(p) == FALSE
RestoresIfOff(p) == ~p.displayOn

\* While the resume is unattended, ON does not light the panel.
Deferred(p) == p.waiting
NeedsRestore(p) == (SessionNotify /\ ~p.known) \/ ~p.displayOn \/ p.dimmed

DisplayOn ==
    /\ Notified("on")
    /\ ~Frozen(power)
    /\ prediction' = Cancelled(prediction, TRUE)
    /\ interrupted' = TRUE
    /\ \/ /\ Deferred(power)
          /\ power' = Known(power)
          /\ UNCHANGED << pc, after, restore, registry >>
       \/ /\ ~Deferred(power) /\ NeedsRestore(power)
          /\ power' = [Known(power) EXCEPT !.displayOn = TRUE]
          /\ ScheduleRestore("idle")
          /\ UNCHANGED registry
       \/ /\ ~Deferred(power) /\ ~NeedsRestore(power)
          /\ power' = NotDimmed(Known(power))
          /\ registry' = NoMarker(registry)
          /\ UNCHANGED << pc, after, restore >>
    /\ UNCHANGED clocks

DisplayDim ==
    /\ Notified("dim")
    /\ ~Frozen(power)
    /\ power' = Known(power)
    /\ pc' = IF power.displayOn /\ ~power.waiting /\ ~power.lidClosed /\ ~power.dimmed
             THEN "dimCache" ELSE "idle"
    /\ UNCHANGED << after, prediction, restore, clocks, registry, interrupted >>

\* CacheBrightnessIfAvailable
CacheBrightness ==
    \E ok \in DdcResults :
        registry' = IF ok THEN Saved(registry, panel) ELSE registry

DimCache ==
    /\ pc = "dimCache"
    /\ CacheBrightness
    /\ pc' = "dimWrite"
    /\ UNCHANGED << after, agentVars, panel, touched, worldVars >>

DimWrite ==
    /\ pc = "dimWrite"
    /\ LET level == DimOf(registry.saved, settings.dimPercent)
       IN \/ /\ TRUE \in DdcResults
             /\ panel' = level
             /\ power' = [power EXCEPT !.dimmed = TRUE, !.appliedDim = level]
             /\ pc' = "dimSave"
          \/ /\ FALSE \in DdcResults
             /\ pc' = "idle"
             /\ UNCHANGED << panel, power >>
    /\ UNCHANGED << after, prediction, restore, clocks, settings, registry,
                    touched, worldVars >>

\* SaveTemporaryDimState, then BeginAgentDimCyclePrediction.
DimSave ==
    /\ pc = "dimSave"
    /\ registry' = [registry EXCEPT !.marker = power.appliedDim]
    /\ prediction' = Recomputed([pending |-> settings.enabled, due |-> None,
                                 preOffSent |-> FALSE, preOffAge |-> None,
                                 eligible |-> TRUE, dimAge |-> 0],
                                registry, settings)
    /\ interrupted' = FALSE
    /\ pc' = "idle"
    /\ UNCHANGED << after, power, restore, clocks, settings, panel, touched,
                    ini, windows, wake, chosen, absence >>

-----------------------------------------------------------------------------
(* Suspend, resume, lid, session end and the emergency hotkey.             *)

Received(kind) ==
    /\ pc = "idle"
    /\ kind \in Inputs
    /\ UNCHANGED << clocks, settings, panel, ini, windows, chosen, touched >>

\* The panel is to go dark whatever was under way (suspend, lid-close).
GoDark(p) ==
    /\ power' = [NotDimmed(p) EXCEPT !.displayOn = FALSE]
    /\ registry' = NoMarker(registry)
    /\ prediction' = Cancelled(prediction, TRUE)
    /\ restore' = NoRestore
    /\ pc' = "offWrite"

Suspend ==
    /\ Received("suspend")
    /\ wake # "asleep" /\ wake' = "asleep"
    /\ interrupted' = TRUE
    /\ IF Frozen(power)
       THEN /\ absence' = IF absence = "none" THEN "missed" ELSE absence
            /\ UNCHANGED << pc, power, registry, prediction, restore >>
       ELSE /\ absence' = "heeded"
            /\ GoDark([power EXCEPT !.waiting = TRUE])
    /\ UNCHANGED after

\* PBT_APMRESUMEAUTOMATIC: nobody may be there.
ResumeAutomatic ==
    /\ Received("suspend")
    /\ wake = "asleep" /\ wake' = "unattended"
    /\ power' = [power EXCEPT !.displayOn = FALSE, !.waiting = TRUE]
    /\ UNCHANGED << pc, after, prediction, restore, registry, interrupted, absence >>

\* AgentHandleResume
HandleResume ==
    /\ prediction' = Cancelled(prediction, TRUE)
    /\ power' = [power EXCEPT !.displayOn = TRUE, !.dimmed = FALSE, !.waiting = FALSE]
    /\ ScheduleRestore("idle")
    /\ interrupted' = TRUE
    /\ absence' = "none"
    /\ UNCHANGED registry

\* PBT_APMRESUMESUSPEND
ResumeSuspend ==
    /\ Received("suspend")
    /\ wake = "unattended" /\ wake' = "awake"
    /\ HandleResume

\* PBT_APMRESUMECRITICAL: the suspend may never have been notified.
ResumeCritical ==
    /\ Received("suspend")
    /\ wake' = "awake"
    /\ HandleResume

\* GUID_SESSION_USER_PRESENCE with PowerUserPresent.
UserPresent ==
    /\ Received("suspend")
    /\ wake # "asleep"
    /\ \/ power.waiting /\ HandleResume
       \/ /\ ~power.waiting
          /\ absence' = "none"
          /\ UNCHANGED << pc, after, power, prediction, restore, registry, interrupted >>
    /\ UNCHANGED wake

LidClosed ==
    /\ Received("lid")
    /\ wake # "asleep"
    /\ interrupted' = TRUE
    /\ IF Frozen(power)
       THEN UNCHANGED << pc, power, registry, prediction, restore >>
       ELSE GoDark([power EXCEPT !.lidClosed = TRUE])
    /\ UNCHANGED << after, wake, absence >>

LidOpened ==
    /\ Received("lid")
    /\ wake # "asleep"
    /\ power' = [power EXCEPT !.lidClosed = FALSE]
    /\ UNCHANGED << pc, after, prediction, restore, registry, wake, interrupted,
                    absence >>

QueryEndSession ==
    /\ Received("ending")
    /\ wake # "asleep"
    /\ power' = [power EXCEPT !.ending = TRUE]
    /\ prediction' = Cancelled(prediction, TRUE)
    /\ restore' = NoRestore
    /\ interrupted' = TRUE
    /\ UNCHANGED << pc, after, registry, wake, absence >>

\* WM_ENDSESSION(FALSE).  WM_ENDSESSION(TRUE) changes nothing in the agent,
\* which Windows then ends: see Crash.
EndSessionCancelled ==
    /\ Received("ending")
    /\ power.ending
    /\ power' = [power EXCEPT !.ending = FALSE]
    /\ UNCHANGED << pc, after, prediction, restore, registry, wake, interrupted,
                    absence >>

Hotkey ==
    /\ Received("hotkey")
    /\ wake # "asleep"
    /\ power' = [NotDimmed(power) EXCEPT !.displayOn = TRUE, !.waiting = FALSE]
    /\ registry' = NoMarker(registry)
    /\ prediction' = Cancelled(prediction, TRUE)
    /\ ScheduleRestore("idle")
    /\ interrupted' = TRUE
    /\ absence' = "none"
    /\ UNCHANGED wake

-----------------------------------------------------------------------------
(* The 100 ms timer (AgentTimerTick).                                      *)

\* Time passes while GetMessage waits.
Aged(age, gap) == IF age = None THEN None ELSE Smaller(MaxAge, age + gap)
Left(time, gap) == Larger(0, time - gap)

Elapse ==
    /\ pc = "idle"
    /\ \E gap \in Gaps :
          /\ prediction' = [prediction EXCEPT !.dimAge = Aged(@, gap),
                                              !.preOffAge = Aged(@, gap)]
          /\ restore' = [restore EXCEPT !.next = Left(@, gap)]
          /\ clocks' = [clocks EXCEPT !.startup = Left(@, gap), !.cache = Left(@, gap),
                                      !.poll = Left(@, gap)]
    /\ UNCHANGED << pc, after, power, settings, registry, panel, touched, worldVars >>

\* ReloadPredictionSettings, once per poll interval.
TimerTick ==
    /\ pc = "idle"
    /\ wake # "asleep"
    /\ pc' = "tickPredict"
    /\ IF clocks.poll = 0
       THEN /\ settings' = ini
            /\ clocks' = [clocks EXCEPT !.poll = SettingsPollInterval]
            /\ prediction' = IF ini # settings THEN Recomputed(prediction, registry, ini)
                             ELSE prediction
       ELSE UNCHANGED << settings, clocks, prediction >>
    /\ UNCHANGED << after, power, restore, registry, panel, touched, worldVars >>

PredictionDue(p) == p.pending /\ p.due # None /\ p.dimAge >= p.due

PredictionEligible(p) ==
    ~Frozen(p) /\ p.displayOn /\ p.dimmed /\ ~p.waiting /\ ~p.lidClosed

\* AgentPredictionTimerTick up to its write.  The prediction is consumed; the
\* execution state says "free", "required", or could not be queried.
TickPredict ==
    /\ pc = "tickPredict"
    /\ LET consumed == [prediction EXCEPT !.pending = FALSE, !.due = None]
           Leave(invalidate) ==
               /\ prediction' = Cancelled(consumed, invalidate)
               /\ pc' = "tickConfirm"
           UserChanged == UsersLevel(power, panel) /\ power.appliedDim # 0
           Go == prediction' = consumed /\ pc' = "predictWrite"
           Decide ==
               IF ~settings.checkDisplayRequired THEN Go
               ELSE \/ Go                     \* free
                    \/ Leave(TRUE)            \* ES_DISPLAY_REQUIRED
                    \/ Leave(FALSE)           \* the query failed
       IN IF ~PredictionDue(prediction)
          THEN pc' = "tickConfirm" /\ UNCHANGED << prediction, power, registry >>
          ELSE IF ~PredictionEligible(power)
          THEN Leave(TRUE) /\ UNCHANGED << power, registry >>
          ELSE \E ok \in DdcResults :
                  IF ok /\ UserChanged
                  THEN /\ Leave(TRUE)
                       /\ power' = NotDimmed(power)
                       /\ registry' = NoMarker(Saved(registry, panel))
                  ELSE Decide /\ UNCHANGED << power, registry >>
    /\ UNCHANGED << after, restore, clocks, settings, panel, touched, worldVars >>

PredictWrite ==
    /\ pc = "predictWrite"
    /\ pc' = "tickConfirm"
    /\ \/ /\ TRUE \in DdcResults
          /\ panel' = 0 /\ touched' = FALSE
          /\ prediction' = [prediction EXCEPT !.preOffSent = TRUE, !.preOffAge = 0]
       \/ /\ FALSE \in DdcResults
          /\ UNCHANGED << panel, touched, prediction >>
    /\ UNCHANGED << after, power, restore, clocks, settings, registry, worldVars >>

\* Mutant: the confirmation is only waited for while a prediction is pending.
ConfirmationIfPending(p) ==
    p.pending /\ p.preOffSent /\ p.preOffAge >= settings.confirmTimeout

\* AgentPredictionConfirmationTick: Windows did not confirm the OFF in time.
ConfirmationOverdue(p) == p.preOffSent /\ p.preOffAge >= settings.confirmTimeout

TickConfirm ==
    /\ pc = "tickConfirm"
    /\ pc' = IF ConfirmationOverdue(prediction) THEN "confirmWrite" ELSE "tickFallback"
    /\ UNCHANGED << after, agentVars, registry, panel, touched, worldVars >>

ConfirmWrite ==
    /\ pc = "confirmWrite"
    /\ \/ /\ TRUE \in DdcResults
          /\ panel' = IF power.appliedDim > 0 THEN power.appliedDim
                      ELSE DimOf(registry.saved, settings.dimPercent)
          /\ prediction' = Cancelled(prediction, TRUE)
          /\ pc' = "tickFallback"
       \/ /\ FALSE \in DdcResults
          /\ pc' = "confirmNormal"
          /\ UNCHANGED << panel, prediction >>
    /\ UNCHANGED << after, power, restore, clocks, settings, registry, touched, worldVars >>

\* The DIM level could not be written: try the normal level, then give up.
ConfirmNormal ==
    /\ pc = "confirmNormal"
    /\ pc' = "tickFallback"
    /\ prediction' = Cancelled(prediction, TRUE)
    /\ \/ /\ TRUE \in DdcResults
          /\ panel' = registry.saved
          /\ power' = NotDimmed(power)
          /\ registry' = NoMarker(registry)
       \/ /\ FALSE \in DdcResults
          /\ UNCHANGED << panel, power, registry >>
    /\ UNCHANGED << after, restore, clocks, settings, touched, worldVars >>

\* No display state was ever notified: fail toward a usable screen, once.
TickFallback ==
    /\ pc = "tickFallback"
    /\ IF ~power.fallbackDone /\ ~power.known /\ clocks.startup = 0
       THEN /\ power' = [power EXCEPT !.fallbackDone = TRUE, !.displayOn = TRUE]
            /\ ScheduleRestore("tickRestore")
            /\ absence' = "none"
       ELSE /\ pc' = "tickRestore"
            /\ UNCHANGED << after, power, restore, absence >>
    /\ UNCHANGED << prediction, clocks, settings, registry, panel, touched, ini,
                    windows, wake, chosen, interrupted >>

TickRestore ==
    /\ pc = "tickRestore"
    /\ IF restore.pending /\ restore.next = 0
       THEN pc' = "restoreRead" /\ after' = "tickCache"
       ELSE pc' = "tickCache" /\ UNCHANGED after
    /\ UNCHANGED << agentVars, registry, panel, touched, worldVars >>

\* In normal use the agent only learns the level, it never writes it back.
TickCache ==
    /\ pc = "tickCache"
    /\ pc' = "idle"
    /\ IF power.displayOn /\ ~power.dimmed /\ ~restore.pending /\ clocks.cache = 0
       THEN /\ CacheBrightness
            /\ clocks' = [clocks EXCEPT !.cache = BrightnessCacheInterval]
       ELSE UNCHANGED << registry, clocks >>
    /\ UNCHANGED << after, power, prediction, restore, settings, panel, touched, worldVars >>

-----------------------------------------------------------------------------
(* The process, the keyboard and the user.                                 *)

\* The globals of a process that has just started.
FreshPower == [displayOn |-> TRUE, dimmed |-> FALSE, appliedDim |-> 0,
               waiting |-> FALSE, lidClosed |-> FALSE, known |-> FALSE,
               fallbackDone |-> FALSE, ending |-> FALSE]
NoPrediction == [pending |-> FALSE, due |-> None, preOffSent |-> FALSE,
                 preOffAge |-> None, eligible |-> FALSE, dimAge |-> None]
FreshClocks == [startup |-> StartupDisplayStateWait,
                cache |-> BrightnessCacheInterval, poll |-> SettingsPollInterval]

\* The process dies, in WM_DESTROY, by logoff or by a crash.
Crash ==
    /\ pc \in CrashPoints
    /\ "crash" \in Inputs
    /\ pc' = "down"
    /\ after' = "idle"
    /\ power' = FreshPower /\ prediction' = NoPrediction
    /\ restore' = NoRestore /\ clocks' = FreshClocks
    /\ absence' = IF absence = "none" THEN "none" ELSE "missed"
    /\ UNCHANGED << settings, registry, panel, touched, ini, windows, wake, chosen,
                    interrupted >>

\* RunInteractiveAgent: a DIM marker tells the DIM level from the user's.
Start ==
    /\ pc = "down"
    /\ wake # "asleep"
    /\ settings' = ini
    /\ LET marked == [power EXCEPT !.dimmed = registry.marker # 0,
                                   !.appliedDim = registry.marker]
       IN /\ power' = marked
          /\ \E ok \in DdcResults :
                registry' = IF ok /\ UsersLevel(marked, panel)
                            THEN Saved(registry, panel) ELSE registry
    /\ pc' = "idle"
    /\ UNCHANGED << after, prediction, restore, clocks, panel, touched, worldVars >>

\* What Windows notifies while there is no agent is lost.
MissedWhileDown ==
    /\ pc = "down"
    /\ windows' \in {"on", "dim", "off"}
    /\ \/ wake' = "awake" /\ absence' = "none"
       \/ wake' = "unattended" /\ absence' = "missed"
    /\ interrupted' = TRUE
    /\ UNCHANGED << pc, after, agentVars, registry, panel, touched, ini, chosen >>

\* The ESP32 keyboard, or another DDC client, at any moment.
Key ==
    /\ "key" \in Inputs
    /\ \E level \in KeyLevels :
          /\ panel' = level
          /\ chosen' = chosen \cup {level}
    /\ touched' = TRUE
    /\ UNCHANGED << pc, after, agentVars, registry, ini, windows, wake, interrupted,
                    absence >>

EditSettings ==
    /\ "settings" \in Inputs
    /\ pc = "idle"
    /\ ini' \in Settings
    /\ UNCHANGED << pc, after, agentVars, registry, panel, touched, windows, wake,
                    chosen, interrupted, absence >>

-----------------------------------------------------------------------------
Init ==
    /\ pc = "down" /\ after = "idle"
    /\ power = FreshPower /\ prediction = NoPrediction
    /\ restore = NoRestore /\ clocks = FreshClocks
    /\ ini \in Settings /\ settings = ini
    /\ registry = [saved |-> INITIAL_SAVED, marker |-> 0, learned |-> 0, samples |-> 0]
    /\ panel = INITIAL_SAVED
    /\ windows = "on" /\ wake = "awake"
    /\ chosen = {INITIAL_SAVED}
    /\ touched = TRUE
    /\ interrupted = TRUE
    /\ absence = "none"

Notifications == DisplayIgnored \/ DisplayOff \/ DisplayOn \/ DisplayDim
DdcPieces == OffWrite \/ DimCache \/ DimWrite \/ DimSave \/ RestoreRead \/ RestoreWrite
PowerEvents == Suspend \/ ResumeAutomatic \/ ResumeSuspend \/ ResumeCritical
               \/ UserPresent \/ LidClosed \/ LidOpened
SessionEvents == QueryEndSession \/ EndSessionCancelled \/ Hotkey
TickPieces == TickPredict \/ PredictWrite \/ TickConfirm \/ ConfirmWrite
              \/ ConfirmNormal \/ TickFallback \/ TickRestore \/ TickCache
World == Crash \/ MissedWhileDown \/ Key \/ EditSettings

Next == Notifications \/ DdcPieces \/ PowerEvents \/ SessionEvents \/ Elapse
        \/ TimerTick \/ TickPieces \/ Start \/ World

Spec == Init /\ [][Next]_vars

\* The agent's thread runs, time passes, the timer fires, and the logon task
\* starts an agent that is not running.  Nothing is promised of Windows.
Fairness ==
    /\ WF_vars(DdcPieces \/ TickPieces)
    /\ SF_vars(Elapse)
    /\ SF_vars(TimerTick)
    /\ WF_vars(Start)

FairSpec == Spec /\ Fairness

-----------------------------------------------------------------------------
(* Properties.                                                             *)

PowerRecord ==
    [ displayOn : BOOLEAN, dimmed : BOOLEAN, appliedDim : Levels, waiting : BOOLEAN,
      lidClosed : BOOLEAN, known : BOOLEAN, fallbackDone : BOOLEAN, ending : BOOLEAN ]

PredictionRecord ==
    [ pending : BOOLEAN, due : Nat \cup {None}, preOffSent : BOOLEAN,
      preOffAge : (0..MaxAge) \cup {None}, eligible : BOOLEAN,
      dimAge : (0..MaxAge) \cup {None} ]

RestoreRecord ==
    [ pending : BOOLEAN, attempts : 0..RestoreRetryMaxAttempts,
      next : 0..RestoreRetryInterval ]

ClocksRecord ==
    [ startup : 0..StartupDisplayStateWait, cache : 0..BrightnessCacheInterval,
      poll : 0..SettingsPollInterval ]

RegistryRecord ==
    [ saved : Visible, marker : Levels, learned : 0..MaxAge, samples : 0..MaxSamples ]

\* Every global of the agent, every registry value and the panel stay in range;
\* in particular the saved level is never 0, the DIM level never above the
\* maximum, and a restore never counts more attempts than it is given.
TypeOK ==
    /\ pc \in Pieces /\ after \in {"idle", "tickRestore", "tickCache"}
    /\ power \in PowerRecord
    /\ prediction \in PredictionRecord /\ restore \in RestoreRecord
    /\ clocks \in ClocksRecord /\ registry \in RegistryRecord
    /\ settings \in Settings /\ ini \in Settings
    /\ panel \in Levels
    /\ windows \in {"on", "dim", "off"} /\ wake \in {"awake", "asleep", "unattended"}
    /\ chosen \subseteq Levels /\ touched \in BOOLEAN /\ interrupted \in BOOLEAN
    /\ absence \in {"none", "heeded", "missed"}

\* The agent, and not the keyboard, writes this level.
AgentWrites(levels) == pc' # pc /\ panel' # panel /\ panel' \in levels

\* From WM_QUERYENDSESSION until the shutdown is cancelled nothing the agent
\* does blanks the panel: no OFF, suspend, lid-close or prediction does
\* (Windows/README.txt:84).
NoBlackoutWhileEnding == [][AgentWrites({0}) => ~power.ending]_vars

\* A process that went dark for a suspend does not light the panel until
\* somebody is there, whatever Windows notifies in an unattended resume and
\* whatever was pending before (Esp32DisplayPowerBridge.cpp:1426-1429), except
\* by its startup fallback.  Nothing is said of an absence the process missed:
\* one that ignored the suspend as the session was ending, or was not running.
NoLightWhileNobodyThere == [][AgentWrites(Visible) => absence # "heeded"]_vars

\* The panel is blanked ahead of Windows only when the last thing Windows said
\* is DIM (policy of Esp32DisplayPowerBridge.cpp:60-68), not after an ON, an
\* OFF, a resume, or a restart of the agent.
PredictsOnlyAfterDim ==
    [][pc = "predictWrite" /\ panel' # panel /\ pc' # pc => windows = "dim" /\ ~interrupted]_vars

\* An interval is learned only from a DIM that Windows itself took to OFF with
\* nothing in between: no ON, suspend, resume, lid-close, session end or
\* hotkey (Windows/README.txt:88-89).
LearnsOnlyCleanCycles ==
    [][registry'.learned # registry.learned \/ registry'.samples # registry.samples
       => windows = "dim" /\ windows' = "off" /\ ~interrupted]_vars

\* What the agent will restore is a level the user chose once: the DIM level,
\* which is the agent's own, is never mistaken for it.
SavedIsChosen == registry.saved \in chosen

\* When the agent holds the display to be off and is at rest, the panel is
\* dark, unless the keyboard has been used since.
DarkWhenOff == ~power.displayOn /\ pc = "idle" /\ ~touched => panel = 0

\* The agent is running from some point on: it does not crash for ever.
AgentStays == <>[](pc # "down")

\* If Windows' display stays on in an attended session that is not being ended,
\* the panel is lit from some point on, whatever happened before: predictions,
\* OFF, suspend, crashes of the agent, and the order they came in.
LitWhenOn ==
    AgentStays /\ <>[](windows = "on" /\ wake = "awake" /\ ~power.ending)
    => <>[](panel > 0)

\* A prediction is confirmed by Windows or taken back by the agent that made
\* it: the panel does not stay black while Windows holds the display at DIM.
PreOffResolved ==
    prediction.preOffSent
        ~> (panel > 0 \/ windows = "off" \/ wake # "awake" \/ pc = "down")

\* The same whoever made the prediction, if only an agent stays: "If a
\* predicted pre-OFF is sent but Windows does not actually report OFF within
\* this time, restore a visible DIM level" (Windows/settings.ini:37-39).
PreOffTakenBack ==
    AgentStays =>
    (prediction.preOffSent ~> (panel > 0 \/ windows = "off" \/ wake # "awake"))
=============================================================================
