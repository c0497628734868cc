------------------------ MODULE PowerAgentLinkProofs ------------------------
(***************************************************************************)
(* Proofs about the interactive agent when the DDC link works and Windows  *)
(* sends the session notification: what is then at the panel, and what the *)
(* agent takes for the user's level.                                       *)
(*                                                                         *)
(* The hypotheses are needed: TLC refutes SavedIsChosen and DarkWhenOff    *)
(* when a DDC call may fail, when only the console notification comes (the *)
(* startup fallback then restores in the middle of a pre-OFF), SavedIs-    *)
(* Chosen with the emergency hotkey or a death between the DIM write and   *)
(* its marker, and DarkWhenOff with a suspend while the session ends.      *)
(***************************************************************************)
EXTENDS PowerAgentProofs

\* A restore succeeds at once, and a prediction is only made, or taken back,
\* after the first session notification: the startup fallback cannot undo it.
SettledInv ==
    /\ restore.pending => pc \in RestorePieces
    /\ pc \in DimPieces \cup {"predictWrite"} => power.known
    /\ prediction.pending \/ prediction.preOffSent => power.known
    /\ pc \in {"confirmWrite", "confirmNormal"} => prediction.preOffSent
    /\ pc \in RestorePieces \cup {"down"} => ~prediction.preOffSent
    /\ prediction.preOffSent \/ pc = "predictWrite" => power.dimmed
    /\ pc \in {"dimCache", "dimWrite"} => ~power.dimmed
    /\ wake = "asleep" => pc \in {"idle", "offWrite", "down"}

\* The user chose what is at the panel, or it is dark.
UsersPanel == panel \in chosen \cup {0}

\* The agent can always tell its own DIM level from the user's.
ChosenInv ==
    /\ SavedIsChosen
    /\ power.dimmed => power.appliedDim # 0
    /\ power.dimmed /\ pc # "dimSave" => registry.marker = power.appliedDim
    /\ prediction.preOffSent => UsersPanel
    /\ pc = "down" => ~power.dimmed /\ (UsersPanel \/ panel = registry.marker)
    /\ pc \notin {"down", "offWrite"} =>
           \/ UsersPanel
           \/ panel = power.appliedDim /\ (power.dimmed \/ pc \in RestorePieces)

\* Whatever lights the panel runs while the display is held to be on.
DarkInv ==
    /\ ~power.ending
    /\ wake = "asleep" /\ pc # "down" => ~power.displayOn
    /\ pc \in DimPieces \cup RestorePieces \cup {"predictWrite", "down"} => power.displayOn
    /\ prediction.preOffSent => power.displayOn /\ (~touched => panel = 0)
    /\ ~power.displayOn /\ ~touched /\ pc # "offWrite" => panel = 0

-----------------------------------------------------------------------------
(* SettledInv *)

WorkingLink == DdcResults = {TRUE} /\ SessionNotify

\* Over a working link every DDC call succeeds.
LEMMA LinkFacts == WorkingLink => FALSE \notin DdcResults /\ TRUE \in DdcResults
  BY DEF WorkingLink

\* What a notification told the process is not forgotten while it runs.
LEMMA KnownIsKept ==
    ASSUME IInv,
           Notifications \/ DdcPieces \/ PowerEvents \/ SessionEvents
           \/ Elapse \/ TimerTick \/ TickPieces
    PROVE  power.known => power'.known
  <1> USE DEF IInv, TypeOK, PowerRecord
  <1>1. CASE Notifications
    BY <1>1 DEF Notifications, DisplayIgnored, DisplayOff, DisplayOn, DisplayDim, Known,
       NotDimmed
  <1>2. CASE DdcPieces
    BY <1>2 DEF DdcPieces, OffWrite, DimCache, DimWrite, DimSave, RestoreRead,
       RestoreWrite, RestoreDone, NotDimmed, agentVars
  <1>3. CASE PowerEvents
    BY <1>3 DEF PowerEvents, Suspend, ResumeAutomatic, ResumeSuspend,
       ResumeCritical, UserPresent, LidClosed, LidOpened, HandleResume, GoDark, NotDimmed
  <1>4. CASE SessionEvents
    BY <1>4 DEF SessionEvents, QueryEndSession, EndSessionCancelled, Hotkey, NotDimmed
  <1>5. CASE Elapse \/ TimerTick
    BY <1>5 DEF Elapse, TimerTick
  <1>6. CASE TickPieces
    BY <1>6 DEF TickPieces, TickPredict, PredictWrite, TickConfirm, ConfirmWrite,
       ConfirmNormal, TickFallback, TickRestore, TickCache, NotDimmed, agentVars
  <1> QED BY <1>1, <1>2, <1>3, <1>4, <1>5, <1>6

\* The notifications leave the work to the pieces of their handlers.
LEMMA SettledNotifications ==
    ASSUME WorkingLink, IInv, SettledInv, Notifications
    PROVE  SettledInv'
  <1> USE DEF IInv, TypeOK, SettledInv, Notified, RestorePieces, DimPieces
  <1>1. power.known => power'.known
    BY KnownIsKept
<1>2. ~NoRestore.pending
    BY DEF NoRestore
  <1>3. CASE DisplayIgnored
    BY <1>1, <1>3 DEF DisplayIgnored
  <1>4. CASE DisplayOff
    BY <1>2, <1>4, CancelledTyped DEF DisplayOff, OffPiece
  <1>5. CASE DisplayOn
    BY <1>1, <1>5, CancelledTyped DEF DisplayOn, ScheduleRestore
  <1>6. CASE DisplayDim
    <2>1. power'.known
      BY <1>6 DEF DisplayDim, Known, WorkingLink, PowerRecord
    <2>2. power'.dimmed = power.dimmed
      BY <1>6, KnownTyped DEF DisplayDim
    <2> QED BY <1>6, <2>1, <2>2 DEF DisplayDim
  <1> QED BY <1>3, <1>4, <1>5, <1>6 DEF Notifications

\* The pieces with a DDC call pass it on to the next piece.
LEMMA SettledDdcPieces ==
    ASSUME WorkingLink, IInv, SettledInv, DdcPieces
    PROVE  SettledInv'
  <1> USE DEF IInv, TypeOK, SettledInv, RestorePieces, DimPieces
  <1>1. power.known => power'.known
    BY KnownIsKept
  <1>2. CASE OffWrite \/ DimCache \/ DimWrite
    BY <1>1, <1>2 DEF OffWrite, DimCache, DimWrite, agentVars, worldVars
  <1>3. CASE DimSave
    <2>1. ~prediction'.preOffSent
      BY <1>3 DEF DimSave, Recomputed
    <2> QED BY <1>1, <1>3, <2>1 DEF DimSave
  <1>4. CASE RestoreRead \/ RestoreWrite
    <2>1. \/ RestoreDone
          \/ pc' = "restoreWrite" /\ power' = power
      BY <1>4, LinkFacts DEF RestoreRead, RestoreWrite
    <2>2. prediction' = prediction /\ wake' = wake /\ pc \in {"restoreRead", "restoreWrite"}
      BY <1>4 DEF RestoreRead, RestoreWrite, worldVars
    <2>5. ~prediction.preOffSent /\ wake # "asleep"
      BY <2>2
    <2>3. CASE RestoreDone
      BY <1>1, <2>2, <2>5, <2>3, RestoreDoneTyped
    <2>4. CASE pc' = "restoreWrite" /\ power' = power
      BY <2>2, <2>5, <2>4
    <2> QED BY <2>1, <2>3, <2>4
  <1> QED BY <1>2, <1>3, <1>4 DEF DdcPieces

\* The other messages of the window.
LEMMA SettledEvents ==
    ASSUME WorkingLink, IInv, SettledInv, PowerEvents \/ SessionEvents
    PROVE  SettledInv'
  <1> USE DEF IInv, TypeOK, SettledInv, RestorePieces, DimPieces, Received
  <1>1. power.known => power'.known
    BY KnownIsKept
  <1>2. CASE Suspend \/ LidClosed \/ QueryEndSession
    <2>1. \/ /\ prediction' = Cancelled(prediction, TRUE)
             /\ restore' = NoRestore /\ pc' \in {"idle", "offWrite"}
          \/ UNCHANGED << pc, power, prediction, restore >>
      BY <1>2 DEF Suspend, LidClosed, GoDark, QueryEndSession
    <2>2. CASE UNCHANGED << pc, power, prediction, restore >>
      BY <1>2, <2>2 DEF Suspend, LidClosed, QueryEndSession
    <2>3. CASE /\ prediction' = Cancelled(prediction, TRUE)
               /\ restore' = NoRestore /\ pc' \in {"idle", "offWrite"}
      BY <2>3, CancelledTyped DEF NoRestore
    <2> QED BY <1>2, <2>1, <2>2, <2>3
  <1>3. CASE ResumeAutomatic \/ LidOpened \/ EndSessionCancelled
    <2>1. power'.dimmed = power.dimmed
      BY <1>3 DEF ResumeAutomatic, LidOpened, EndSessionCancelled, PowerRecord
    <2> QED BY <1>1, <1>3, <2>1 DEF ResumeAutomatic, LidOpened, EndSessionCancelled
  <1>4. CASE \/ ResumeSuspend \/ ResumeCritical \/ Hotkey
             \/ UserPresent /\ power.waiting
    <2>1. /\ prediction' = Cancelled(prediction, TRUE) /\ pc' = "restoreRead"
          /\ wake' # "asleep"
      BY <1>4 DEF ResumeSuspend, ResumeCritical, UserPresent, HandleResume, Hotkey,
         ScheduleRestore
    <2> QED BY <2>1, CancelledTyped
  <1>5. CASE UserPresent /\ ~power.waiting
    BY <1>5 DEF UserPresent
  <1> QED BY <1>2, <1>3, <1>4, <1>5 DEF PowerEvents, SessionEvents

\* The pieces of the 100 ms timer.
LEMMA SettledTimer ==
    ASSUME WorkingLink, IInv, SettledInv, Elapse \/ TimerTick \/ TickPieces
    PROVE  SettledInv'
  <1> USE DEF IInv, TypeOK, SettledInv, RestorePieces, DimPieces, agentVars,
              worldVars
  <1>1. power.known => power'.known
    BY KnownIsKept
  <1>2. CASE Elapse
    BY <1>1, <1>2 DEF Elapse, PredictionRecord, RestoreRecord
  <1>3. CASE TimerTick
    BY <1>1, <1>3, RecomputedTyped, SettingsTyped DEF TimerTick
  <1>4. CASE TickPredict
    <2>1. [prediction EXCEPT !.pending = FALSE, !.due = None] \in PredictionRecord
      BY DEF PredictionRecord, None
    <2>2. \/ /\ ~prediction'.preOffSent /\ ~prediction'.pending /\ pc' = "tickConfirm"
          \/ /\ power' = power /\ pc' = "predictWrite"
             /\ prediction'.preOffSent = prediction.preOffSent
             /\ prediction.pending /\ power.dimmed /\ ~prediction'.pending
          \/ pc' = "tickConfirm" /\ UNCHANGED << prediction, power >>
      BY <1>4, <2>1, CancelledTyped
         DEF TickPredict, PredictionDue, PredictionEligible, PredictionRecord
    <2> QED BY <1>1, <1>4, <2>2 DEF TickPredict
  <1>5. CASE PredictWrite
    BY <1>1, <1>5 DEF PredictWrite, PredictionRecord
  <1>6. CASE TickConfirm
    BY <1>6 DEF TickConfirm, ConfirmationOverdue
  <1>7. CASE ConfirmWrite \/ ConfirmNormal
    <2>1. prediction' = Cancelled(prediction, TRUE) /\ pc' = "tickFallback"
      BY <1>7, LinkFacts DEF ConfirmWrite, ConfirmNormal
    <2>2. ~prediction'.preOffSent /\ ~prediction'.pending
      BY <2>1, CancelledTyped
    <2> QED BY <1>7, <2>1, <2>2 DEF ConfirmWrite, ConfirmNormal
  <1>8. CASE TickFallback
    BY <1>1, <1>8 DEF TickFallback, ScheduleRestore
  <1>9. CASE TickRestore \/ TickCache
    BY <1>1, <1>9 DEF TickRestore, TickCache
  <1> QED BY <1>2, <1>3, <1>4, <1>5, <1>6, <1>7, <1>8, <1>9 DEF TickPieces

\* What the agent does not do itself: time, keys, settings, deaths.
LEMMA SettledWorld ==
    ASSUME WorkingLink, IInv, SettledInv, Start \/ World \/ UNCHANGED vars
    PROVE  SettledInv'
  <1> USE DEF IInv, TypeOK, SettledInv, RestorePieces, DimPieces, agentVars,
              worldVars
  <1>1. CASE Crash
    BY <1>1, FreshTyped DEF Crash
  <1>2. CASE Start
    BY <1>2 DEF Start, PowerRecord
  <1>3. CASE MissedWhileDown \/ Key \/ EditSettings \/ UNCHANGED vars
    BY <1>3 DEF MissedWhileDown, Key, EditSettings, vars
  <1> QED BY <1>1, <1>2, <1>3 DEF World

\* Nothing stays half done between two messages.
THEOREM Settled ==
    ASSUME WorkingLink
    PROVE  Spec => []SettledInv
  <1>1. Init => SettledInv
    BY FreshTyped DEF Init, SettledInv, DimPieces, RestorePieces
  <1>2. IInv /\ SettledInv /\ [Next]_vars => SettledInv'
    BY SettledNotifications, SettledDdcPieces, SettledEvents, SettledTimer, SettledWorld
       DEF Next
  <1> QED BY <1>1, <1>2, Invariance, PTL DEF Spec

-----------------------------------------------------------------------------
(* DarkInv: no session ends *)

NoShutdown == "ending" \notin Inputs

\* A notification leaves a panel dark, or has a piece that makes it so.
LEMMA DarkNotifications ==
    ASSUME WorkingLink, NoShutdown, IInv, SettledInv, DarkInv, Notifications
    PROVE  DarkInv'
  <1> USE DEF IInv, TypeOK, DarkInv, Notified, RestorePieces, DimPieces
  <1>1. /\ Known(power).displayOn = power.displayOn
        /\ Known(power).ending = power.ending
        /\ Known(power) \in PowerRecord
    BY KnownTyped
  <1>2. /\ NotDimmed(Known(power)).displayOn = power.displayOn
        /\ NotDimmed(Known(power)).ending = power.ending
        /\ NotDimmed(Known(power)) \in PowerRecord
    BY <1>1, NotDimmedTyped
  <1>3. ~Cancelled(prediction, TRUE).preOffSent
    BY CancelledTyped
  <1>4. CASE DisplayIgnored
    BY <1>4 DEF DisplayIgnored
  <1>5. CASE DisplayOff
    <2>1. ~power'.displayOn /\ ~power'.ending
      BY <1>2, <1>5 DEF DisplayOff, PowerRecord
    <2>2. ~prediction'.preOffSent /\ pc' = OffPiece(prediction)
      BY <1>3, <1>5 DEF DisplayOff
    <2> QED BY <1>5, <2>1, <2>2 DEF DisplayOff, OffPiece
  <1>6. CASE DisplayOn
    <2>1. ~prediction'.preOffSent /\ ~power'.ending
      BY <1>1, <1>2, <1>3, <1>6 DEF DisplayOn, PowerRecord
    <2>2. \/ power'.displayOn = power.displayOn /\ pc' = pc
          \/ power'.displayOn
      BY <1>1, <1>2, <1>6 DEF DisplayOn, PowerRecord
    <2>3. pc' \in {"idle", "restoreRead"}
      BY <1>6 DEF DisplayOn, ScheduleRestore
    <2> QED BY <1>6, <2>1, <2>2, <2>3 DEF DisplayOn
  <1>7. CASE DisplayDim
    BY <1>1, <1>7 DEF DisplayDim
  <1> QED BY <1>4, <1>5, <1>6, <1>7 DEF Notifications

\* The DDC pieces write 0 when Windows is off, and light nothing.
LEMMA DarkDdcPieces ==
    ASSUME WorkingLink, NoShutdown, IInv, SettledInv, DarkInv, DdcPieces
    PROVE  DarkInv'
  <1> USE DEF IInv, TypeOK, DarkInv, RestorePieces, DimPieces, worldVars
  <1>1. CASE OffWrite
    BY <1>1 DEF OffWrite, agentVars, WorkingLink
  <1>2. CASE DimCache
    BY <1>2 DEF DimCache, agentVars
  <1>3. CASE DimWrite
    <2>1. power'.displayOn = power.displayOn /\ power'.ending = power.ending
      BY <1>3 DEF DimWrite, PowerRecord
    <2>2. ~prediction.preOffSent /\ power.displayOn /\ wake # "asleep"
      BY <1>3 DEF DimWrite, SettledInv
    <2>3. UNCHANGED << prediction, touched, wake >> /\ pc' \in {"dimSave", "idle"}
      BY <1>3 DEF DimWrite
    <2> QED BY <2>1, <2>2, <2>3
  <1>4. CASE DimSave
    <2>1. ~prediction'.preOffSent
      BY <1>4 DEF DimSave, Recomputed
    <2> QED BY <1>4, <2>1 DEF DimSave
  <1>5. CASE RestoreRead \/ RestoreWrite
    <2>1. /\ power' = power \/ power' = NotDimmed(power)
          /\ UNCHANGED << prediction, touched, wake >>
          /\ pc' \in Pieces \ {"down"}
          /\ ~prediction.preOffSent
          /\ power.displayOn
      BY <1>5 DEF RestoreRead, RestoreWrite, RestoreDone, SettledInv, Pieces
    <2>2. power'.displayOn = power.displayOn /\ power'.ending = power.ending
      BY <2>1, NotDimmedTyped
    <2>3. wake # "asleep"
      BY <1>5, <2>1 DEF RestoreRead, RestoreWrite
    <2> QED BY <2>1, <2>2, <2>3
  <1> QED BY <1>1, <1>2, <1>3, <1>4, <1>5 DEF DdcPieces

\* Suspends, lids and resumes.
LEMMA DarkEvents ==
    ASSUME WorkingLink, NoShutdown, IInv, SettledInv, DarkInv, PowerEvents \/ SessionEvents
    PROVE  DarkInv'
  <1> USE DEF IInv, TypeOK, DarkInv, RestorePieces, DimPieces, Received
  <1>1. ~QueryEndSession /\ ~EndSessionCancelled /\ ~Frozen(power)
    BY DEF QueryEndSession, EndSessionCancelled, NoShutdown, Frozen
  <1>2. CASE Suspend \/ LidClosed
    <2>1. PICK p \in PowerRecord : GoDark(p) /\ p.ending = power.ending
      <3>1. /\ [power EXCEPT !.waiting = TRUE] \in PowerRecord
            /\ [power EXCEPT !.waiting = TRUE].ending = power.ending
            /\ [power EXCEPT !.lidClosed = TRUE] \in PowerRecord
            /\ [power EXCEPT !.lidClosed = TRUE].ending = power.ending
        BY DEF PowerRecord
      <3>2. \/ GoDark([power EXCEPT !.waiting = TRUE])
            \/ GoDark([power EXCEPT !.lidClosed = TRUE])
        BY <1>1, <1>2 DEF Suspend, LidClosed
      <3> QED BY <3>1, <3>2
    <2>2. ~prediction'.preOffSent /\ pc' = "offWrite" /\ power'.ending = p.ending
      BY <2>1, GoDarkTyped
    <2>3. ~power'.displayOn
      BY <2>1, NotDimmedTyped DEF GoDark, PowerRecord
    <2> QED BY <2>1, <2>2, <2>3
  <1>3. CASE ResumeAutomatic
    <2>1. ~power'.displayOn /\ power'.ending = power.ending /\ ~power.displayOn
      BY <1>3 DEF ResumeAutomatic, PowerRecord
    <2> QED BY <1>3, <2>1 DEF ResumeAutomatic
  <1>4. CASE LidOpened
    <2>1. power'.displayOn = power.displayOn /\ power'.ending = power.ending
      BY <1>4 DEF LidOpened, PowerRecord
    <2> QED BY <1>4, <2>1 DEF LidOpened
  <1>5. CASE \/ ResumeSuspend \/ ResumeCritical \/ Hotkey
             \/ UserPresent /\ power.waiting
    <2>1. /\ prediction' = Cancelled(prediction, TRUE) /\ pc' = "restoreRead"
          /\ wake' # "asleep"
      BY <1>5 DEF ResumeSuspend, ResumeCritical, UserPresent, HandleResume, Hotkey,
         ScheduleRestore
    <2>2. ~prediction'.preOffSent
      BY <2>1, CancelledTyped
    <2>3. power'.displayOn /\ power'.ending = power.ending
      BY <1>5, NotDimmedTyped
         DEF ResumeSuspend, ResumeCritical, UserPresent, HandleResume, Hotkey, PowerRecord
    <2> QED BY <2>1, <2>2, <2>3
  <1>6. CASE UserPresent /\ ~power.waiting
    BY <1>6 DEF UserPresent
  <1> QED BY <1>1, <1>2, <1>3, <1>4, <1>5, <1>6 DEF PowerEvents, SessionEvents

\* The timer takes back no prediction that Windows has confirmed.
LEMMA DarkTimer ==
    ASSUME WorkingLink, NoShutdown, IInv, SettledInv, DarkInv,
           Elapse \/ TimerTick \/ TickPieces
    PROVE  DarkInv'
  <1> USE DEF IInv, TypeOK, DarkInv, RestorePieces, DimPieces, agentVars, worldVars
  <1>1. CASE Elapse
    BY <1>1 DEF Elapse, PredictionRecord
  <1>2. CASE TimerTick
    BY <1>2, RecomputedTyped, SettingsTyped DEF TimerTick
  <1>3. CASE TickPredict
    <2>1. [prediction EXCEPT !.pending = FALSE, !.due = None] \in PredictionRecord
      BY DEF PredictionRecord, None
    <2>2. /\ prediction'.preOffSent => prediction.preOffSent
          /\ pc' = "predictWrite" => power.displayOn
      BY <1>3, <2>1, CancelledTyped DEF TickPredict, PredictionEligible, PredictionRecord
    <2>3. power'.displayOn = power.displayOn /\ power'.ending = power.ending
      BY <1>3, NotDimmedTyped DEF TickPredict
    <2>4. pc' \in {"tickConfirm", "predictWrite"} /\ UNCHANGED << panel, touched, worldVars >>
      BY <1>3 DEF TickPredict
    <2> QED BY <1>3, <2>2, <2>3, <2>4 DEF TickPredict
  <1>4. CASE PredictWrite
    BY <1>4 DEF PredictWrite, WorkingLink, PredictionRecord
  <1>5. CASE TickConfirm
    BY <1>5 DEF TickConfirm
  <1>6. CASE ConfirmWrite \/ ConfirmNormal
    <2>1. /\ prediction.preOffSent /\ power.displayOn /\ wake # "asleep"
          /\ power' = power \/ power' = NotDimmed(power)
          /\ pc' \in {"tickFallback", "confirmNormal"} /\ wake' = wake
      BY <1>6 DEF ConfirmWrite, ConfirmNormal, SettledInv
    <2>2. power'.displayOn = power.displayOn /\ power'.ending = power.ending
      BY <2>1, NotDimmedTyped
    <2>3. prediction' = Cancelled(prediction, TRUE)
      BY <1>6, LinkFacts DEF ConfirmWrite, ConfirmNormal
    <2>4. ~prediction'.preOffSent
      BY <2>3, CancelledTyped
    <2> QED BY <2>1, <2>2, <2>4
  <1>7. CASE TickFallback
    <2>1. \/ power' = power /\ pc' = "tickRestore"
          \/ /\ power'.displayOn /\ power'.ending = power.ending
             /\ ~power.known /\ pc' = "restoreRead"
      BY <1>7 DEF TickFallback, ScheduleRestore, PowerRecord
    <2>2. UNCHANGED << prediction, panel, touched, wake >>
      BY <1>7 DEF TickFallback
    <2>3. wake # "asleep"
      BY <1>7 DEF TickFallback, SettledInv
    <2>4. CASE power' = power /\ pc' = "tickRestore"
      BY <1>7, <2>2, <2>4 DEF TickFallback
    <2>5. CASE power'.displayOn /\ power'.ending = power.ending
               /\ ~power.known /\ pc' = "restoreRead"
      BY <2>2, <2>3, <2>5 DEF SettledInv
    <2> QED BY <2>1, <2>4, <2>5
  <1>8. CASE TickRestore \/ TickCache
    BY <1>8 DEF TickRestore, TickCache, SettledInv
  <1> QED BY <1>1, <1>2, <1>3, <1>4, <1>5, <1>6, <1>7, <1>8 DEF TickPieces

\* A key takes the panel out of the agent's hands.
LEMMA DarkWorld ==
    ASSUME WorkingLink, NoShutdown, IInv, SettledInv, DarkInv, Start \/ World \/ UNCHANGED vars
    PROVE  DarkInv'
  <1> USE DEF IInv, TypeOK, DarkInv, RestorePieces, DimPieces, agentVars, worldVars
  <1>1. CASE Crash
    BY <1>1, FreshTyped DEF Crash, FreshPower
  <1>2. CASE Start
    BY <1>2 DEF Start, PowerRecord
  <1>3. CASE MissedWhileDown \/ Key \/ EditSettings \/ UNCHANGED vars
    BY <1>3 DEF MissedWhileDown, Key, EditSettings, vars
  <1> QED BY <1>1, <1>2, <1>3 DEF World

\* On a link that works, with no session ending, a display that the agent
\* holds to be off is dark once the agent is at rest, until a key is pressed:
\* through predictions, suspends, lids, resumes and crashes between any two
\* DDC calls.
THEOREM OffIsDark ==
    ASSUME WorkingLink, NoShutdown
    PROVE  Spec => []DarkWhenOff
  <1>1. Init => DarkInv
    BY FreshTyped DEF Init, DarkInv, FreshPower, DimPieces, RestorePieces
  <1>2. IInv /\ SettledInv /\ DarkInv /\ [Next]_vars => DarkInv'
    BY DarkNotifications, DarkDdcPieces, DarkEvents, DarkTimer, DarkWorld DEF Next
  <1>3. DarkInv => DarkWhenOff
    BY DEF DarkInv, DarkWhenOff
  <1> QED BY <1>1, <1>2, <1>3, Invariance, Settled, PTL DEF Spec

-----------------------------------------------------------------------------
(* ChosenInv: no emergency hotkey, and a process that dies between messages *)

Unhurried == "hotkey" \notin Inputs /\ CrashPoints \subseteq {"idle"}

\* Dropping the marker and learning an interval leave the saved level alone.
LEMMA SavedIsKept ==
    ASSUME NEW r \in RegistryRecord, NEW p \in PredictionRecord, NEW s \in Settings
    PROVE  /\ NoMarker(r).saved = r.saved
           /\ NoMarker(Learned(r, p, s)).saved = r.saved
  <1>1. /\ NoMarker(r).saved = r.saved
        /\ Learned(r, p, s) \in RegistryRecord
        /\ Learned(r, p, s).saved = r.saved
    BY LearnedTyped, NoMarkerTyped
  <1>2. NoMarker(Learned(r, p, s)).saved = Learned(r, p, s).saved
    BY <1>1, NoMarkerTyped
  <1> QED BY <1>1, <1>2

\* A notification saves nothing but a level that is already the user's.
LEMMA ChosenNotifications ==
    ASSUME WorkingLink, Unhurried, IInv, SettledInv, ChosenInv, Notifications
    PROVE  ChosenInv'
  <1> USE DEF IInv, TypeOK, ChosenInv, SavedIsChosen, UsersPanel, Notified, RestorePieces
  <1>0. /\ pc = "idle" /\ UNCHANGED << panel, chosen >>
    BY DEF Notifications, DisplayIgnored, DisplayOff, DisplayOn, DisplayDim
  <1>1. /\ Known(power) \in PowerRecord
        /\ Known(power).dimmed = power.dimmed
        /\ Known(power).appliedDim = power.appliedDim
        /\ ~NotDimmed(Known(power)).dimmed
        /\ NotDimmed(Known(power)) \in PowerRecord
    BY KnownTyped, NotDimmedTyped
  <1>2. ~Cancelled(prediction, TRUE).preOffSent
    BY CancelledTyped
  <1>3. CASE DisplayIgnored
    BY <1>3 DEF DisplayIgnored
  <1>4. CASE DisplayOff
    <2>1. registry'.saved = registry.saved
      BY <1>4, SavedIsKept DEF DisplayOff
    <2>2. ~power'.dimmed /\ ~prediction'.preOffSent
      BY <1>1, <1>2, <1>4 DEF DisplayOff, PowerRecord
    <2>3. pc' = IF prediction.preOffSent THEN "idle" ELSE "offWrite"
      BY <1>4 DEF DisplayOff, OffPiece
    <2> QED BY <1>0, <2>1, <2>2, <2>3
  <1>5. CASE DisplayOn
    <2>1. ~prediction'.preOffSent
      BY <1>2, <1>5 DEF DisplayOn
    <2>2. CASE /\ power' = Known(power) /\ UNCHANGED << pc, registry >>
      BY <1>0, <1>1, <2>1, <2>2
    <2>3. CASE /\ power' = [Known(power) EXCEPT !.displayOn = TRUE]
               /\ ScheduleRestore("idle") /\ UNCHANGED registry
      <3>1. power'.dimmed = power.dimmed /\ power'.appliedDim = power.appliedDim
        BY <1>1, <2>3 DEF PowerRecord
      <3> QED BY <1>0, <2>1, <2>3, <3>1 DEF ScheduleRestore
    <2>4. CASE /\ ~NeedsRestore(power) /\ power' = NotDimmed(Known(power))
               /\ registry' = NoMarker(registry) /\ UNCHANGED pc
      <3>1. registry'.saved = registry.saved /\ ~power'.dimmed /\ ~power.dimmed
        BY <1>1, <2>4, SavedIsKept DEF NeedsRestore
      <3> QED BY <1>0, <2>1, <2>4, <3>1
    <2> QED BY <1>5, <2>2, <2>3, <2>4 DEF DisplayOn
  <1>6. CASE DisplayDim
    BY <1>0, <1>1, <1>6 DEF DisplayDim
  <1> QED BY <1>3, <1>4, <1>5, <1>6 DEF Notifications

\* A DDC piece saves only what it can tell from the agent's own level.
LEMMA ChosenDdcPieces ==
    ASSUME WorkingLink, Unhurried, IInv, SettledInv, ChosenInv, DdcPieces
    PROVE  ChosenInv'
  <1> USE DEF IInv, TypeOK, ChosenInv, SavedIsChosen, UsersPanel, RestorePieces,
              agentVars, worldVars
  <1>1. CASE OffWrite
    BY <1>1 DEF OffWrite, WorkingLink
  <1>2. CASE DimCache
    <2>1. UsersPanel /\ ~power.dimmed
      BY <1>2 DEF DimCache, SettledInv
    <2>2. registry' = registry \/ registry' = Saved(registry, panel)
      BY <1>2 DEF DimCache, CacheBrightness
    <2>3. registry'.saved \in chosen
      BY <2>1, <2>2, SavedTyped, LevelFacts
    <2> QED BY <1>2, <2>1, <2>3 DEF DimCache
  <1>3. CASE DimWrite
    <2>1. ~prediction.preOffSent
      BY <1>3 DEF DimWrite, SettledInv
    <2>2. /\ pc' = "dimSave" /\ UNCHANGED << registry, prediction, chosen >>
          /\ panel' = DimOf(registry.saved, settings.dimPercent)
          /\ power' = [power EXCEPT !.dimmed = TRUE, !.appliedDim = panel']
      BY <1>3, LinkFacts DEF DimWrite
    <2>3. panel' # 0
      BY <2>2, DimOfVisible, SettingsTyped, LevelFacts DEF RegistryRecord, SettingsRecord
    <2>4. power'.dimmed /\ power'.appliedDim = panel'
      BY <2>2 DEF PowerRecord
    <2> QED BY <2>1, <2>2, <2>3, <2>4
  <1>4. CASE DimSave
    <2>1. /\ registry'.marker = power.appliedDim /\ registry'.saved = registry.saved
          /\ ~prediction'.preOffSent /\ pc' = "idle" /\ pc = "dimSave"
          /\ UNCHANGED << power, panel, chosen >>
      BY <1>4 DEF DimSave, Recomputed, RegistryRecord
    <2> QED BY <2>1
  <1>5. CASE RestoreRead \/ RestoreWrite
    <2>1. /\ ~prediction.preOffSent /\ UNCHANGED << prediction, chosen >>
          /\ pc \in RestorePieces
      BY <1>5 DEF RestoreRead, RestoreWrite, SettledInv
    <2>2. CASE pc' = "restoreWrite" /\ UNCHANGED << power, registry, panel >>
      BY <2>1, <2>2
    <2>3. CASE /\ RestoreDone /\ UsersLevel(power, panel) /\ UNCHANGED panel
               /\ registry' = NoMarker(Saved(registry, panel))
      <3>1. UsersPanel /\ panel \in chosen
        BY <2>1, <2>3, LevelFacts DEF UsersLevel
      <3>2. registry'.saved \in chosen
        BY <2>3, <3>1, SavedTyped, SavedIsKept
      <3>3. ~power'.dimmed /\ pc' \in {"idle", "tickRestore", "tickCache"}
        BY <2>3, RestoreDoneTyped, NotDimmedTyped DEF RestoreDone
      <3> QED BY <2>1, <2>3, <3>1, <3>2, <3>3
    <2>4. CASE /\ RestoreDone /\ panel' = registry.saved
               /\ registry' = NoMarker(registry)
      <3>1. registry'.saved = registry.saved
        BY <2>4, SavedIsKept
      <3>2. ~power'.dimmed /\ pc' \in {"idle", "tickRestore", "tickCache"}
        BY <2>4, RestoreDoneTyped, NotDimmedTyped DEF RestoreDone
      <3> QED BY <2>1, <2>4, <3>1, <3>2
    <2> QED BY <1>5, <2>2, <2>3, <2>4, LinkFacts DEF RestoreRead, RestoreWrite
  <1> QED BY <1>1, <1>2, <1>3, <1>4, <1>5 DEF DdcPieces

\* The other messages save nothing.
LEMMA ChosenEvents ==
    ASSUME WorkingLink, Unhurried, IInv, SettledInv, ChosenInv, PowerEvents \/ SessionEvents
    PROVE  ChosenInv'
  <1> USE DEF IInv, TypeOK, ChosenInv, SavedIsChosen, UsersPanel, RestorePieces, Received
  <1>0. ~Hotkey /\ pc = "idle" /\ UNCHANGED << panel, chosen >>
    BY DEF Unhurried, PowerEvents, SessionEvents, Suspend, ResumeAutomatic, ResumeSuspend,
       ResumeCritical, UserPresent, LidClosed, LidOpened, QueryEndSession,
       EndSessionCancelled, Hotkey
  <1>1. ~Cancelled(prediction, TRUE).preOffSent
    BY CancelledTyped
  <1>2. CASE \E p \in PowerRecord : GoDark(p)
    <2>1. ~power'.dimmed
      BY <1>2, NotDimmedTyped DEF GoDark, PowerRecord
    <2>2. registry'.saved = registry.saved
      BY <1>2, SavedIsKept DEF GoDark
    <2> QED BY <1>0, <1>1, <1>2, <2>1, <2>2 DEF GoDark
  <1>3. CASE UNCHANGED << pc, power, registry, prediction >>
    BY <1>0, <1>3
  <1>4. CASE Suspend \/ LidClosed
    <2>1. /\ [power EXCEPT !.waiting = TRUE] \in PowerRecord
          /\ [power EXCEPT !.lidClosed = TRUE] \in PowerRecord
      BY DEF PowerRecord
    <2> QED BY <1>2, <1>3, <1>4, <2>1 DEF Suspend, LidClosed
  <1>5. CASE ResumeAutomatic \/ LidOpened \/ QueryEndSession \/ EndSessionCancelled
    <2>1. power'.dimmed = power.dimmed /\ power'.appliedDim = power.appliedDim
      BY <1>5 DEF ResumeAutomatic, LidOpened, QueryEndSession, EndSessionCancelled,
         PowerRecord
    <2>2. /\ prediction' = prediction \/ prediction' = Cancelled(prediction, TRUE)
          /\ UNCHANGED << pc, registry >>
      BY <1>5 DEF ResumeAutomatic, LidOpened, QueryEndSession, EndSessionCancelled
    <2> QED BY <1>0, <1>1, <2>1, <2>2
  <1>6. CASE \/ ResumeSuspend \/ ResumeCritical
             \/ UserPresent /\ power.waiting
    <2>1. /\ prediction' = Cancelled(prediction, TRUE) /\ pc' = "restoreRead"
          /\ registry' = registry
          /\ ~power'.dimmed /\ power'.appliedDim = power.appliedDim
      BY <1>6 DEF ResumeSuspend, ResumeCritical, UserPresent, HandleResume,
         ScheduleRestore, PowerRecord
    <2> QED BY <1>0, <1>1, <2>1
  <1>7. CASE UserPresent /\ ~power.waiting
    BY <1>3, <1>7 DEF UserPresent
  <1> QED BY <1>0, <1>4, <1>5, <1>6, <1>7 DEF PowerEvents, SessionEvents

\* The timer saves a level only outside a DIM, or one that is not its own.
LEMMA ChosenTimer ==
    ASSUME WorkingLink, Unhurried, IInv, SettledInv, ChosenInv,
           Elapse \/ TimerTick \/ TickPieces
    PROVE  ChosenInv'
  <1> USE DEF IInv, TypeOK, ChosenInv, SavedIsChosen, UsersPanel, RestorePieces,
              agentVars, worldVars
  <1>1. CASE Elapse
    BY <1>1 DEF Elapse, PredictionRecord
  <1>2. CASE TimerTick
    BY <1>2, RecomputedTyped, SettingsTyped DEF TimerTick
  <1>3. CASE TickPredict
    <2>0. pc = "tickPredict" /\ UNCHANGED << panel, chosen >>
          /\ pc' \in {"tickConfirm", "predictWrite"}
      BY <1>3 DEF TickPredict
    <2>1. [prediction EXCEPT !.pending = FALSE, !.due = None] \in PredictionRecord
      BY DEF PredictionRecord, None
    <2>2. prediction'.preOffSent => prediction.preOffSent
      BY <1>3, <2>1, CancelledTyped DEF TickPredict, PredictionRecord
    <2>3. \/ UNCHANGED << power, registry >>
          \/ /\ UsersLevel(power, panel)
             /\ power' = NotDimmed(power)
             /\ registry' = NoMarker(Saved(registry, panel))
      BY <1>3 DEF TickPredict
    <2>4. CASE UNCHANGED << power, registry >>
      BY <2>0, <2>2, <2>4
    <2>5. CASE /\ UsersLevel(power, panel)
               /\ power' = NotDimmed(power)
               /\ registry' = NoMarker(Saved(registry, panel))
      <3>1. UsersPanel /\ panel \in chosen
        BY <2>0, <2>5, LevelFacts DEF UsersLevel
      <3>2. registry'.saved \in chosen /\ ~power'.dimmed
        BY <2>5, <3>1, SavedTyped, SavedIsKept, NotDimmedTyped
      <3> QED BY <2>0, <2>2, <3>1, <3>2
    <2> QED BY <2>3, <2>4, <2>5
  <1>4. CASE PredictWrite
    BY <1>4, LinkFacts DEF PredictWrite
  <1>5. CASE TickConfirm
    BY <1>5 DEF TickConfirm
  <1>6. CASE ConfirmWrite
    <2>1. power.dimmed /\ power.appliedDim > 0
      BY <1>6, LevelFacts DEF ConfirmWrite, SettledInv, PowerRecord, Levels
    <2>2. prediction' = Cancelled(prediction, TRUE) /\ panel' = power.appliedDim
      BY <1>6, <2>1, LinkFacts DEF ConfirmWrite
    <2>3. ~prediction'.preOffSent
      BY <2>2, CancelledTyped
    <2> QED BY <1>6, <2>1, <2>2, <2>3, LinkFacts DEF ConfirmWrite
  <1>7. CASE ConfirmNormal
    <2>1. /\ prediction' = Cancelled(prediction, TRUE) /\ panel' = registry.saved
          /\ power' = NotDimmed(power) /\ registry' = NoMarker(registry)
      BY <1>7, LinkFacts DEF ConfirmNormal
    <2>2. /\ ~prediction'.preOffSent /\ ~power'.dimmed
          /\ registry'.saved = registry.saved
      BY <2>1, CancelledTyped, NotDimmedTyped, SavedIsKept
    <2> QED BY <1>7, <2>1, <2>2 DEF ConfirmNormal
  <1>8. CASE TickFallback
    <2>1. power'.dimmed = power.dimmed /\ power'.appliedDim = power.appliedDim
      BY <1>8 DEF TickFallback, PowerRecord
    <2> QED BY <1>8, <2>1 DEF TickFallback, ScheduleRestore
  <1>9. CASE TickRestore
    BY <1>9 DEF TickRestore
  <1>10. CASE TickCache
    <2>1. registry' = registry \/ (~power.dimmed /\ registry' = Saved(registry, panel))
      BY <1>10 DEF TickCache, CacheBrightness
    <2>2. registry'.saved \in chosen /\ registry'.marker = registry.marker
      BY <1>10, <2>1, SavedTyped, LevelFacts DEF TickCache, RegistryRecord
    <2> QED BY <1>10, <2>2 DEF TickCache
  <1> QED BY <1>1, <1>2, <1>3, <1>4, <1>5, <1>6, <1>7, <1>8, <1>9, <1>10 DEF TickPieces

\* A key chooses a level; a restart during the DIM finds its marker.
LEMMA ChosenWorld ==
    ASSUME WorkingLink, Unhurried, IInv, SettledInv, ChosenInv, Start \/ World \/ UNCHANGED vars
    PROVE  ChosenInv'
  <1> USE DEF IInv, TypeOK, ChosenInv, SavedIsChosen, UsersPanel, RestorePieces,
              agentVars, worldVars
  <1>1. CASE Crash
    <2>1. pc = "idle"
      BY <1>1 DEF Crash, Unhurried
    <2> QED BY <1>1, <2>1, FreshTyped DEF Crash, FreshPower
  <1>2. CASE Start
    <2>1. /\ power'.dimmed = (registry.marker # 0) /\ power'.appliedDim = registry.marker
      BY <1>2 DEF Start, PowerRecord
    <2>2. \/ registry' = registry
          \/ /\ panel \in Visible /\ panel # registry.marker
             /\ registry' = Saved(registry, panel)
      BY <1>2 DEF Start, UsersLevel, PowerRecord
    <2>3. registry'.saved \in chosen /\ registry'.marker = registry.marker
      BY <1>2, <2>2, SavedTyped, LevelFacts DEF Start, RegistryRecord
    <2>4. ~prediction.preOffSent
      BY <1>2 DEF Start, SettledInv
    <2> QED BY <1>2, <2>1, <2>3, <2>4 DEF Start
  <1>3. CASE Key
    BY <1>3 DEF Key
  <1>4. CASE MissedWhileDown \/ EditSettings \/ UNCHANGED vars
    BY <1>4 DEF MissedWhileDown, EditSettings, vars
  <1> QED BY <1>1, <1>2, <1>3, <1>4 DEF World

\* On a link that works, in a process that dies only between messages, what the
\* agent saves and restores is a level the user once chose: its own DIM level is
\* never taken for it, not across predictions, suspends, keys pressed in the
\* middle of a handler, changed settings, or a restart during the DIM.
THEOREM SavedWasChosen ==
    ASSUME WorkingLink, Unhurried
    PROVE  Spec => []SavedIsChosen
  <1>1. Init => ChosenInv
    BY FreshTyped DEF Init, ChosenInv, SavedIsChosen, UsersPanel, FreshPower
  <1>2. IInv /\ SettledInv /\ ChosenInv /\ [Next]_vars => ChosenInv'
    BY ChosenNotifications, ChosenDdcPieces, ChosenEvents, ChosenTimer, ChosenWorld DEF Next
  <1>3. ChosenInv => SavedIsChosen
    BY DEF ChosenInv
  <1> QED BY <1>1, <1>2, <1>3, Invariance, Settled, PTL DEF Spec
=============================================================================
