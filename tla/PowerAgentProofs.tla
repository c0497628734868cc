-------------------------- MODULE PowerAgentProofs --------------------------
(***************************************************************************)
(* Proofs about the interactive agent, for any levels, intervals and       *)
(* settings, a link that may fail at any DDC call, and a process that may  *)
(* die before any piece.                                                   *)
(*                                                                         *)
(* The pieces of a handler trust what its first piece has checked: that    *)
(* the session is not ending, that nobody is waited for, that Windows said    *)
(* DIM.  IInv says that this is still so when the piece runs.              *)
(***************************************************************************)
EXTENDS PowerAgent, TLAPS

DimPieces == {"dimCache", "dimWrite", "dimSave"}
RestorePieces == {"restoreRead", "restoreWrite"}

\* An attempt is made only of a restore that has attempts left.
RestoreInv ==
    /\ pc = "restoreRead" => restore.pending
    /\ restore.pending /\ pc # "restoreWrite" =>
           restore.attempts < RestoreRetryMaxAttempts

\* In a session that is ending no DIM, OFF or prediction is under way.
EndingInv ==
    power.ending =>
        /\ pc \notin DimPieces \cup {"offWrite", "predictWrite"}
        /\ ~prediction.pending /\ ~prediction.eligible

\* Once the agent has gone dark for a suspend, and nobody has come, nothing that
\* would light the panel is under way.
NobodyInv ==
    absence = "heeded" =>
        /\ pc \notin DimPieces \cup RestorePieces
                     \cup {"down", "predictWrite", "confirmWrite", "confirmNormal"}
        /\ power.waiting
        /\ ~restore.pending
        /\ ~prediction.preOffSent

\* A DIM cycle that may be timed or predicted is the one Windows is in.
CycleInv ==
    /\ pc \in DimPieces \cup {"predictWrite"} => windows = "dim"
    /\ pc = "predictWrite" => ~interrupted
    /\ prediction.pending => prediction.eligible
    /\ prediction.eligible => windows = "dim" /\ ~interrupted /\ pc # "down"

IInv == TypeOK /\ RestoreInv /\ EndingInv /\ NobodyInv /\ CycleInv

-----------------------------------------------------------------------------
(* The operators of the model *)

\* What the assumption says of the levels and of the intervals.
LEMMA LevelFacts ==
    /\ BrightnessMax \in Nat \ {0}
    /\ 0 \in Levels /\ Visible \subseteq Levels
    /\ \A level \in Visible : level > 0
  <1>1. BrightnessMax \in Nat \ {0}
    BY AgentAssumption
  <1> QED BY <1>1 DEF Levels, Visible

\* The types of the intervals and limits.
LEMMA IntervalFacts ==
    /\ RestoreRetryInterval \in Nat /\ RestoreRetryMaxAttempts \in Nat \ {0}
    /\ StartupDisplayStateWait \in Nat /\ BrightnessCacheInterval \in Nat
    /\ SettingsPollInterval \in Nat /\ MaxAge \in Nat \ {0}
  BY AgentAssumption

\* A setting, after clamping.
LEMMA SettingsTyped ==
    ASSUME NEW s \in Settings
    PROVE  s \in SettingsRecord
  BY AgentAssumption

\* A percentage of the saved level, rounded up, is a level that is not dark.
LEMMA DimOfVisible ==
    ASSUME NEW saved \in Visible, NEW percent \in 1..100
    PROVE  DimOf(saved, percent) \in Visible
  <1>1. BrightnessMax \in Nat \ {0}
    BY AgentAssumption
  <1>2. saved * percent \in 1..100 * saved
    <2>1. \A n, m \in Nat : n <= 100 => m * n <= 100 * m
      BY SMT
    <2>2. \A n, m \in Nat : n >= 1 /\ m >= 1 => m * n >= 1
      BY SMT
    <2> QED BY <1>1, <2>1, <2>2 DEF Visible
  <1>3. \A n \in Nat : n <= 100 * saved => (n + 99) \div 100 <= saved
    BY <1>1 DEF Visible
  <1>4. \A n \in Nat : (n + 99) \div 100 \in Nat
    BY SMT
  <1>5. (saved * percent + 99) \div 100 \in 0..saved
    BY <1>1, <1>2, <1>3, <1>4 DEF Visible
  <1> QED BY <1>1, <1>5 DEF DimOf, Larger, Visible

\* Helpers on g_agentPrediction...: they only ever cancel.
LEMMA CancelledTyped ==
    ASSUME NEW p \in PredictionRecord, NEW invalidate \in BOOLEAN
    PROVE  LET c == Cancelled(p, invalidate)
           IN  /\ c \in PredictionRecord
               /\ ~c.pending /\ ~c.preOffSent
               /\ c.eligible <=> p.eligible /\ ~invalidate
  BY DEF Cancelled, PredictionRecord, None

\* A due time is set for a cycle that is already pending, or taken away.
LEMMA RecomputedTyped ==
    ASSUME NEW p \in PredictionRecord, NEW r \in RegistryRecord, NEW s \in SettingsRecord
    PROVE  LET c == Recomputed(p, r, s)
           IN  /\ c \in PredictionRecord
               /\ c.pending => p.pending
               /\ c.preOffSent = p.preOffSent
               /\ c.eligible = p.eligible
  <1>1. PredictionInterval(r, s) \in Nat
    BY DEF PredictionInterval, RegistryRecord, SettingsRecord
  <1>2. Larger(s.minDelay, PredictionInterval(r, s) - s.advance) \in Nat
    BY <1>1 DEF Larger, SettingsRecord
  <1> QED BY <1>2 DEF Recomputed, PredictionRecord, None

\* Forgetting the DIM changes nothing else of the globals.
LEMMA NotDimmedTyped ==
    ASSUME NEW p \in PowerRecord
    PROVE  LET c == NotDimmed(p)
           IN  /\ c \in PowerRecord
               /\ ~c.dimmed
               /\ c.ending = p.ending /\ c.waiting = p.waiting
               /\ c.displayOn = p.displayOn /\ c.known = p.known
  <1>1. 0 \in Levels
    BY AgentAssumption DEF Levels
  <1> QED BY <1>1 DEF NotDimmed, PowerRecord

\* Nor does knowing the display state.
LEMMA KnownTyped ==
    ASSUME NEW p \in PowerRecord
    PROVE  LET c == Known(p)
           IN  /\ c \in PowerRecord
               /\ c.ending = p.ending /\ c.waiting = p.waiting
               /\ c.displayOn = p.displayOn /\ c.dimmed = p.dimmed
               /\ c.appliedDim = p.appliedDim
  BY AgentAssumption DEF Known, PowerRecord

\* Saving a level and dropping the marker leave what is learned alone.
LEMMA SavedTyped ==
    ASSUME NEW r \in RegistryRecord, NEW level \in Levels
    PROVE  LET c == Saved(r, level)
           IN  /\ c \in RegistryRecord
               /\ c.marker = r.marker /\ c.learned = r.learned /\ c.samples = r.samples
               /\ c.saved = IF level \in Visible THEN level ELSE r.saved
  BY DEF Saved, RegistryRecord

\* Removing the DIM marker keeps the rest of the registry.
LEMMA NoMarkerTyped ==
    ASSUME NEW r \in RegistryRecord
    PROVE  LET c == NoMarker(r)
           IN  /\ c \in RegistryRecord
               /\ c.saved = r.saved /\ c.learned = r.learned /\ c.samples = r.samples
  BY AgentAssumption DEF NoMarker, RegistryRecord, Levels

\* A weighted average lies between what it averages.
LEMMA AverageBetween ==
    ASSUME NEW weight \in 0..7, NEW a \in Nat, NEW b \in Nat, NEW max \in Nat,
           a <= max, b <= max
    PROVE  (a * weight + b) \div (weight + 1) \in 0..max
  <1>1. weight \in {0, 1, 2, 3, 4, 5, 6, 7}
    OBVIOUS
  <1> QED BY <1>1

\* What is learned stays in the range that is accepted.
LEMMA LearnedTyped ==
    ASSUME NEW r \in RegistryRecord, NEW p \in PredictionRecord, NEW s \in Settings
    PROVE  LET c == Learned(r, p, s)
           IN  /\ c \in RegistryRecord
               /\ c.saved = r.saved
               /\ ~p.eligible => c = r
  <1>1. s \in SettingsRecord /\ s.maxLearn < MaxAge
        /\ MaxAge \in Nat /\ MaxSamples \in Nat \ {0}
    BY AgentAssumption
  <1>2. CASE s.learningEnabled /\ p.eligible /\ p.dimAge \in s.minLearn..s.maxLearn
    <2>1. Smaller(r.samples, 7) \in 0..7 /\ r.learned \in 0..MaxAge
          /\ p.dimAge \in 0..MaxAge
      BY <1>1, <1>2 DEF Smaller, RegistryRecord, PredictionRecord, SettingsRecord
    <2>2. (r.learned * Smaller(r.samples, 7) + p.dimAge)
              \div (Smaller(r.samples, 7) + 1) \in 0..MaxAge
      BY <1>1, <2>1, AverageBetween
    <2>3. Average(r, s, p.dimAge) \in 0..MaxAge
      BY <2>1, <2>2 DEF Average
    <2>4. Smaller(r.samples + 1, MaxSamples) \in 0..MaxSamples
      BY <1>1 DEF Smaller, RegistryRecord
    <2> QED BY <1>2, <2>3, <2>4 DEF Learned, RegistryRecord
  <1>3. CASE ~(s.learningEnabled /\ p.eligible /\ p.dimAge \in s.minLearn..s.maxLearn)
    BY <1>3 DEF Learned, RegistryRecord
  <1> QED BY <1>2, <1>3

\* Ages and the time left stay in their ranges.
LEMMA AgedTyped ==
    ASSUME NEW age \in (0..MaxAge) \cup {None}, NEW gap \in Nat
    PROVE  Aged(age, gap) \in (0..MaxAge) \cup {None}
  BY AgentAssumption DEF Aged, Smaller, None

\* What is left of an interval stays in its range.
LEMMA LeftTyped ==
    ASSUME NEW max \in Nat, NEW time \in 0..max, NEW gap \in Nat
    PROVE  Left(time, gap) \in 0..max
  BY DEF Left, Larger

\* The globals of a process that has just started.
LEMMA FreshTyped ==
    /\ FreshPower \in PowerRecord /\ ~FreshPower.ending /\ ~FreshPower.waiting
    /\ NoPrediction \in PredictionRecord
    /\ ~NoPrediction.pending /\ ~NoPrediction.eligible /\ ~NoPrediction.preOffSent
    /\ NoRestore \in RestoreRecord /\ ~NoRestore.pending
    /\ FreshClocks \in ClocksRecord
  BY AgentAssumption
     DEF FreshPower, NoPrediction, NoRestore, FreshClocks, PowerRecord,
         PredictionRecord, RestoreRecord, ClocksRecord, Levels, None

-----------------------------------------------------------------------------
(* Windows' display notifications and their pieces *)

\* While the session ends a notification changes nothing but Windows.
LEMMA DisplayIgnoredKeeps == IInv /\ DisplayIgnored => IInv'
  BY DEF DisplayIgnored, Notified, Frozen, IInv, TypeOK, RestoreInv, EndingInv,
         NobodyInv, CycleInv, DimPieces, RestorePieces, Pieces

\* OFF ends every cycle, restore and prediction.
LEMMA DisplayOffKeeps == IInv /\ DisplayOff => IInv'
  <1> SUFFICES ASSUME IInv, DisplayOff PROVE IInv'
    OBVIOUS
  <1> USE DEF DisplayOff, Notified, IInv, TypeOK
  <1>1. /\ NotDimmed(Known(power)) \in PowerRecord
        /\ NotDimmed(Known(power)).ending = power.ending
        /\ NotDimmed(Known(power)).waiting = power.waiting
    BY KnownTyped, NotDimmedTyped
  <1>2. /\ power' \in PowerRecord
        /\ power'.ending = power.ending /\ power'.waiting = power.waiting
    BY <1>1 DEF PowerRecord
  <1>3. registry' \in RegistryRecord
    BY LearnedTyped, NoMarkerTyped
  <1>4. /\ prediction' \in PredictionRecord /\ ~prediction'.pending
        /\ ~prediction'.preOffSent /\ ~prediction'.eligible
    BY CancelledTyped
  <1>5. restore' \in RestoreRecord /\ ~restore'.pending
    BY FreshTyped
  <1>6. pc' \in {"idle", "offWrite"} /\ ~power.ending
    BY DEF OffPiece, Frozen
  <1>7. TypeOK'
    BY <1>2, <1>3, <1>4, <1>5, <1>6 DEF Pieces
  <1> QED BY <1>2, <1>4, <1>5, <1>6, <1>7
       DEF RestoreInv, EndingInv, NobodyInv, CycleInv, DimPieces, RestorePieces

\* The write of an OFF.
LEMMA OffWriteKeeps == IInv /\ OffWrite => IInv'
  <1> SUFFICES ASSUME IInv, OffWrite PROVE IInv'
    OBVIOUS
  <1> USE DEF OffWrite, IInv, TypeOK, agentVars, worldVars
  <1>1. touched' \in BOOLEAN
    OBVIOUS
  <1>2. 0 \in Levels
    BY AgentAssumption DEF Levels
  <1> QED BY <1>1, <1>2
       DEF RestoreInv, EndingInv, NobodyInv, CycleInv, DimPieces, RestorePieces, Pieces

\* A restore begins: its first attempt is made at once.
LEMMA ScheduleRestoreTyped ==
    ASSUME NEW return \in {"idle", "tickRestore", "tickCache"}, ScheduleRestore(return)
    PROVE  /\ restore' \in RestoreRecord
           /\ restore'.pending /\ restore'.attempts < RestoreRetryMaxAttempts
           /\ pc' = "restoreRead" /\ after' = return
  BY AgentAssumption DEF ScheduleRestore, RestoreRecord

\* A display ON.
LEMMA DisplayOnKeeps == IInv /\ DisplayOn => IInv'
  <1> SUFFICES ASSUME IInv, DisplayOn PROVE IInv'
    OBVIOUS
  <1> USE DEF DisplayOn, Notified, IInv, TypeOK
  <1>1. /\ prediction' \in PredictionRecord /\ ~prediction'.pending
        /\ ~prediction'.preOffSent /\ ~prediction'.eligible
    BY CancelledTyped
  <1>2. Known(power) \in PowerRecord
        /\ Known(power).ending = power.ending /\ Known(power).waiting = power.waiting
    BY KnownTyped
  <1>3. CASE Deferred(power) /\ UNCHANGED << pc, after, restore, registry >>
             /\ power' = Known(power)
    BY <1>1, <1>2, <1>3
       DEF RestoreInv, EndingInv, NobodyInv, CycleInv, DimPieces, RestorePieces, Frozen
  <1>4. CASE /\ ~Deferred(power) /\ ScheduleRestore("idle") /\ UNCHANGED registry
             /\ power' = [Known(power) EXCEPT !.displayOn = TRUE]
    <2>1. power' \in PowerRecord /\ power'.ending = power.ending
      BY <1>2, <1>4 DEF PowerRecord
    <2>2. absence # "heeded" /\ ~power.ending
      BY <1>4 DEF Deferred, NobodyInv, Frozen
    <2> QED BY <1>1, <1>4, <2>1, <2>2, ScheduleRestoreTyped
         DEF RestoreInv, EndingInv, NobodyInv, CycleInv, DimPieces, Pieces
  <1>5. CASE /\ ~Deferred(power) /\ UNCHANGED << pc, after, restore >>
             /\ power' = NotDimmed(Known(power)) /\ registry' = NoMarker(registry)
    <2>1. power' \in PowerRecord /\ power'.ending = power.ending
          /\ power'.waiting = power.waiting
      BY <1>2, <1>5, NotDimmedTyped
    <2>2. registry' \in RegistryRecord
      BY <1>5, NoMarkerTyped
    <2> QED BY <1>1, <2>1, <2>2, <1>5
         DEF RestoreInv, EndingInv, NobodyInv, CycleInv, DimPieces, RestorePieces, Frozen
  <1> QED BY <1>3, <1>4, <1>5

\* A DIM piece begins in a session that is neither ending nor unattended.
LEMMA DisplayDimKeeps == IInv /\ DisplayDim => IInv'
  <1> SUFFICES ASSUME IInv, DisplayDim PROVE IInv'
    OBVIOUS
  <1> USE DEF DisplayDim, Notified, IInv, TypeOK
  <1>1. power' \in PowerRecord
        /\ power'.ending = power.ending /\ power'.waiting = power.waiting
    BY KnownTyped
  <1>2. pc' \in {"idle", "dimCache"} /\ (pc' = "dimCache" => ~power.waiting)
        /\ ~power.ending
    BY DEF Frozen
  <1> QED BY <1>1, <1>2
       DEF RestoreInv, EndingInv, NobodyInv, CycleInv, DimPieces, RestorePieces, Pieces

\* Saving the level before a DIM.
LEMMA DimCacheKeeps == IInv /\ DimCache => IInv'
  <1> SUFFICES ASSUME IInv, DimCache PROVE IInv'
    OBVIOUS
  <1> USE DEF DimCache, IInv, TypeOK, agentVars, worldVars
  <1>1. registry' \in RegistryRecord
    BY SavedTyped DEF CacheBrightness
  <1> QED BY <1>1
       DEF RestoreInv, EndingInv, NobodyInv, CycleInv, DimPieces, RestorePieces, Pieces

\* Writing the DIM level.
LEMMA DimWriteKeeps == IInv /\ DimWrite => IInv'
  <1> SUFFICES ASSUME IInv, DimWrite PROVE IInv'
    OBVIOUS
  <1> DEFINE level == DimOf(registry.saved, settings.dimPercent)
  <1> USE DEF DimWrite, IInv, TypeOK, worldVars
  <1>1. level \in Visible /\ Visible \subseteq Levels
    BY DimOfVisible, SettingsTyped, AgentAssumption
       DEF RegistryRecord, SettingsRecord, Visible, Levels
  <1>2. panel' \in Levels
    BY <1>1
  <1>3. power' \in PowerRecord
        /\ power'.ending = power.ending /\ power'.waiting = power.waiting
    BY <1>1 DEF PowerRecord
  <1>4. pc' \in {"idle", "dimSave"}
    OBVIOUS
  <1> HIDE DEF level
  <1> QED BY <1>2, <1>3, <1>4
       DEF RestoreInv, EndingInv, NobodyInv, CycleInv, DimPieces, RestorePieces, Pieces

\* The cycle that begins is the one Windows is in.
LEMMA DimSaveKeeps == IInv /\ DimSave => IInv'
  <1> SUFFICES ASSUME IInv, DimSave PROVE IInv'
    OBVIOUS
  <1> DEFINE cycle == [pending |-> settings.enabled, due |-> None,
                       preOffSent |-> FALSE, preOffAge |-> None,
                       eligible |-> TRUE, dimAge |-> 0]
  <1> USE DEF DimSave, IInv, TypeOK
  <1>1. cycle \in PredictionRecord /\ cycle.eligible /\ ~cycle.preOffSent
    BY SettingsTyped, AgentAssumption DEF SettingsRecord, PredictionRecord, None
  <1>2. /\ prediction' \in PredictionRecord /\ prediction'.eligible
        /\ ~prediction'.preOffSent
    <2> HIDE DEF cycle
    <2>1. prediction' = Recomputed(cycle, registry, settings)
      BY DEF cycle
    <2> QED BY <1>1, <2>1, RecomputedTyped, SettingsTyped
  <1> HIDE DEF cycle
  <1>3. registry' \in RegistryRecord
    BY DEF RegistryRecord, PowerRecord
  <1>4. ~power.ending /\ absence # "heeded" /\ windows = "dim"
    BY DEF EndingInv, NobodyInv, CycleInv, DimPieces
  <1> QED BY <1>2, <1>3, <1>4
       DEF RestoreInv, EndingInv, NobodyInv, CycleInv, DimPieces, RestorePieces, Pieces

-----------------------------------------------------------------------------
(* The two pieces of a restore attempt *)

\* Ending a restore keeps the types.
LEMMA RestoreDoneTyped ==
    ASSUME IInv, RestoreDone
    PROVE  /\ restore' \in RestoreRecord /\ ~restore'.pending
           /\ power' \in PowerRecord
           /\ power'.ending = power.ending /\ power'.waiting = power.waiting
           /\ pc' \in {"idle", "tickRestore", "tickCache"}
  BY FreshTyped, NotDimmedTyped DEF RestoreDone, IInv, TypeOK

\* An attempt is counted before its write, while there is one left.
LEMMA RestoreReadKeeps == IInv /\ RestoreRead => IInv'
  <1> SUFFICES ASSUME IInv, RestoreRead PROVE IInv'
    OBVIOUS
  <1> USE DEF RestoreRead, IInv, TypeOK, worldVars
  <1>1. absence # "heeded" /\ restore.pending /\ restore.attempts < RestoreRetryMaxAttempts
    BY DEF NobodyInv, RestorePieces, RestoreInv
  <1>2. CASE RestoreDone /\ registry' = NoMarker(Saved(registry, panel))
    <2>1. registry' \in RegistryRecord
      BY <1>2, SavedTyped, NoMarkerTyped
    <2> QED BY <1>1, <1>2, <2>1, RestoreDoneTyped
         DEF RestoreInv, EndingInv, NobodyInv, CycleInv, DimPieces, Pieces
  <1>3. CASE /\ restore' = [restore EXCEPT !.attempts = @ + 1]
             /\ pc' = "restoreWrite" /\ UNCHANGED << power, registry >>
    <2>1. restore' \in RestoreRecord
      BY <1>1, <1>3, AgentAssumption DEF RestoreRecord
    <2> QED BY <1>1, <1>3, <2>1
         DEF RestoreInv, EndingInv, NobodyInv, CycleInv, DimPieces, Pieces
  <1> QED BY <1>2, <1>3

\* A restore that has used up its attempts is given up.
LEMMA RestoreFailedTyped ==
    ASSUME IInv, RestoreFailed
    PROVE  /\ restore' \in RestoreRecord
           /\ restore'.pending => restore'.attempts < RestoreRetryMaxAttempts
  <1>1. restore \in RestoreRecord
    BY DEF IInv, TypeOK
  <1>2. CASE GivesUp
    <2>1. restore' = [restore EXCEPT !.pending = FALSE, !.next = 0]
      BY <1>2 DEF RestoreFailed
    <2>2. 0 \in 0..RestoreRetryInterval
      BY IntervalFacts
    <2>3. restore' \in RestoreRecord
      BY <1>1, <2>1, <2>2 DEF RestoreRecord
    <2>4. ~restore'.pending
      BY <1>1, <2>1 DEF RestoreRecord
    <2> QED BY <2>3, <2>4
  <1>3. CASE ~GivesUp
    <2>1. restore' = [restore EXCEPT !.next = RestoreRetryInterval]
      BY <1>3 DEF RestoreFailed
    <2> QED BY <1>1, <1>3, <2>1, IntervalFacts DEF GivesUp, RestoreRecord
  <1> QED BY <1>2, <1>3

\* The attempt succeeds, is left for the timer, or is the last.
LEMMA RestoreWriteKeeps == IInv /\ RestoreWrite => IInv'
  <1> SUFFICES ASSUME IInv, RestoreWrite PROVE IInv'
    OBVIOUS
  <1> USE DEF RestoreWrite, IInv, TypeOK, worldVars
  <1>1. absence # "heeded"
    BY DEF NobodyInv, RestorePieces
  <1>2. CASE /\ panel' = registry.saved /\ RestoreDone
             /\ registry' = NoMarker(registry)
    <2>1. registry' \in RegistryRecord /\ panel' \in Levels
      BY <1>2, NoMarkerTyped, AgentAssumption DEF RegistryRecord, Visible, Levels
    <2> QED BY <1>1, <1>2, <2>1, RestoreDoneTyped
         DEF RestoreInv, EndingInv, NobodyInv, CycleInv, DimPieces, Pieces
  <1>3. CASE /\ RestoreFailed /\ pc' = after
             /\ UNCHANGED << power, registry, panel >>
    <2>1. /\ restore' \in RestoreRecord
          /\ restore'.pending => restore'.attempts < RestoreRetryMaxAttempts
      BY <1>3, RestoreFailedTyped
    <2> QED BY <1>1, <1>3, <2>1
         DEF RestoreInv, EndingInv, NobodyInv, CycleInv, DimPieces, Pieces
  <1> QED BY <1>2, <1>3

-----------------------------------------------------------------------------
(* Suspend, resume, lid, session end and the emergency hotkey *)

\* Going dark ends every cycle, restore and prediction.
LEMMA GoDarkTyped ==
    ASSUME IInv, NEW p \in PowerRecord, GoDark(p)
    PROVE  /\ power' \in PowerRecord
           /\ power'.ending = p.ending /\ power'.waiting = p.waiting
           /\ registry' \in RegistryRecord
           /\ prediction' \in PredictionRecord /\ ~prediction'.pending
           /\ ~prediction'.preOffSent /\ ~prediction'.eligible
           /\ restore' \in RestoreRecord /\ ~restore'.pending
           /\ pc' = "offWrite"
  <1> USE DEF GoDark, IInv, TypeOK
  <1>1. NotDimmed(p) \in PowerRecord /\ NotDimmed(p).ending = p.ending
        /\ NotDimmed(p).waiting = p.waiting
    BY NotDimmedTyped
  <1>2. /\ power' \in PowerRecord
        /\ power'.ending = p.ending /\ power'.waiting = p.waiting
    BY <1>1 DEF PowerRecord
  <1> QED BY <1>2, CancelledTyped, NoMarkerTyped, FreshTyped

\* A suspend.
LEMMA SuspendKeeps == IInv /\ Suspend => IInv'
  <1> SUFFICES ASSUME IInv, Suspend PROVE IInv'
    OBVIOUS
  <1> USE DEF Suspend, Received, IInv, TypeOK
  <1>1. CASE Frozen(power)
    <2>1. /\ absence' \in {"none", "heeded", "missed"}
          /\ absence' = "heeded" => absence = "heeded"
      BY <1>1
    <2> QED BY <1>1, <2>1
         DEF Frozen, RestoreInv, EndingInv, NobodyInv, CycleInv, DimPieces, Pieces,
             PowerRecord
  <1>2. CASE ~Frozen(power)
    <2>1. [power EXCEPT !.waiting = TRUE] \in PowerRecord
      BY DEF PowerRecord
    <2>2. [power EXCEPT !.waiting = TRUE].waiting
          /\ [power EXCEPT !.waiting = TRUE].ending = power.ending
      BY DEF PowerRecord
    <2>3. GoDark([power EXCEPT !.waiting = TRUE])
      BY <1>2
    <2>4. absence' = "heeded"
      BY <1>2
    <2> QED BY <1>2, <2>1, <2>2, <2>3, <2>4, GoDarkTyped
         DEF Frozen, RestoreInv, EndingInv, NobodyInv, CycleInv, DimPieces, RestorePieces, Pieces
  <1> QED BY <1>1, <1>2

\* An automatic resume, with nobody known to be there.
LEMMA ResumeAutomaticKeeps == IInv /\ ResumeAutomatic => IInv'
  <1> SUFFICES ASSUME IInv, ResumeAutomatic PROVE IInv'
    OBVIOUS
  <1> USE DEF ResumeAutomatic, Received, IInv, TypeOK
  <1>1. power' \in PowerRecord /\ power'.waiting /\ power'.ending = power.ending
    BY DEF PowerRecord
  <1> QED BY <1>1 DEF RestoreInv, EndingInv, NobodyInv, CycleInv

\* AgentHandleResume: somebody is there, and the restore begins.
LEMMA HandleResumeTyped ==
    ASSUME IInv, HandleResume
    PROVE  /\ power' \in PowerRecord /\ power'.ending = power.ending
           /\ prediction' \in PredictionRecord /\ ~prediction'.pending
           /\ ~prediction'.preOffSent /\ ~prediction'.eligible
           /\ restore' \in RestoreRecord
           /\ restore'.pending /\ restore'.attempts < RestoreRetryMaxAttempts
           /\ pc' = "restoreRead" /\ after' = "idle"
           /\ absence' = "none" /\ interrupted' \in BOOLEAN
           /\ registry' = registry
  <1> USE DEF HandleResume, IInv, TypeOK
  <1>1. power' \in PowerRecord /\ power'.ending = power.ending
    BY DEF PowerRecord
  <1>2. absence' = "none" /\ interrupted' \in BOOLEAN
    OBVIOUS
  <1> QED BY <1>1, <1>2, CancelledTyped, ScheduleRestoreTyped

\* A resume by the user, or news of one that the agent does not wait for.
LEMMA ResumeKeeps == IInv /\ (ResumeSuspend \/ ResumeCritical \/ UserPresent) => IInv'
  <1> SUFFICES ASSUME IInv, ResumeSuspend \/ ResumeCritical \/ UserPresent PROVE IInv'
    OBVIOUS
  <1> USE DEF ResumeSuspend, ResumeCritical, UserPresent, Received
  <1>1. /\ UNCHANGED << clocks, settings, panel, ini, windows, chosen, touched >>
        /\ wake' = wake \/ wake' = "awake"
    OBVIOUS
  <1>2. CASE HandleResume
    BY <1>1, <1>2, HandleResumeTyped
       DEF IInv, TypeOK, RestoreInv, EndingInv, NobodyInv, CycleInv, DimPieces, Pieces
  <1>3. CASE /\ absence' = "none"
             /\ UNCHANGED << pc, after, power, prediction, restore, registry, interrupted >>
    BY <1>1, <1>3
       DEF IInv, TypeOK, RestoreInv, EndingInv, NobodyInv, CycleInv
  <1> QED BY <1>2, <1>3

\* A closed lid.
LEMMA LidClosedKeeps == IInv /\ LidClosed => IInv'
  <1> SUFFICES ASSUME IInv, LidClosed PROVE IInv'
    OBVIOUS
  <1> USE DEF LidClosed, Received, IInv, TypeOK
  <1>1. CASE Frozen(power)
    BY <1>1 DEF Frozen, RestoreInv, EndingInv, NobodyInv, CycleInv, DimPieces, Pieces
  <1>2. CASE ~Frozen(power)
    <2>1. [power EXCEPT !.lidClosed = TRUE] \in PowerRecord
      BY DEF PowerRecord
    <2>2. [power EXCEPT !.lidClosed = TRUE].waiting = power.waiting
          /\ [power EXCEPT !.lidClosed = TRUE].ending = power.ending
      BY DEF PowerRecord
    <2>3. GoDark([power EXCEPT !.lidClosed = TRUE])
      BY <1>2
    <2> QED BY <1>2, <2>1, <2>2, <2>3, GoDarkTyped
         DEF Frozen, RestoreInv, EndingInv, NobodyInv, CycleInv, DimPieces, RestorePieces, Pieces
  <1> QED BY <1>1, <1>2

\* An opened lid.
LEMMA LidOpenedKeeps == IInv /\ LidOpened => IInv'
  <1> SUFFICES ASSUME IInv, LidOpened PROVE IInv'
    OBVIOUS
  <1> USE DEF LidOpened, Received, IInv, TypeOK
  <1>1. power' \in PowerRecord /\ power'.ending = power.ending
        /\ power'.waiting = power.waiting
    BY DEF PowerRecord
  <1> QED BY <1>1 DEF RestoreInv, EndingInv, NobodyInv, CycleInv

\* The freeze begins at rest, with every cycle and restore cancelled.
LEMMA SessionEndKeeps == IInv /\ (QueryEndSession \/ EndSessionCancelled) => IInv'
  <1> USE DEF IInv, TypeOK, Received
  <1>1. ASSUME IInv, QueryEndSession PROVE IInv'
    <2>1. power' \in PowerRecord /\ power'.waiting = power.waiting
      BY <1>1 DEF QueryEndSession, PowerRecord
    <2>2. /\ prediction' \in PredictionRecord /\ ~prediction'.pending
          /\ ~prediction'.preOffSent /\ ~prediction'.eligible
      BY <1>1, CancelledTyped DEF QueryEndSession
    <2>3. restore' \in RestoreRecord /\ ~restore'.pending
      BY <1>1, FreshTyped DEF QueryEndSession
    <2> QED BY <1>1, <2>1, <2>2, <2>3
         DEF QueryEndSession, RestoreInv, EndingInv, NobodyInv, CycleInv, DimPieces
  <1>2. ASSUME IInv, EndSessionCancelled PROVE IInv'
    <2>1. power' \in PowerRecord /\ power'.waiting = power.waiting
          /\ ~power'.ending
      BY <1>2 DEF EndSessionCancelled, PowerRecord
    <2> QED BY <1>2, <2>1
         DEF EndSessionCancelled, RestoreInv, EndingInv, NobodyInv, CycleInv
  <1> QED BY <1>1, <1>2

\* The emergency hotkey.
LEMMA HotkeyKeeps == IInv /\ Hotkey => IInv'
  <1> SUFFICES ASSUME IInv, Hotkey PROVE IInv'
    OBVIOUS
  <1> USE DEF Hotkey, Received, IInv, TypeOK
  <1>1. NotDimmed(power) \in PowerRecord /\ NotDimmed(power).ending = power.ending
    BY NotDimmedTyped
  <1>2. power' \in PowerRecord /\ power'.ending = power.ending
    BY <1>1 DEF PowerRecord
  <1>3. registry' \in RegistryRecord
    BY NoMarkerTyped
  <1>4. /\ prediction' \in PredictionRecord /\ ~prediction'.pending
        /\ ~prediction'.preOffSent /\ ~prediction'.eligible
    BY CancelledTyped
  <1> QED BY <1>2, <1>3, <1>4, ScheduleRestoreTyped
       DEF RestoreInv, EndingInv, NobodyInv, CycleInv, DimPieces, Pieces

-----------------------------------------------------------------------------
(* The timer *)

\* Time passes: only ages and the time left change.
LEMMA ElapseKeeps == IInv /\ Elapse => IInv'
  <1> SUFFICES ASSUME IInv, Elapse PROVE IInv'
    OBVIOUS
  <1> USE DEF Elapse, IInv, TypeOK, worldVars
  <1>1. PICK gap \in Nat :
          /\ prediction' = [prediction EXCEPT !.dimAge = Aged(@, gap),
                                              !.preOffAge = Aged(@, gap)]
          /\ restore' = [restore EXCEPT !.next = Left(@, gap)]
          /\ clocks' = [clocks EXCEPT !.startup = Left(@, gap), !.cache = Left(@, gap),
                                      !.poll = Left(@, gap)]
    BY AgentAssumption
  <1>2. /\ prediction' \in PredictionRecord
        /\ prediction'.pending = prediction.pending
        /\ prediction'.preOffSent = prediction.preOffSent
        /\ prediction'.eligible = prediction.eligible
    BY <1>1, AgedTyped DEF PredictionRecord
  <1>3. /\ restore' \in RestoreRecord
        /\ restore'.pending = restore.pending /\ restore'.attempts = restore.attempts
    <2>1. RestoreRetryInterval \in Nat
      BY AgentAssumption
    <2> QED BY <1>1, <2>1, LeftTyped DEF RestoreRecord
  <1>4. clocks' \in ClocksRecord
    <2>1. /\ StartupDisplayStateWait \in Nat /\ BrightnessCacheInterval \in Nat
          /\ SettingsPollInterval \in Nat
      BY AgentAssumption
    <2> QED BY <1>1, <2>1, LeftTyped DEF ClocksRecord
  <1> QED BY <1>2, <1>3, <1>4
       DEF RestoreInv, EndingInv, NobodyInv, CycleInv, DimPieces, RestorePieces

\* New settings may move the due time of a pending cycle, or drop it.
LEMMA TimerTickKeeps == IInv /\ TimerTick => IInv'
  <1> SUFFICES ASSUME IInv, TimerTick PROVE IInv'
    OBVIOUS
  <1> USE DEF TimerTick, IInv, TypeOK, worldVars
  <1>1. /\ prediction' \in PredictionRecord
        /\ prediction'.pending => prediction.pending
        /\ prediction'.preOffSent = prediction.preOffSent
        /\ prediction'.eligible = prediction.eligible
    BY RecomputedTyped, SettingsTyped
  <1>2. settings' \in Settings
    OBVIOUS
  <1>3. clocks' \in ClocksRecord
    BY AgentAssumption DEF ClocksRecord
  <1> QED BY <1>1, <1>2, <1>3
       DEF RestoreInv, EndingInv, NobodyInv, CycleInv, DimPieces, RestorePieces, Pieces

\* The prediction is consumed; only a cycle that is still Windows' goes on.
LEMMA TickPredictKeeps == IInv /\ TickPredict => IInv'
  <1> SUFFICES ASSUME IInv, TickPredict PROVE IInv'
    OBVIOUS
  <1> DEFINE consumed == [prediction EXCEPT !.pending = FALSE, !.due = None]
  <1> USE DEF IInv, TypeOK, worldVars
  <1>0. /\ pc = "tickPredict"
        /\ UNCHANGED << after, restore, clocks, settings, panel, touched, worldVars >>
    BY DEF TickPredict
  <1>1. /\ consumed \in PredictionRecord /\ ~consumed.pending
        /\ consumed.preOffSent = prediction.preOffSent
        /\ consumed.eligible = prediction.eligible
    BY DEF PredictionRecord, None
  <1>2. \A invalidate \in BOOLEAN :
          LET c == Cancelled(consumed, invalidate)
          IN  c \in PredictionRecord /\ ~c.pending /\ ~c.preOffSent
              /\ (c.eligible => prediction.eligible)
    BY <1>1, CancelledTyped
  <1>3. /\ NotDimmed(power) \in PowerRecord /\ NotDimmed(power).ending = power.ending
        /\ NotDimmed(power).waiting = power.waiting
        /\ NoMarker(Saved(registry, panel)) \in RegistryRecord
    BY NotDimmedTyped, NoMarkerTyped, SavedTyped
  <1>4. \/ pc' = "tickConfirm" /\ UNCHANGED << prediction, power, registry >>
        \/ /\ pc' = "tickConfirm"
           /\ \E invalidate \in BOOLEAN : prediction' = Cancelled(consumed, invalidate)
           /\ \/ UNCHANGED << power, registry >>
              \/ /\ power' = NotDimmed(power)
                 /\ registry' = NoMarker(Saved(registry, panel))
        \/ /\ PredictionDue(prediction) /\ PredictionEligible(power)
           /\ pc' = "predictWrite" /\ prediction' = consumed
           /\ UNCHANGED << power, registry >>
    BY DEF TickPredict
  <1> HIDE DEF consumed
  <1>5. CASE pc' = "tickConfirm" /\ UNCHANGED << prediction, power, registry >>
    BY <1>0, <1>5
       DEF RestoreInv, EndingInv, NobodyInv, CycleInv, DimPieces, RestorePieces, Pieces
  <1>6. CASE /\ pc' = "tickConfirm"
             /\ \E invalidate \in BOOLEAN : prediction' = Cancelled(consumed, invalidate)
             /\ \/ UNCHANGED << power, registry >>
                \/ /\ power' = NotDimmed(power)
                   /\ registry' = NoMarker(Saved(registry, panel))
    <2>1. /\ prediction' \in PredictionRecord /\ ~prediction'.pending
          /\ ~prediction'.preOffSent /\ (prediction'.eligible => prediction.eligible)
      BY <1>2, <1>6
    <2>2. /\ power' \in PowerRecord /\ power'.ending = power.ending
          /\ power'.waiting = power.waiting /\ registry' \in RegistryRecord
      BY <1>3, <1>6
    <2> QED BY <1>0, <1>6, <2>1, <2>2
         DEF RestoreInv, EndingInv, NobodyInv, CycleInv, DimPieces, RestorePieces, Pieces
  <1>7. CASE /\ PredictionDue(prediction) /\ PredictionEligible(power)
             /\ pc' = "predictWrite" /\ prediction' = consumed
             /\ UNCHANGED << power, registry >>
    <2>1. /\ prediction.eligible /\ ~power.ending /\ absence # "heeded"
          /\ windows = "dim" /\ ~interrupted
      BY <1>7 DEF PredictionDue, PredictionEligible, Frozen, NobodyInv, CycleInv
    <2> QED BY <1>0, <1>1, <1>7, <2>1
         DEF RestoreInv, EndingInv, NobodyInv, CycleInv, DimPieces, RestorePieces, Pieces
  <1> QED BY <1>4, <1>5, <1>6, <1>7

\* The pre-OFF is sent in a cycle that is neither ending nor unattended.
LEMMA PredictWriteKeeps == IInv /\ PredictWrite => IInv'
  <1> SUFFICES ASSUME IInv, PredictWrite PROVE IInv'
    OBVIOUS
  <1> USE DEF PredictWrite, IInv, TypeOK, worldVars
  <1>1. panel' \in Levels
    BY LevelFacts
  <1>2. touched' \in BOOLEAN
    OBVIOUS
  <1>3. [prediction EXCEPT !.preOffSent = TRUE, !.preOffAge = 0] \in PredictionRecord
    <2>1. 0 \in (0..MaxAge) \cup {None}
      BY IntervalFacts
    <2> QED BY <2>1 DEF PredictionRecord
  <1>4. /\ prediction' \in PredictionRecord
        /\ prediction'.pending = prediction.pending
        /\ prediction'.eligible = prediction.eligible
    BY <1>3 DEF PredictionRecord
  <1> QED BY <1>1, <1>2, <1>4
       DEF RestoreInv, EndingInv, NobodyInv, CycleInv, DimPieces, RestorePieces, Pieces

\* Only a pre-OFF that was sent is taken back.
LEMMA TickConfirmKeeps == IInv /\ TickConfirm => IInv'
  BY DEF TickConfirm, ConfirmationOverdue, agentVars, worldVars, IInv, TypeOK, RestoreInv,
         EndingInv, NobodyInv, CycleInv, DimPieces, RestorePieces, Pieces

\* The DIM level is written again, or the normal level is tried next.
LEMMA ConfirmWriteKeeps == IInv /\ ConfirmWrite => IInv'
  <1> SUFFICES ASSUME IInv, ConfirmWrite PROVE IInv'
    OBVIOUS
  <1> USE DEF ConfirmWrite, IInv, TypeOK, worldVars
  <1>1. DimOf(registry.saved, settings.dimPercent) \in Levels
    BY DimOfVisible, SettingsTyped, LevelFacts DEF RegistryRecord, SettingsRecord
  <1>2. panel' \in Levels
    BY <1>1 DEF PowerRecord
  <1>3. /\ Cancelled(prediction, TRUE) \in PredictionRecord
        /\ ~Cancelled(prediction, TRUE).pending
        /\ ~Cancelled(prediction, TRUE).preOffSent
        /\ ~Cancelled(prediction, TRUE).eligible
    BY CancelledTyped
  <1>4. CASE prediction' = Cancelled(prediction, TRUE) /\ pc' = "tickFallback"
    BY <1>2, <1>3, <1>4
       DEF RestoreInv, EndingInv, NobodyInv, CycleInv, DimPieces, RestorePieces, Pieces
  <1>5. CASE prediction' = prediction /\ pc' = "confirmNormal"
    BY <1>2, <1>5
       DEF RestoreInv, EndingInv, NobodyInv, CycleInv, DimPieces, RestorePieces, Pieces
  <1> QED BY <1>4, <1>5

\* The normal level is the last that is tried.
LEMMA ConfirmNormalKeeps == IInv /\ ConfirmNormal => IInv'
  <1> SUFFICES ASSUME IInv, ConfirmNormal PROVE IInv'
    OBVIOUS
  <1> USE DEF ConfirmNormal, IInv, TypeOK, worldVars
  <1>1. panel' \in Levels
    BY LevelFacts DEF RegistryRecord
  <1>2. /\ prediction' \in PredictionRecord /\ ~prediction'.pending
        /\ ~prediction'.preOffSent /\ ~prediction'.eligible
    BY CancelledTyped
  <1>3. /\ power' \in PowerRecord /\ power'.ending = power.ending
        /\ power'.waiting = power.waiting /\ registry' \in RegistryRecord
    BY NotDimmedTyped, NoMarkerTyped
  <1> QED BY <1>1, <1>2, <1>3
       DEF RestoreInv, EndingInv, NobodyInv, CycleInv, DimPieces, RestorePieces, Pieces

\* The startup fallback counts as somebody being there.
LEMMA TickFallbackKeeps == IInv /\ TickFallback => IInv'
  <1> SUFFICES ASSUME IInv, TickFallback PROVE IInv'
    OBVIOUS
  <1> USE DEF TickFallback, IInv, TypeOK
  <1>1. power' \in PowerRecord /\ power'.ending = power.ending
        /\ power'.waiting = power.waiting
    BY DEF PowerRecord
  <1>2. absence' \in {"none", "heeded", "missed"}
    OBVIOUS
  <1>3. CASE ScheduleRestore("tickRestore") /\ absence' = "none"
    BY <1>1, <1>3, ScheduleRestoreTyped
       DEF RestoreInv, EndingInv, NobodyInv, CycleInv, DimPieces, Pieces
  <1>4. CASE pc' = "tickRestore" /\ UNCHANGED << after, power, restore, absence >>
    BY <1>4
       DEF RestoreInv, EndingInv, NobodyInv, CycleInv, DimPieces, RestorePieces, Pieces
  <1> QED BY <1>3, <1>4

\* The next attempt is made of a restore that is pending.
LEMMA TickRestoreKeeps == IInv /\ TickRestore => IInv'
  BY DEF TickRestore, agentVars, worldVars, IInv, TypeOK, RestoreInv, EndingInv,
         NobodyInv, CycleInv, DimPieces, RestorePieces, Pieces

\* The normal level is only learned.
LEMMA TickCacheKeeps == IInv /\ TickCache => IInv'
  <1> SUFFICES ASSUME IInv, TickCache PROVE IInv'
    OBVIOUS
  <1> USE DEF TickCache, IInv, TypeOK, worldVars
  <1>1. registry' \in RegistryRecord
    BY SavedTyped DEF CacheBrightness
  <1>2. clocks' \in ClocksRecord
    BY AgentAssumption DEF ClocksRecord
  <1> QED BY <1>1, <1>2
       DEF RestoreInv, EndingInv, NobodyInv, CycleInv, DimPieces, RestorePieces, Pieces

-----------------------------------------------------------------------------
(* The process, the keyboard and the user *)

\* A dead process leaves nothing under way.
LEMMA CrashKeeps == IInv /\ Crash => IInv'
  <1> SUFFICES ASSUME IInv, Crash PROVE IInv'
    OBVIOUS
  <1> USE DEF Crash, IInv, TypeOK
  <1>1. absence' \in {"none", "heeded", "missed"} /\ absence' # "heeded"
    OBVIOUS
  <1>2. restore'.pending => restore'.attempts < RestoreRetryMaxAttempts
    BY FreshTyped
  <1> QED BY <1>1, <1>2, FreshTyped
       DEF RestoreInv, EndingInv, NobodyInv, CycleInv, DimPieces, Pieces

\* A new process trusts the registry and what it reads.
LEMMA StartKeeps == IInv /\ Start => IInv'
  <1> SUFFICES ASSUME IInv, Start PROVE IInv'
    OBVIOUS
  <1> USE DEF Start, IInv, TypeOK, worldVars
  <1>1. power' \in PowerRecord /\ power'.ending = power.ending
    BY DEF PowerRecord, RegistryRecord
  <1>2. registry' \in RegistryRecord
    BY SavedTyped
  <1>3. absence # "heeded"
    BY DEF NobodyInv
  <1> QED BY <1>1, <1>2, <1>3
       DEF RestoreInv, EndingInv, NobodyInv, CycleInv, DimPieces, Pieces

\* What happens outside the agent touches none of its records.
LEMMA WorldKeeps == IInv /\ (MissedWhileDown \/ Key \/ EditSettings \/ UNCHANGED vars) => IInv'
  <1> USE DEF IInv, TypeOK, RestoreInv, EndingInv, NobodyInv, CycleInv, DimPieces,
              RestorePieces, agentVars, worldVars
  <1>1. ASSUME IInv, MissedWhileDown PROVE IInv'
    <2>1. /\ interrupted' \in BOOLEAN /\ absence' \in {"none", "missed"}
          /\ wake' \in {"awake", "unattended"}
      BY <1>1 DEF MissedWhileDown
    <2> QED BY <1>1, <2>1 DEF MissedWhileDown
  <1>2. ASSUME IInv, Key PROVE IInv'
    <2>1. panel' \in Levels /\ chosen' \subseteq Levels
      BY <1>2, AgentAssumption DEF Key
    <2>2. touched' \in BOOLEAN
      BY <1>2 DEF Key
    <2> QED BY <1>2, <2>1, <2>2 DEF Key
  <1>3. ASSUME IInv, EditSettings PROVE IInv'
    BY <1>3 DEF EditSettings
  <1>4. ASSUME IInv, UNCHANGED vars PROVE IInv'
    BY <1>4 DEF vars
  <1> QED BY <1>1, <1>2, <1>3, <1>4

-----------------------------------------------------------------------------
(* The invariant holds, and what follows from it *)

\* The invariant holds at first.
LEMMA InitIInv == Init => IInv
  <1> SUFFICES ASSUME Init PROVE IInv
    OBVIOUS
  <1> USE DEF Init
  <1>1. INITIAL_SAVED \in Levels /\ registry \in RegistryRecord
    <2>1. INITIAL_SAVED \in Visible /\ MaxSamples \in Nat
      BY AgentAssumption
    <2> QED BY <2>1, LevelFacts, IntervalFacts DEF RegistryRecord
  <1>2. absence = "none" /\ touched \in BOOLEAN
        /\ interrupted \in BOOLEAN
    OBVIOUS
  <1>3. restore \in RestoreRecord /\ ~restore.pending
    BY FreshTyped
  <1> QED BY <1>1, <1>2, <1>3, FreshTyped
       DEF IInv, TypeOK, RestoreInv, EndingInv, NobodyInv, CycleInv, DimPieces, Pieces

\* Every step of the agent, of Windows and of the user keeps it.
LEMMA NextIInv == IInv /\ [Next]_vars => IInv'
  BY DisplayIgnoredKeeps, DisplayOffKeeps, DisplayOnKeeps, DisplayDimKeeps,
     OffWriteKeeps, DimCacheKeeps, DimWriteKeeps, DimSaveKeeps, RestoreReadKeeps,
     RestoreWriteKeeps, SuspendKeeps, ResumeAutomaticKeeps, ResumeKeeps,
     LidClosedKeeps, LidOpenedKeeps, SessionEndKeeps, HotkeyKeeps, ElapseKeeps,
     TimerTickKeeps, TickPredictKeeps, PredictWriteKeeps, TickConfirmKeeps,
     ConfirmWriteKeeps, ConfirmNormalKeeps, TickFallbackKeeps, TickRestoreKeeps,
     TickCacheKeeps, CrashKeeps, StartKeeps, WorldKeeps
     DEF Next, Notifications, DdcPieces, PowerEvents, SessionEvents, TickPieces, World

\* No order of notifications, ticks, keys, failed DDC calls, settings and
\* crashes leads the agent out of the states IInv describes.
THEOREM Invariance == Spec => []IInv
  BY InitIInv, NextIInv, PTL DEF Spec

\* Every global, registry value and timer of the agent stays in its range, and
\* no restore makes more attempts than it is given.
THEOREM TypeCorrect == Spec => []TypeOK
  <1>1. IInv => TypeOK
    BY DEF IInv
  <1> QED BY <1>1, Invariance, PTL

\* Only these pieces, and the keyboard, change the panel.
LEMMA PanelWriters ==
    ASSUME [Next]_vars, panel' # panel
    PROVE  Key \/ OffWrite \/ DimWrite \/ RestoreWrite \/ PredictWrite
           \/ ConfirmWrite \/ ConfirmNormal
  <1>1. CASE Notifications
    BY <1>1 DEF Notifications, DisplayIgnored, DisplayOff, DisplayOn, DisplayDim, Notified
  <1>2. CASE DimCache \/ DimSave \/ RestoreRead
    BY <1>2 DEF DimCache, DimSave, RestoreRead
  <1>3. CASE PowerEvents \/ SessionEvents
    BY <1>3 DEF PowerEvents, SessionEvents, Suspend, ResumeAutomatic, ResumeSuspend,
       ResumeCritical, UserPresent, LidClosed, LidOpened, QueryEndSession,
       EndSessionCancelled, Hotkey, Received
  <1>4. CASE Elapse \/ TimerTick \/ Start
    BY <1>4 DEF Elapse, TimerTick, Start
  <1>5. CASE TickPredict \/ TickConfirm \/ TickFallback \/ TickRestore \/ TickCache
    BY <1>5 DEF TickPredict, TickConfirm, TickFallback, TickRestore, TickCache
  <1>6. CASE Crash \/ MissedWhileDown \/ EditSettings \/ UNCHANGED vars
    BY <1>6 DEF Crash, MissedWhileDown, EditSettings, vars
  <1> QED BY <1>1, <1>2, <1>3, <1>4, <1>5, <1>6 DEF Next, DdcPieces, TickPieces, World

\* What each of them writes.
LEMMA WhatIsWritten ==
    ASSUME IInv, [Next]_vars, panel' # panel, pc' # pc
    PROVE  \/ pc \in {"offWrite", "predictWrite"} /\ panel' = 0
           \/ /\ pc \in {"dimWrite", "restoreWrite", "confirmWrite", "confirmNormal"}
              /\ panel' \in Visible
  <1> USE DEF IInv, TypeOK
  <1>1. CASE Key
    BY <1>1 DEF Key
  <1>2. CASE OffWrite \/ PredictWrite
    BY <1>2 DEF OffWrite, PredictWrite
  <1>3. DimOf(registry.saved, settings.dimPercent) \in Visible
    BY DimOfVisible, SettingsTyped DEF RegistryRecord, SettingsRecord
  <1>4. CASE DimWrite
    BY <1>3, <1>4 DEF DimWrite
  <1>5. CASE RestoreWrite \/ ConfirmNormal
    BY <1>5 DEF RestoreWrite, ConfirmNormal, RegistryRecord
  <1>6. CASE ConfirmWrite
    <2>1. power.appliedDim > 0 => power.appliedDim \in Visible
      BY LevelFacts DEF PowerRecord, Levels, Visible
    <2> QED BY <1>3, <1>6, <2>1 DEF ConfirmWrite
  <1> QED BY <1>1, <1>2, <1>4, <1>5, <1>6, PanelWriters

\* While the session ends the agent does not blank the panel, whatever was
\* under way when the shutdown began.
THEOREM NoBlackout == Spec => NoBlackoutWhileEnding
  <1>1. IInv /\ [Next]_vars => [AgentWrites({0}) => ~power.ending]_vars
    BY WhatIsWritten, LevelFacts DEF AgentWrites, IInv, EndingInv
  <1> QED BY <1>1, Invariance, PTL DEF Spec, NoBlackoutWhileEnding

\* A process that went dark for a suspend does not light the panel until
\* somebody is there, but for its startup fallback: no ON, DIM, restore or
\* confirmation that was under way does.
THEOREM NoLight == Spec => NoLightWhileNobodyThere
  <1>1. IInv /\ [Next]_vars => [AgentWrites(Visible) => absence # "heeded"]_vars
    BY WhatIsWritten, LevelFacts
       DEF AgentWrites, IInv, NobodyInv, DimPieces, RestorePieces
  <1> QED BY <1>1, Invariance, PTL DEF Spec, NoLightWhileNobodyThere

\* The panel is blanked ahead of Windows only in the DIM that Windows is in.
THEOREM PredictsAfterDim == Spec => PredictsOnlyAfterDim
  <1>1. IInv /\ [Next]_vars
          => [pc = "predictWrite" /\ panel' # panel /\ pc' # pc
              => windows = "dim" /\ ~interrupted]_vars
    BY DEF IInv, CycleInv
  <1> QED BY <1>1, Invariance, PTL DEF Spec, PredictsOnlyAfterDim

\* Only an OFF learns.
LEMMA OnlyOffLearns ==
    ASSUME IInv, [Next]_vars,
           registry'.learned # registry.learned \/ registry'.samples # registry.samples
    PROVE  DisplayOff /\ prediction.eligible
  <1> USE DEF IInv, TypeOK
  <1>1. /\ Saved(registry, panel).learned = registry.learned
        /\ Saved(registry, panel).samples = registry.samples
        /\ NoMarker(registry).learned = registry.learned
        /\ NoMarker(registry).samples = registry.samples
        /\ NoMarker(Saved(registry, panel)).learned = registry.learned
        /\ NoMarker(Saved(registry, panel)).samples = registry.samples
    BY DEF Saved, NoMarker, RegistryRecord
  <1>2. CASE DisplayOff
    <2>1. CASE prediction.eligible
      BY <1>2, <2>1
    <2>2. CASE ~prediction.eligible
      <3>1. Learned(registry, prediction, settings) = registry
        BY <2>2, LearnedTyped
      <3> QED BY <1>1, <1>2, <3>1 DEF DisplayOff
    <2> QED BY <2>1, <2>2
  <1>3. CASE DisplayIgnored \/ DisplayOn \/ DisplayDim
    BY <1>1, <1>3 DEF DisplayIgnored, DisplayOn, DisplayDim
  <1>4. CASE DdcPieces
    BY <1>1, <1>4 DEF DdcPieces, OffWrite, DimCache, CacheBrightness, DimWrite, DimSave,
       RestoreRead, RestoreWrite, RegistryRecord
  <1>5. CASE PowerEvents \/ SessionEvents
    BY <1>1, <1>5 DEF PowerEvents, SessionEvents, Suspend, ResumeAutomatic,
       ResumeSuspend, ResumeCritical, UserPresent, LidClosed, LidOpened,
       QueryEndSession, EndSessionCancelled, Hotkey, HandleResume, GoDark
  <1>6. CASE Elapse \/ TimerTick \/ Start
    BY <1>1, <1>6 DEF Elapse, TimerTick, Start
  <1>7. CASE TickPieces
    BY <1>1, <1>7 DEF TickPieces, TickPredict, PredictWrite, TickConfirm, ConfirmWrite,
       ConfirmNormal, TickFallback, TickRestore, TickCache, CacheBrightness
  <1>8. CASE World \/ UNCHANGED vars
    BY <1>8 DEF World, Crash, MissedWhileDown, Key, EditSettings, vars
  <1> QED BY <1>2, <1>3, <1>4, <1>5, <1>6, <1>7, <1>8 DEF Next, Notifications

\* An interval is learned only from a DIM that Windows took to OFF with nothing
\* in between, whatever the settings, keys and failures meanwhile.
THEOREM LearnsCleanly == Spec => LearnsOnlyCleanCycles
  <1>1. IInv /\ [Next]_vars
          => [registry'.learned # registry.learned \/ registry'.samples # registry.samples
              => windows = "dim" /\ windows' = "off" /\ ~interrupted]_vars
    BY OnlyOffLearns DEF IInv, CycleInv, DisplayOff, Notified
  <1> QED BY <1>1, Invariance, PTL DEF Spec, LearnsOnlyCleanCycles

=============================================================================
