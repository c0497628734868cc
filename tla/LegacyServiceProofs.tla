------------------------- MODULE LegacyServiceProofs -------------------------
(***************************************************************************)
(* Proofs about the legacy service, for any levels, any numbers of tries   *)
(* and any number of manual commands: no level is dark or out of range, no *)
(* loop tries too often, and no queued display state is ever left lying.   *)
(*                                                                         *)
(* Over the two invariants, IInv says what the worker and a manual command *)
(* have read but not yet saved (ReadInv), and how far ServiceMain is while *)
(* there is no worker (StartInv): where it fails to start one, no worker   *)
(* is left that would have to be woken.                                    *)
(***************************************************************************)
EXTENDS LegacyService, TLAPS

\* A level that is about to be saved is not dark.
ReadInv ==
    /\ worker = "save" => restore \in Levels
    /\ manual = "save" => m_value \in Levels

\* Nothing is announced before the registration, and a worker exists only
\* between StartsWorker and the close of the events.
StartInv ==
    /\ main \in {"create", "register"} =>
           ~registered /\ g_pendingDisplayState = NoState /\ handler = "idle"
    /\ main \in {"create", "register", "thread"} => worker = "none"
    /\ main = "report" /\ events = "open" => worker = "none"
    /\ main = "ended" => worker \in {"exited", "killed"}

IInv == TypeOK /\ NoLostWakeup /\ ReadInv /\ StartInv

\* The process starts in the invariant.
LEMMA InitIInv == Init => IInv
  <1> SUFFICES ASSUME Init PROVE IInv
    OBVIOUS
  <1>1. /\ g_workEvent \in BOOLEAN /\ g_stopEvent \in BOOLEAN
        /\ registered \in BOOLEAN /\ g_displayAssumedOn \in BOOLEAN
        /\ link \in BOOLEAN /\ touched \in BOOLEAN
    BY DEF Init
  <1> QED BY <1>1, ServiceAssumption
     DEF Init, IInv, TypeOK, NoLostWakeup, ReadInv, StartInv, NoState, Off, On,
         Dim, MainAt, WorkerAt

-----------------------------------------------------------------------------
(* The worker *)

\* What the worker may adopt is a level that is not dark.
LEMMA AdoptableIsLevel ==
    ASSUME level \in Levels \cup {0}, Adoptable(level)
    PROVE  level \in Levels
  BY ServiceAssumption DEF Adoptable

\* Reading and saving the level of the panel.
LEMMA WorkerAdoptsKeeps == IInv /\ (WorkerReads \/ WorkerSaves) => IInv'
  <1> USE DEF IInv, TypeOK, NoLostWakeup, ReadInv, StartInv, WorkerKeeps,
              manualVars, outsideVars, panelVars, MainAt, WorkerAt
  <1>1. ASSUME IInv, WorkerReads PROVE IInv'
    BY <1>1, AdoptableIsLevel DEF WorkerReads
  <1>2. ASSUME IInv, WorkerSaves PROVE IInv'
    BY <1>2 DEF WorkerSaves
  <1> QED BY <1>1, <1>2

\* The wait: a stop, a wakeup or a timeout.
LEMMA WorkerWaitsKeeps ==
    IInv /\ (WorkerStops \/ WorkerWakes \/ WorkerTimesOut) => IInv'
  <1> USE DEF IInv, TypeOK, NoLostWakeup, ReadInv, StartInv, WorkerKeeps,
              manualVars, outsideVars, panelVars, MainAt, WorkerAt,
              StopEventOnceSeen
  <1>1. ASSUME IInv, WorkerStops PROVE IInv'
    BY <1>1 DEF WorkerStops
  <1>2. ASSUME IInv, WorkerWakes PROVE IInv'
    <2>1. g_workEvent' \in BOOLEAN
      BY <1>2 DEF WorkerWakes
    <2> QED BY <1>2, <2>1 DEF WorkerWakes
  <1>3. ASSUME IInv, WorkerTimesOut PROVE IInv'
    BY <1>3 DEF WorkerTimesOut
  <1> QED BY <1>1, <1>2, <1>3

\* The exchange empties the slot, so nothing lies in it whatever it held.
LEMMA WorkerTakesKeeps == IInv /\ WorkerTakes => IInv'
  <1> SUFFICES ASSUME IInv, WorkerTakes PROVE IInv'
    OBVIOUS
  <1>1. g_displayAssumedOn' \in BOOLEAN
    BY DEF WorkerTakes, IInv, TypeOK, AssumedAfterOn
  <1> QED BY <1>1, ServiceAssumption
       DEF IInv, TypeOK, NoLostWakeup, ReadInv, StartInv, WorkerTakes,
           WorkerKeeps, manualVars, outsideVars, panelVars, MainAt, WorkerAt,
           NoState, Off, On, Dim, AssumedAfterOn

\* One try of a loop that writes the panel.
LEMMA WorkerWritesKeeps ==
    IInv /\ (HandleDisplayOff \/ HandleDisplayOn \/ HandleDisplayOnStops) => IInv'
  <1> USE ServiceAssumption
      DEF IInv, TypeOK, NoLostWakeup, ReadInv, StartInv, WorkerKeeps,
          WorkerWrites, TriesLeft, manualVars, outsideVars, panelVars, MainAt,
          WorkerAt, StopEventOnceSeen
  <1>1. ASSUME IInv, HandleDisplayOff PROVE IInv'
    BY <1>1 DEF HandleDisplayOff
  <1>2. ASSUME IInv, HandleDisplayOn PROVE IInv'
    BY <1>2 DEF HandleDisplayOn
  <1>3. ASSUME IInv, HandleDisplayOnStops PROVE IInv'
    BY <1>3 DEF HandleDisplayOnStops
  <1> QED BY <1>1, <1>2, <1>3

\* Every step of the worker keeps the invariant.
LEMMA WorkerKeepsIInv == IInv /\ Worker => IInv'
  BY WorkerAdoptsKeeps, WorkerWaitsKeeps, WorkerTakesKeeps, WorkerWritesKeeps
     DEF Worker

-----------------------------------------------------------------------------
(* The dispatcher thread, ServiceMain, the manual commands and the world *)

\* A new state is overwritten or taken, and its signal comes after it.
LEMMA HandlerKeepsIInv ==
    IInv /\ (PowerSettingChange \/ SignalsWorker \/ StopControl) => IInv'
  <1> USE DEF IInv, TypeOK, NoLostWakeup, ReadInv, StartInv, HandlerKeeps,
              manualVars, panelVars, MainAt, WorkerAt
  <1>1. ASSUME IInv, PowerSettingChange PROVE IInv'
    BY <1>1 DEF PowerSettingChange, Queued
  <1>2. ASSUME IInv, SignalsWorker PROVE IInv'
    <2>1. g_workEvent' \in BOOLEAN
      BY <1>2 DEF SignalsWorker, EventIsSet
    <2>2. NoLostWakeup'
      BY <1>2 DEF SignalsWorker, EventIsSet
    <2> QED BY <1>2, <2>1, <2>2 DEF SignalsWorker
  <1>3. ASSUME IInv, StopControl PROVE IInv'
    BY <1>3 DEF StopControl
  <1> QED BY <1>1, <1>2, <1>3

\* Start, stop and end of the service.
LEMMA MainKeepsIInv == IInv /\ ServiceMain => IInv'
  <1> USE DEF IInv, TypeOK, NoLostWakeup, ReadInv, StartInv, MainKeeps,
              manualVars, outsideVars, panelVars, MainAt, WorkerAt,
              StopEventOnceSeen
  <1>1. ASSUME IInv, CreatesEvents PROVE IInv'
    BY <1>1 DEF CreatesEvents
  <1>2. ASSUME IInv, RegistersNotification PROVE IInv'
    <2>1. registered' \in BOOLEAN
      BY <1>2 DEF RegistersNotification
    <2> QED BY <1>2, <2>1 DEF RegistersNotification
  <1>3. ASSUME IInv, StartsWorker PROVE IInv'
    <2>1. registered' \in BOOLEAN
      BY <1>3 DEF StartsWorker
    <2> QED BY <1>3, <2>1 DEF StartsWorker
  <1>4. ASSUME IInv, SeesStop \/ WakesWorker PROVE IInv'
    <2>1. g_workEvent' \in BOOLEAN /\ registered' \in BOOLEAN
      BY <1>4 DEF SeesStop, WakesWorker
    <2> QED BY <1>4, <2>1 DEF SeesStop, WakesWorker
  <1>5. ASSUME IInv, Joins \/ ClosesEvents PROVE IInv'
    BY <1>5 DEF Joins, ClosesEvents
  <1>6. ASSUME IInv, Ends PROVE IInv'
    BY <1>6 DEF Ends
  <1> QED BY <1>1, <1>2, <1>3, <1>4, <1>5, <1>6 DEF ServiceMain

\* Another process shares the panel and the registry only.
LEMMA ManualKeepsIInv == IInv /\ (ManualStarts \/ ManualRuns) => IInv'
  <1> USE ServiceAssumption
      DEF IInv, TypeOK, NoLostWakeup, ReadInv, StartInv, ManualKeeps,
          ManualEnds, threadVars, outsideVars, panelVars, MainAt, WorkerAt
  <1>1. ASSUME IInv, ManualStarts PROVE IInv'
    BY <1>1 DEF ManualStarts
  <1>2. ASSUME IInv, ManualOff \/ ManualOn PROVE IInv'
    BY <1>2 DEF ManualOff, ManualOn, ManualWrites, TriesLeft
  <1>3. ASSUME IInv, ManualSyncReads PROVE IInv'
    BY <1>3, AdoptableIsLevel DEF ManualSyncReads
  <1>4. ASSUME IInv, ManualSyncSaves PROVE IInv'
    BY <1>4 DEF ManualSyncSaves
  <1> QED BY <1>1, <1>2, <1>3, <1>4 DEF ManualRuns

\* The keys, the link, and a step that changes nothing.
LEMMA WorldKeepsIInv ==
    IInv /\ (UserSetsLevel \/ LinkChanges \/ UNCHANGED vars) => IInv'
  <1> USE DEF IInv, TypeOK, NoLostWakeup, ReadInv, StartInv, vars, threadVars,
              manualVars, panelVars, outsideVars, MainAt, WorkerAt
  <1>1. ASSUME IInv, UserSetsLevel PROVE IInv'
    BY <1>1 DEF UserSetsLevel
  <1>2. ASSUME IInv, LinkChanges PROVE IInv'
    <2>1. link' \in BOOLEAN
      BY <1>2 DEF LinkChanges
    <2> QED BY <1>2, <2>1 DEF LinkChanges
  <1>3. ASSUME IInv, UNCHANGED vars PROVE IInv'
    BY <1>3
  <1> QED BY <1>1, <1>2, <1>3

\* So does every step of the service, the commands, the keys and the link.
LEMMA NextIInv == IInv /\ [Next]_vars => IInv'
  BY WorkerKeepsIInv, HandlerKeepsIInv, MainKeepsIInv, ManualKeepsIInv,
     WorldKeepsIInv DEF Next

-----------------------------------------------------------------------------
(* The invariants of every behaviour *)

\* The inductive invariant holds in every reachable state of the service.
THEOREM Invariance == Spec => []IInv
  BY InitIInv, NextIInv, PTL DEF Spec

\* Type correctness: the level to restore is never dark, and no loop tries
\* more often than it says.
THEOREM TypeCorrect == Spec => []TypeOK
  <1>1. IInv => TypeOK
    BY DEF IInv
  <1> QED BY <1>1, Invariance, PTL

\* A queued display state is always either signalled or about to be taken,
\* for every interleaving of the three threads (QueueDisplayState).
THEOREM NoWakeupIsLost == Spec => []NoLostWakeup
  <1>1. IInv => NoLostWakeup
    BY DEF IInv
  <1> QED BY <1>1, Invariance, PTL
=============================================================================
