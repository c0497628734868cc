---------------------------- MODULE LegacyService ----------------------------
(***************************************************************************)
(* The Windows service of Esp32DisplayPowerBridge.cpp, which the           *)
(* interactive agent has replaced but which the program still is when it   *)
(* is started without an argument, and the manual commands --off, --on and *)
(* --sync that may run beside it.                                          *)
(*                                                                         *)
(* Three threads: ServiceMain starts and stops the service, the dispatcher *)
(* thread runs ServiceControlHandler, the worker talks DDC.  They share    *)
(* two events and g_pendingDisplayState; pc names what each does next, a   *)
(* DDC access is one step.  --probe changes nothing and is left out.       *)
(***************************************************************************)
EXTENDS Integers

CONSTANTS
    Levels,                \* the nonzero levels, of 1..100
    OffTries,              \* 3
    OnTries,               \* 20
    MaxManual              \* bound: manual commands given

ASSUME ServiceAssumption ==
    /\ Levels \subseteq 1..100 /\ Levels # {}
    /\ OffTries \in Nat \ {0}
    /\ OnTries \in Nat \ {0}
    /\ MaxManual \in Nat

VARIABLES
    g_pendingDisplayState, \* -1 none, 0 off, 1 on, 2 dim
    g_workEvent,           \* auto-reset: is it set
    g_stopEvent,           \* manual-reset: is it set
    events,                \* the two handles: "none", "open" or "closed"
    registered,            \* power notifications are on
    g_displayAssumedOn,    \* the worker's belief
    main, worker, handler, \* what each thread does next
    attempt,               \* the worker's count of DDC tries, or 0
    restore,               \* the level it has read, or is to write, or 0
    manual,                \* the manual command running: what it does next
    m_attempt, m_value,    \* ... its tries, and the level it read or restores
    commands,              \* manual commands given so far
    saved,                 \* CurrentBrightness in the registry
    level,                 \* VCP 0x10 of the panel
    link,                  \* DDC works
    announced,             \* the display state Windows last announced
    touched                \* history: a key has changed the level since

threadVars == << main, worker, handler, attempt, restore >>
manualVars == << manual, m_attempt, m_value, commands >>
panelVars  == << saved, level >>
outsideVars == << link, announced, touched >>
vars == << g_pendingDisplayState, g_workEvent, g_stopEvent, events, registered,
           g_displayAssumedOn, threadVars, manualVars, panelVars, outsideVars >>

NoState == -1
Off == 0
On  == 1
Dim == 2

MainAt   == {"create", "register", "thread", "run", "leave", "join", "close",
             "report", "ended"}
WorkerAt == {"none", "read", "save", "wait", "take", "off", "on", "exited", "killed"}

-----------------------------------------------------------------------------
(* DDC *)

\* Mutant: the dark level too.
AlsoDark(value) == value \in 0..100

\* CacheBrightnessIfAvailable and ManualSyncBrightness take no dark level.
Adoptable(value) == value \in 1..100

\* Mutant: one try too many.
OneMoreTry(tried, tries) == tried <= tries

TriesLeft(tried, tries) == tried < tries

-----------------------------------------------------------------------------
(* The worker: WorkerThreadProc *)

WorkerKeeps == UNCHANGED << g_stopEvent, events, registered, main, handler,
                            manualVars, outsideVars >>

\* ReadCurrentBrightness: first thing, and whenever the wait times out.
WorkerReads ==
    /\ worker = "read"
    /\ IF link /\ Adoptable(level)
       THEN worker' = "save" /\ restore' = level
       ELSE worker' = "wait" /\ UNCHANGED restore
    /\ UNCHANGED << g_pendingDisplayState, g_workEvent, g_displayAssumedOn,
                    attempt, panelVars >>
    /\ WorkerKeeps

\* The rest of CacheBrightnessIfAvailable.
WorkerSaves ==
    /\ worker = "save"
    /\ saved' = restore
    /\ worker' = "wait" /\ restore' = 0
    /\ UNCHANGED << g_pendingDisplayState, g_workEvent, g_displayAssumedOn,
                    attempt, level >>
    /\ WorkerKeeps

\* Mutant: the stop event resets itself once somebody has seen it.
SelfResetting == FALSE

StopEventOnceSeen == g_stopEvent

\* The stop event comes first in the list of handles.
WorkerStops ==
    /\ worker = "wait" /\ events = "open" /\ g_stopEvent
    /\ g_stopEvent' = StopEventOnceSeen
    /\ worker' = "exited"
    /\ UNCHANGED << g_pendingDisplayState, g_workEvent, g_displayAssumedOn,
                    attempt, restore, panelVars, events, registered, main,
                    handler, manualVars, outsideVars >>

WorkerWakes ==
    /\ worker = "wait" /\ events = "open" /\ ~g_stopEvent
    /\ g_workEvent
    /\ g_workEvent' = FALSE
    /\ worker' = "take"
    /\ UNCHANGED << g_pendingDisplayState, g_displayAssumedOn, attempt, restore,
                    panelVars >>
    /\ WorkerKeeps

WorkerTimesOut ==
    /\ worker = "wait" /\ events = "open" /\ ~g_stopEvent /\ ~g_workEvent
    /\ g_displayAssumedOn
    /\ worker' = "read"
    /\ UNCHANGED << g_pendingDisplayState, g_workEvent, g_displayAssumedOn,
                    attempt, restore, panelVars >>
    /\ WorkerKeeps

\* Mutant: ON does not tell the worker that the display is on.
KeepAssumed == g_displayAssumedOn

AssumedAfterOn == TRUE

\* exchange(-1), and the start of HandleDisplayOff or HandleDisplayOn.
WorkerTakes ==
    /\ worker = "take"
    /\ g_pendingDisplayState' = NoState
    /\ \/ /\ g_pendingDisplayState = Off
          /\ g_displayAssumedOn' = FALSE
          /\ worker' = "off" /\ attempt' = 1 /\ restore' = 0
       \/ /\ g_pendingDisplayState = On
          /\ g_displayAssumedOn' = AssumedAfterOn
          /\ worker' = "on" /\ attempt' = 1 /\ restore' = saved
       \/ /\ g_pendingDisplayState \in {Dim, NoState}
          /\ worker' = "wait"
          /\ UNCHANGED << g_displayAssumedOn, attempt, restore >>
    /\ UNCHANGED << g_workEvent, panelVars >>
    /\ WorkerKeeps

\* One WriteBrightness of a loop that gives up after so many.
WorkerWrites(value, tries) ==
    /\ IF link
       THEN level' = value /\ worker' = "wait"
       ELSE UNCHANGED level /\ worker' = IF TriesLeft(attempt, tries)
                                         THEN worker ELSE "wait"
    /\ attempt' = IF worker' = "wait" THEN 0 ELSE attempt + 1
    /\ restore' = IF worker' = "wait" THEN 0 ELSE restore
    /\ UNCHANGED << g_pendingDisplayState, g_workEvent, g_displayAssumedOn, saved >>

HandleDisplayOff ==
    /\ worker = "off"
    /\ WorkerWrites(0, OffTries)
    /\ WorkerKeeps

HandleDisplayOn ==
    /\ worker = "on" /\ ~(events = "open" /\ g_stopEvent)
    /\ WorkerWrites(restore, OnTries)
    /\ WorkerKeeps

\* It looks at the stop event before each try.
HandleDisplayOnStops ==
    /\ worker = "on" /\ events = "open" /\ g_stopEvent
    /\ g_stopEvent' = StopEventOnceSeen
    /\ worker' = "wait" /\ attempt' = 0 /\ restore' = 0
    /\ UNCHANGED << g_pendingDisplayState, g_workEvent, g_displayAssumedOn,
                    panelVars, events, registered, main, handler, manualVars,
                    outsideVars >>

Worker ==
    \/ WorkerReads \/ WorkerSaves
    \/ WorkerStops \/ WorkerWakes \/ WorkerTimesOut \/ WorkerTakes
    \/ HandleDisplayOff \/ HandleDisplayOn \/ HandleDisplayOnStops

-----------------------------------------------------------------------------
(* The dispatcher thread: ServiceControlHandler *)

HandlerKeeps == UNCHANGED << events, registered, g_displayAssumedOn, main, worker,
                             attempt, restore, manualVars, panelVars, link >>

\* Mutant: the state that waits to be taken stays.
FirstQueued(state) ==
    IF g_pendingDisplayState = NoState THEN state ELSE g_pendingDisplayState

\* QueueDisplayState overwrites what the worker has not taken yet ...
Queued(state) == state

PowerSettingChange ==
    /\ registered /\ handler = "idle"
    /\ \E state \in {Off, On, Dim} :
           announced' = state /\ g_pendingDisplayState' = Queued(state)
    /\ touched' = (touched /\ announced' = announced)
    /\ handler' = "signal"
    /\ UNCHANGED << g_workEvent, g_stopEvent >>
    /\ HandlerKeeps

\* Mutant: the event is set only for a worker that waits.
OnlyIfWaiting == worker = "wait"

EventIsSet == TRUE

\* ... and sets the event, if it is still there.
SignalsWorker ==
    /\ handler = "signal"
    /\ g_workEvent' = (g_workEvent \/ (events = "open" /\ EventIsSet))
    /\ handler' = "idle"
    /\ UNCHANGED << g_pendingDisplayState, g_stopEvent, announced, touched >>
    /\ HandlerKeeps

\* SERVICE_CONTROL_STOP or _SHUTDOWN, accepted once the service runs.
StopControl ==
    /\ handler = "idle" /\ main = "run" /\ ~g_stopEvent
    /\ g_stopEvent' = TRUE
    /\ UNCHANGED << g_pendingDisplayState, g_workEvent, handler, announced, touched >>
    /\ HandlerKeeps

-----------------------------------------------------------------------------
(* ServiceMain *)

MainKeeps == UNCHANGED << g_pendingDisplayState, g_displayAssumedOn, handler,
                          attempt, restore, manualVars, panelVars, outsideVars >>

CreatesEvents ==
    /\ main = "create"
    /\ \/ main' = "register" /\ events' = "open"
       \/ main' = "report" /\ UNCHANGED events
    /\ UNCHANGED << g_workEvent, g_stopEvent, registered, worker >>
    /\ MainKeeps

RegistersNotification ==
    /\ main = "register"
    /\ \/ main' = "thread" /\ registered' = TRUE
       \/ main' = "report" /\ UNCHANGED registered
    /\ UNCHANGED << g_workEvent, g_stopEvent, events, worker >>
    /\ MainKeeps

StartsWorker ==
    /\ main = "thread"
    /\ \/ main' = "run" /\ worker' = "read" /\ UNCHANGED registered
       \/ main' = "report" /\ registered' = FALSE /\ UNCHANGED worker
    /\ UNCHANGED << g_workEvent, g_stopEvent, events >>
    /\ MainKeeps

SeesStop ==
    /\ main = "run" /\ g_stopEvent
    /\ g_stopEvent' = StopEventOnceSeen
    /\ registered' = FALSE
    /\ main' = "leave"
    /\ UNCHANGED << g_workEvent, events, worker >>
    /\ MainKeeps

WakesWorker ==
    /\ main = "leave"
    /\ g_workEvent' = TRUE
    /\ main' = "join"
    /\ UNCHANGED << g_stopEvent, events, registered, worker >>
    /\ MainKeeps

\* The worker has exited, or is still in a DDC access after five seconds.
Joins ==
    /\ main = "join"
    /\ worker \in {"exited", "read", "off", "on"}
    /\ main' = "close"
    /\ UNCHANGED << g_workEvent, g_stopEvent, events, registered, worker >>
    /\ MainKeeps

ClosesEvents ==
    /\ main = "close"
    /\ events' = "closed"
    /\ main' = "report"
    /\ UNCHANGED << g_workEvent, g_stopEvent, registered, worker >>
    /\ MainKeeps

\* SERVICE_STOPPED: the dispatcher returns to wmain and the process ends.
Ends ==
    /\ main = "report"
    /\ main' = "ended"
    /\ worker' = IF worker = "exited" THEN worker ELSE "killed"
    /\ UNCHANGED << g_workEvent, g_stopEvent, events, registered >>
    /\ MainKeeps

ServiceMain ==
    \/ CreatesEvents \/ RegistersNotification \/ StartsWorker
    \/ SeesStop \/ WakesWorker \/ Joins \/ ClosesEvents \/ Ends

-----------------------------------------------------------------------------
(* A manual command: another process, so only the panel and the registry *)

ManualKeeps ==
    UNCHANGED << g_pendingDisplayState, g_workEvent, g_stopEvent, events, registered,
                 g_displayAssumedOn, threadVars, outsideVars >>

ManualStarts ==
    /\ manual = "none" /\ commands < MaxManual
    /\ commands' = commands + 1
    /\ \/ manual' = "off" /\ m_attempt' = 1 /\ m_value' = 0
       \/ manual' = "on" /\ m_attempt' = 1 /\ m_value' = saved
       \/ manual' = "sync" /\ m_attempt' = 0 /\ m_value' = 0
    /\ UNCHANGED panelVars
    /\ ManualKeeps

ManualEnds == manual' = "none" /\ m_attempt' = 0 /\ m_value' = 0

\* HandleDisplayOff and HandleDisplayOn with a stop event of its own.
ManualWrites(what, tries) ==
    /\ manual = what
    /\ IF link
       THEN level' = m_value /\ ManualEnds
       ELSE /\ UNCHANGED level
            /\ IF TriesLeft(m_attempt, tries)
               THEN m_attempt' = m_attempt + 1 /\ UNCHANGED << manual, m_value >>
               ELSE ManualEnds
    /\ UNCHANGED << saved, commands >>
    /\ ManualKeeps

ManualOff == ManualWrites("off", OffTries)
ManualOn  == ManualWrites("on", OnTries)

ManualSyncReads ==
    /\ manual = "sync"
    /\ IF link /\ Adoptable(level)
       THEN manual' = "save" /\ m_value' = level /\ UNCHANGED m_attempt
       ELSE ManualEnds
    /\ UNCHANGED << panelVars, commands >>
    /\ ManualKeeps

ManualSyncSaves ==
    /\ manual = "save"
    /\ saved' = m_value
    /\ ManualEnds
    /\ UNCHANGED << level, commands >>
    /\ ManualKeeps

ManualRuns == ManualOff \/ ManualOn \/ ManualSyncReads \/ ManualSyncSaves

-----------------------------------------------------------------------------
(* The world *)

\* The keys of the ESP32, which work on a dark panel too.
UserSetsLevel ==
    /\ level' \in (Levels \cup {0}) \ {level}
    /\ touched' = TRUE
    /\ UNCHANGED << g_pendingDisplayState, g_workEvent, g_stopEvent, events,
                    registered, g_displayAssumedOn, threadVars, manualVars, saved,
                    link, announced >>

LinkChanges ==
    /\ link' = ~link
    /\ UNCHANGED << g_pendingDisplayState, g_workEvent, g_stopEvent, events,
                    registered, g_displayAssumedOn, threadVars, manualVars,
                    panelVars, announced, touched >>

Init ==
    /\ g_pendingDisplayState = NoState
    /\ g_workEvent = FALSE
    /\ g_stopEvent = FALSE
    /\ events = "none"
    /\ registered = FALSE
    /\ g_displayAssumedOn = TRUE
    /\ main = "create" /\ worker = "none" /\ handler = "idle"
    /\ attempt = 0 /\ restore = 0
    /\ manual = "none" /\ m_attempt = 0 /\ m_value = 0 /\ commands = 0
    /\ saved \in Levels
    /\ level \in Levels \cup {0}
    /\ link = TRUE
    /\ announced = On
    /\ touched = FALSE

Next ==
    \/ Worker \/ ServiceMain
    \/ PowerSettingChange \/ SignalsWorker \/ StopControl
    \/ ManualStarts \/ ManualRuns \/ UserSetsLevel \/ LinkChanges

Spec == Init /\ [][Next]_vars

\* Windows schedules every thread; a wait with a timeout ends.
FairSpec ==
    /\ Spec
    /\ WF_vars(Worker) /\ WF_vars(ServiceMain)
    /\ WF_vars(SignalsWorker) /\ WF_vars(ManualRuns)
-----------------------------------------------------------------------------
(* What the service keeps true *)

\* Every variable keeps its type: the saved level is never a dark one, and no
\* loop tries more often than it says.
TypeOK ==
    /\ g_pendingDisplayState \in {NoState, Off, On, Dim}
    /\ g_workEvent \in BOOLEAN /\ g_stopEvent \in BOOLEAN
    /\ registered \in BOOLEAN /\ g_displayAssumedOn \in BOOLEAN
    /\ link \in BOOLEAN /\ touched \in BOOLEAN
    /\ events \in {"none", "open", "closed"}
    /\ main \in MainAt /\ worker \in WorkerAt /\ handler \in {"idle", "signal"}
    /\ attempt \in Nat
    /\ worker = "off" => attempt \in 1..OffTries
    /\ worker = "on" => attempt \in 1..OnTries
    /\ restore \in Levels \cup {0}
    /\ manual \in {"none", "off", "on", "sync", "save"}
    /\ m_attempt \in Nat
    /\ manual = "off" => m_attempt \in 1..OffTries
    /\ manual = "on" => m_attempt \in 1..OnTries
    /\ m_value \in Levels \cup {0}
    /\ commands \in 0..MaxManual
    /\ saved \in Levels /\ level \in Levels \cup {0}
    /\ announced \in {Off, On, Dim}

\* A queued state is never left lying: either its event is set or the worker
\* is about to take it, however the store, the signal, the wait and the
\* exchange interleave (QueueDisplayState, WorkerThreadProc).
NoLostWakeup ==
    g_pendingDisplayState # NoState /\ handler = "idle" /\ events = "open" =>
        g_workEvent \/ worker = "take"

\* Nobody else touches the panel, and the service is not stopped.
Alone == []( commands = 0 /\ ~g_stopEvent /\ main # "report" )

\* A display Windows leaves off goes dark and stays dark, but for the user's
\* keys, although OFF may
\* have come while the worker was reading, or busy with an ON before it; the
\* link must work while OFF is written, at other times it may not
\* (HandleDisplayOff).
OffGoesDark ==
    Alone /\ [](worker = "off" => link) /\ <>[](announced = Off) =>
        <>[](level = 0 \/ touched)

\* A display Windows switches on and leaves on is lit in the end, whatever
\* came before (HandleDisplayOn).
OnLights ==
    /\ Alone
    /\ [](worker = "on" => link)
    /\ <>(g_pendingDisplayState = On /\ [](announced = On))
    => <>[](level # 0 \/ touched)

\* "Keep the restore level synchronized with Fn-key changes": the level the
\* user leaves on a display that is on becomes the saved one
\* (WorkerThreadProc, CacheBrightnessIfAvailable).
LevelIsAdopted ==
    Alone =>
        \A value \in Levels :
            <>[](announced = On /\ link /\ level = value) => <>[](saved = value)

\* A stop ends the worker and the service, whatever either was doing
\* (ServiceControlHandler, ServiceMain).
StopEnds == g_stopEvent ~> main = "ended" /\ worker \in {"exited", "killed"}
=============================================================================
