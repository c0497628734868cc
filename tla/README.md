# Formal models of the HDMI/DisplayPort backlight bridge

A laptop panel is driven through an HDMI or DisplayPort converter.  An ESP32-C3
sits on the converter's DDC bus, answers EDID and DDC/CI requests in software,
watches the keyboard matrix for Fn+F9/F10 and drives the panel's backlight with
PWM.  On the laptop a Windows agent turns the system's display, power and
session notifications into DDC/CI writes of the brightness.  Nothing else
connects the two: if either loses track of what the other did, the only panel of
the machine is black, or lit in a closed bag.

This directory models both ends in TLA+, and the two wires between them.  It says
what each part does, checks it on small instances with TLC, and proves with TLAPS, for all values of the
parameters, every safety property that those checks find to hold.

- [Inventory](#inventory): the components, their state and what can go wrong
- [Modules](#modules): what models what
- [Runs](#runs): what is checked, on which bounds, under which fairness
- [Proofs](#proofs): what holds for every value of the constants, and why
- [Findings](#findings): where the code does not do what its documents say
- [Not modelled](#not-modelled) and [Plan](#plan): what is left out, and what would extend the models

## Inventory

Source paths are relative to `src/`; `main.c`, `ddcci.c`, ... are in
`ESP32/main/`, and "the agent" is `Windows/Esp32DisplayPowerBridge.cpp`.

### Firmware control loop (`main.c`)

State: the remembered level, the fade's target and rate, whether D6 is on,
whether the keyboard chose 0%, the fade's clock, the bus guard's stamp and flag.
One task runs an endless loop: take a brightness from the VCP store, take a power
mode, service the keyboard, apply the two key events, look whether the laptop
holds both DDC lines low (then cut the PWM), otherwise move the fade, sleep a
tick.

It shares the VCP store with the software I2C interrupt, which handles a whole
transaction with interrupts masked (milliseconds) and may fall between any two
instructions of the loop.  There is no lock.

Correct means: the fade only heads for the remembered level or for dark; while
D6 is off, or the keyboard chose 0, it heads for dark; a dark level is never
remembered; no elapsed time becomes a visible jump; a cut bus stays dark; what
the host reads back is what the loop acts on; a requested change is eventually
completed.

### DDC/CI VCP store (`ddcci.c`)

State: VCP 0x10 and 0xD6, each with an "update pending" flag, and the packet
buffers.  Set VCP, in the interrupt, clamps and stores; the loop takes a value in
two steps, read and clear.  Correct means no value is lost, and Get VCP agrees
with the loop.

### PWM driver (`backlight_pwm.c`)

State: the recorded percentage and the LEDC duty.  Either of the two LEDC calls
may fail.  Correct means the record is the percentage of what is lit.

### Software I2C slave (`soft_i2c.c`) and EDID EEPROM (`edid_eeprom.c`)

State: while a transaction runs, the locals of `run_transaction`; between
transactions only the pending bit of the SDA interrupt.  The EEPROM keeps a
pointer and whether the next byte written is one.  A START interrupt polls the
two pins until STOP or a timeout and calls the addressed device's `begin`,
`write_byte`, `read_byte`, `read_advance`, `end`.

Hard: the slave shares SDA with the master and must let go of it in time; a START
may come while the handler returns; the master may fall silent between any two
edges and go on later; the laptop may lose power and leave the lines anywhere,
while the handler has interrupts masked.  Correct means that the slave pulls SDA
only in its own slots, that what it acknowledged is carried out and what it sends
is true, that nothing damaged changes a setting, and that a laptop that vanished
gives the CPU back.

### Keyboard decoder (`keyboard_matrix.c`)

State: for each of three keys the stamp of the last hit, the hits in a row and
"pressed"; for each of two combinations an event and a repeat deadline.  Five
edge interrupts pair the falling edges of scan and sense lines, count hits at the
scan period, and set "pressed"; the loop times out releases and produces one-shot
events with auto-repeat.

Hard: handlers run between any two instructions of the loop; an I2C transaction
masks both for milliseconds, and edges served late find the lines changed; F9 and
F10 share a sense line, and the scan has a state with all lines low.  Correct
means only a held key is pressed, a held key stays pressed, no event comes from
released keys, and a held combination repeats at its rate.

### Interactive agent

State: the globals of one process (display on, dimmed and the DIM level applied,
waiting for the user, lid closed, session ending; the prediction and its
stamps; the pending restore), three registry values that outlive it (the saved
level, the DIM marker, the learned DIM-to-OFF interval) and `settings.ini`.
A hidden window's message loop handles display notifications, suspend, resume,
lid, user presence, session end, a hotkey, and a 100 ms timer.

- DIM: save the user's level, write a fraction of it, note that this level is
  the agent's own, and time the interval to OFF.
- Prediction: when the interval was learned, write 0 ahead of Windows' OFF; take
  it back if Windows does not confirm.
- ON and resume: restore the saved level, with up to 20 attempts, unless the
  panel shows a visible level that is not the agent's own, which is adopted.
- OFF, suspend, lid-close: write 0.  While the session ends: write nothing.

Hard: every DDC call takes time and may fail; the keyboard changes the panel
behind Windows' back between a read and the write based on it; the process may
die between any two calls; notifications come in orders nobody chose.
Correct means: the DIM level is never taken for the user's; the panel is dark
when Windows says off and lit when it says on; a prediction is only made after a
DIM and is taken back; shutdown never blanks; a laptop that slept stays dark until
somebody comes; only undisturbed intervals are learned.

### Legacy service and manual commands

State: one queued display state, two events, the worker's belief that the display
is on, and a count of DDC tries.  `ServiceControlHandler` stores a display state
and signals the worker; the worker takes it, writes 0 (three tries) or the saved
level (twenty), and polls the level every two seconds; `ServiceMain` starts both,
waits for the stop event, joins the worker and closes the handles.  `--off`,
`--on` and `--sync` do the worker's operations from another process.

Hard: three threads, a state that is overwritten while the worker is busy, and a
stop at any moment.  Correct means no state is left lying, the last OFF is carried
out, the last ON is, the level the user leaves is the one that is saved, and a
stop ends everything.

### The rest

Monitor discovery and the cached DDC handle (Win32 enumeration), the log, the
installation scripts, the build output.

## Modules

| module | models |
|---|---|
| `DdcMailbox` | the VCP store: what Set VCP and the loop's accessors do to it |
| `BacklightPwm` | the PWM driver, with failing calls |
| `Firmware` | the loop of `main.c` over both, the interrupt and the wires; all its properties |
| `Panel` | what the firmware promises about the light, without mailbox, clock and program points |
| `FirmwareProofs` | theorems about `Firmware`: types, goal, duty, cut, off, the refinement of `Panel`, the mailbox, the pace of the fade |
| `MCFirmware` | constants of its runs |
| `KeyboardMatrix` | the edge handlers, the service call, the laptop's scan and the user's fingers |
| `KeyboardProofs` | theorems about `KeyboardMatrix` |
| `EdidEeprom` | the callbacks of the EDID device |
| `DdcCi` | the callbacks of the DDC/CI device: packets into and out of `DdcMailbox` |
| `SoftI2c` | the bit engine over both devices: one action per iteration of its loop |
| `DdcBus` | the master on the other end of the wires, its faults; all properties of the bus |
| `VcpDevice` | what the bus promises: whole messages, or nothing |
| `MCDdcBus` | the transfers the master plays |
| `DdcBusProofs` | theorems about `DdcBus`: types, and slave and master in step |
| `DdcDeviceProofs` | the bus implements `VcpDevice` |
| `DdcHostProofs` | what the master may rely on: what is acknowledged is stored, what is read is true |
| `PowerAgent` | the agent, the registry, the panel it writes to, and Windows |
| `MCPowerAgent` | constants of its runs |
| `PowerAgentProofs` | theorems about `PowerAgent`, over any link |
| `PowerAgentLinkProofs` | theorems about `PowerAgent` over a link that works |
| `LegacyService` | the service's three threads, the manual commands, the panel |
| `LegacyServiceProofs` | theorems about `LegacyService` |

How they fit together: `Firmware` takes a transaction to be one step on the
mailbox.  `DdcBus` shows that it may: the bus, edge by edge, implements
`VcpDevice`, whose steps on the mailbox are the ones `Firmware` has
(`SetVcpBrightness` and `SetVcpPowerMode` of `DdcMailbox`, extended by both).
Likewise `Firmware` takes any key event at any pass; `KeyboardMatrix` says which
ones there are.  `Firmware` in turn implements `Panel`, which is the panel the
agent writes to: a level and a light that follows it.

### `Firmware`

The loop's body is cut wherever it touches something the interrupt or the wires
touch; each piece is an action, and `pc` names the next.

| piece (`pc`) | code |
|---|---|
| `takeBrightness`, `clearBrightness` | the two halves of `ddcci_take_brightness_update`, the second with `apply_brightness_request` |
| `takePower`, `clearPower` | the same for D6 and `apply_power_mode` |
| `keys` | `keyboard_matrix_service`: any of the two events may come up |
| `down`/`downSet`, `up`/`upSet` | `apply_keyboard_brightness_step`: read the level, write the next rung |
| `guard`, `guardPins` | `ddc_bus_low_service`: sample the clock, then the pins |
| `fade` | `brightness_service` |
| `sleep` | `vTaskDelay(1)` |

A transaction is one action (`HostSetsBrightness`, `HostSetsPower`, `HostReads`),
because the interrupt masks everything else for its whole length; it may be
enabled before any piece (`InterruptPoints`).  `LinesChange` is the laptop
pulling both lines down or letting go, at any moment.

Abstractions.  Time stamps are kept as ages, in a unit of which `Second` make a
second; a stamp of 0, which the code uses for "none", is `NoStamp`.  The age of
the fade's stamp stops at `MaxAge`: it only gets there while the guard holds the
PWM, and the release writes it afresh.  `MaxStall` bounds the time transactions
take from one pass of the loop.  In `apply_brightness_request` and
`set_target_brightness` the clamps of values that are already in range and of a
zero rate are left out; the ladder's second constant, 10, is the step.

### `KeyboardMatrix`

The unit of time is one scan of the matrix (5 ms), in which every key has a slot.

| action | code |
|---|---|
| `Scan` | the five handlers, for all slots of a scan that fall in the loop's sleep; a transaction may hide some of them |
| `Edge` | the same for one key whose slot falls between the loop's sample of the clock and the end of its pass |
| `Transaction` | masks handlers and loop for whole scans |
| `Sample`, `update_release`, `ServiceCombos` | `keyboard_matrix_service` |
| `Take` | `keyboard_matrix_take_brightness_down`, `..._up` |
| `Finger` | the user |

Stamps are ages; the code's unsigned subtraction of a stamp later than the sample
is what `Expired` says of the keys in `late`.  A hit is decided by the levels of
the lines (`PairSeen`), which the model derives from the keys that are down and
from which KSO lines are low; the microsecond windows that pair the two edges of
one slot and drop the third are abstracted to one hit per slot.  The count of
hits is capped at the number that matters instead of 255.  `missed`, `seen`,
`since` and `lapsed` are history.

### `SoftI2c`, `DdcCi`, `EdidEeprom`, `DdcBus`

`eng` is the record of the locals of `run_transaction`, `previous` the lines at
the last iteration, `latch` the output latch of SDA, `interrupt` its pending bit,
`idle_spins` the iterations in a row in which no pin has moved.

| action | code |
|---|---|
| `Start` | `start_isr` and the check at the top of `run_transaction` |
| `SeesRepeatedStart`, `Resample` | 183-201; the fresh sample is a step of its own |
| `SeesStop`, `SeesRise`, `SeesFall`, `SeesData` | the other edges; `Rise` and `Fall` are the two switches |
| `Spin` | 153-169: no pin has moved, and not for long enough |
| `SeesOtherPin` | 172-178: a pin that is neither SDA nor SCL has moved; the count starts again, and nothing else changes |
| `Timeout` | 153-167: both silence limits |
| `Finish` | 413-421, 435: the pending bit is cleared, whatever set it |

The master plays scripts: sequences of transfers, each with what it writes, how
much it reads, and whether a STOP or a repeated START closes it.  Packets are
real bytes with real checksums, as whether a damaged packet is refused depends on
them.  The master makes no edge before the slave's loop has seen the last one:
the loop polls far more often than a 100 kHz clock moves.  Where the code looks away longer than that, the master is free: while
an interrupt waits to be served, while the handler returns, between a repeated
START and the fresh sample, and the data edge right after a falling clock.

`ScriptsAssumption` says what a script may be: a transfer reads or writes after
its address, never both, and a script ends with a STOP.

Faults: an early edge in one of these windows (only where `MayBeEarly`); a silence longer than the slave
waits, after which the master goes on; the laptop's disappearance, after which
the lines drop and rise in any order.  A laptop that vanishes one bit before the
end of a packet may complete it by the drop and the rise of its lines, a clock and
a STOP; the model has that, and the history variable `wire` admits it.

`AckedIsStored` looks at a slave at rest while no other transfer to it is under
way.  Under way, a second message may already have been carried out without the
master's having seen its last acknowledge bit: the slave stores when the transfer
ends, and a silence before that bit's clock ends it.

`wire`, `last` and `at` are what the master knows: the message wholly clocked out,
the message that must have been carried out last, where the EDID pointer must be.

### `LegacyService`

One action per step of a thread between accesses to what others share; a DDC
access is one step.  `main`, `worker` and `handler` say what each thread does next.
A worker that outlives the five-second join goes on until the process ends
(`killed`): its waits fail, as the handles are closed, and it spins.  `touched` is
history: a key has changed the level since Windows' display state last changed.

### `PowerAgent`

Handlers are cut after each DDC call (`pc`; `idle` is `GetMessage`).  The panel
is VCP 0x10 as the ESP32 holds it.  `Key` may change it at any moment; `Crash`
may end the process at any piece in `CrashPoints`; each DDC call succeeds or
fails by `DdcResults`.  `Start` is `RunInteractiveAgent` up to the message loop.

| actions | code |
|---|---|
| `DisplayOn/Off/Dim/Ignored`, `OffWrite`, `DimCache`, `DimWrite`, `DimSave` | `AgentApplyDisplayState` |
| `RestoreRead`, `RestoreWrite` | `AgentTryRestoreOnce` |
| `Suspend`, `ResumeAutomatic`, `ResumeSuspend`, `ResumeCritical`, `UserPresent`, `LidClosed/Opened` | `WM_POWERBROADCAST` |
| `QueryEndSession`, `EndSessionCancelled`, `Hotkey` | the other messages |
| `TimerTick`, `TickPredict`, `PredictWrite`, `TickConfirm`, `ConfirmWrite`, `ConfirmNormal`, `TickFallback`, `TickRestore`, `TickCache` | `AgentTimerTick`, in its order |

Abstractions.  Handlers take no time; time passes in `GetMessage` (`Elapse`).
The three immediate retries of an OFF write are one write that may fail, and the
cached handle is part of whether a write works.  `g_agentWasSuspended` is only
ever written and is left out.  `SM_SHUTTINGDOWN` and the agent's own latch are
one flag, `ending`.  Settings are the values after clamping.  When
`SessionNotify` is false, `DisplayOn`, `DisplayOff` and `DisplayDim` are the
console and monitor fallbacks, which do not count as authoritative; the runs use
TRUE, the normal registration.  Windows is `windows` (what it notified last) and
`wake`; it promises nothing about order.  `chosen`, `touched`, `interrupted` and
`absence` are history variables: no action's guard reads them.

`absence` says whether somebody is there: "none" until a suspend and again from
`ResumeSuspend`, `ResumeCritical`, `UserPresent` or `Hotkey` on, and from the startup
fallback, which counts as presence; in between "heeded" if this process went dark for
the suspend, "missed" if it ignored the suspend because the session was ending or was
not running (a crash makes the one the other).  `ResumeCritical` may come at any
moment, without a suspend before it, and `Start` in an unattended resume too: the logon
task asks nobody.

## Runs

| run | checks | result |
|---|---|---|
| `firmware_goal` | `TypeOK`, `GoalCoherent`, `DutyTracksPercent`, `OffNeverBrightens`, `ImplementsPanel` | hold |
| `firmware_windows` | `MailboxCoherent`, `BusCutHolds`, `NoJump`, `FadeCompletes`, `OffEventuallyDark`, `OnEventuallyLit` | hold |
| `firmware_lost` | `ChangesWhileOffAreRemembered` | violated |
| `agent_safety` | `TypeOK`, `NoBlackoutWhileEnding`, `NoLightWhileNobodyThere`, `PredictsOnlyAfterDim`, `LearnsOnlyCleanCycles` | hold |
| `agent_recovers` | `SavedIsChosen`, `DarkWhenOff`, `LitWhenOn`, `PreOffResolved` | hold |
| `agent_hotkey` | `SavedIsChosen` | violated |
| `agent_crash` | `PreOffTakenBack` | violated |
| `agent_shutdown` | `LitWhenOn` | violated |
| `keyboard` | `TypeOK`, `PressedIsHeld`, `HeldStaysPressed`, `EventsAreFresh`, `RepeatsUnlessLapsed`, `HeldKeepsStepping` | hold |
| `keyboard_held` | `RepeatsAtRate` | violated |
| `bus` | `TypeOK`, `DrivesOnlyItsSlots`, `AckedIsStored`, `ReadsAreTrue`, `ImplementsVcpDevice`, `SilenceFreesCpu` | hold |
| `service` | `TypeOK`, `NoLostWakeup`, `OffGoesDark`, `OnLights`, `LevelIsAdopted`, `StopEnds` | hold |

### Firmware bounds

The ladder has the rungs 0, 1, the step, and the maximum (0, 1, 2, 4 or 0, 1, 4,
8), one of each kind the code tells apart: dark, the lowest visible level, the
regular step down to the lowest full rung, the clamped top.  Host values are a 0,
a visible level and one beyond the maximum; the D6 values are on, two kinds of
off, a value whose low byte is 1, and an invalid one.

- `firmware_goal` lets a transaction fall before every piece and every PWM write
  fail.  It leaves the bus guard out.  600,000 states.
- `firmware_windows` adds it: both lines go down and up at any moment.  The fade is
  slower than the loop with the keyboard's rate (half a percent per unit, so
  the carried fraction matters) and faster with the host's.  The maximum age
  leaves a cut long enough for a jump of the whole range, had the release not
  restarted the clock.  Transactions fall anywhere but into four windows: between
  the loop's read of a VCP value and the clearing of its flag, and between a key
  step's read of the level and its write.  What Get VCP reports agrees with what
  the loop does only outside these, as `firmware_lost` shows.  1,100,000 states.

Fairness: `WF_vars(Loop)`.  The loop is the only application task, every call in
it returns, and `vTaskDelay(1)` ends with the next tick.  That the interrupt gives the
CPU back is `SilenceFreesCpu` of the bus, with its premise.  Nothing is assumed of
the host or of the wires: liveness properties have "eventually nothing more is
requested and the lines are free" (`Quiet`) as a premise.

### Agent bounds

Levels 0 to 4 with a DIM level of a half (or equal to the saved one, by the
second settings record), one other level a key can choose, two restore attempts
instead of twenty, one learned sample, and a clock that distinguishes before,
at and after each deadline.  One prediction delay, a fallback interval and a
learning range of two values are enough to make a learned interval, one out of
range, and a recomputation on reload.

- `agent_safety`: every kind of event in any order, any DDC call may fail, the
  process may die before any piece.  2,600,000 states.
- `agent_recovers`: display notifications, suspend and resume, keys, edits of the
  settings, and deaths between messages, over a link that works.  The lid, the
  hotkey and a cancelled shutdown are left out: for the hotkey and for the
  shutdown see the findings, and an opened lid deliberately restores nothing.

Fairness: weak for the pieces of a handler (the thread runs) and for `Start`
(`install_agent.ps1` registers a logon task that is restarted every minute, 999
times); strong for `Elapse` and for `TimerTick`, because other messages disable
them again and again, but `WM_TIMER` is delivered whenever the queue is empty and
Windows does not send notifications without a pause.  `LitWhenOn` has the
premises that the agent stays, that Windows' display stays on in an attended
session, and that the session is not ending.

`NoLightWhileNobodyThere` counts only the agent's own writes, and only while `absence`
is "heeded": of a process that ignored the suspend, or was started after it, the code
does not keep it (see the findings).  `DarkWhenOff` excepts a panel
that the keyboard has touched since it was written to 0.

### Keyboard bounds

Two hits instead of three press a key, the release time is two scans instead of
six, and 400 and 150 ms are three and two scans: every deadline is longer than a
scan and the release time longer than the scan period, as in the code.  The two
F keys move, Fn is held (or may move, by `Fingers`).  A transaction takes two
scans, the release time, so that it alone can release a key; one transaction and
one edge fall in each pass.  916,000 states.

Fairness: `WF` of the scan, as the laptop's keyboard controller scans as long as
it is awake, and of the loop.  `HeldKeepsStepping` has the premise that
transactions and edges within a pass do not disturb the combination for ever.

### Bus bounds

Six scripts, any two one after the other, so that whatever one leaves behind the
next can trip over: Set VCP of a level beyond the maximum and of a power mode, with
sound, damaged, truncated and overlong packets; Get VCP of both, with replies read
whole, beyond their end, in part, and not at all; an empty write; two Set VCPs of the
same code in a row, the second with a byte that could pass for the EEPROM's address;
EDID reads that
wrap at 256, after a transfer to the other device, and after a pointer write with
data; an address nobody has.  Transfers are closed by STOP or by a repeated START.
One fault falls anywhere.  `DDCCI_RX_MAX` is 7, the size of a Set packet, instead
of 32, so that the buffer is filled exactly and exceeded; the EDID table has the
real first bytes.  A bus at rest is given up at the second iteration that sees no pin
move, one with both lines low at the first (1,000,000 and 250,000 more in the code), so
that the count has something to lose when another pin moves.  1,370,000 states.

Fairness: `WF` of the slave, which polls with interrupts masked: it reacts, or it
counts (`Slave \/ SlaveWaits`).  `SilenceFreesCpu` has the premise `OtherPinsRest`:
from some point on no pin that is not the bus's moves.  That is the laptop that powers
off of the comment at `soft_i2c.c:17-22`: it scans its keyboard no more.  The loop
compares the whole input register, so that while an awake laptop moves the keyboard's
lines the count starts again every few milliseconds; without the premise TLC refutes the
property, by `Spin` and `SeesOtherPin` in turn (see the findings).  Nothing is
assumed of the master; a run's master stops for good at any point it likes, which
is why the run does not check for deadlock.

### Service bounds

Two levels, two tries of each write, one manual command, a link that fails and
recovers at any moment, and keys that set any level at any moment.  250,000
states.  The service ends, so deadlock is not checked.

Fairness: `WF` of each thread, as Windows schedules all of them and the worker's
wait has a timeout.  Nothing is assumed of Windows, of keys, of the link, nor that
a manual command is ever given.  `OffGoesDark`, `OnLights` and `LevelIsAdopted`
are about a service nobody stops, with no manual command, and a link that works
when the write in question is made (OFF gives up after three tries in 60 ms).

## Proofs

Every theorem below holds for every value of the constants that satisfies the
assumptions of the modelled module, and the hypotheses the theorem names.  The
assumptions are the code's: `PwmAssumption`, `FirmwareAssumption`,
`KeyboardAssumption`, `AgentAssumption` and `ServiceAssumption` say that limits
and deadlines are what the sources' constants are relative to each other; for the bus, `BrightnessMaxAssumption` and `EdidAssumption`
say that the maximum and the table fit bytes, and `ScriptsAssumption` that the
packet buffer holds a Set packet and that the master sends messages as MCCS
frames them.  No theorem bounds ages, rates, tries, notifications, transfers or
failures.

| theorem | statement | hypothesis |
|---|---|---|
| **firmware** | | |
| `TypeCorrect` | `Spec => []TypeOK` | |
| `GoalAlwaysCoherent` | `Spec => []GoalCoherent` | |
| `DutyAlwaysTracks` | `Spec => []DutyTracksPercent` | |
| `CutAlwaysHolds` | `Spec => []BusCutHolds` | |
| `OffStaysDark` | `Spec => OffNeverBrightens` | |
| `Implements` | `Spec => ImplementsPanel` | |
| `MailboxIsCoherent` | `Spec => []MailboxCoherent` | `WindowsClosed` |
| `NoJumps` | `Spec => NoJump` | `RatesAreWhole` |
| **keyboard** | | |
| `TypeCorrect` | `Spec => []TypeOK` | |
| `HeldKeysStayPressed` | `Spec => HeldStaysPressed` | |
| `NoStaleEvents` | `Spec => EventsAreFresh` | |
| `PressesAreHeld` | `Spec => PressedIsHeld` | `OneScan` |
| `RepeatsKeepTheRate` | `Spec => RepeatsUnlessLapsed` | `InitialIsLonger` |
| **bus** | | |
| `TypeCorrect` | `Spec => []TypeOK` | |
| `InStepAlways` | `Spec => [](IInv /\ Following)` | `EarlyAlone` |
| `PullsOnlyItsSlots` | `Spec => []DrivesOnlyItsSlots` | `EarlyAlone` |
| `Implements` | `Spec => ImplementsVcpDevice` | `EarlyAlone` |
| `AckedAreStored` | `Spec => []AckedIsStored` | `EarlyAlone` |
| `ReadsAlwaysTrue` | `Spec => []ReadsAreTrue` | `EarlyAlone` |
| **agent** | | |
| `TypeCorrect` | `Spec => []TypeOK` | |
| `NoBlackout` | `Spec => NoBlackoutWhileEnding` | |
| `NoLight` | `Spec => NoLightWhileNobodyThere` | |
| `PredictsAfterDim` | `Spec => PredictsOnlyAfterDim` | |
| `LearnsCleanly` | `Spec => LearnsOnlyCleanCycles` | |
| `OffIsDark` | `Spec => []DarkWhenOff` | `WorkingLink`, `NoShutdown` |
| `SavedWasChosen` | `Spec => []SavedIsChosen` | `WorkingLink`, `Unhurried` |
| **service** | | |
| `TypeCorrect` | `Spec => []TypeOK` | |
| `NoWakeupIsLost` | `Spec => []NoLostWakeup` | |

Each rests on an inductive invariant, which TLC checked on a run before it was
proved; `Invariance`, `Typing`, `Settled` and `InStepAlways` are the theorems
that say it always holds.

### Firmware

`IInv` adds three conjuncts to the properties.  `LocalInv` says what the loop's
copy of a mailbox value is between reading and using it (`GoalCoherent` would not
survive `clearBrightness` or `upSet` otherwise): the interrupt cannot change the
copy, so its range at each `pc` is all that is needed.  `GuardInv` bounds the ages
by the time transactions may take from one pass, which is why `now_age` stays a
legal stamp.  `CutInv` ties the cut flag to the pieces that may run under it: the
fade is never reached with the flag set, so nothing relights the panel.

`OffStaysDark` then needs only that `percent_to_duty` is monotone (lemma
`DutyMonotone`, from bounds on integer division) and that while D6 is off the
target is 0.  `Implements` maps the loop's state to `Panel` variable by variable
and shows for each piece that it is one `Panel` step or a stutter; the fade needs
`TowardsBetween`, that a step never passes the goal.

`MailboxIsCoherent` has the hypothesis of the run: no transaction falls into the
four windows.  `MailboxInv` says that the loop's copy is then the value itself
(`CopyInv`) and that a value that no longer waits has been applied
(`PowerApplied`, `LevelApplied`).

`NoJumps` says that a fade step spends no more than the time since the last one.
`PaceInv`: unless the PWM is cut, the stamp is no older than a carry of less than
one percent and the time of one pass.  `RatesAreWhole` says that a percent takes
a whole number of clock units at either rate, or a clock unit is a whole number
of percents.  It holds of the code's 200 and 50 percent per second, which are
5000 and 20000 microseconds; otherwise the carry may exceed a percent by the unit
that the code's division drops.

### Keyboard

A step does one of four things to a key: nothing, a hit, time passing, a release
(`KeyStep`); what is to be shown of keys is shown of these four.  `IInv` bounds a
stamp's age by the slots missed since (`MissedInv`), says that the loop's sample is
only older than now after a transaction of this pass (`ClockInv`), and that a key
that passed `update_release` was then hit within the release time (`FreshInv`);
`NoStaleEvents` is `FreshInv` at the combinations.  `HeldKeysStayPressed` is
exact: a held key is released only after the release time without a hit, or if
its hit came between the loop's sample and its look, the defect of
`keyboard_held`.

`PressesAreHeld` needs `OneScan`, `SCAN_MAX < 2`: with a window of two scans, a hit
may follow a hit over a slot that was missed, and TLC finds a key pressed whose
slots in a row were not all seen.  The code's window of 3.5 to 7.5 ms holds one
scan of 5 ms.  `RepeatsKeepTheRate` needs the initial delay to be no shorter than
the interval (400 and 150 ms in the code): TLC refutes it for 1 and 2.

### Bus

The slave keeps no clock and sees only edges, so everything rests on its being in
step with the master.  `Listening(n)` says what the slave's locals are when it has
seen the edge that begins slot n: the state, the count of bits, which half of an
acknowledge bit, the direction, and that `latch` pulls only if the slot is the
slave's.  `Following` says, for each phase of the master, how far behind the slave
may be: it has seen everything, or all but the last edge, or the falling clock but
not the data that followed it.  `Typing` is the type invariant with what a script
is and what the master holds the lines at; that packets never outgrow their
buffer, and replies are bytes, comes from it.

Iterations that see no edge of the bus change only `idle_spins` (lemma `Waiting`), so
the proofs speak of the other steps, `Act`, and of `busVars`.

`EarlyAlone` says how many faults there may be.  In a run without early edges
(`MayBeEarly` false) any number: silences and disappearances keep the slave in step, or
out of the transfer altogether.  In a run that has early edges, a single fault in all,
be it an early edge, a silence or a disappearance.  A silence and an early edge in the
same run are too much: see the findings.

`Implements` has to show that bytes which pass `request_packet_valid` when a
transfer ends, however it ends, are the message that the master has wholly clocked
out (`Carries`).  `HInv` says why.  While the slave follows a transfer, what it has
collected is a prefix of what is sent, the byte under way has the bits of the
next one (`Content`), and the whole is there only once the master has clocked the last
bit (`Clocked`).  Of such bytes only the message itself is a valid packet
(`TakesOnlyWhole`): the length byte refuses a packet that is cut or overlong, the
checksum a damaged one, since damage changes the byte that seals it.  A
laptop that vanishes may clock in one more bit, of either value, as its lines drop
and rise; that bit may complete a packet, and then it is the whole message too
(`NextCarries`).  The step at which the packet is decoded is then `CarryOutSet`
or `CarryOutGet` of the message on the wire, and lemmas on the bytes of packets
(`SoundFields`, `ValueFields`) say that the same code, value and reply come out.

`AckedAreStored` and `ReadsAlwaysTrue` are the other direction: not that the device
does no more than the master said, but that it does all of it.  `RInv` has
six parts.

- `Settling`: the message in `last` is *settled* when the mailbox has its value
  and the reply to it is ready or will be made up, and *owed* while the device still
  holds the whole packet and has not seen the transfer end.  `Owed` holds from the
  rise of the last acknowledge bit, `Settled` from the slave's STOP, repeated START or
  timeout on, and `Settling` says at every point of the bus which of the two is due.
  The rise is where the master decides (`Known`), an edge before the fall where `last`
  is written; `ConcludingRise` shows that an acknowledge bit the slave pulls low means
  that every byte of the packet is in `s_rx`.
- `Heard`: somebody who has acknowledged the address stays in the loop unless a
  silence made him give up, and neither the EEPROM nor anybody who is read is ever
  ignored.
- `Output`: the bit on the latch is the bit of `read_byte` that the count of bits
  names, before and after the rise.
- `Serving`: the reply's index, the EDID pointer and the master's slot count the same
  bytes (`Moved`, `Counts`); the count moves on at the rise of the master's
  acknowledge bit in a read and of a byte's last bit in a write.
- `Pointing`: outside the data slots of a transfer with the EEPROM, the pointer is `at`
  or nobody claims to know it.
- `Orderly`: anything is known only on a bus that was left in order: a laptop that
  vanished, and whose lines may clock in whatever they like, leaves `Unknown`.

`AckedIsStored` is then `Settled(last)` at rest; `ReadsAreTrue` is `Output` and
`Serving` at the rise, and `Settled(last)` for what the reply must be.

### Agent

The pieces of a handler trust what its first piece has checked: that the session
is not ending, that nobody is waited for, that Windows said DIM.  `IInv` says it is
still so when the piece runs (`EndingInv`, `NobodyInv`, `CycleInv`), whatever the
link does and wherever the process dies.  `NobodyInv` says that a process that went dark
for a suspend waits, with no restore pending and no pre-OFF to be taken back, until
somebody comes; a suspend it ignored gives none of the three.  The four action properties follow from
it and from `WhatIsWritten`, a lemma that lists for every piece which levels it
may write.

`WorkingLink` is that DDC calls succeed and that the session notification is
registered; `NoShutdown`, that no session end is announced; `Unhurried`, that
there is no emergency hotkey and no death between a handler's pieces.  Each is
needed, and TLC shows it: with failing calls both properties are violated; with
the console fallback, the restore of the startup timer can fall in the middle of
a pre-OFF; with the hotkey or a death after the DIM write, the DIM level becomes
the user's; with a shutdown, a suspend writes nothing.  `SettledInv` says that
over such a link a restore is over before the next message.  `ChosenInv` says that
the agent can tell its own level from the user's: while it is dimmed, the marker
and the applied level are what it wrote, and the panel shows a level the user
chose, 0, or that one.

### Legacy service

`IInv` says what the worker and a manual command have read but not yet saved
(`ReadInv`), and how far `ServiceMain` is while there is no worker (`StartInv`):
where it fails to start one, nobody is left who would have to be woken.
`NoLostWakeup` is inductive with these: a queued state has its signal set, or
still to be set by the handler between the store and `SetEvent`, or taken by a
worker that has yet to look.

### Model-checked only

Liveness under fairness is beyond the installed provers, and stays with TLC:
`FadeCompletes`, `OffEventuallyDark`, `OnEventuallyLit`, `HeldKeepsStepping`,
`SilenceFreesCpu`, `LitWhenOn`, `PreOffResolved`, `OffGoesDark`, `OnLights`,
`LevelIsAdopted`, `StopEnds`.
What a recursive definition computes would need induction over data, which the
provers cannot do either; the models declare no RECURSIVE operator, and the
checksum is written as the eight-term sum over the bits of its bytes.

## Findings

1. `firmware_lost`: a Set VCP that falls between the loop's read of the value and
   its clearing of the flag (`ddcci.c:325-326`) is reported by Get VCP and never
   applied.  The same window exists for D6 (`ddcci.c:346-347`).
2. `agent_hotkey`: the emergency hotkey during a DIM forgets the DIM level before
   the restore reads it, so the DIM level becomes the user's.
3. `agent_crash`: an agent that dies after a pre-OFF comes back during the same
   DIM and takes it for a duplicate; the pre-OFF is never taken back.
4. `agent_shutdown`: a display ON during a shutdown that is then cancelled is
   dropped, and the panel stays black.
5. `keyboard_held`: an edge of a held key between the loop's sample of the clock
   (`keyboard_matrix.c:334`) and its look at the key (244) makes the unsigned age
   wrap: the key is released, pressed again by its next edge, and the combination
   steps a second time at once.  With both brightness keys held, the same lapse of
   one of them makes the other step, against the comment at
   `keyboard_matrix.c:344`.

Four more disagreements are not runs of their own; TLC shows each when the stated
premise or exception of a property above is dropped.

6. An edge of any input pin keeps a hung handler alive.  `soft_i2c.c:152` compares the
   whole of `GPIO.in` and 172 starts the count again, so with SDA and SCL silent and the
   keyboard's lines (GPIO 6, 7, 8, 10, 20) moving every 5 ms neither limit is ever
   reached, and the loop polls with interrupts masked until the laptop stops scanning or
   the interrupt watchdog (300 ms, `sdkconfig:1728`) resets the chip.  The comment at
   `soft_i2c.c:18-21` says "Exit the tight ISR polling loop quickly if the bus stops
   moving [...].  This keeps the CPU from reaching the interrupt watchdog".
   (`SilenceFreesCpu` without `OtherPinsRest`.)
7. With two faults the slave can acknowledge in a slot that is not its own.  TLC's
   trace, in a Set VCP of 80%, whose last byte but one is 0x50: a silence at the
   acknowledge bit before that byte makes the slave give up; the byte's first bit lets SDA
   fall and raises the interrupt, which is served only after the clock has risen.  SDA
   low and SCL high pass for a START (`soft_i2c.c:428-431`), the other seven bits for the
   EEPROM's address, and the slave pulls SDA where the master puts its STOP.
   (`DrivesOnlyItsSlots` with `MaxFaults` 2.)
8. A restore can outlive a suspend.  While the session ends, a hotkey or a resume still
   schedules a restore, and a suspend returns without cancelling it
   (`Esp32DisplayPowerBridge.cpp:1327-1329`).  `PBT_APMRESUMEAUTOMATIC` leaves it pending
   (1556-1560), and the timer writes a visible level (1310-1311) though 1557 has just
   logged "waiting for user-visible resume/presence".
   (`NoLightWhileNobodyThere` with `absence = "none"`, of a process that has
   `power.waiting`.)
9. An agent that the logon task restarts in an unattended resume does not know that it
   waits: the display ON it is sent at registration lights the panel, against 1426-1427,
   "do not light the panel merely because background power telemetry changed".
   (`NoLightWhileNobodyThere` with `absence = "none"`.)

Known and not a run: an OFF after a pre-OFF writes nothing
(`Esp32DisplayPowerBridge.cpp:1408`), even when a key has lit the panel in
between; `DarkWhenOff` excepts it.  In the service a DIM that arrives before the
worker has taken an ON overwrites it (775), and the panel stays dark until the
next ON; an OFF that comes while an ON is retried waits up to ten seconds for it.

Two smaller disagreements are not runs: `ESP32/main/README.txt` gives fade times
of 400 and 500 ms and GPIO4 where the code has 200 percent per second and GPIO5,
and `keyboard_matrix.c:23` gives GPIO9 for F10 where the code has GPIO20.

A death of the agent between the DIM write and the saving of its marker also
makes the DIM level the user's; this is why `SavedIsChosen` is checked for deaths
between messages.

## Not modelled

| part | why |
|---|---|
| monitor discovery, cached DDC handle | Win32 calls whose results the system decides; reduced to success or failure of each access |
| parsing and clamping of `settings.ini`, registry errors | input without decisions; settings are records after clamping, the saved level is always valid because `LoadSavedBrightness` makes it so |
| installation and recovery scripts | sequences of operations of the task scheduler and of the file system, without state of their own |
| `--probe`, the log, `s_stats` | output |
| two edges within one iteration of the polling loop | the model's master lets the loop see every edge; `soft_i2c.c:183` would take data and clock that rise within one iteration for a STOP |
| a running clock that reads exactly 0 | one microsecond in 71 minutes at which a stamp or deadline means "none" (`keyboard_matrix.c:110`, 240, 273) |
| build output, release copies | generated |

## Plan

Every safety property that a passing run checks is proved; what TLC alone checks is
liveness.

A composition of the agent with `Panel` instead of the single level it writes to
would add the fade to the agent's runs, and nothing either side can observe: the
agent reads VCP 0x10, never the light.  It is not planned.

## Running

    tlc -config MCFirmware_goal.cfg MCFirmware
    tlc -config MCDdcBus.cfg MCDdcBus
    tlc -config KeyboardMatrix.cfg KeyboardMatrix
    tlc -config LegacyService.cfg LegacyService
    for m in *Proofs.tla; do tlapm $m; done
