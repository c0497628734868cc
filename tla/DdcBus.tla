-------------------------------- MODULE DdcBus --------------------------------
(***************************************************************************)
(* The laptop's DDC master talking to the software I2C slave over two      *)
(* wires, edge by edge.                                                    *)
(*                                                                         *)
(* The master plays scripts: transfers, each a START, an address byte and  *)
(* bytes written or read, closed by a STOP or by the repeated START of the *)
(* next.  A slot is one clock of a transfer, nine to a byte, the ninth for *)
(* the acknowledge bit.  The master is slow: it makes no edge before the   *)
(* slave's loop has seen the last one, except where the code itself looks  *)
(* away: the fresh sample after a repeated START.  Faults: it may make an  *)
(* edge while an interrupt waits to be served or a handler to return; it   *)
(* may fall silent between any two edges for longer than the slave waits,  *)
(* and go on; the laptop may vanish, leaving the lines to drop and to rise *)
(* in any order.  After MaxFaults of them a silent master stays silent.    *)
(***************************************************************************)
EXTENDS SoftI2c

CONSTANTS
    INITIAL_BRIGHTNESS,
    Scripts,               \* what the master may play: sequences of transfers
    MaxTransfers,          \* bound: scripts played
    MaxFaults,             \* bound: faults, as above
    MayBeEarly,            \* it may make an edge the handler is not ready for
    Nothing, Unknown, Null \* values that are no message, pointer or reply

ASSUME BusAssumption ==
    /\ INITIAL_BRIGHTNESS \in Nat
    /\ MaxTransfers \in Nat
    /\ MaxFaults \in Nat
    /\ MayBeEarly \in BOOLEAN
    /\ Unknown \notin 0..255 \cup {Nothing}

VARIABLES
    script,                \* what is left to play, the current transfer first
    phase, slot, nack,     \* where the master is in it; it has seen a NACK
    transfers, faults,     \* scripts started, faults spent
    cut,                   \* history: the slave gave up during this transfer
    wire,                  \* history: the message wholly clocked out, or Nothing
    last,                  \* history: the message that must have been carried
                           \*   out last, Nothing if its reply is read, or Unknown
    at                     \* history: where the EDID pointer must be, or Unknown

hostVars    == << script, phase, slot, nack, transfers >>
historyVars == << cut, wire, last, at >>
busVars == << deviceVars, engineVars, sda, scl, hostVars, faults, historyVars >>
vars == << busVars, idle_spins >>

Phases == {"free", "between", "started", "low", "set", "high",
           "closing", "closeSet", "closeHigh", "gone", "return"}

-----------------------------------------------------------------------------
(* Messages and transfers *)

\* A message is what the host means; a flaw is what is wrong with its packet.
Message(op, code, value, flaw) ==
    [op |-> op, code |-> code, value |-> value, flaw |-> flaw]

Payload(m) ==
    CASE m.op = "get" -> << DDCCI_CMD_GET_VCP, m.code >>
      [] m.op = "set" -> << DDCCI_CMD_SET_VCP, m.code,
                            m.value \div 256, m.value % 256 >>

Framed(payload) ==
    Sealed(DDCCI_REQUEST_CHECKSUM_SEED,
           << DDCCI_HOST_SOURCE, 128 + Len(payload) >> \o payload)

\* The packet of a message, after the address byte.
Packet(m) ==
    LET sound   == Framed(Payload(m))
        padding == [i \in 1..DDCCI_RX_MAX - Len(Payload(m)) |-> 0]
    IN  CASE m.flaw = "none"     -> sound
          [] m.flaw = "checksum" -> Append(Front(sound), (Last(sound) + 128) % 256)
          [] m.flaw = "cut"      -> Front(sound)
          [] m.flaw = "overlong" -> Framed(Payload(m) \o padding)

Write(to, bytes, then) ==
    [to |-> to, bytes |-> << 2 * to >> \o bytes, reads |-> 0,
     then |-> then, message |-> Nothing]

Send(m, then) ==
    [Write(DDCCI_I2C_ADDRESS, Packet(m), then) EXCEPT !.message = m]

Read(to, count, then) ==
    [to |-> to, bytes |-> << 2 * to + 1 >>, reads |-> count,
     then |-> then, message |-> Nothing]

\* What a script is made of.  A write to the DDC/CI device is a message or
\* empty; a transfer reads or writes after its address, never both.
Messages == [ op : {"get", "set"}, code : Byte, value : Word,
              flaw : {"none", "checksum", "cut", "overlong"} ]

IsTransfer(t) ==
    /\ t.to \in 0..127
    /\ t.then \in {"stop", "restart"}
    /\ \/ t.message # Nothing /\ t.message \in Messages /\ t = Send(t.message, t.then)
       \/ t.reads \in Nat \ {0} /\ t = Read(t.to, t.reads, t.then)
       \/ /\ t.bytes \in Seq(Byte) /\ t.bytes # << >>
          /\ t = Write(t.to, Tail(t.bytes), t.then)
          /\ t.to = DDCCI_I2C_ADDRESS => Len(t.bytes) = 1

ASSUME ScriptsAssumption ==
    /\ DDCCI_RX_MAX \in 7..127
    /\ \A s \in Scripts : /\ s \in Seq(Range(s)) /\ s # << >>
                         /\ \A t \in Range(s) : IsTransfer(t)
                         /\ Last(s).then = "stop"
    /\ Nothing \notin Messages /\ Unknown \notin Messages

Transfer == Head(script)
Slots    == 9 * (Len(Transfer.bytes) + Transfer.reads)
ByteOf(n)  == n \div 9 + 1
IsAck(n)   == n % 9 = 8
IsRead(n)  == ByteOf(n) > Len(Transfer.bytes)

\* What the master drives in a slot: its data, 1 where the slave talks, and
\* the acknowledge bit of every byte it reads but the last.
MasterBit(n) ==
    IF IsRead(n) THEN (IF IsAck(n) /\ n # Slots - 1 THEN 0 ELSE 1)
    ELSE IF IsAck(n) THEN 1
    ELSE Bit(Transfer.bytes[ByteOf(n)], 7 - (n % 9))

\* A packet of this script's message that the slave can take whole.
WholeMessage ==
    IF Transfer.message # Nothing /\ Transfer.message.flaw = "none"
    THEN Transfer.message ELSE Nothing

-----------------------------------------------------------------------------
(* The master *)

\* The slave has seen every edge.
CaughtUp == (pc = "idle" /\ ~interrupt) \/ (pc = "poll" /\ Lines = previous)

\* It has an interrupt to serve or a handler to leave.
SlaveBusy == pc = "finish" \/ (pc = "idle" /\ interrupt)

MasterMoves ==
    \/ CaughtUp /\ faults <= MaxFaults /\ UNCHANGED faults
    \/ MayBeEarly /\ SlaveBusy /\ faults < MaxFaults /\ faults' = faults + 1

\* Data may follow the falling clock at once.
DataMoves == MasterMoves \/ (pc = "poll" /\ ~CaughtUp /\ UNCHANGED faults)

SlaveStill == UNCHANGED << deviceVars, latch, pc, eng, previous, idle_spins >>

Drive(new_sda, new_scl) ==
    /\ sda' = new_sda
    /\ scl' = new_scl
    /\ SlaveStill
    /\ LatchInterrupt

HostStarts ==
    /\ phase = "free" /\ Lines = << 1, 1 >> /\ transfers < MaxTransfers
    /\ MasterMoves
    /\ script' \in Scripts
    /\ transfers' = transfers + 1
    /\ Drive(0, 1)
    /\ phase' = "started" /\ slot' = 0 /\ nack' = FALSE
    /\ cut' = FALSE
    /\ UNCHANGED << wire, last, at >>

HostClocksStart ==
    /\ phase = "started"
    /\ MasterMoves \/ (pc = "resample" /\ UNCHANGED faults)
    /\ Drive(0, 0)
    /\ phase' = "low"
    /\ wire' = Nothing
    /\ UNCHANGED << script, slot, nack, transfers, cut, last, at >>

HostData ==
    /\ phase = "low"
    /\ DataMoves
    /\ Drive(MasterBit(slot), 0)
    /\ phase' = "set"
    /\ UNCHANGED << script, slot, nack, transfers, historyVars >>

HostRise ==
    /\ phase = "set"
    /\ MasterMoves
    /\ Drive(sda, 1)
    /\ phase' = "high"
    /\ nack' = (IsAck(slot) /\ ~IsRead(slot) /\ Sda = 1)
    /\ wire' = IF slot = Slots - 2 THEN WholeMessage ELSE wire
    /\ UNCHANGED << script, slot, transfers, cut, last, at >>

\* What the master knows of the slave once a transfer is done.
LastKnown ==
    IF Transfer.to # DDCCI_I2C_ADDRESS \/ (nack /\ slot = 8 /\ ~cut) THEN last
    ELSE IF nack THEN Unknown
    ELSE IF Transfer.reads > 0 THEN (IF cut THEN Unknown ELSE Nothing)
    ELSE IF Len(Transfer.bytes) = 1 THEN last
    ELSE Transfer.message

PointerKnown ==
    IF Transfer.to # EDID_EEPROM_I2C_ADDRESS \/ (nack /\ slot = 8) THEN at
    ELSE IF nack \/ cut THEN Unknown
    ELSE IF Transfer.reads > 0
         THEN IF at = Unknown THEN at ELSE (at + Transfer.reads) % 256
    ELSE IF Len(Transfer.bytes) = 1 THEN at
    ELSE (Transfer.bytes[2] + Len(Transfer.bytes) - 2) % 256

HostFall ==
    /\ phase = "high"
    /\ MasterMoves
    /\ Drive(sda, 0)
    /\ IF nack \/ slot = Slots - 1
       THEN /\ phase' = "closing"
            /\ last' = LastKnown /\ at' = PointerKnown
            /\ UNCHANGED slot
       ELSE /\ phase' = "low"
            /\ slot' = slot + 1
            /\ UNCHANGED << last, at >>
    /\ UNCHANGED << script, nack, transfers, cut, wire >>

\* A NACK ends the script.
Restarts == Transfer.then = "restart" /\ ~nack

HostCloses ==
    /\ phase = "closing"
    /\ DataMoves
    /\ Drive(IF Restarts THEN 1 ELSE 0, 0)
    /\ phase' = "closeSet"
    /\ UNCHANGED << script, slot, nack, transfers, historyVars >>

HostCloseRise ==
    /\ phase = "closeSet"
    /\ MasterMoves
    /\ Drive(sda, 1)
    /\ phase' = "closeHigh"
    /\ UNCHANGED << script, slot, nack, transfers, historyVars >>

HostRestarts ==
    /\ phase = "closeHigh" /\ Restarts
    /\ MasterMoves
    /\ Drive(0, 1)
    /\ script' = Tail(script) /\ slot' = 0
    /\ phase' = "started"
    /\ cut' = FALSE
    /\ UNCHANGED << nack, transfers, wire, last, at >>

\* The bus is free again; a script that goes on does so after a while.
HostStops ==
    /\ phase = "closeHigh" /\ ~Restarts
    /\ MasterMoves
    /\ Drive(1, 1)
    /\ IF Len(script) > 1 /\ ~nack
       THEN phase' = "between" /\ UNCHANGED << script, slot >>
       ELSE phase' = "free" /\ script' = << >> /\ slot' = 0
    /\ nack' = FALSE
    /\ UNCHANGED << transfers, historyVars >>

HostGoesOn ==
    /\ phase = "between" /\ Lines = << 1, 1 >>
    /\ MasterMoves
    /\ Drive(0, 1)
    /\ script' = Tail(script) /\ slot' = 0
    /\ phase' = "started"
    /\ cut' = FALSE
    /\ UNCHANGED << nack, transfers, wire, last, at >>

Playing == phase \notin {"free", "between", "gone", "return"}

\* The laptop disappears in the middle of a transfer.  A message short of its
\* last bit may still be completed by the lines as they drop and rise.
Vanish ==
    /\ Playing /\ CaughtUp
    /\ faults < MaxFaults /\ faults' = faults + 1
    /\ phase' = IF sda = 1 /\ scl = 1 THEN "free" ELSE "gone"
    /\ script' = << >> /\ slot' = 0 /\ nack' = FALSE
    /\ last' = Unknown /\ at' = Unknown
    /\ wire' = IF slot >= Slots - 3 THEN WholeMessage ELSE wire
    /\ UNCHANGED << deviceVars, engineVars, idle_spins, sda, scl, transfers, cut >>

\* Without power the lines drop, in any order ...
LineDrops ==
    /\ phase = "gone"
    /\ MasterMoves
    /\ \/ sda = 1 /\ Drive(0, scl)
       \/ scl = 1 /\ Drive(sda, 0)
    /\ UNCHANGED << phase, script, slot, nack, transfers, historyVars >>

\* ... and rise again in any order.
LineRises ==
    /\ phase \in {"gone", "return"}
    /\ MasterMoves
    /\ \/ sda = 0 /\ Drive(1, scl) /\ phase' = IF scl = 1 THEN "free" ELSE "return"
       \/ scl = 0 /\ Drive(sda, 1) /\ phase' = IF sda = 1 THEN "free" ELSE "return"
    /\ UNCHANGED << script, slot, nack, transfers, historyVars >>

Host ==
    \/ HostStarts \/ HostGoesOn \/ HostClocksStart
    \/ HostData \/ HostRise \/ HostFall
    \/ HostCloses \/ HostCloseRise \/ HostRestarts \/ HostStops
    \/ Vanish \/ LineDrops \/ LineRises

-----------------------------------------------------------------------------
(* The whole bus *)

Unnoticed == UNCHANGED << hostVars, faults, historyVars >>

\* The master has been silent for too long, in a transfer or after one.
SlaveGivesUp ==
    /\ Timeout
    /\ cut' = (cut \/ Playing)
    /\ faults' = IF Playing THEN faults + 1 ELSE faults
    /\ UNCHANGED << hostVars, wire, last, at >>

\* What is seen of the bus, and what is done about it.
Slave ==
    \/ Start /\ Unnoticed
    \/ Iteration /\ Unnoticed
    \/ SlaveGivesUp
    \/ Finish /\ Unnoticed

Init ==
    /\ ddcci_init(INITIAL_BRIGHTNESS) /\ PacketInit
    /\ edid_eeprom_init
    /\ EngineInit
    /\ sda = 1 /\ scl = 1
    /\ script = << >> /\ slot = 0 /\ nack = FALSE
    /\ phase = "free"
    /\ transfers = 0 /\ faults = 0
    /\ cut = FALSE
    /\ wire = Nothing
    /\ last = Nothing
    /\ at = 0

Act == Host \/ Slave

SlaveWaits == Wait /\ Unnoticed

Next == Act \/ SlaveWaits

Spec == Init /\ [][Next]_vars

\* The handler runs on with interrupts masked; the laptop owes nothing.
FairSpec == Spec /\ WF_vars(Slave \/ SlaveWaits)
-----------------------------------------------------------------------------
(* What the bus keeps true *)

BusTypeOK ==
    /\ MailboxTypeOK /\ PacketTypeOK /\ EepromTypeOK /\ EngineTypeOK
    /\ phase \in Phases
    /\ transfers \in 0..MaxTransfers /\ faults \in 0..MaxFaults + 1
    /\ cut \in BOOLEAN
    /\ at \in 0..255 \cup {Unknown}

\* Every variable keeps its type; a packet never outgrows its buffer, and the
\* count of silent iterations never passes its limit.
TypeOK == BusTypeOK /\ SpinsTypeOK

\* The slave pulls SDA only where the protocol gives it the line: in the
\* acknowledge slots of what it is sent and in the data slots of what it is
\* asked for; and never outside its handler.  Pulled anywhere else it would
\* forge a bit, a START or a STOP, or leave the bus stuck
\* (soft_i2c.c, run_transaction).
DrivesOnlyItsSlots ==
    CaughtUp /\ latch = 0 =>
        /\ pc = "poll"
        /\ Playing => /\ phase \in {"low", "set", "high"}
                      /\ IsRead(slot) # IsAck(slot)

\* Once the slave is at rest, and until another transfer to it is under way, a
\* message whose every byte it acknowledged has been carried out, whichever
\* way the transfer was closed, and whatever was cut short, lost or refused
\* before it (ddcci_end, process_write_packet).
AckedIsStored ==
    LET known == /\ pc = "idle" /\ ~interrupt
                 /\ phase \in {"started", "low", "set", "high"} =>
                        Transfer.to # DDCCI_I2C_ADDRESS
                 /\ last \notin {Nothing, Unknown}
                 /\ last.op = "set" /\ last.flaw = "none"
    IN  /\ known /\ last.code = DDCCI_VCP_BRIGHTNESS =>
               /\ s_brightness = ClampPercent(last.value)
               /\ s_brightness_update_pending
        /\ known /\ last.code = DDCCI_VCP_POWER_MODE
                 /\ last.value % 256 \in PowerModes =>
               /\ s_power_mode = last.value % 256
               /\ s_power_mode_update_pending

\* What a read of the DDC/CI device must return.
ExpectedReply ==
    CASE last = Nothing -> NullResponse
      [] last # Nothing /\ last.op = "get" /\ last.flaw = "none"
         /\ last.code = DDCCI_VCP_BRIGHTNESS ->
             VcpResponse(last.code, DDCCI_BRIGHTNESS_MAX, s_brightness)
      [] last # Nothing /\ last.op = "get" /\ last.flaw = "none"
         /\ last.code = DDCCI_VCP_POWER_MODE ->
             VcpResponse(last.code, DDCCI_POWER_OFF_WRITE, s_power_mode)
      [] OTHER -> NullResponse

\* The n-th byte of the current read, or Unknown.
ExpectedByte(n) ==
    IF Transfer.to = EDID_EEPROM_I2C_ADDRESS
    THEN IF at = Unknown THEN Unknown ELSE s_edid[(at + n - 1) % 256]
    ELSE IF last = Unknown THEN Unknown
    ELSE IF n <= Len(ExpectedReply) THEN ExpectedReply[n] ELSE 0

\* Every bit the master samples in a read is the bit it ought to see: the
\* reply to the last request it knows was taken, zeros after its end, the
\* EDID from where its last transfer left the pointer.  A silence that makes
\* the slave give up is the only excuse.
ReadsAreTrue ==
    phase = "high" /\ IsRead(slot) /\ ~IsAck(slot) /\ ~cut =>
        LET byte == ExpectedByte(ByteOf(slot) - 1)
        IN  byte # Unknown => Sda = Bit(byte, 7 - (slot % 9))

\* The pins that are not the bus's, the keyboard's for one, come to rest: the
\* laptop is off and scans its keyboard no more.
OtherPinsRest == <>[][~SeesOtherPin]_vars

\* When the laptop vanishes, at whatever point and whatever level it leaves the
\* lines, the handler lets go of the CPU (the comment above
\* I2C_STUCK_BOTH_LOW_SPINS).  A run's master falls silent in the end, at any
\* point it likes.
SilenceFreesCpu == OtherPinsRest => (pc # "idle" ~> pc = "idle")

-----------------------------------------------------------------------------
\* The reply of the device as the abstract device has it.
ReplyHeld ==
    IF ~s_response_ready THEN Nothing
    ELSE IF Len(s_tx) = 3 THEN Null
    ELSE [ code |-> s_tx[5], max |-> 256 * s_tx[7] + s_tx[8],
           current |-> 256 * s_tx[9] + s_tx[10] ]

Device == INSTANCE VcpDevice WITH
    Brightness <- DDCCI_VCP_BRIGHTNESS,
    Power      <- DDCCI_VCP_POWER_MODE,
    NoReply    <- Nothing,
    Null       <- Null,
    Initial    <- INITIAL_BRIGHTNESS,
    reply      <- ReplyHeld

\* Every step of the bus is a step of the device: no cut, flawed or misheard
\* packet ever changes a setting, a whole one changes it in one step.
ImplementsVcpDevice == Device!Spec
=============================================================================
