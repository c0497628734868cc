------------------------------- MODULE SoftI2c -------------------------------
(***************************************************************************)
(* The software I2C slave (ESP32/main/soft_i2c.c) with its two devices.    *)
(*                                                                         *)
(* A falling SDA raises an interrupt; if it is a START the handler stays   *)
(* in run_transaction, with interrupts masked, and polls both lines until  *)
(* a STOP or a silence.  One action is one iteration of that loop, by what *)
(* it sees; s_stats is left out.  The locals of run_transaction are the    *)
(* record "eng" and idle_spins; "addressed" is eng.active # NoDevice,      *)
(* which it equals wherever it is read.                                    *)
(*                                                                         *)
(* The loop compares the whole input register, so an edge on any other     *)
(* input pin, a line of the keyboard for one, ends a silence as well.      *)
(*                                                                         *)
(* The wire SDA is low when anybody pulls it low.                          *)
(***************************************************************************)
EXTENDS DdcCi, EdidEeprom

CONSTANTS
    I2C_STUCK_BOTH_LOW_SPINS,   \* 250000
    I2C_NO_EDGE_TIMEOUT_SPINS   \* 1000000

ASSUME SpinsAssumption ==
    /\ I2C_STUCK_BOTH_LOW_SPINS \in Nat
    /\ I2C_NO_EDGE_TIMEOUT_SPINS \in Nat
    /\ I2C_STUCK_BOTH_LOW_SPINS <= I2C_NO_EDGE_TIMEOUT_SPINS

VARIABLES
    sda, scl,              \* what the rest of the bus drives: 0 or 1
    latch,                 \* our output latch on SDA: 0 pulls it low
    interrupt,             \* the pending bit of the SDA interrupt
    pc,                    \* where the handler is
    eng,                   \* the locals of run_transaction
    previous,              \* the lines at the last iteration
    idle_spins             \* iterations since any input pin moved

deviceVars == << ddcVars, eepromVars >>
engineVars == << latch, interrupt, pc, eng, previous >>

NoDevice == 0
Places   == {"idle", "poll", "resample", "finish"}
States   == {"address", "address_ack", "rx", "rx_ack", "tx", "tx_master_ack",
             "ignore"}

Sda   == sda * latch
Lines == << Sda, scl >>

\* An interrupt is latched whenever SDA falls, whoever pulls it.
LatchInterrupt == interrupt' = (interrupt \/ (Sda = 1 /\ Sda' = 0))

Locals ==
    [ state : States, shift : Byte, bits : 0..8, read : BOOLEAN,
      rx_ack : BOOLEAN, ack_phase : 0..2, tx_byte : Byte, tx_bits : 0..8,
      master_ack : BOOLEAN,
      active : {NoDevice, DDCCI_I2C_ADDRESS, EDID_EEPROM_I2C_ADDRESS} ]

FreshLocals ==
    [ state |-> "address", shift |-> 0, bits |-> 0, read |-> FALSE,
      rx_ack |-> TRUE, ack_phase |-> 0, tx_byte |-> 0, tx_bits |-> 0,
      master_ack |-> FALSE, active |-> NoDevice ]

-----------------------------------------------------------------------------
(* The registered devices *)

find_device(address) ==
    IF address \in {DDCCI_I2C_ADDRESS, EDID_EEPROM_I2C_ADDRESS}
    THEN address ELSE NoDevice

DdcIs(device)    == device = DDCCI_I2C_ADDRESS /\ UNCHANGED eepromVars
EepromIs(device) == device = EDID_EEPROM_I2C_ADDRESS /\ UNCHANGED ddcVars
NobodyIs(device) == device = NoDevice /\ UNCHANGED deviceVars

begin(device, read_direction) ==
    \/ DdcIs(device) /\ ddcci_begin(read_direction)
    \/ EepromIs(device) /\ eeprom_begin(read_direction)
    \/ NobodyIs(device)

\* Only an addressed device is written and read.
write_byte(device, byte) ==
    \/ DdcIs(device) /\ ddcci_write_byte(byte)
    \/ EepromIs(device) /\ eeprom_write_byte(byte)

Acknowledges(device) == device = DDCCI_I2C_ADDRESS => PacketFits

read_byte(device) ==
    CASE device = DDCCI_I2C_ADDRESS       -> ddcci_read_byte
      [] device = EDID_EEPROM_I2C_ADDRESS -> eeprom_read_byte
      [] OTHER                            -> \hFF

read_advance(device) ==
    \/ DdcIs(device) /\ ddcci_read_advance
    \/ EepromIs(device) /\ eeprom_read_advance

end_device(device) ==
    \/ DdcIs(device) /\ ddcci_end
    \/ EepromIs(device) /\ UNCHANGED eepromVars
    \/ NobodyIs(device)

-----------------------------------------------------------------------------
(* Rising SCL: the receiver samples *)

Shifted(bit) == [eng EXCEPT !.shift = (2 * eng.shift + bit) % 256,
                            !.bits = eng.bits + 1]

RiseAddress(bit) ==
    LET next   == Shifted(bit)
        device == find_device(next.shift \div 2)
        read   == next.shift % 2 = 1
    IN  /\ eng.state = "address"
        /\ IF next.bits = 8
           THEN /\ eng' = [next EXCEPT !.read = read, !.active = device,
                                       !.ack_phase = 0, !.state = "address_ack"]
                /\ begin(device, read)
           ELSE eng' = next /\ UNCHANGED deviceVars

RiseReceive(bit) ==
    LET next == Shifted(bit) IN
    /\ eng.state = "rx"
    /\ IF next.bits = 8
       THEN /\ eng' = [next EXCEPT !.rx_ack = Acknowledges(eng.active),
                                   !.ack_phase = 0, !.state = "rx_ack"]
            /\ write_byte(eng.active, next.shift)
       ELSE eng' = next /\ UNCHANGED deviceVars

\* Our own acknowledge bit is on the line.
RiseAck ==
    /\ eng.state \in {"address_ack", "rx_ack"}
    /\ eng' = [eng EXCEPT !.ack_phase = IF @ = 1 THEN 2 ELSE @]
    /\ UNCHANGED deviceVars

RiseTransmit ==
    /\ eng.state = "tx"
    /\ eng' = [eng EXCEPT !.tx_bits = @ + 1,
                          !.ack_phase = IF eng.tx_bits = 7 THEN 0 ELSE @,
                          !.state = IF eng.tx_bits = 7 THEN "tx_master_ack" ELSE @]
    /\ UNCHANGED deviceVars

RiseMasterAck(bit) ==
    /\ eng.state = "tx_master_ack"
    /\ IF eng.ack_phase = 1
       THEN /\ eng' = [eng EXCEPT !.master_ack = (bit = 0), !.ack_phase = 2]
            /\ read_advance(eng.active)
       ELSE UNCHANGED << eng, deviceVars >>

RiseIgnore == eng.state = "ignore" /\ UNCHANGED << eng, deviceVars >>

Rise(bit) ==
    \/ RiseAddress(bit) \/ RiseReceive(bit) \/ RiseAck
    \/ RiseTransmit \/ RiseMasterAck(bit) \/ RiseIgnore

-----------------------------------------------------------------------------
(* Falling SCL: the transmitter changes SDA *)

Pull(ack) == IF ack THEN 0 ELSE 1

\* The first bit of the next byte goes out.
SendNext ==
    LET byte == read_byte(eng.active) IN
    /\ eng' = [eng EXCEPT !.tx_byte = byte, !.tx_bits = 0, !.ack_phase = 0,
                          !.state = "tx"]
    /\ latch' = Bit(byte, 7)

ReceiveNext ==
    eng' = [eng EXCEPT !.shift = 0, !.bits = 0, !.ack_phase = 0, !.state = "rx"]

Ignore == eng' = [eng EXCEPT !.ack_phase = 0, !.state = "ignore"]

\* Mutant: SDA stays pulled after the acknowledge bit.
KeepPulling == latch

AfterAck == 1

FallAddressAck ==
    /\ eng.state = "address_ack"
    /\ \/ /\ eng.ack_phase = 0
          /\ latch' = Pull(eng.active # NoDevice)
          /\ eng' = [eng EXCEPT !.ack_phase = 1]
       \/ /\ eng.ack_phase = 2 /\ eng.active = NoDevice
          /\ latch' = AfterAck /\ Ignore
       \/ eng.ack_phase = 2 /\ eng.active # NoDevice /\ eng.read /\ SendNext
       \/ /\ eng.ack_phase = 2 /\ eng.active # NoDevice /\ ~eng.read
          /\ latch' = AfterAck /\ ReceiveNext

FallReceiveAck ==
    /\ eng.state = "rx_ack"
    /\ \/ /\ eng.ack_phase = 0
          /\ latch' = Pull(eng.rx_ack)
          /\ eng' = [eng EXCEPT !.ack_phase = 1]
       \/ /\ eng.ack_phase = 2
          /\ latch' = AfterAck
          /\ IF eng.rx_ack THEN ReceiveNext
             ELSE eng' = [eng EXCEPT !.shift = 0, !.bits = 0, !.ack_phase = 0,
                                     !.state = "ignore"]

FallTransmit ==
    /\ eng.state = "tx"
    /\ latch' = Bit(eng.tx_byte, 7 - eng.tx_bits)
    /\ UNCHANGED eng

\* The master owns the ninth bit; it wants more, or it has had enough.
FallMasterAck ==
    /\ eng.state = "tx_master_ack"
    /\ \/ /\ eng.ack_phase = 0
          /\ latch' = 1
          /\ eng' = [eng EXCEPT !.ack_phase = 1]
       \/ eng.ack_phase = 2 /\ eng.master_ack /\ SendNext
       \/ eng.ack_phase = 2 /\ ~eng.master_ack /\ latch' = 1 /\ Ignore

FallIdle == eng.state \in {"address", "rx", "ignore"} /\ UNCHANGED << eng, latch >>

Fall == FallAddressAck \/ FallReceiveAck \/ FallTransmit \/ FallMasterAck \/ FallIdle

-----------------------------------------------------------------------------
(* The interrupt handler *)

HostStill == UNCHANGED << sda, scl >>

WasScl == previous[2]
WasSda == previous[1]

\* start_isr, and the check of run_transaction: SDA low, SCL high.
Start ==
    /\ pc = "idle" /\ interrupt
    /\ IF Lines = << 0, 1 >>
       THEN pc' = "poll" /\ previous' = Lines /\ UNCHANGED interrupt
       ELSE interrupt' = FALSE /\ UNCHANGED << pc, previous >>
    /\ UNCHANGED << latch, eng, idle_spins, deviceVars >> /\ HostStill

\* A bus line has moved, whatever the other pins did.
Sees == pc = "poll" /\ Lines # previous /\ idle_spins' = 0

\* Mutant: a repeated START does not end the transfer before it.
KeepTransfer(device) == UNCHANGED deviceVars

EndsTransfer(device) == end_device(device)

\* SDA falls while SCL is high.  The lines are sampled afresh afterwards.
SeesRepeatedStart ==
    /\ Sees /\ scl = 1 /\ WasSda = 1 /\ Sda = 0
    /\ EndsTransfer(eng.active)
    /\ eng' = [eng EXCEPT !.state = "address", !.shift = 0, !.bits = 0,
                          !.read = FALSE, !.rx_ack = TRUE, !.ack_phase = 0,
                          !.active = NoDevice]
    /\ latch' = 1
    /\ pc' = "resample"
    /\ UNCHANGED previous /\ HostStill
    /\ LatchInterrupt

Resample ==
    /\ pc = "resample"
    /\ previous' = Lines
    /\ pc' = "poll"
    /\ UNCHANGED << latch, interrupt, eng, idle_spins, deviceVars >> /\ HostStill

\* SDA rises while SCL is high.
SeesStop ==
    /\ Sees /\ scl = 1 /\ WasSda = 0 /\ Sda = 1
    /\ end_device(eng.active)
    /\ latch' = 1
    /\ pc' = "finish"
    /\ UNCHANGED << eng, previous >> /\ HostStill
    /\ LatchInterrupt

SeesRise ==
    /\ Sees /\ WasScl = 0 /\ scl = 1 /\ WasSda = Sda
    /\ Rise(Sda)
    /\ previous' = Lines
    /\ UNCHANGED << latch, interrupt, pc >> /\ HostStill

SeesFall ==
    /\ Sees /\ WasScl = 1 /\ scl = 0
    /\ Fall
    /\ previous' = Lines
    /\ UNCHANGED << pc, deviceVars >> /\ HostStill
    /\ LatchInterrupt

\* SDA changes while SCL is low, by the host or by ourselves.
SeesData ==
    /\ Sees /\ WasScl = 0 /\ scl = 0
    /\ previous' = Lines
    /\ UNCHANGED << latch, interrupt, pc, eng, deviceVars >> /\ HostStill

\* A bus held low is given up sooner than one that is silent at another level.
GivenUp(spins) ==
    \/ Lines = << 0, 0 >> /\ spins > I2C_STUCK_BOTH_LOW_SPINS
    \/ spins > I2C_NO_EDGE_TIMEOUT_SPINS

LinesStill == pc = "poll" /\ Lines = previous

\* Mutant: the count starts again in every iteration.
SpinUncounted ==
    /\ LinesStill
    /\ ~GivenUp(idle_spins + 1)
    /\ idle_spins' = 0
    /\ UNCHANGED << deviceVars, engineVars >> /\ HostStill

\* No pin has moved, but not for long enough.
Spin ==
    /\ LinesStill
    /\ ~GivenUp(idle_spins + 1)
    /\ idle_spins' = idle_spins + 1
    /\ UNCHANGED << deviceVars, engineVars >> /\ HostStill

\* Another pin has moved: no edge of the bus, and the count starts again.
SeesOtherPin ==
    /\ LinesStill
    /\ idle_spins' = 0
    /\ UNCHANGED << deviceVars, engineVars >> /\ HostStill

\* No pin has moved for that many iterations.
Timeout ==
    /\ LinesStill
    /\ GivenUp(idle_spins + 1)
    /\ end_device(eng.active)
    /\ latch' = 1
    /\ pc' = "finish"
    /\ UNCHANGED << eng, previous, idle_spins >> /\ HostStill
    /\ LatchInterrupt

\* The pending bit is cleared, whatever set it, and the handler returns.
Finish ==
    /\ pc = "finish"
    /\ interrupt' = FALSE
    /\ latch' = 1
    /\ pc' = "idle"
    /\ eng' = FreshLocals
    /\ previous' = << 1, 1 >>
    /\ idle_spins' = 0
    /\ UNCHANGED deviceVars /\ HostStill

\* An iteration that sees nothing of the bus.
Wait == Spin \/ SeesOtherPin

\* One that does.
Iteration ==
    \/ SeesRepeatedStart \/ Resample \/ SeesStop
    \/ SeesRise \/ SeesFall \/ SeesData

\* soft_i2c_start leaves the lines released and the interrupt armed.
EngineInit ==
    /\ latch = 1
    /\ interrupt = FALSE
    /\ pc = "idle"
    /\ eng = FreshLocals
    /\ previous = << 1, 1 >>
    /\ idle_spins = 0

EngineTypeOK ==
    /\ sda \in {0, 1} /\ scl \in {0, 1} /\ latch \in {0, 1}
    /\ interrupt \in BOOLEAN
    /\ pc \in Places
    /\ previous \in {0, 1} \X {0, 1}
    /\ eng \in Locals

SpinsTypeOK == idle_spins \in 0..I2C_NO_EDGE_TIMEOUT_SPINS
=============================================================================
