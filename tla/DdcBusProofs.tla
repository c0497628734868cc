---------------------------- MODULE DdcBusProofs ----------------------------
(***************************************************************************)
(* Proofs about the DDC bus, for any scripts of the master, any number of  *)
(* them, any EDID table and any size of the packet buffer.                 *)
(*                                                                         *)
(* The slave keeps no clock and sees only edges, so everything rests on    *)
(* its being in step with the master (InStep): once it has seen the edge   *)
(* that begins a slot, its locals say which slot it is, and what it has    *)
(* not yet seen is exactly the master's last edge, with or without the     *)
(* data that follows a falling clock.                                      *)
(***************************************************************************)
EXTENDS DdcBus, FiniteSetTheorems, SequenceTheorems, TLAPS

\* What the master has left to play, and where it is in it.
ScriptInv ==
    /\ script \in Seq(Range(script))
    /\ \A t \in Range(script) : IsTransfer(t)
    /\ script # << >> => Last(script).then = "stop"
    /\ Playing \/ phase = "between" => script # << >>
    /\ phase = "between" => Len(script) > 1
    /\ Playing => slot \in 0..Slots - 1

\* What the master holds the lines at.
LinesInv ==
    /\ phase = "started" => sda = 0 /\ scl = 1 /\ slot = 0
    /\ phase \in {"low", "set", "closing", "closeSet"} => scl = 0
    /\ phase \in {"high", "closeHigh"} => scl = 1
    /\ phase \in {"set", "high"} => sda = MasterBit(slot)
    /\ phase \in {"closeSet", "closeHigh"} => sda = IF Restarts THEN 1 ELSE 0

\* A refusal is seen in an acknowledge slot, and ends the transfer.
NackInv ==
    /\ nack => /\ phase \in {"high", "closing", "closeSet", "closeHigh"}
               /\ IsAck(slot) /\ ~IsRead(slot)
    /\ phase \in {"closing", "closeSet", "closeHigh"} => nack \/ slot = Slots - 1

Reading == Transfer.reads > 0

\* The slave has seen the edge that begins slot n.
Listening(n) ==
    \/ eng.state = "ignore" /\ n >= 9 /\ latch = 1
    \/ eng.state = "address" /\ n < 8 /\ eng.bits = n /\ latch = 1
    \/ /\ eng.state = "address_ack" /\ n = 8 /\ eng.ack_phase = 1
       /\ eng.read = Reading /\ latch = Pull(eng.active # NoDevice)
    \/ /\ eng.state = "rx" /\ n >= 9 /\ ~Reading
       /\ n % 9 < 8 /\ eng.bits = n % 9 /\ latch = 1
    \/ /\ eng.state = "rx_ack" /\ n >= 9 /\ ~Reading
       /\ n % 9 = 8 /\ eng.ack_phase = 1 /\ latch = Pull(eng.rx_ack)
    \/ /\ eng.state = "tx" /\ n >= 9 /\ Reading
       /\ n % 9 < 8 /\ eng.tx_bits = n % 9
    \/ /\ eng.state = "tx_master_ack" /\ n >= 9 /\ Reading
       /\ n % 9 = 8 /\ eng.ack_phase = 1 /\ latch = 1

\* ... and the rise of its clock.
Sampled(n) ==
    \/ eng.state = "ignore" /\ n >= 9 /\ latch = 1
    \/ eng.state = "address" /\ n < 7 /\ eng.bits = n + 1 /\ latch = 1
    \/ /\ eng.state = "address_ack" /\ n = 7 /\ eng.ack_phase = 0
       /\ eng.read = Reading /\ latch = 1
    \/ /\ eng.state = "address_ack" /\ n = 8 /\ eng.ack_phase = 2
       /\ eng.read = Reading /\ latch = Pull(eng.active # NoDevice)
    \/ /\ eng.state = "rx" /\ n >= 9 /\ ~Reading
       /\ n % 9 < 7 /\ eng.bits = (n % 9) + 1 /\ latch = 1
    \/ /\ eng.state = "rx_ack" /\ n >= 9 /\ ~Reading
       /\ n % 9 = 7 /\ eng.ack_phase = 0 /\ latch = 1
    \/ /\ eng.state = "rx_ack" /\ n >= 9 /\ ~Reading
       /\ n % 9 = 8 /\ eng.ack_phase = 2 /\ latch = Pull(eng.rx_ack)
    \/ /\ eng.state = "tx" /\ n >= 9 /\ Reading
       /\ n % 9 < 7 /\ eng.tx_bits = (n % 9) + 1
    \/ /\ eng.state = "tx_master_ack" /\ n >= 9 /\ Reading
       /\ n % 9 = 7 /\ eng.ack_phase = 0
    \/ /\ eng.state = "tx_master_ack" /\ n >= 9 /\ Reading
       /\ n % 9 = 8 /\ eng.ack_phase = 2 /\ latch = 1
       /\ eng.master_ack = (n # Slots - 1)

\* The transfer is over, and the slave waits for more or for nothing.
Over == eng.state \in {"rx", "ignore"} /\ latch = 1
Closed == Over /\ (eng.state = "rx" => eng.bits = 0)

\* What the slave has seen, as the master starts, comes to a slot, samples
\* it, and closes the transfer.
Begun ==
    \/ previous = << 1, 1 >> /\ latch = 1
    \/ previous = << 0, 1 >> /\ Listening(0)

Before ==
    IF previous[2] = 1 /\ slot > 0 THEN Sampled(slot - 1) ELSE Listening(slot)

During ==
    /\ previous[1] = Sda
    /\ nack => latch = 1
    /\ IF previous[2] = 1 THEN Sampled(slot) ELSE Listening(slot)

Ending ==
    /\ nack => latch = 1
    /\ IF previous[2] = 1 THEN Sampled(slot) ELSE Closed

Ended ==
    /\ previous[1] = Sda
    /\ IF previous[2] = 1 THEN Over ELSE Closed

\* The slave follows the transfer.
InStep ==
    pc = "poll" =>
        /\ phase = "started" => Begun
        /\ phase \in {"low", "set"} => Before
        /\ phase = "high" => During
        /\ phase \in {"closing", "closeSet"} => Ending
        /\ phase = "closeHigh" => Ended

Afresh ==
    pc = "resample" /\ Playing =>
        phase \in {"started", "low"} /\ slot = 0 /\ Listening(0)

\* Out of its handler the slave lets go of the line.
Resting ==
    /\ pc # "poll" => latch = 1
    /\ pc = "idle" => eng = FreshLocals

\* While a transfer is played that the slave does not follow, an interrupt
\* is no START.
Deaf ==
    /\ Playing /\ pc = "idle" /\ interrupt => phase = "started" \/ scl = 0
    /\ MayBeEarly /\ Playing /\ pc \in {"idle", "finish"} =>
           faults >= 1 \/ (pc = "idle" /\ interrupt /\ phase = "started")

\* A byte is never longer than eight bits.
BitsInv ==
    /\ eng.state \in {"address", "rx"} => eng.bits < 8
    /\ eng.state = "tx" => eng.tx_bits < 8

\* After the last fault the master is silent for good.
SilentInv ==
    faults > MaxFaults => pc \in {"idle", "finish"} /\ (pc = "idle" => ~interrupt)

Following == LinesInv /\ NackInv /\ InStep /\ Afresh /\ Resting /\ Deaf
IInv == BusTypeOK /\ ScriptInv /\ BitsInv /\ SilentInv

-----------------------------------------------------------------------------
(* Bytes, bits and packets *)

\* The types of the constants.
LEMMA ConstantTypes ==
    /\ DDCCI_BRIGHTNESS_MAX \in 1..255
    /\ INITIAL_BRIGHTNESS \in Nat
    /\ DDCCI_RX_MAX \in 7..127
    /\ s_edid \in [0..255 -> Byte]
    /\ MaxTransfers \in Nat /\ MaxFaults \in Nat /\ MayBeEarly \in BOOLEAN
  <1>1. Byte = 0..255
    BY SMT DEF Byte
  <1> QED BY <1>1, BrightnessMaxAssumption, EdidAssumption, BusAssumption,
             ScriptsAssumption, Zenon

\* The two addresses and no address.
LEMMA AddressFacts ==
    /\ DDCCI_I2C_ADDRESS = 55 /\ EDID_EEPROM_I2C_ADDRESS = 80 /\ NoDevice = 0
  BY DEF DDCCI_I2C_ADDRESS, EDID_EEPROM_I2C_ADDRESS, NoDevice

\* A bit is 0 or 1.
LEMMA BitTyped ==
    ASSUME NEW b \in Byte, NEW p \in 0..7
    PROVE  Bit(b, p) \in {0, 1}
  <1>1. p \in {0, 1, 2, 3, 4, 5, 6, 7}
    OBVIOUS
  <1>2. CASE p = 0 BY <1>2 DEF Bit, Byte
  <1>3. CASE p = 1 BY <1>3 DEF Bit, Byte
  <1>4. CASE p = 2 BY <1>4 DEF Bit, Byte
  <1>5. CASE p = 3 BY <1>5 DEF Bit, Byte
  <1>6. CASE p = 4 BY <1>6 DEF Bit, Byte
  <1>7. CASE p = 5 BY <1>7 DEF Bit, Byte
  <1>8. CASE p = 6 BY <1>8 DEF Bit, Byte
  <1>9. CASE p = 7 BY <1>9 DEF Bit, Byte
  <1> QED BY <1>1, <1>2, <1>3, <1>4, <1>5, <1>6, <1>7, <1>8, <1>9

\* What a sequence holds.
LEMMA ElementTyped ==
    ASSUME NEW S, NEW s \in Seq(S), NEW i \in 1..Len(s)
    PROVE  s[i] \in S
  OBVIOUS

\* Two bytes are a number.
LEMMA PairTyped ==
    ASSUME NEW a \in Byte, NEW b \in Byte
    PROVE  256 * a + b \in Nat
  BY SMT DEF Byte

\* A word is two bytes.
LEMMA WordBytes ==
    ASSUME NEW v \in Word
    PROVE  v \div 256 \in Byte /\ v % 256 \in Byte
  <1>1. v \in Nat /\ v < 65536
    BY SMT DEF Word
  <1>2. v \div 256 \in Nat /\ v \div 256 < 256
    BY <1>1, SMT
  <1>3. v % 256 \in Byte
    BY <1>1, SMT DEF Byte
  <1> QED BY <1>2, <1>3, SMT DEF Byte

\* Ten bytes are a sequence of ten bytes.
LEMMA TenBytes ==
    ASSUME NEW a \in Byte, NEW b \in Byte, NEW c \in Byte, NEW d \in Byte, NEW e \in Byte,
           NEW f \in Byte, NEW g \in Byte, NEW h \in Byte, NEW i \in Byte, NEW j \in Byte
    PROVE  /\ << a, b, c, d, e, f, g, h, i, j >> \in Seq(Byte)
           /\ Len(<< a, b, c, d, e, f, g, h, i, j >>) = 10
  OBVIOUS

\* A checksum is a byte.
LEMMA ChecksumTyped ==
    ASSUME NEW seed \in Byte, NEW data \in Seq(Byte)
    PROVE  xor_checksum(seed, data) \in Byte
  <1> DEFINE ones(place) == Cardinality({i \in DOMAIN data : Bit(data[i], place) = 1})
             odd(place)  == (Bit(seed, place) + ones(place)) % 2
  <1>1. DOMAIN data = 1..Len(data) /\ Len(data) \in Nat
    OBVIOUS
  <1>2. IsFiniteSet(DOMAIN data)
    BY <1>1, FS_Interval
  <1>3. ASSUME NEW p \in 0..7 PROVE odd(p) \in 0..1
    <2>1. ones(p) \in Nat
      BY <1>2, FS_Subset, FS_CardinalityType
    <2>2. Bit(seed, p) \in {0, 1}
      BY BitTyped
    <2> HIDE DEF ones
    <2> QED BY <2>1, <2>2
  <1>4. xor_checksum(seed, data) =
            odd(0) + 2 * odd(1) + 4 * odd(2) + 8 * odd(3)
                + 16 * odd(4) + 32 * odd(5) + 64 * odd(6) + 128 * odd(7)
    BY DEF xor_checksum
  <1> HIDE DEF odd
  <1>5. /\ odd(0) \in 0..1 /\ odd(1) \in 0..1 /\ odd(2) \in 0..1 /\ odd(3) \in 0..1
        /\ odd(4) \in 0..1 /\ odd(5) \in 0..1 /\ odd(6) \in 0..1 /\ odd(7) \in 0..1
    BY <1>3
  <1>6. PICK a \in 0..1, b \in 0..1, c \in 0..1, d \in 0..1,
             e \in 0..1, f \in 0..1, g \in 0..1, h \in 0..1 :
          /\ a = odd(0) /\ b = odd(1) /\ c = odd(2) /\ d = odd(3)
          /\ e = odd(4) /\ f = odd(5) /\ g = odd(6) /\ h = odd(7)
    BY <1>5, Zenon
  <1>7. xor_checksum(seed, data) =
            a + 2 * b + 4 * c + 8 * d + 16 * e + 32 * f + 64 * g + 128 * h
    BY <1>4, <1>6, Zenon
  <1> QED BY <1>7, SMT DEF Byte

\* A sealed packet is the packet and one byte more, and its seal is right.
LEMMA SealedTyped ==
    ASSUME NEW seed \in Byte, NEW data \in Seq(Byte)
    PROVE  /\ Sealed(seed, data) \in Seq(Byte)
           /\ Len(Sealed(seed, data)) = Len(data) + 1
           /\ Front(Sealed(seed, data)) = data
           /\ Last(Sealed(seed, data)) = xor_checksum(seed, data)
           /\ \A i \in 1..Len(data) : Sealed(seed, data)[i] = data[i]
  BY ChecksumTyped DEF Sealed, Front, Last

\* The constants of the packets are bytes.
LEMMA CodesTyped ==
    /\ DDCCI_REPLY_CHECKSUM_SEED \in Byte /\ DDCCI_REQUEST_CHECKSUM_SEED \in Byte
    /\ DDCCI_DISPLAY_SOURCE \in Byte /\ DDCCI_HOST_SOURCE \in Byte
    /\ DDCCI_CMD_GET_VCP_REPLY \in Byte /\ DDCCI_CMD_GET_VCP \in Byte
    /\ DDCCI_CMD_SET_VCP \in Byte
    /\ DDCCI_VCP_BRIGHTNESS \in Byte /\ DDCCI_VCP_POWER_MODE \in Byte
    /\ 0 \in Byte /\ 128 \in Byte /\ 128 + 8 \in Byte
  BY SMT DEF DDCCI_REPLY_CHECKSUM_SEED, DDCCI_REQUEST_CHECKSUM_SEED, DDCCI_DISPLAY_SOURCE,
     DDCCI_HOST_SOURCE, DDCCI_CMD_GET_VCP_REPLY, DDCCI_CMD_GET_VCP, DDCCI_CMD_SET_VCP,
     DDCCI_VCP_BRIGHTNESS, DDCCI_VCP_POWER_MODE, Byte

\* The null response has three bytes ...
LEMMA NullTyped == NullResponse \in Seq(Byte) /\ Len(NullResponse) = 3
  <1> DEFINE data == << DDCCI_DISPLAY_SOURCE, 128 >>
  <1>1. data \in Seq(Byte) /\ Len(data) = 2
    BY CodesTyped, SMT
  <1>2. DDCCI_REPLY_CHECKSUM_SEED \in Byte
    BY CodesTyped, Zenon
  <1>3. NullResponse = Sealed(DDCCI_REPLY_CHECKSUM_SEED, data)
    BY Zenon DEF NullResponse
  <1> HIDE DEF data
  <1>4. Sealed(DDCCI_REPLY_CHECKSUM_SEED, data) \in Seq(Byte)
        /\ Len(Sealed(DDCCI_REPLY_CHECKSUM_SEED, data)) = Len(data) + 1
    BY <1>1, <1>2, SealedTyped, Zenon
  <1>5. 2 + 1 = 3
    BY SMT
  <1> QED BY <1>1, <1>3, <1>4, <1>5, Zenon

\* ... and a reply with a value eleven.
LEMMA ValueTyped ==
    ASSUME NEW vcp \in Byte, NEW max \in Word, NEW cur \in Word
    PROVE  VcpResponse(vcp, max, cur) \in Seq(Byte) /\ Len(VcpResponse(vcp, max, cur)) = 11
  <1> DEFINE data == << DDCCI_DISPLAY_SOURCE, 128 + 8, DDCCI_CMD_GET_VCP_REPLY, 0, vcp, 0,
                        max \div 256, max % 256, cur \div 256, cur % 256 >>
  <1>1. max \div 256 \in Byte /\ max % 256 \in Byte /\ cur \div 256 \in Byte
        /\ cur % 256 \in Byte
    BY WordBytes, Zenon
  <1>2. data \in Seq(Byte) /\ Len(data) = 10
    BY <1>1, CodesTyped, TenBytes
  <1>3. VcpResponse(vcp, max, cur) = Sealed(DDCCI_REPLY_CHECKSUM_SEED, data)
    BY Zenon DEF VcpResponse
  <1> HIDE DEF data
  <1>4. Sealed(DDCCI_REPLY_CHECKSUM_SEED, data) \in Seq(Byte)
        /\ Len(Sealed(DDCCI_REPLY_CHECKSUM_SEED, data)) = Len(data) + 1
    BY <1>2, CodesTyped, SealedTyped, Zenon
  <1>5. 10 + 1 = 11
    BY SMT
  <1> QED BY <1>2, <1>3, <1>4, <1>5, Zenon

-----------------------------------------------------------------------------
(* The devices *)

DevicesOK == MailboxTypeOK /\ PacketTypeOK /\ EepromTypeOK

\* What is not touched keeps its types.
LEMMA Untouched ==
    /\ MailboxTypeOK /\ UNCHANGED mailboxVars => MailboxTypeOK'
    /\ PacketTypeOK /\ UNCHANGED packetVars => PacketTypeOK'
    /\ EepromTypeOK /\ UNCHANGED eepromVars => EepromTypeOK'
  <1>1. MailboxTypeOK /\ UNCHANGED mailboxVars => MailboxTypeOK'
    BY DEF mailboxVars, MailboxTypeOK
  <1>2. PacketTypeOK /\ UNCHANGED packetVars => PacketTypeOK'
    BY DEF packetVars, PacketTypeOK
  <1>3. EepromTypeOK /\ UNCHANGED eepromVars => EepromTypeOK'
    BY DEF eepromVars, EepromTypeOK
  <1> QED BY <1>1, <1>2, <1>3

\* An answer is one of the replies.
LEMMA AnswerTyped ==
    ASSUME MailboxTypeOK
    PROVE  Answer \in Seq(Byte) /\ Len(Answer) \in {3, 11}
  <1>1. s_brightness \in Word /\ DDCCI_BRIGHTNESS_MAX \in Word
    BY BrightnessMaxAssumption, SMT DEF MailboxTypeOK, Percent, Word
  <1>2. s_power_mode \in Word /\ DDCCI_POWER_OFF_WRITE \in Word
    BY SMT DEF MailboxTypeOK, PowerModes, DDCCI_POWER_ON, DDCCI_POWER_OFF_WRITE, Word
  <1> DEFINE b == VcpResponse(DDCCI_VCP_BRIGHTNESS, DDCCI_BRIGHTNESS_MAX, s_brightness)
             p == VcpResponse(DDCCI_VCP_POWER_MODE, DDCCI_POWER_OFF_WRITE, s_power_mode)
  <1>3. b \in Seq(Byte) /\ Len(b) = 11
    BY <1>1, CodesTyped, ValueTyped, Zenon
  <1>4. p \in Seq(Byte) /\ Len(p) = 11
    BY <1>2, CodesTyped, ValueTyped, Zenon
  <1>5. Answer = b \/ Answer = p \/ Answer = NullResponse
    BY Zenon DEF Answer
  <1> HIDE DEF b, p
  <1> QED BY <1>3, <1>4, <1>5, NullTyped, Zenon

\* A level is a percentage, whatever was asked for.
LEMMA ClampTyped ==
    ASSUME NEW v \in Nat
    PROVE  ClampPercent(v) \in Percent
  BY ConstantTypes DEF ClampPercent, Percent

\* A packet of bytes leaves the mailbox with levels and modes.
LEMMA ProcessTyped ==
    ASSUME MailboxTypeOK, PacketTypeOK, process_write_packet
    PROVE  MailboxTypeOK'
  <1>1. CASE SetVcp
    <2>0. s_rx \in Seq(Byte) /\ Len(s_rx) = 7
      BY <1>1 DEF SetVcp, PacketTypeOK
    <2>1. s_rx[5] \in Byte /\ s_rx[6] \in Byte
      <3>1. 5 \in 1..Len(s_rx) /\ 6 \in 1..Len(s_rx)
        BY <2>0, SMT
      <3> QED BY <2>0, <3>1, ElementTyped, Zenon
    <2>2. PICK v \in Nat : v = 256 * s_rx[5] + s_rx[6]
      BY <2>1, PairTyped, Zenon
    <2>3. SetVcpBrightness(v) \/ SetVcpPowerMode(v) \/ UNCHANGED mailboxVars
      BY <2>2 DEF process_write_packet
    <2>4. CASE SetVcpBrightness(v)
      BY <2>4, ClampTyped DEF SetVcpBrightness, MailboxTypeOK
    <2>5. CASE SetVcpPowerMode(v)
      BY <2>5 DEF SetVcpPowerMode, MailboxTypeOK
    <2> QED BY <2>3, <2>4, <2>5, Untouched
  <1>2. CASE ~SetVcp
    BY <1>2, Untouched DEF process_write_packet
  <1> QED BY <1>1, <1>2

\* The callbacks keep the types of both devices, and what is read is a byte.
LEMMA BeginTyped ==
    ASSUME DevicesOK, NEW device, NEW read \in BOOLEAN, begin(device, read)
    PROVE  DevicesOK'
  <1>0. MailboxTypeOK /\ PacketTypeOK /\ EepromTypeOK
    BY DEF DevicesOK
  <1>1. CASE DdcIs(device) /\ ddcci_begin(read)
    <2>1. UNCHANGED mailboxVars /\ UNCHANGED eepromVars /\ s_read_direction' = read
      BY <1>1 DEF DdcIs, ddcci_begin
    <2>2. CASE ~read
      <3>1. s_rx' = << >> /\ UNCHANGED << s_tx, s_tx_index, s_response_ready >>
        BY <1>1, <2>2 DEF ddcci_begin
      <3>2. PacketTypeOK'
        BY <1>0, <2>1, <3>1, ConstantTypes DEF PacketTypeOK
      <3> QED BY <1>0, <2>1, <3>2, Untouched DEF DevicesOK
    <2>3. CASE read /\ s_response_ready
      <3>1. s_tx_index' = 0 /\ UNCHANGED << s_rx, s_tx, s_response_ready >>
        BY <1>1, <2>3 DEF ddcci_begin
      <3>2. PacketTypeOK'
        BY <1>0, <2>1, <3>1 DEF PacketTypeOK
      <3> QED BY <1>0, <2>1, <3>2, Untouched DEF DevicesOK
    <2>4. CASE read /\ ~s_response_ready
      <3>1. /\ s_tx' = NullResponse /\ s_tx_index' = 0 /\ s_response_ready' = TRUE
            /\ s_rx' = s_rx
        BY <1>1, <2>4 DEF ddcci_begin, Respond
      <3>2. PacketTypeOK'
        BY <1>0, <2>1, <3>1, NullTyped DEF PacketTypeOK
      <3> QED BY <1>0, <2>1, <3>2, Untouched DEF DevicesOK
    <2> QED BY <2>2, <2>3, <2>4
  <1>2. CASE EepromIs(device) /\ eeprom_begin(read)
    <2>1. UNCHANGED mailboxVars /\ UNCHANGED packetVars /\ UNCHANGED s_pointer
      BY <1>2 DEF EepromIs, eeprom_begin, ddcVars
    <2>2. s_expect_pointer' \in BOOLEAN
      BY <1>2 DEF eeprom_begin
    <2> QED BY <1>0, <2>1, <2>2, Untouched DEF EepromTypeOK, DevicesOK
  <1>3. CASE NobodyIs(device)
    BY <1>0, <1>3, Untouched DEF NobodyIs, deviceVars, ddcVars, DevicesOK
  <1> QED BY <1>1, <1>2, <1>3 DEF begin

\* Writing a byte, to either device.
LEMMA WriteTyped ==
    ASSUME DevicesOK, NEW device, NEW byte \in Byte, write_byte(device, byte)
    PROVE  DevicesOK'
  <1>0. MailboxTypeOK /\ PacketTypeOK /\ EepromTypeOK
    BY DEF DevicesOK
  <1>1. CASE DdcIs(device) /\ ddcci_write_byte(byte)
    <2>1. /\ UNCHANGED mailboxVars /\ UNCHANGED eepromVars
          /\ UNCHANGED << s_tx, s_tx_index, s_response_ready, s_read_direction >>
          /\ s_rx' = IF PacketFits THEN Append(s_rx, byte) ELSE s_rx
      BY <1>1 DEF DdcIs, ddcci_write_byte
    <2>2. s_rx \in Seq(Byte) /\ Len(s_rx) <= DDCCI_RX_MAX /\ Len(s_rx) \in Nat
      BY <1>0 DEF PacketTypeOK
    <2>3. CASE PacketFits
      <3>1. /\ Append(s_rx, byte) \in Seq(Byte)
            /\ Len(Append(s_rx, byte)) = Len(s_rx) + 1
        BY <2>2
      <3>2. Len(s_rx) + 1 <= DDCCI_RX_MAX
        BY <2>2, <2>3, ConstantTypes DEF PacketFits
      <3>3. s_rx' \in Seq(Byte) /\ Len(s_rx') <= DDCCI_RX_MAX
        BY <2>1, <2>3, <3>1, <3>2
      <3> QED BY <1>0, <2>1, <3>3, Untouched DEF PacketTypeOK, DevicesOK
    <2>4. CASE ~PacketFits
      BY <1>0, <2>1, <2>4, Untouched DEF packetVars, DevicesOK
    <2> QED BY <2>3, <2>4
  <1>2. CASE EepromIs(device) /\ eeprom_write_byte(byte)
    <2>1. UNCHANGED mailboxVars /\ UNCHANGED packetVars
      BY <1>2 DEF EepromIs, ddcVars
    <2>2. s_pointer' \in 0..255 /\ s_expect_pointer' = FALSE
      BY <1>0, <1>2 DEF eeprom_write_byte, EepromTypeOK, Byte
    <2> QED BY <1>0, <2>1, <2>2, Untouched DEF EepromTypeOK, DevicesOK
  <1> QED BY <1>1, <1>2 DEF write_byte

\* What a device sends is a byte.
LEMMA ReadTyped ==
    ASSUME DevicesOK, NEW device
    PROVE  read_byte(device) \in Byte
  <1>1. eeprom_read_byte \in Byte
    BY ConstantTypes DEF eeprom_read_byte, DevicesOK, EepromTypeOK
  <1>2. ddcci_read_byte \in Byte
    <2>1. s_tx \in Seq(Byte) /\ s_tx_index \in 0..Len(s_tx) /\ Len(s_tx) \in Nat
      BY DEF DevicesOK, PacketTypeOK
    <2>2. s_tx_index < Len(s_tx) => s_tx_index + 1 \in 1..Len(s_tx)
      BY <2>1
    <2>3. s_tx_index < Len(s_tx) => s_tx[s_tx_index + 1] \in Byte
      BY <2>1, <2>2
    <2> QED BY <2>3, CodesTyped DEF ddcci_read_byte
  <1>3. \hFF \in Byte
    BY DEF Byte
  <1> QED BY <1>1, <1>2, <1>3 DEF read_byte

\* Moving on to the next byte.
LEMMA AdvanceTyped ==
    ASSUME DevicesOK, NEW device, read_advance(device)
    PROVE  DevicesOK'
  <1>0. MailboxTypeOK /\ PacketTypeOK /\ EepromTypeOK
    BY DEF DevicesOK
  <1>1. CASE DdcIs(device) /\ ddcci_read_advance
    <2>1. /\ UNCHANGED mailboxVars /\ UNCHANGED eepromVars
          /\ UNCHANGED << s_rx, s_tx, s_response_ready, s_read_direction >>
          /\ s_tx_index' = IF s_tx_index < Len(s_tx) THEN s_tx_index + 1 ELSE s_tx_index
      BY <1>1 DEF DdcIs, ddcci_read_advance
    <2>2. Len(s_tx) \in Nat /\ s_tx_index \in 0..Len(s_tx)
      BY <1>0 DEF PacketTypeOK
    <2>3. s_tx_index' \in 0..Len(s_tx)
      BY <2>1, <2>2
    <2> QED BY <1>0, <2>1, <2>3, Untouched DEF PacketTypeOK, DevicesOK
  <1>2. CASE EepromIs(device) /\ eeprom_read_advance
    <2>1. UNCHANGED mailboxVars /\ UNCHANGED packetVars
      BY <1>2 DEF EepromIs, ddcVars
    <2>2. s_pointer' \in 0..255 /\ s_expect_pointer' = s_expect_pointer
      BY <1>0, <1>2 DEF eeprom_read_advance, EepromTypeOK
    <2> QED BY <1>0, <2>1, <2>2, Untouched DEF EepromTypeOK, DevicesOK
  <1> QED BY <1>1, <1>2 DEF read_advance

\* The end of a transfer.
LEMMA EndTyped ==
    ASSUME DevicesOK, NEW device, end_device(device)
    PROVE  DevicesOK'
  <1>0. MailboxTypeOK /\ PacketTypeOK /\ EepromTypeOK
    BY DEF DevicesOK
  <1>1. CASE DdcIs(device) /\ ddcci_end
    <2>1. EepromTypeOK' /\ UNCHANGED << s_rx, s_read_direction >>
      BY <1>0, <1>1, Untouched DEF DdcIs, ddcci_end
    <2>2. CASE s_read_direction
      <3>1. /\ UNCHANGED mailboxVars /\ s_tx' = s_tx /\ s_tx_index' = 0
            /\ s_response_ready' = FALSE
        BY <1>1, <2>2 DEF ddcci_end, ReplyAfterRead
      <3>2. 0 \in 0..Len(s_tx)
        BY <1>0, SMT DEF PacketTypeOK
      <3>3. PacketTypeOK'
        BY <1>0, <2>1, <3>1, <3>2, Zenon DEF PacketTypeOK
      <3> QED BY <1>0, <2>1, <3>1, <3>3, Untouched DEF DevicesOK
    <2>3. CASE ~s_read_direction /\ Len(s_rx) > 0
      <3>1. process_write_packet
        BY <1>1, <2>3 DEF ddcci_end
      <3>2. s_tx' = Answer /\ s_tx_index' = 0 /\ s_response_ready' = TRUE
        BY <3>1 DEF process_write_packet, Respond
      <3>3. MailboxTypeOK'
        BY <1>0, <3>1, ProcessTyped
      <3>4. PICK a \in Seq(Byte) : a = Answer /\ Len(a) \in {3, 11}
        BY <1>0, AnswerTyped
      <3>5. s_tx' \in Seq(Byte) /\ Len(s_tx') \in {0, 3, 11} /\ s_tx_index' \in 0..Len(s_tx')
        BY <3>2, <3>4
      <3> QED BY <1>0, <2>1, <3>2, <3>3, <3>5 DEF PacketTypeOK, DevicesOK
    <2>4. CASE ~s_read_direction /\ ~(Len(s_rx) > 0)
      <3>1. UNCHANGED mailboxVars /\ UNCHANGED << s_tx, s_tx_index, s_response_ready >>
        BY <1>1, <2>4 DEF ddcci_end
      <3> QED BY <1>0, <2>1, <3>1, Untouched DEF packetVars, DevicesOK
    <2> QED BY <2>2, <2>3, <2>4
  <1>2. CASE EepromIs(device) /\ UNCHANGED eepromVars
    BY <1>0, <1>2, Untouched DEF EepromIs, ddcVars, DevicesOK
  <1>3. CASE NobodyIs(device)
    BY <1>0, <1>3, Untouched DEF NobodyIs, deviceVars, ddcVars, DevicesOK
  <1> QED BY <1>1, <1>2, <1>3 DEF end_device

-----------------------------------------------------------------------------
(* Packets and transfers *)

\* A payload has two or four bytes.
LEMMA PayloadTyped ==
    ASSUME NEW m \in Messages
    PROVE  /\ Payload(m) \in Seq(Byte)
           /\ Len(Payload(m)) \in {2, 4}
  <1>1. m.op \in {"get", "set"} /\ m.code \in Byte /\ m.value \in Word
    BY Zenon DEF Messages
  <1>2. m.value \div 256 \in Byte /\ m.value % 256 \in Byte
    BY <1>1, WordBytes, Zenon
  <1>3. CASE m.op = "get"
    <2>1. Payload(m) = << DDCCI_CMD_GET_VCP, m.code >>
      BY <1>3, Zenon DEF Payload
    <2> QED BY <1>1, <2>1, CodesTyped, SMT
  <1>4. CASE m.op = "set"
    <2>1. Payload(m) = << DDCCI_CMD_SET_VCP, m.code, m.value \div 256, m.value % 256 >>
      BY <1>4, Zenon DEF Payload
    <2>2. PICK a \in Byte, b \in Byte : a = m.value \div 256 /\ b = m.value % 256
      BY <1>2, Zenon
    <2>3. Payload(m) = << DDCCI_CMD_SET_VCP, m.code, a, b >>
      BY <2>1, <2>2, Zenon
    <2> QED BY <1>1, <2>3, CodesTyped, SMT
  <1> QED BY <1>1, <1>3, <1>4, Zenon

\* A framed payload has three bytes more: its source, its length, its seal.
LEMMA FramedTyped ==
    ASSUME NEW p \in Seq(Byte), Len(p) <= 127
    PROVE  /\ Framed(p) \in Seq(Byte)
           /\ Len(Framed(p)) = Len(p) + 3
  <1>0. Len(p) \in Nat
    BY LenProperties, Zenon
  <1>1. 128 + Len(p) \in Byte
    BY <1>0, SMT DEF Byte
  <1> DEFINE head == << DDCCI_HOST_SOURCE, 128 + Len(p) >>
             data == head \o p
  <1>2. head \in Seq(Byte) /\ Len(head) = 2
    BY <1>1, CodesTyped, SMT
  <1>3. Framed(p) = Sealed(DDCCI_REQUEST_CHECKSUM_SEED, data)
    BY Zenon DEF Framed
  <1> HIDE DEF head
  <1>4. data \in Seq(Byte) /\ Len(data) = Len(head) + Len(p)
    BY <1>2, ConcatProperties, Zenon
  <1> HIDE DEF data
  <1>5. Framed(p) \in Seq(Byte) /\ Len(Framed(p)) = Len(data) + 1
    <2>1. DDCCI_REQUEST_CHECKSUM_SEED \in Byte
      BY CodesTyped, Zenon
    <2> QED BY <1>3, <1>4, <2>1, SealedTyped, Zenon
  <1> QED BY <1>0, <1>2, <1>4, <1>5, SMT

\* Every packet is made of bytes.
LEMMA PacketTyped ==
    ASSUME NEW m \in Messages
    PROVE  Packet(m) \in Seq(Byte)
  <1> DEFINE p == Payload(m)
             sound == Framed(p)
             padding == [i \in 1..DDCCI_RX_MAX - Len(p) |-> 0]
  <1>1. p \in Seq(Byte) /\ Len(p) \in {2, 4}
    BY PayloadTyped, Zenon
  <1>2. m.flaw \in {"none", "checksum", "cut", "overlong"}
    BY Zenon DEF Messages
  <1>3. Packet(m) = CASE m.flaw = "none"     -> sound
                      [] m.flaw = "checksum" ->
                             Append(Front(sound), (Last(sound) + 128) % 256)
                      [] m.flaw = "cut"      -> Front(sound)
                      [] m.flaw = "overlong" -> Framed(p \o padding)
    BY Zenon DEF Packet
  <1> HIDE DEF p
  <1>4. sound \in Seq(Byte) /\ Len(sound) \in {5, 7}
    <2>1. PICK n \in {2, 4} : n = Len(p)
      BY <1>1, Zenon
    <2>2. n <= 127 /\ n + 3 \in {5, 7}
      BY SMT
    <2>3. sound \in Seq(Byte) /\ Len(sound) = Len(p) + 3
      BY <1>1, <2>1, <2>2, FramedTyped, Zenon
    <2> QED BY <2>1, <2>2, <2>3, Zenon
  <1> HIDE DEF sound
  <1>5. Front(sound) \in Seq(Byte)
    <2>1. \A i \in 1..(Len(sound) - 1) : sound[i] \in Byte
      BY <1>4, SMT
    <2>2. 1 \in Int /\ Len(sound) - 1 \in Int
      BY <1>4, SMT
    <2>3. SubSeq(sound, 1, Len(sound) - 1) \in Seq(Byte)
      BY <2>1, <2>2, SubSeqProperties, Zenon
    <2> QED BY <2>3, Zenon DEF Front
  <1>6. (Last(sound) + 128) % 256 \in Byte
    <2>0. \A n \in {5, 7} : n \in 1..n
      BY SMT
    <2>1. Len(sound) \in 1..Len(sound)
      BY <1>4, <2>0, Zenon
    <2>2. PICK b \in Byte : b = Last(sound)
      BY <1>4, <2>1, ElementTyped, Zenon DEF Last
    <2>3. (b + 128) % 256 \in Byte
      BY SMT DEF Byte
    <2> QED BY <2>2, <2>3, Zenon
  <1>7. Append(Front(sound), (Last(sound) + 128) % 256) \in Seq(Byte)
    <2>1. PICK b \in Byte : b = (Last(sound) + 128) % 256
      BY <1>6, Zenon
    <2>2. Append(Front(sound), b) \in Seq(Byte)
      BY <1>5, AppendProperties, Zenon
    <2> QED BY <2>1, <2>2, Zenon
  <1>8. Framed(p \o padding) \in Seq(Byte)
    <2>1. PICK k \in {2, 4} : k = Len(p)
      BY <1>1, Zenon
    <2>2. PICK n \in Nat : n = DDCCI_RX_MAX - k
      BY ConstantTypes, SMT
    <2>3. /\ [i \in 1..n |-> 0] \in Seq(Byte)
          /\ Len([i \in 1..n |-> 0]) = n
      BY CodesTyped, SMT
    <2>4. padding \in Seq(Byte) /\ Len(padding) = n
      BY <2>1, <2>2, <2>3, Zenon
    <2> HIDE DEF padding
    <2>5. p \o padding \in Seq(Byte) /\ Len(p \o padding) = Len(p) + Len(padding)
      BY <1>1, <2>4, ConcatProperties, Zenon
    <2>6. k + n <= 127
      BY <2>2, ConstantTypes, SMT
    <2>7. Len(p \o padding) <= 127
      BY <2>1, <2>4, <2>5, <2>6, Zenon
    <2> QED BY <2>5, <2>7, FramedTyped, Zenon
  <1> HIDE DEF padding
  <1> QED BY <1>2, <1>3, <1>4, <1>5, <1>7, <1>8, Zenon

\* What a transfer is made of: its direction is the last bit of its address.
LEMMA TransferFacts ==
    ASSUME NEW t, IsTransfer(t)
    PROVE  /\ t.to \in 0..127
           /\ t.bytes \in Seq(Byte) /\ Len(t.bytes) \in Nat \ {0}
           /\ t.reads \in Nat
           /\ t.reads > 0 => Len(t.bytes) = 1
           /\ t.bytes[1] = 2 * t.to + (IF t.reads > 0 THEN 1 ELSE 0)
           /\ t.then \in {"stop", "restart"}
  <1>1. t.to \in 0..127 /\ t.then \in {"stop", "restart"}
    BY Zenon DEF IsTransfer
  <1>2. PICK a \in 0..127 : a = t.to
    BY <1>1, Zenon
  <1>3. 2 * a \in Byte /\ 2 * a + 1 \in Byte /\ 2 * a + 0 = 2 * a
    BY SMT DEF Byte
  <1>4. ASSUME NEW s \in Seq(Byte), t.bytes = << 2 * t.to >> \o s, t.reads = 0
        PROVE  /\ t.bytes \in Seq(Byte) /\ Len(t.bytes) \in Nat \ {0}
               /\ t.bytes[1] = 2 * t.to
    <2>1. << 2 * a >> \in Seq(Byte) /\ Len(<< 2 * a >>) = 1 /\ << 2 * a >>[1] = 2 * a
      BY <1>3, SMT
    <2> QED BY <1>2, <1>4, <2>1, SMT
  <1>5. CASE t.message # Nothing /\ t.message \in Messages /\ t = Send(t.message, t.then)
    <2>1. Packet(t.message) \in Seq(Byte)
      BY <1>5, PacketTyped, Zenon
    <2>2. /\ t.to = DDCCI_I2C_ADDRESS /\ t.reads = 0
          /\ t.bytes = << 2 * DDCCI_I2C_ADDRESS >> \o Packet(t.message)
      <3> DEFINE w == Write(DDCCI_I2C_ADDRESS, Packet(t.message), t.then)
      <3>1. t = [w EXCEPT !.message = t.message]
        BY <1>5, Zenon DEF Send
      <3>2. /\ w.to = DDCCI_I2C_ADDRESS /\ w.reads = 0
            /\ w.bytes = << 2 * DDCCI_I2C_ADDRESS >> \o Packet(t.message)
            /\ DOMAIN w = {"to", "bytes", "reads", "then", "message"}
        BY DEF Write
      <3> HIDE DEF w
      <3> QED BY <3>1, <3>2
    <2>3. t.reads = 0 /\ t.bytes = << 2 * t.to >> \o Packet(t.message)
      BY <2>2, Zenon
    <2> QED BY <1>1, <1>2, <1>3, <1>4, <2>1, <2>3
  <1>6. CASE t.reads \in Nat \ {0} /\ t = Read(t.to, t.reads, t.then)
    <2>1. t.bytes = << 2 * a + 1 >> /\ t.reads > 0
      BY <1>2, <1>6 DEF Read
    <2>2. << 2 * a + 1 >> \in Seq(Byte) /\ Len(<< 2 * a + 1 >>) = 1
          /\ << 2 * a + 1 >>[1] = 2 * a + 1
      BY <1>3, SMT
    <2> QED BY <1>1, <1>2, <1>6, <2>1, <2>2
  <1>7. CASE /\ t.bytes \in Seq(Byte) /\ t.bytes # << >>
             /\ t = Write(t.to, Tail(t.bytes), t.then)
    <2>1. t.bytes = << 2 * t.to >> \o Tail(t.bytes) /\ t.reads = 0
      BY <1>7 DEF Write
    <2>2. Tail(t.bytes) \in Seq(Byte)
      BY <1>7, HeadTailProperties, Zenon
    <2> QED BY <1>1, <1>2, <1>3, <1>4, <2>1, <2>2
  <1> QED BY <1>5, <1>6, <1>7, Zenon DEF IsTransfer

\* What is left of a script is a script.
LEMMA TailTyped ==
    ASSUME NEW s, s \in Seq(Range(s)), Len(s) > 1
    PROVE  /\ Tail(s) \in Seq(Range(Tail(s))) /\ Tail(s) # << >>
           /\ Range(Tail(s)) \subseteq Range(s)
           /\ Last(Tail(s)) = Last(s)
  <1>1. s # << >>
    BY EmptySeq, SMT
  <1>2. Tail(s) \in Seq(Range(s)) /\ Len(Tail(s)) = Len(s) - 1
    BY <1>1, HeadTailProperties, Zenon
  <1>3. Len(Tail(s)) # 0
    <2>1. PICK n \in Nat : n = Len(s)
      BY LenProperties, Zenon
    <2>2. n > 1 => n - 1 # 0
      BY SMT
    <2> QED BY <1>2, <2>1, <2>2, Zenon
  <1>4. Last(Tail(s)) = Last(s)
    <2>1. PICK n \in Nat : n = Len(s)
      BY LenProperties, Zenon
    <2>2. n > 1 => n - 1 \in 1..(n - 1) /\ (n - 1) + 1 = n
      BY SMT
    <2>3. \A i \in 1..(n - 1) : Tail(s)[i] = s[i + 1]
      BY <1>1, <1>2, <2>1, HeadTailProperties, Zenon
    <2>4. Tail(s)[n - 1] = s[n]
      BY <2>1, <2>2, <2>3, Zenon
    <2> QED BY <1>2, <2>1, <2>4, Zenon DEF Last
  <1> QED BY <1>2, <1>3, <1>4, EmptySeq, RangeOfSeq, SeqOfRange, Zenon

-----------------------------------------------------------------------------
(* The types of the engine *)

\* The interrupt's pending bit is a truth value.
LEMMA LatchTyped == LatchInterrupt => interrupt' \in BOOLEAN
  BY DEF LatchInterrupt

\* Zero, and the state of a byte just begun.
LEMMA FreshTyped == FreshLocals \in Locals
  BY CodesTyped, SMT DEF FreshLocals, Locals, States

\* One local changes at a time ...
LEMMA FieldsTyped ==
    ASSUME NEW e \in Locals
    PROVE  /\ \A v \in States : [e EXCEPT !.state = v] \in Locals
           /\ \A v \in Byte : [e EXCEPT !.shift = v] \in Locals
           /\ \A v \in 0..8 : [e EXCEPT !.bits = v] \in Locals
           /\ \A v \in BOOLEAN : [e EXCEPT !.read = v] \in Locals
           /\ \A v \in BOOLEAN : [e EXCEPT !.rx_ack = v] \in Locals
           /\ \A v \in 0..2 : [e EXCEPT !.ack_phase = v] \in Locals
           /\ \A v \in Byte : [e EXCEPT !.tx_byte = v] \in Locals
           /\ \A v \in 0..8 : [e EXCEPT !.tx_bits = v] \in Locals
           /\ \A v \in BOOLEAN : [e EXCEPT !.master_ack = v] \in Locals
           /\ \A v \in {NoDevice, DDCCI_I2C_ADDRESS, EDID_EEPROM_I2C_ADDRESS} :
                  [e EXCEPT !.active = v] \in Locals
  <1>1. \A v \in States : [e EXCEPT !.state = v] \in Locals
    BY Zenon DEF Locals
  <1>2. \A v \in Byte : [e EXCEPT !.shift = v] \in Locals
    BY Zenon DEF Locals
  <1>3. \A v \in 0..8 : [e EXCEPT !.bits = v] \in Locals
    BY Zenon DEF Locals
  <1>4. \A v \in BOOLEAN : [e EXCEPT !.read = v] \in Locals
    BY Zenon DEF Locals
  <1>5. \A v \in BOOLEAN : [e EXCEPT !.rx_ack = v] \in Locals
    BY Zenon DEF Locals
  <1>6. \A v \in 0..2 : [e EXCEPT !.ack_phase = v] \in Locals
    BY Zenon DEF Locals
  <1>7. \A v \in Byte : [e EXCEPT !.tx_byte = v] \in Locals
    BY Zenon DEF Locals
  <1>8. \A v \in 0..8 : [e EXCEPT !.tx_bits = v] \in Locals
    BY Zenon DEF Locals
  <1>9. \A v \in BOOLEAN : [e EXCEPT !.master_ack = v] \in Locals
    BY Zenon DEF Locals
  <1>10. \A v \in {NoDevice, DDCCI_I2C_ADDRESS, EDID_EEPROM_I2C_ADDRESS} :
             [e EXCEPT !.active = v] \in Locals
    BY Zenon DEF Locals
  <1> QED BY <1>1, <1>2, <1>3, <1>4, <1>5, <1>6, <1>7, <1>8, <1>9, <1>10, Zenon

\* ... or several together.
LEMMA UpdatesTyped ==
    ASSUME NEW e \in Locals
    PROVE  /\ \A b \in Byte, n \in 0..8 : [e EXCEPT !.shift = b, !.bits = n] \in Locals
           /\ \A b \in Byte, n \in 0..8, p \in 0..2, s \in States :
                  [e EXCEPT !.shift = b, !.bits = n, !.ack_phase = p, !.state = s] \in Locals
           /\ \A r \in BOOLEAN, p \in 0..2, s \in States,
                 d \in {NoDevice, DDCCI_I2C_ADDRESS, EDID_EEPROM_I2C_ADDRESS} :
                  [e EXCEPT !.read = r, !.active = d, !.ack_phase = p, !.state = s] \in Locals
           /\ \A r \in BOOLEAN, p \in 0..2, s \in States :
                  [e EXCEPT !.rx_ack = r, !.ack_phase = p, !.state = s] \in Locals
           /\ \A n \in 0..8, p \in 0..2, s \in States :
                  [e EXCEPT !.tx_bits = n, !.ack_phase = p, !.state = s] \in Locals
           /\ \A b \in Byte, n \in 0..8, p \in 0..2, s \in States :
                  [e EXCEPT !.tx_byte = b, !.tx_bits = n, !.ack_phase = p, !.state = s]
                      \in Locals
           /\ \A r \in BOOLEAN, p \in 0..2 :
                  [e EXCEPT !.master_ack = r, !.ack_phase = p] \in Locals
           /\ \A p \in 0..2, s \in States : [e EXCEPT !.ack_phase = p, !.state = s] \in Locals
  <1>0. ASSUME NEW f \in Locals, NEW p \in 0..2, NEW s \in States
        PROVE  [f EXCEPT !.ack_phase = p, !.state = s] \in Locals
    <2>1. [f EXCEPT !.ack_phase = p] \in Locals
      BY FieldsTyped, Zenon
    <2> QED BY <2>1, FieldsTyped, Zenon
  <1>1. ASSUME NEW b \in Byte, NEW n \in 0..8
        PROVE  [e EXCEPT !.shift = b, !.bits = n] \in Locals
    <2>1. [e EXCEPT !.shift = b] \in Locals
      BY FieldsTyped, Zenon
    <2> QED BY <2>1, FieldsTyped, Zenon
  <1>2. ASSUME NEW b \in Byte, NEW n \in 0..8, NEW p \in 0..2, NEW s \in States
        PROVE  [e EXCEPT !.shift = b, !.bits = n, !.ack_phase = p, !.state = s] \in Locals
    BY <1>0, <1>1, Zenon
  <1>3. ASSUME NEW r \in BOOLEAN, NEW p \in 0..2, NEW s \in States,
               NEW d \in {NoDevice, DDCCI_I2C_ADDRESS, EDID_EEPROM_I2C_ADDRESS}
        PROVE  [e EXCEPT !.read = r, !.active = d, !.ack_phase = p, !.state = s] \in Locals
    <2>1. [e EXCEPT !.read = r] \in Locals
      BY FieldsTyped, Zenon
    <2>2. [e EXCEPT !.read = r, !.active = d] \in Locals
      BY <2>1, FieldsTyped, Zenon
    <2> QED BY <1>0, <2>2, Zenon
  <1>4. ASSUME NEW r \in BOOLEAN, NEW p \in 0..2, NEW s \in States
        PROVE  [e EXCEPT !.rx_ack = r, !.ack_phase = p, !.state = s] \in Locals
    <2>1. [e EXCEPT !.rx_ack = r] \in Locals
      BY FieldsTyped, Zenon
    <2> QED BY <1>0, <2>1, Zenon
  <1>5. ASSUME NEW n \in 0..8, NEW p \in 0..2, NEW s \in States
        PROVE  [e EXCEPT !.tx_bits = n, !.ack_phase = p, !.state = s] \in Locals
    <2>1. [e EXCEPT !.tx_bits = n] \in Locals
      BY FieldsTyped, Zenon
    <2> QED BY <1>0, <2>1, Zenon
  <1>6. ASSUME NEW b \in Byte, NEW n \in 0..8, NEW p \in 0..2, NEW s \in States
        PROVE  [e EXCEPT !.tx_byte = b, !.tx_bits = n, !.ack_phase = p, !.state = s] \in Locals
    <2>1. [e EXCEPT !.tx_byte = b] \in Locals
      BY FieldsTyped, Zenon
    <2>2. [e EXCEPT !.tx_byte = b, !.tx_bits = n] \in Locals
      BY <2>1, FieldsTyped, Zenon
    <2> QED BY <1>0, <2>2, Zenon
  <1>7. ASSUME NEW r \in BOOLEAN, NEW p \in 0..2
        PROVE  [e EXCEPT !.master_ack = r, !.ack_phase = p] \in Locals
    <2>1. [e EXCEPT !.master_ack = r] \in Locals
      BY FieldsTyped, Zenon
    <2> QED BY <2>1, FieldsTyped, Zenon
  <1> QED BY <1>0, <1>1, <1>2, <1>3, <1>4, <1>5, <1>6, <1>7, Zenon

\* The locals at a repeated START.
LEMMA RestartedTyped ==
    ASSUME NEW e \in Locals
    PROVE  [e EXCEPT !.state = "address", !.shift = 0, !.bits = 0, !.read = FALSE,
                     !.rx_ack = TRUE, !.ack_phase = 0, !.active = NoDevice] \in Locals
  <1>0. "address" \in States /\ 0 \in Byte /\ 0 \in 0..8 /\ 0 \in 0..2
    BY CodesTyped, SMT DEF States
  <1>1. [e EXCEPT !.state = "address"] \in Locals
    BY <1>0, FieldsTyped, Zenon
  <1>2. [e EXCEPT !.state = "address", !.shift = 0] \in Locals
    BY <1>0, <1>1, FieldsTyped, Zenon
  <1>3. [e EXCEPT !.state = "address", !.shift = 0, !.bits = 0] \in Locals
    BY <1>0, <1>2, FieldsTyped, Zenon
  <1>4. [e EXCEPT !.state = "address", !.shift = 0, !.bits = 0, !.read = FALSE] \in Locals
    BY <1>3, FieldsTyped, Zenon
  <1>5. [e EXCEPT !.state = "address", !.shift = 0, !.bits = 0, !.read = FALSE,
                  !.rx_ack = TRUE] \in Locals
    BY <1>4, FieldsTyped, Zenon
  <1>6. [e EXCEPT !.state = "address", !.shift = 0, !.bits = 0, !.read = FALSE,
                  !.rx_ack = TRUE, !.ack_phase = 0] \in Locals
    BY <1>0, <1>5, FieldsTyped, Zenon
  <1> QED BY <1>6, FieldsTyped, Zenon

\* The states and the small numbers of the engine.
LEMMA StateNames ==
    /\ {"address", "address_ack", "rx", "rx_ack", "tx", "tx_master_ack", "ignore"} = States
    /\ 0 \in 0..2 /\ 1 \in 0..2 /\ 2 \in 0..2 /\ 0 \in 0..8 /\ 0 \in Byte
  BY SMT DEF States, Byte

\* A bit shifted in.
LEMMA ShiftedTyped ==
    ASSUME eng \in Locals, eng.bits < 8, NEW bit \in {0, 1}
    PROVE  /\ Shifted(bit) \in Locals
           /\ Shifted(bit).state = eng.state /\ Shifted(bit).active = eng.active
           /\ Shifted(bit).bits = eng.bits + 1
           /\ Shifted(bit).ack_phase = eng.ack_phase
  <1>1. eng.shift \in Byte /\ eng.bits \in 0..8
    BY SMT DEF Locals
  <1>2. (2 * eng.shift + bit) % 256 \in Byte
    BY <1>1, SMT DEF Byte
  <1>3. eng.bits + 1 \in 0..8
    BY <1>1, SMT
  <1> DEFINE b == (2 * eng.shift + bit) % 256
             n == eng.bits + 1
  <1>4. Shifted(bit) = [eng EXCEPT !.shift = b, !.bits = n]
    BY Zenon DEF Shifted
  <1>5. b \in Byte /\ n \in 0..8
    BY <1>2, <1>3
  <1> HIDE DEF b, n
  <1>6. Shifted(bit) \in Locals
    <2>1. \A c \in Byte, k \in 0..8 : [eng EXCEPT !.shift = c, !.bits = k] \in Locals
      BY UpdatesTyped, Zenon
    <2>2. [eng EXCEPT !.shift = b, !.bits = n] \in Locals
      BY <1>5, <2>1, Zenon
    <2> QED BY <1>4, <2>2, Zenon
  <1> QED BY <1>6, SMT DEF Shifted, Locals

\* An address is answered by one of the devices or by none.
LEMMA FoundTyped ==
    ASSUME NEW a
    PROVE  find_device(a) \in {NoDevice, DDCCI_I2C_ADDRESS, EDID_EEPROM_I2C_ADDRESS}
  BY Zenon DEF find_device

\* A rising clock keeps the types of the devices and of the locals.
LEMMA RiseTyped ==
    ASSUME DevicesOK, eng \in Locals, BitsInv, NEW bit \in {0, 1}, Rise(bit)
    PROVE  DevicesOK' /\ eng' \in Locals /\ BitsInv'
  <1>0. UNCHANGED deviceVars => DevicesOK'
    BY Untouched, Zenon DEF deviceVars, ddcVars, DevicesOK
  <1>1. CASE RiseAddress(bit)
    <2> DEFINE next == Shifted(bit)
               device == find_device(next.shift \div 2)
               read == next.shift % 2 = 1
    <2>1. /\ next \in Locals /\ next.state = "address"
          /\ next.bits = eng.bits + 1 /\ eng.bits < 8
      BY <1>1, ShiftedTyped DEF RiseAddress, BitsInv
    <2>2. CASE next.bits = 8
      <3>1. eng' = [next EXCEPT !.read = read, !.active = device,
                                !.ack_phase = 0, !.state = "address_ack"]
            /\ begin(device, read)
        BY <1>1, <2>2, Zenon DEF RiseAddress
      <3>2. PICK r \in BOOLEAN : r = read
        OBVIOUS
      <3>3. DevicesOK'
        BY <3>1, <3>2, BeginTyped, Zenon
      <3>4. PICK d \in {NoDevice, DDCCI_I2C_ADDRESS, EDID_EEPROM_I2C_ADDRESS} : d = device
        BY FoundTyped, Zenon
      <3> HIDE DEF next, device, read
      <3>5. eng' = [next EXCEPT !.read = r, !.active = d,
                                !.ack_phase = 0, !.state = "address_ack"]
        BY <3>1, <3>2, <3>4, Zenon
      <3>6. eng' \in Locals
        BY <2>1, <3>5, UpdatesTyped, StateNames, Zenon
      <3>7. eng'.state = "address_ack"
        BY <2>1, <3>5, SMT DEF Locals
      <3> QED BY <3>3, <3>6, <3>7 DEF BitsInv
    <2>3. CASE next.bits # 8
      <3>1. eng' = next /\ UNCHANGED deviceVars
        BY <1>1, <2>3, Zenon DEF RiseAddress
      <3>2. next.bits \in 0..8
        BY <2>1, SMT DEF Locals
      <3> HIDE DEF next
      <3> QED BY <1>0, <2>1, <2>3, <3>1, <3>2 DEF BitsInv
    <2> QED BY <2>2, <2>3
  <1>2. CASE RiseReceive(bit)
    <2> DEFINE next == Shifted(bit)
    <2>1. /\ next \in Locals /\ next.state = "rx"
          /\ next.bits = eng.bits + 1 /\ eng.bits < 8
      BY <1>2, ShiftedTyped DEF RiseReceive, BitsInv
    <2>2. CASE next.bits = 8
      <3>1. eng' = [next EXCEPT !.rx_ack = Acknowledges(eng.active),
                                !.ack_phase = 0, !.state = "rx_ack"]
            /\ write_byte(eng.active, next.shift)
        BY <1>2, <2>2, Zenon DEF RiseReceive
      <3>2. PICK r \in BOOLEAN : r = Acknowledges(eng.active)
        BY DEF Acknowledges
      <3> HIDE DEF next
      <3>3. next.shift \in Byte
        BY <2>1, SMT DEF Locals
      <3>4. DevicesOK'
        BY <3>1, <3>3, WriteTyped, Zenon
      <3>5. eng' = [next EXCEPT !.rx_ack = r, !.ack_phase = 0, !.state = "rx_ack"]
        BY <3>1, <3>2, Zenon
      <3>6. eng' \in Locals
        BY <2>1, <3>5, UpdatesTyped, StateNames, Zenon
      <3>7. eng'.state = "rx_ack"
        BY <2>1, <3>5, SMT DEF Locals
      <3> QED BY <3>4, <3>6, <3>7 DEF BitsInv
    <2>3. CASE next.bits # 8
      <3>1. eng' = next /\ UNCHANGED deviceVars
        BY <1>2, <2>3, Zenon DEF RiseReceive
      <3>2. next.bits \in 0..8
        BY <2>1, SMT DEF Locals
      <3> HIDE DEF next
      <3> QED BY <1>0, <2>1, <2>3, <3>1, <3>2 DEF BitsInv
    <2> QED BY <2>2, <2>3
  <1>3. CASE RiseAck
    <2>1. /\ UNCHANGED deviceVars /\ eng.state \in {"address_ack", "rx_ack"}
          /\ eng' = [eng EXCEPT !.ack_phase = IF eng.ack_phase = 1 THEN 2 ELSE eng.ack_phase]
      BY <1>3 DEF RiseAck
    <2>2. eng' \in Locals /\ eng'.state = eng.state
      BY <2>1, SMT DEF Locals
    <2> QED BY <1>0, <2>1, <2>2 DEF BitsInv
  <1>4. CASE RiseTransmit
    <2>1. /\ UNCHANGED deviceVars /\ eng.state = "tx" /\ eng.tx_bits < 8
          /\ eng' = [eng EXCEPT !.tx_bits = eng.tx_bits + 1,
                          !.ack_phase = IF eng.tx_bits = 7 THEN 0 ELSE eng.ack_phase,
                          !.state = IF eng.tx_bits = 7 THEN "tx_master_ack" ELSE eng.state]
      BY <1>4 DEF RiseTransmit, BitsInv
    <2>2. eng.tx_bits \in 0..7
      BY <2>1, SMT DEF Locals
    <2>3. eng.tx_bits + 1 \in 0..8 /\ (eng.tx_bits # 7 => eng.tx_bits + 1 < 8)
      BY <2>2, SMT
    <2>4. PICK s \in States, p \in 0..2 :
            /\ s = IF eng.tx_bits = 7 THEN "tx_master_ack" ELSE eng.state
            /\ p = IF eng.tx_bits = 7 THEN 0 ELSE eng.ack_phase
      BY SMT DEF Locals, States
    <2>5. eng' = [eng EXCEPT !.tx_bits = eng.tx_bits + 1, !.ack_phase = p, !.state = s]
      BY <2>1, <2>4, Zenon
    <2>6. eng' \in Locals
      BY <2>3, <2>5, UpdatesTyped, Zenon
    <2>7. eng'.state = s /\ eng'.tx_bits = eng.tx_bits + 1
      BY <2>5, SMT DEF Locals
    <2> QED BY <1>0, <2>1, <2>3, <2>4, <2>6, <2>7 DEF BitsInv
  <1>5. CASE RiseMasterAck(bit)
    <2>1. CASE eng.ack_phase = 1
      <3>1. /\ eng.state = "tx_master_ack" /\ read_advance(eng.active)
            /\ eng' = [eng EXCEPT !.master_ack = (bit = 0), !.ack_phase = 2]
        BY <1>5, <2>1 DEF RiseMasterAck
      <3>2. PICK r \in BOOLEAN : r = (bit = 0)
        OBVIOUS
      <3>3. eng' = [eng EXCEPT !.master_ack = r, !.ack_phase = 2]
        BY <3>1, <3>2, Zenon
      <3>4. eng' \in Locals /\ eng'.state = eng.state
        <4>1. eng' \in Locals
          BY <3>3, UpdatesTyped, StateNames, Zenon
        <4> QED BY <3>3, <4>1, SMT DEF Locals
      <3>5. DevicesOK'
        BY <3>1, AdvanceTyped, Zenon
      <3> QED BY <3>1, <3>4, <3>5 DEF BitsInv
    <2>2. CASE eng.ack_phase # 1
      BY <1>0, <1>5, <2>2 DEF RiseMasterAck, BitsInv
    <2> QED BY <2>1, <2>2
  <1>6. CASE RiseIgnore
    BY <1>0, <1>6 DEF RiseIgnore, BitsInv
  <1> QED BY <1>1, <1>2, <1>3, <1>4, <1>5, <1>6, Zenon DEF Rise

\* The first bit of a byte.
LEMMA SendTyped ==
    ASSUME DevicesOK, eng \in Locals, SendNext
    PROVE  /\ eng' \in Locals /\ latch' \in {0, 1}
           /\ eng'.state = "tx" /\ eng'.tx_bits = 0
  <1>1. PICK b \in Byte : b = read_byte(eng.active)
    BY ReadTyped, Zenon
  <1>2. /\ eng' = [eng EXCEPT !.tx_byte = b, !.tx_bits = 0, !.ack_phase = 0, !.state = "tx"]
        /\ latch' = Bit(b, 7)
    BY <1>1, Zenon DEF SendNext
  <1>3. 7 \in 0..7
    BY SMT
  <1>4. latch' \in {0, 1}
    BY <1>2, <1>3, BitTyped, Zenon
  <1>5. eng' \in Locals
    BY <1>2, UpdatesTyped, StateNames, Zenon
  <1>6. eng'.state = "tx" /\ eng'.tx_bits = 0
    BY <1>2, SMT DEF Locals
  <1> QED BY <1>4, <1>5, <1>6, Zenon

\* A falling clock keeps the types of the locals and of the output latch.
LEMMA FallTyped ==
    ASSUME DevicesOK, eng \in Locals, latch \in {0, 1}, BitsInv, Fall
    PROVE  eng' \in Locals /\ latch' \in {0, 1} /\ BitsInv'
  <1>1. \A a : Pull(a) \in {0, 1}
    BY DEF Pull
  <1>2. CASE SendNext
    BY <1>2, SendTyped, SMT DEF BitsInv
  <1>3. CASE ReceiveNext /\ latch' = 1
    <2>1. eng' = [eng EXCEPT !.shift = 0, !.bits = 0, !.ack_phase = 0, !.state = "rx"]
      BY <1>3 DEF ReceiveNext
    <2>2. eng' \in Locals
      BY <2>1, UpdatesTyped, StateNames, Zenon
    <2>3. eng'.state = "rx" /\ eng'.bits = 0
      BY <2>1, SMT DEF Locals
    <2> QED BY <1>3, <2>2, <2>3, SMT DEF BitsInv
  <1>4. CASE Ignore /\ latch' = 1
    <2>1. eng' = [eng EXCEPT !.ack_phase = 0, !.state = "ignore"]
      BY <1>4 DEF Ignore
    <2>2. eng' \in Locals
      BY <2>1, UpdatesTyped, StateNames, Zenon
    <2>3. eng'.state = "ignore"
      BY <2>1, SMT DEF Locals
    <2> QED BY <1>4, <2>2, <2>3 DEF BitsInv
  <1>5. ASSUME NEW a, latch' = Pull(a), eng' = [eng EXCEPT !.ack_phase = 1],
               eng.state \notin {"address", "rx", "tx"}
        PROVE  eng' \in Locals /\ latch' \in {0, 1} /\ BitsInv'
    <2>1. eng' \in Locals /\ eng'.state = eng.state
      BY <1>5, SMT DEF Locals
    <2> QED BY <1>1, <1>5, <2>1 DEF BitsInv
  <1>6. CASE FallAddressAck
    <2>1. eng.state \notin {"address", "rx", "tx"}
      BY <1>6 DEF FallAddressAck
    <2>2. \/ latch' = Pull(eng.active # NoDevice) /\ eng' = [eng EXCEPT !.ack_phase = 1]
          \/ latch' = 1 /\ Ignore
          \/ SendNext
          \/ latch' = 1 /\ ReceiveNext
      BY <1>6, Zenon DEF FallAddressAck, AfterAck
    <2> QED BY <1>2, <1>3, <1>4, <1>5, <2>1, <2>2, Zenon
  <1>7. CASE FallReceiveAck
    <2>1. eng.state \notin {"address", "rx", "tx"}
      BY <1>7 DEF FallReceiveAck
    <2>2. \/ latch' = Pull(eng.rx_ack) /\ eng' = [eng EXCEPT !.ack_phase = 1]
          \/ latch' = 1 /\ ReceiveNext
          \/ latch' = 1 /\ eng' = [eng EXCEPT !.shift = 0, !.bits = 0, !.ack_phase = 0,
                                              !.state = "ignore"]
      BY <1>7, Zenon DEF FallReceiveAck, AfterAck
    <2>3. ASSUME latch' = 1, eng' = [eng EXCEPT !.shift = 0, !.bits = 0, !.ack_phase = 0,
                                                !.state = "ignore"]
          PROVE  eng' \in Locals /\ latch' \in {0, 1} /\ BitsInv'
      <3>1. eng' \in Locals
        BY <2>3, UpdatesTyped, StateNames, Zenon
      <3>2. eng'.state = "ignore"
        BY <2>3, SMT DEF Locals
      <3> QED BY <2>3, <3>1, <3>2 DEF BitsInv
    <2> QED BY <1>3, <1>5, <2>1, <2>2, <2>3, Zenon
  <1>8. CASE FallTransmit
    <2>1. eng.state = "tx" /\ latch' = Bit(eng.tx_byte, 7 - eng.tx_bits) /\ eng' = eng
      BY <1>8 DEF FallTransmit
    <2>2. eng.tx_byte \in Byte /\ 7 - eng.tx_bits \in 0..7
      BY <2>1, SMT DEF Locals, BitsInv
    <2>3. latch' \in {0, 1}
      BY <2>1, <2>2, BitTyped, Zenon
    <2> QED BY <2>1, <2>3 DEF BitsInv
  <1>9. CASE FallMasterAck
    <2>1. eng.state \notin {"address", "rx", "tx"}
      BY <1>9 DEF FallMasterAck
    <2>2. \/ latch' = Pull(FALSE) /\ eng' = [eng EXCEPT !.ack_phase = 1]
          \/ SendNext
          \/ latch' = 1 /\ Ignore
      BY <1>9 DEF FallMasterAck, Pull
    <2> QED BY <1>2, <1>4, <1>5, <2>1, <2>2, Zenon
  <1>10. CASE FallIdle
    BY <1>10 DEF FallIdle, BitsInv
  <1> QED BY <1>6, <1>7, <1>8, <1>9, <1>10, Zenon DEF Fall

\* The wire carries a bit.
LEMMA LineTyped ==
    ASSUME EngineTypeOK
    PROVE  Sda \in {0, 1} /\ (Sda = 0 <=> sda = 0 \/ latch = 0) /\ Lines \in {0, 1} \X {0, 1}
  <1>1. sda \in {0, 1} /\ latch \in {0, 1} /\ scl \in {0, 1}
    BY Zenon DEF EngineTypeOK
  <1>2. sda * latch \in {0, 1} /\ (sda * latch = 0 <=> sda = 0 \/ latch = 0)
    <2>1. CASE sda = 0 BY <1>1, <2>1, SMT
    <2>2. CASE sda = 1 BY <1>1, <2>2, SMT
    <2> QED BY <1>1, <2>1, <2>2
  <1>3. Sda \in {0, 1} /\ (Sda = 0 <=> sda = 0 \/ latch = 0)
    BY <1>2, Zenon DEF Sda
  <1> QED BY <1>1, <1>3 DEF Lines

-----------------------------------------------------------------------------
(* Types, step by step *)

\* What a step of the slave leaves alone keeps its types.
LEMMA HostKept ==
    ASSUME BusTypeOK, ScriptInv, UNCHANGED hostVars
    PROVE  ScriptInv' /\ phase' \in Phases /\ transfers' \in 0..MaxTransfers
  <1>1. /\ script' = script /\ phase' = phase /\ slot' = slot /\ transfers' = transfers
    BY Zenon DEF hostVars
  <1>2. ScriptInv'
    BY <1>1, Zenon DEF ScriptInv, Playing, Slots, Transfer, IsTransfer
  <1> QED BY <1>1, <1>2, Zenon DEF BusTypeOK

\* The parts of the type invariant that the slave's steps need.
LEMMA SlaveParts ==
    ASSUME IInv
    PROVE  /\ DevicesOK /\ eng \in Locals /\ latch \in {0, 1} /\ BitsInv
           /\ sda \in {0, 1} /\ scl \in {0, 1} /\ interrupt \in BOOLEAN
           /\ previous \in {0, 1} \X {0, 1} /\ pc \in Places
           /\ Sda \in {0, 1} /\ Lines \in {0, 1} \X {0, 1}
           /\ EngineTypeOK
  BY LineTyped, Zenon DEF IInv, BusTypeOK, DevicesOK, EngineTypeOK

\* The slave's own variables are typed and in order.
SlaveOK == DevicesOK /\ EngineTypeOK /\ BitsInv

\* Entering the handler.
LEMMA StartKeeps ==
    ASSUME IInv, Start
    PROVE  SlaveOK' /\ (pc' = "poll" \/ (pc' = "idle" /\ ~interrupt'))
  <1>1. /\ eng' = eng /\ latch' = latch /\ UNCHANGED deviceVars
        /\ sda' = sda /\ scl' = scl
        /\ \/ pc' = "poll" /\ previous' = Lines /\ interrupt' = interrupt
           \/ interrupt' = FALSE /\ pc' = pc /\ previous' = previous /\ pc = "idle"
    BY Zenon DEF Start, HostStill
  <1>2. DevicesOK'
    BY <1>1, SlaveParts, Untouched, Zenon DEF deviceVars, ddcVars, DevicesOK
  <1>3. EngineTypeOK'
    <2>1. "poll" \in Places /\ "idle" \in Places
      BY Zenon DEF Places
    <2> QED BY <1>1, <2>1, SlaveParts, Zenon DEF EngineTypeOK
  <1>4. BitsInv'
    BY <1>1, SlaveParts, Zenon DEF BitsInv
  <1> QED BY <1>1, <1>2, <1>3, <1>4, Zenon DEF SlaveOK

\* A repeated START.
LEMMA RepeatedStartKeeps ==
    ASSUME IInv, SeesRepeatedStart
    PROVE  SlaveOK' /\ pc' = "resample"
  <1>1. /\ end_device(eng.active) /\ latch' = 1 /\ pc' = "resample"
        /\ previous' = previous /\ sda' = sda /\ scl' = scl /\ LatchInterrupt
        /\ eng' = [eng EXCEPT !.state = "address", !.shift = 0, !.bits = 0,
                              !.read = FALSE, !.rx_ack = TRUE, !.ack_phase = 0,
                              !.active = NoDevice]
    BY Zenon DEF SeesRepeatedStart, EndsTransfer, HostStill
  <1>2. DevicesOK'
    BY <1>1, SlaveParts, EndTyped, Zenon
  <1>3. eng' \in Locals
    BY <1>1, SlaveParts, RestartedTyped, Zenon
  <1>4. eng'.state = "address" /\ eng'.bits = 0
    BY <1>1, SlaveParts, SMT DEF Locals
  <1>5. EngineTypeOK'
    <2>1. "resample" \in Places /\ 1 \in {0, 1}
      BY Zenon DEF Places
    <2> QED BY <1>1, <1>3, <2>1, SlaveParts, LatchTyped, Zenon DEF EngineTypeOK
  <1>6. BitsInv'
    BY <1>4, SMT DEF BitsInv
  <1> QED BY <1>1, <1>2, <1>5, <1>6, Zenon DEF SlaveOK

\* A STOP or a silence.
LEMMA EndKeeps ==
    ASSUME IInv, SeesStop \/ Timeout
    PROVE  SlaveOK' /\ pc' = "finish"
  <1>1. /\ end_device(eng.active) /\ latch' = 1 /\ pc' = "finish" /\ eng' = eng
        /\ previous' = previous /\ sda' = sda /\ scl' = scl /\ LatchInterrupt
    BY Zenon DEF SeesStop, Timeout, HostStill
  <1>2. DevicesOK'
    BY <1>1, SlaveParts, EndTyped, Zenon
  <1>3. EngineTypeOK'
    <2>1. "finish" \in Places /\ 1 \in {0, 1}
      BY Zenon DEF Places
    <2> QED BY <1>1, <2>1, SlaveParts, LatchTyped, Zenon DEF EngineTypeOK
  <1>4. BitsInv'
    BY <1>1, SlaveParts, Zenon DEF BitsInv
  <1> QED BY <1>1, <1>2, <1>3, <1>4, Zenon DEF SlaveOK

\* Leaving the handler.
LEMMA FinishKeeps ==
    ASSUME IInv, Finish
    PROVE  SlaveOK' /\ pc' = "idle" /\ ~interrupt'
  <1>1. /\ eng' = FreshLocals /\ latch' = 1 /\ pc' = "idle" /\ interrupt' = FALSE
        /\ previous' = << 1, 1 >> /\ sda' = sda /\ scl' = scl /\ UNCHANGED deviceVars
    BY Zenon DEF Finish, HostStill
  <1>2. DevicesOK'
    BY <1>1, SlaveParts, Untouched, Zenon DEF deviceVars, ddcVars, DevicesOK
  <1>3. EngineTypeOK'
    <2>1. "idle" \in Places /\ 1 \in {0, 1} /\ << 1, 1 >> \in {0, 1} \X {0, 1}
      BY DEF Places
    <2> QED BY <1>1, <2>1, SlaveParts, FreshTyped, Zenon DEF EngineTypeOK
  <1>4. eng'.state = "address" /\ eng'.bits = 0
    BY <1>1, Zenon DEF FreshLocals
  <1>5. BitsInv'
    BY <1>4, SMT DEF BitsInv
  <1> QED BY <1>1, <1>2, <1>3, <1>5, Zenon DEF SlaveOK

\* An iteration of the loop that sees the lines afresh, a clock or data.
LEMMA EdgeKeeps ==
    ASSUME IInv, Resample \/ SeesRise \/ SeesFall \/ SeesData
    PROVE  SlaveOK' /\ pc' = "poll"
  <1>1. /\ previous' = Lines /\ sda' = sda /\ scl' = scl
        /\ pc' = "poll"
    BY Zenon DEF Resample, SeesRise, SeesFall, SeesData, Sees, HostStill
  <1>2. CASE Resample \/ SeesData
    <2>1. UNCHANGED << latch, interrupt, eng, deviceVars >>
      BY <1>2, Zenon DEF Resample, SeesData
    <2>2. DevicesOK'
      BY <2>1, SlaveParts, Untouched, Zenon DEF deviceVars, ddcVars, DevicesOK
    <2>3. EngineTypeOK'
      <3>1. "poll" \in Places
        BY Zenon DEF Places
      <3> QED BY <1>1, <2>1, <3>1, SlaveParts, Zenon DEF EngineTypeOK
    <2>4. BitsInv'
      BY <2>1, SlaveParts, Zenon DEF BitsInv
    <2> QED BY <1>1, <2>2, <2>3, <2>4, Zenon DEF SlaveOK
  <1>3. CASE SeesRise
    <2>1. Rise(Sda) /\ UNCHANGED << latch, interrupt >>
      BY <1>3, Zenon DEF SeesRise
    <2>2. DevicesOK' /\ eng' \in Locals /\ BitsInv'
      BY <2>1, SlaveParts, RiseTyped, Zenon
    <2>3. EngineTypeOK'
      <3>1. "poll" \in Places
        BY Zenon DEF Places
      <3> QED BY <1>1, <2>1, <2>2, <3>1, SlaveParts, Zenon DEF EngineTypeOK
    <2> QED BY <1>1, <2>2, <2>3, Zenon DEF SlaveOK
  <1>4. CASE SeesFall
    <2>1. Fall /\ UNCHANGED deviceVars /\ LatchInterrupt
      BY <1>4, Zenon DEF SeesFall
    <2>2. eng' \in Locals /\ latch' \in {0, 1} /\ BitsInv'
      BY <2>1, SlaveParts, FallTyped, Zenon
    <2>3. DevicesOK'
      BY <2>1, SlaveParts, Untouched, Zenon DEF deviceVars, ddcVars, DevicesOK
    <2>4. EngineTypeOK'
      <3>1. "poll" \in Places
        BY Zenon DEF Places
      <3> QED BY <1>1, <2>1, <2>2, <3>1, SlaveParts, LatchTyped, Zenon DEF EngineTypeOK
    <2> QED BY <1>1, <2>2, <2>3, <2>4, Zenon DEF SlaveOK
  <1> QED BY <1>2, <1>3, <1>4, Zenon

\* A step of the slave keeps every type.
LEMMA SlaveTyped ==
    ASSUME IInv, Slave
    PROVE  IInv'
  <1>1. /\ UNCHANGED hostVars /\ at' = at /\ cut' \in BOOLEAN
    BY DEF Slave, Unnoticed, SlaveGivesUp, historyVars, IInv, BusTypeOK
  <1>2. ScriptInv' /\ phase' \in Phases /\ transfers' \in 0..MaxTransfers
    BY <1>1, HostKept, Zenon DEF IInv
  <1>3. SlaveOK' /\ faults' \in 0..MaxFaults + 1 /\ SilentInv'
    <2>0. faults \in 0..MaxFaults + 1 /\ MaxFaults \in Nat
      BY ConstantTypes, Zenon DEF IInv, BusTypeOK
    <2>1. pc \notin {"idle", "finish"} \/ (pc = "idle" /\ interrupt) => faults <= MaxFaults
      BY <2>0 DEF IInv, SilentInv
    <2>2. CASE Start /\ Unnoticed
      <3>1. faults <= MaxFaults /\ faults' = faults
        BY <2>1, <2>2 DEF Start, Unnoticed
      <3>2. SlaveOK'
        BY <2>2, StartKeeps, Zenon
      <3> QED BY <2>0, <3>1, <3>2, SMT DEF SilentInv
    <2>3. CASE Iteration /\ Unnoticed
      <3>1. pc \in {"poll", "resample"}
        BY <2>3 DEF Iteration, SeesRepeatedStart, Resample, SeesStop, SeesRise,
                    SeesFall, SeesData, Sees
      <3>2. faults <= MaxFaults /\ faults' = faults
        BY <2>1, <2>3, <3>1 DEF Unnoticed
      <3>3. SlaveOK'
        BY <2>3, RepeatedStartKeeps, EndKeeps, EdgeKeeps, Zenon DEF Iteration
      <3> QED BY <2>0, <3>2, <3>3, SMT DEF SilentInv
    <2>4. CASE SlaveGivesUp
      <3>1. pc = "poll" /\ faults' \in {faults, faults + 1}
        BY <2>4 DEF SlaveGivesUp, Timeout, LinesStill
      <3>2. faults <= MaxFaults
        BY <2>1, <3>1
      <3>3. SlaveOK' /\ pc' = "finish"
        BY <2>4, EndKeeps, Zenon DEF SlaveGivesUp
      <3> QED BY <2>0, <3>1, <3>2, <3>3, SMT DEF SilentInv
    <2>5. CASE Finish /\ Unnoticed
      <3>1. faults' = faults
        BY <2>5, Zenon DEF Unnoticed
      <3>2. SlaveOK' /\ pc' = "idle" /\ ~interrupt'
        BY <2>5, FinishKeeps, Zenon
      <3> QED BY <2>0, <3>1, <3>2, SMT DEF SilentInv
    <2> QED BY <2>2, <2>3, <2>4, <2>5, Zenon DEF Slave
  <1>4. at' \in 0..255 \cup {Unknown}
    BY <1>1, Zenon DEF IInv, BusTypeOK
  <1> QED BY <1>1, <1>2, <1>3, <1>4, Zenon DEF IInv, BusTypeOK, SlaveOK, DevicesOK

\* Where the master is in its transfer.
LEMMA SlotFacts ==
    ASSUME ScriptInv, script # << >>
    PROVE  /\ IsTransfer(Transfer)
           /\ Len(Transfer.bytes) \in Nat \ {0} /\ Transfer.reads \in Nat
           /\ Transfer.bytes \in Seq(Byte)
           /\ Slots \in Nat \ {0} /\ Slots >= 9
           /\ Playing => slot \in 0..Slots - 1
  <1>1. Transfer \in Range(script)
    BY HeadTailProperties, Zenon DEF ScriptInv, Transfer
  <1>2. IsTransfer(Transfer)
    BY <1>1, Zenon DEF ScriptInv
  <1>3. /\ Len(Transfer.bytes) \in Nat \ {0} /\ Transfer.reads \in Nat
        /\ Transfer.bytes \in Seq(Byte)
    BY <1>2, TransferFacts, Zenon
  <1>4. PICK n \in Nat \ {0}, k \in Nat : n = Len(Transfer.bytes) /\ k = Transfer.reads
    BY <1>3, Zenon
  <1>5. Slots = 9 * (n + k)
    BY <1>4, Zenon DEF Slots
  <1>6. 9 * (n + k) \in Nat \ {0} /\ 9 * (n + k) >= 9
    BY SMT
  <1>7. Playing => slot \in 0..Slots - 1
    BY Zenon DEF ScriptInv
  <1>8. Slots \in Nat \ {0} /\ Slots >= 9
    BY <1>5, <1>6, Zenon
  <1> QED BY <1>2, <1>3, <1>7, <1>8, Zenon

\* What the master drives is a bit.
LEMMA MasterBitTyped ==
    ASSUME ScriptInv, Playing
    PROVE  MasterBit(slot) \in {0, 1}
  <1>1. script # << >>
    BY Zenon DEF ScriptInv
  <1>2. PICK s \in Nat \ {0} : s = Slots
    BY <1>1, SlotFacts, Zenon
  <1>3. slot \in 0..s - 1
    BY <1>1, <1>2, SlotFacts, Zenon
  <1>4. slot \in Nat
    BY <1>3, SMT
  <1>5. CASE ~IsRead(slot) /\ ~IsAck(slot)
    <2>1. PICK n \in Nat : n = Len(Transfer.bytes)
      BY <1>1, SlotFacts, Zenon
    <2>2. ~(ByteOf(slot) > n)
      BY <1>5, <2>1, Zenon DEF IsRead
    <2>3. slot \div 9 + 1 \in 1..n
      BY <1>4, <2>2, SMT DEF ByteOf
    <2>4. Transfer.bytes[ByteOf(slot)] \in Byte
      BY <1>1, <2>1, <2>3, SlotFacts, ElementTyped, Zenon DEF ByteOf
    <2>5. 7 - (slot % 9) \in 0..7
      BY <1>4, <1>5, SMT DEF IsAck
    <2>6. Bit(Transfer.bytes[ByteOf(slot)], 7 - (slot % 9)) \in {0, 1}
      BY <2>4, <2>5, BitTyped, Zenon
    <2> QED BY <1>5, <2>6, Zenon DEF MasterBit
  <1>6. CASE IsRead(slot) \/ IsAck(slot)
    <2>1. MasterBit(slot) = 0 \/ MasterBit(slot) = 1
      BY <1>6, Zenon DEF MasterBit
    <2> QED BY <2>1, Zenon
  <1> QED BY <1>5, <1>6, Zenon

\* A master that has had its last fault makes no step.
LEMMA HostFaults ==
    ASSUME IInv, Host
    PROVE  faults' \in 0..MaxFaults + 1 /\ SilentInv'
  <1>0. faults \in 0..MaxFaults + 1 /\ MaxFaults \in Nat
    BY ConstantTypes, Zenon DEF IInv, BusTypeOK
  <1>1. faults > MaxFaults => pc \in {"idle", "finish"}
    BY Zenon DEF IInv, SilentInv
  <1>2. MasterMoves => faults' \in 0..MaxFaults
    BY <1>0, SMT DEF MasterMoves
  <1>3. pc = "poll" \/ pc = "resample" => faults <= MaxFaults
    BY <1>0, <1>1, SMT
  <1>4. DataMoves => faults' \in 0..MaxFaults
    BY <1>0, <1>2, <1>3, SMT DEF DataMoves
  <1>5. MasterMoves \/ DataMoves \/ (pc = "resample" /\ UNCHANGED faults)
            \/ (faults < MaxFaults /\ faults' = faults + 1)
    BY Zenon DEF Host, HostStarts, HostGoesOn, HostClocksStart, HostData, HostRise, HostFall,
       HostCloses, HostCloseRise, HostRestarts, HostStops, Vanish, LineDrops, LineRises
  <1>6. faults' \in 0..MaxFaults
    BY <1>0, <1>2, <1>3, <1>4, <1>5, SMT
  <1>7. faults' \in 0..MaxFaults + 1 /\ ~(faults' > MaxFaults)
    BY <1>0, <1>6, SMT
  <1> QED BY <1>7, Zenon DEF SilentInv

\* The slave stands still while the master drives the lines.
LEMMA HostLines ==
    ASSUME IInv, Host
    PROVE  SlaveOK'
  <1>2. \/ SlaveStill /\ LatchInterrupt /\ sda' \in {0, 1} /\ scl' \in {0, 1}
        \/ UNCHANGED << deviceVars, engineVars, sda, scl >>
    <2>0. sda \in {0, 1} /\ scl \in {0, 1} /\ 0 \in {0, 1} /\ 1 \in {0, 1}
      BY SlaveParts, Zenon
    <2>1. CASE HostData
      <3>1. Playing
        BY <2>1 DEF HostData, Playing
      <3>2. MasterBit(slot) \in {0, 1}
        BY <3>1, MasterBitTyped, Zenon DEF IInv
      <3> QED BY <2>0, <2>1, <3>2, Zenon DEF HostData, Drive
    <2>2. CASE Vanish
      BY <2>2, Zenon DEF Vanish
    <2>3. CASE HostStarts \/ HostGoesOn \/ HostClocksStart \/ HostRise \/ HostFall
               \/ HostCloses \/ HostCloseRise \/ HostRestarts \/ HostStops
               \/ LineDrops \/ LineRises
      BY <2>0, <2>3, Zenon DEF HostStarts, HostGoesOn, HostClocksStart, HostRise, HostFall,
         HostCloses, HostCloseRise, HostRestarts, HostStops, LineDrops, LineRises, Drive
    <2> QED BY <2>1, <2>2, <2>3, Zenon DEF Host
  <1>3. CASE SlaveStill /\ LatchInterrupt /\ sda' \in {0, 1} /\ scl' \in {0, 1}
    <2>1. /\ UNCHANGED deviceVars /\ latch' = latch /\ pc' = pc /\ eng' = eng
          /\ previous' = previous
      BY <1>3, Zenon DEF SlaveStill
    <2>2. DevicesOK'
      BY <2>1, SlaveParts, Untouched, Zenon DEF deviceVars, ddcVars, DevicesOK
    <2>3. EngineTypeOK'
      BY <1>3, <2>1, SlaveParts, LatchTyped, Zenon DEF EngineTypeOK
    <2>4. BitsInv'
      BY <2>1, SlaveParts, Zenon DEF BitsInv
    <2> QED BY <2>2, <2>3, <2>4, Zenon DEF SlaveOK
  <1>4. CASE UNCHANGED << deviceVars, engineVars, sda, scl >>
    <2>1. /\ UNCHANGED deviceVars /\ latch' = latch /\ pc' = pc /\ eng' = eng
          /\ previous' = previous /\ interrupt' = interrupt /\ sda' = sda /\ scl' = scl
      BY <1>4, Zenon DEF engineVars
    <2>2. DevicesOK'
      BY <2>1, SlaveParts, Untouched, Zenon DEF deviceVars, ddcVars, DevicesOK
    <2>3. EngineTypeOK'
      BY <2>1, SlaveParts, Zenon DEF EngineTypeOK
    <2>4. BitsInv'
      BY <2>1, SlaveParts, Zenon DEF BitsInv
    <2> QED BY <2>2, <2>3, <2>4, Zenon DEF SlaveOK
  <1> QED BY <1>2, <1>3, <1>4, Zenon

\* A script at the start of its first transfer is in order.
LEMMA ScriptBegins ==
    ASSUME NEW s, s \in Seq(Range(s)), s # << >>, \A t \in Range(s) : IsTransfer(t),
           Last(s).then = "stop", script' = s, slot' = 0, phase' = "started"
    PROVE  ScriptInv'
  <1>1. IsTransfer(Head(s))
    BY HeadTailProperties, Zenon
  <1>2. Len(Head(s).bytes) \in Nat \ {0} /\ Head(s).reads \in Nat
    BY <1>1, TransferFacts, Zenon
  <1>3. PICK n \in Nat \ {0}, k \in Nat : n = Len(Head(s).bytes) /\ k = Head(s).reads
    BY <1>2, Zenon
  <1>4. Slots' = 9 * (n + k)
    BY <1>3, Zenon DEF Slots, Transfer
  <1>5. 0 \in 0..9 * (n + k) - 1
    BY SMT
  <1>6. slot' \in 0..Slots' - 1
    BY <1>4, <1>5, Zenon
  <1>7. phase' # "between"
    OBVIOUS
  <1> QED BY <1>6, <1>7, Zenon DEF ScriptInv, IsTransfer

\* A script that ends with a STOP goes on after a transfer that does not.
LEMMA RestartsGoOn ==
    ASSUME ScriptInv, Playing, Restarts
    PROVE  Len(script) > 1
  <1>1. script # << >> /\ script \in Seq(Range(script)) /\ Last(script).then = "stop"
    BY Zenon DEF ScriptInv
  <1>2. PICK n \in Nat \ {0} : n = Len(script)
    BY <1>1, EmptySeq, Zenon
  <1>3. Head(script) = script[1]
    BY <1>1, SMT
  <1>4. Head(script).then = "restart"
    BY Zenon DEF Restarts, Transfer
  <1>5. n # 1
    BY <1>1, <1>2, <1>3, <1>4 DEF Last
  <1>6. n > 1
    BY <1>5, SMT
  <1> QED BY <1>2, <1>6, Zenon

\* The next transfer of a script.
LEMMA ScriptGoesOn ==
    ASSUME ScriptInv, Len(script) > 1, script' = Tail(script), slot' = 0,
           phase' = "started"
    PROVE  ScriptInv'
  <1>1. script \in Seq(Range(script)) /\ \A t \in Range(script) : IsTransfer(t)
    BY Zenon DEF ScriptInv
  <1>2. script # << >>
    BY EmptySeq, SMT
  <1>3. Last(script).then = "stop"
    BY <1>2, Zenon DEF ScriptInv
  <1> DEFINE s == Tail(script)
  <1>4. /\ s \in Seq(Range(s)) /\ s # << >>
        /\ Range(s) \subseteq Range(script) /\ Last(s) = Last(script)
    BY <1>1, TailTyped, Zenon
  <1>5. \A t \in Range(s) : IsTransfer(t)
    BY <1>1, <1>4, Zenon
  <1> HIDE DEF s
  <1>6. Last(s).then = "stop"
    BY <1>3, <1>4, Zenon
  <1>7. script' = s
    BY Zenon DEF s
  <1> QED BY <1>4, <1>5, <1>6, <1>7, ScriptBegins, Zenon

\* A step inside a transfer.
LEMMA ScriptKept ==
    ASSUME ScriptInv, script' = script,
           Playing' => Playing /\ slot' \in 0..Slots - 1,
           phase' # "between"
    PROVE  ScriptInv'
  <1>1. Slots' = Slots
    BY Zenon DEF Slots, Transfer
  <1>2. Playing' => script # << >>
    BY Zenon DEF ScriptInv
  <1> QED BY <1>1, <1>2, Zenon DEF ScriptInv, IsTransfer

\* The bus is free, or dead.
LEMMA ScriptEnds ==
    ASSUME script' = << >>, phase' \in {"free", "gone", "return"}
    PROVE  ScriptInv'
  <1>1. Range(<< >>) = {}
    BY DEF Range
  <1>2. ~Playing' /\ phase' # "between"
    BY Zenon DEF Playing
  <1> QED BY <1>1, <1>2, EmptySeq, Zenon DEF ScriptInv

\* The pointer that the master knows of is a byte, or it knows nothing.
LEMMA PointerTyped ==
    ASSUME ScriptInv, script # << >>, at \in 0..255 \cup {Unknown}
    PROVE  PointerKnown \in 0..255 \cup {Unknown}
  <1>1. Transfer.reads \in Nat /\ Len(Transfer.bytes) \in Nat \ {0}
        /\ Transfer.bytes \in Seq(Byte)
    BY SlotFacts, Zenon
  <1>0. \A m \in Nat : m % 256 \in 0..255
    BY SMT
  <1>2. ASSUME at # Unknown
        PROVE  (at + Transfer.reads) % 256 \in 0..255
    <2>1. at \in 0..255
      BY <1>2, Zenon
    <2>2. \A c \in 0..255, k \in Nat : c + k \in Nat
      BY SMT
    <2>3. at + Transfer.reads \in Nat
      BY <1>1, <2>1, <2>2, Zenon
    <2> QED BY <1>0, <2>3, Zenon
  <1>3. Len(Transfer.bytes) # 1 =>
            (Transfer.bytes[2] + Len(Transfer.bytes) - 2) % 256 \in 0..255
    <2>1. PICK n \in Nat \ {0} : n = Len(Transfer.bytes)
      BY <1>1, Zenon
    <2>2. n # 1 => 2 \in 1..n
      BY SMT
    <2>3. n # 1 => Transfer.bytes[2] \in Byte
      BY <1>1, <2>1, <2>2, ElementTyped, Zenon
    <2>4. \A b \in Byte : n # 1 => b + n - 2 \in Nat
      BY SMT DEF Byte
    <2> QED BY <1>0, <2>1, <2>3, <2>4, Zenon
  <1> DEFINE x == (at + Transfer.reads) % 256
             y == (Transfer.bytes[2] + Len(Transfer.bytes) - 2) % 256
  <1>4. \/ PointerKnown = at \/ PointerKnown = Unknown
        \/ at # Unknown /\ PointerKnown = x
        \/ Len(Transfer.bytes) # 1 /\ PointerKnown = y
    BY Zenon DEF PointerKnown
  <1> HIDE DEF x, y
  <1>5. at # Unknown => x \in 0..255
    BY <1>2, Zenon DEF x
  <1>6. Len(Transfer.bytes) # 1 => y \in 0..255
    BY <1>3, Zenon DEF y
  <1> QED BY <1>4, <1>5, <1>6

\* The master keeps to its script.
LEMMA HostScript ==
    ASSUME IInv, Host
    PROVE  /\ ScriptInv' /\ phase' \in Phases /\ transfers' \in 0..MaxTransfers
           /\ cut' \in BOOLEAN /\ at' \in 0..255 \cup {Unknown}
  <1>0. /\ ScriptInv /\ transfers \in 0..MaxTransfers /\ cut \in BOOLEAN
        /\ at \in 0..255 \cup {Unknown} /\ MaxTransfers \in Nat
    BY ConstantTypes, Zenon DEF IInv, BusTypeOK
  <1> DEFINE Other == /\ transfers' = transfers
                      /\ cut' \in BOOLEAN /\ at' \in 0..255 \cup {Unknown}
  <1>1. Playing => script # << >> /\ slot \in 0..Slots - 1
    BY <1>0, Zenon DEF ScriptInv
  <1>2. CASE HostStarts
    <2>1. /\ script' \in Scripts /\ slot' = 0 /\ phase' = "started" /\ cut' = FALSE
          /\ at' = at /\ transfers < MaxTransfers /\ transfers' = transfers + 1
      BY <1>2, Zenon DEF HostStarts
    <2>2. PICK s \in Scripts : script' = s
      BY <2>1, Zenon
    <2>3. /\ s \in Seq(Range(s)) /\ s # << >> /\ \A t \in Range(s) : IsTransfer(t)
          /\ Last(s).then = "stop"
      BY ScriptsAssumption
    <2>4. ScriptInv'
      BY <2>1, <2>2, <2>3, ScriptBegins, Zenon
    <2>5. transfers' \in 0..MaxTransfers
      BY <1>0, <2>1, SMT
    <2>6. phase' \in Phases
      BY <2>1, Zenon DEF Phases
    <2> QED BY <1>0, <2>1, <2>4, <2>5, <2>6, Zenon
  <1>3. CASE HostGoesOn \/ HostRestarts
    <2>1. /\ script' = Tail(script) /\ slot' = 0 /\ phase' = "started" /\ cut' = FALSE
          /\ at' = at /\ transfers' = transfers
      BY <1>3, Zenon DEF HostGoesOn, HostRestarts
    <2>2. Len(script) > 1
      <3>1. CASE HostGoesOn
        BY <1>0, <3>1, Zenon DEF HostGoesOn, ScriptInv
      <3>2. CASE HostRestarts
        <4>1. Playing /\ Restarts
          BY <3>2 DEF HostRestarts, Playing
        <4> QED BY <1>0, <4>1, RestartsGoOn, Zenon
      <3> QED BY <1>3, <3>1, <3>2, Zenon
    <2>3. ScriptInv'
      BY <1>0, <2>1, <2>2, ScriptGoesOn, Zenon
    <2>4. phase' \in Phases
      BY <2>1, Zenon DEF Phases
    <2> QED BY <1>0, <2>1, <2>3, <2>4, Zenon
  <1>4. CASE HostClocksStart \/ HostData \/ HostRise \/ HostCloses \/ HostCloseRise
    <2>1. /\ Playing /\ script' = script /\ slot' = slot
          /\ phase' \in Phases \ {"between"} /\ UNCHANGED << transfers, cut, at >>
      BY <1>4 DEF HostClocksStart, HostData, HostRise, HostCloses, HostCloseRise, Playing,
         Phases, historyVars
    <2>2. ScriptInv'
      BY <1>0, <1>1, <2>1, ScriptKept, Zenon
    <2> QED BY <1>0, <2>1, <2>2, Zenon
  <1>5. CASE HostFall
    <2>1. /\ Playing /\ script' = script /\ transfers' = transfers /\ cut' = cut
          /\ \/ phase' = "closing" /\ at' = PointerKnown /\ slot' = slot
             \/ slot # Slots - 1 /\ phase' = "low" /\ slot' = slot + 1 /\ at' = at
      BY <1>5 DEF HostFall, Playing
    <2>2. slot' \in 0..Slots - 1
      <3>1. PICK n \in Nat \ {0} : n = Slots
        BY <1>0, <1>1, <2>1, SlotFacts, Zenon
      <3>2. slot \in 0..n - 1
        BY <1>1, <2>1, <3>1, Zenon
      <3>3. slot' = slot \/ (slot # n - 1 /\ slot' = slot + 1)
        BY <2>1, <3>1, Zenon
      <3>4. slot' \in 0..n - 1
        BY <3>2, <3>3, SMT
      <3> QED BY <3>1, <3>4, Zenon
    <2>3. phase' \in Phases \ {"between"}
      BY <2>1 DEF Phases
    <2>4. ScriptInv'
      BY <1>0, <2>1, <2>2, <2>3, ScriptKept, Zenon
    <2>5. at' \in 0..255 \cup {Unknown}
      BY <1>0, <1>1, <2>1, PointerTyped, Zenon
    <2> QED BY <1>0, <2>1, <2>3, <2>4, <2>5, Zenon
  <1>6. CASE HostStops
    <2>1. /\ Playing /\ transfers' = transfers /\ cut' = cut /\ at' = at
          /\ \/ Len(script) > 1 /\ phase' = "between" /\ script' = script /\ slot' = slot
             \/ phase' = "free" /\ script' = << >>
      BY <1>6 DEF HostStops, Playing, historyVars
    <2>2. CASE Len(script) > 1 /\ phase' = "between" /\ script' = script
      <3>1. ~Playing'
        BY <2>2, Zenon DEF Playing
      <3>2. ScriptInv'
        BY <1>0, <1>1, <2>1, <2>2, <3>1, Zenon DEF ScriptInv, IsTransfer
      <3> QED BY <1>0, <2>1, <2>2, <3>2, Zenon DEF Phases
    <2>3. CASE phase' = "free" /\ script' = << >>
      BY <1>0, <2>1, <2>3, ScriptEnds, Zenon DEF Phases
    <2> QED BY <2>1, <2>2, <2>3, Zenon
  <1>7. CASE Vanish
    <2>1. /\ script' = << >> /\ phase' \in {"free", "gone"} /\ at' = Unknown
          /\ transfers' = transfers /\ cut' = cut
      BY <1>7 DEF Vanish
    <2>2. ScriptInv' /\ phase' \in Phases
      BY <2>1, ScriptEnds, Zenon DEF Phases
    <2> QED BY <1>0, <2>1, <2>2, Zenon
  <1>8. CASE LineDrops \/ LineRises
    <2>1. /\ ~Playing /\ phase # "between" /\ phase' \in {"free", "gone", "return"}
          /\ script' = script /\ UNCHANGED << transfers, cut, at >>
      BY <1>8 DEF LineDrops, LineRises, Playing, historyVars
    <2>2. ~Playing' /\ phase' # "between" /\ phase' \in Phases
      BY <2>1 DEF Playing, Phases
    <2>3. ScriptInv'
      BY <1>0, <2>1, <2>2, ScriptKept, Zenon
    <2> QED BY <1>0, <2>1, <2>2, <2>3, Zenon
  <1> QED BY <1>2, <1>3, <1>4, <1>5, <1>6, <1>7, <1>8, Zenon DEF Host

\* The initial state.
LEMMA InitTyped == Init => IInv
  <1> SUFFICES ASSUME Init PROVE IInv
    OBVIOUS
  <1>1. MailboxTypeOK
    <2>1. s_brightness = ClampPercent(INITIAL_BRIGHTNESS) /\ s_power_mode = DDCCI_POWER_ON
          /\ s_brightness_update_pending = FALSE /\ s_power_mode_update_pending = FALSE
      BY Zenon DEF Init, ddcci_init
    <2>2. DDCCI_POWER_ON \in PowerModes
      BY SMT DEF PowerModes, DDCCI_POWER_ON, DDCCI_POWER_OFF_WRITE
    <2>3. INITIAL_BRIGHTNESS \in Nat
      BY ConstantTypes, Zenon
    <2>4. s_brightness \in Percent
      BY <2>1, <2>3, ClampTyped, Zenon
    <2> QED BY <2>1, <2>2, <2>4, Zenon DEF MailboxTypeOK
  <1>2. PacketTypeOK
    <2>1. s_rx = << >> /\ s_tx = << >> /\ s_tx_index = 0
          /\ s_response_ready = FALSE /\ s_read_direction = FALSE
      BY Zenon DEF Init, PacketInit
    <2>2. << >> \in Seq(Byte) /\ Len(<< >>) = 0
      BY EmptySeq, Zenon
    <2>3. 0 <= DDCCI_RX_MAX
      BY ConstantTypes, SMT
    <2>4. 0 \in 0..0 /\ 0 \in {0, 3, 11}
      BY SMT
    <2> QED BY <2>1, <2>2, <2>3, <2>4, Zenon DEF PacketTypeOK
  <1>3. EepromTypeOK
    BY DEF Init, edid_eeprom_init, EepromTypeOK
  <1>4. EngineTypeOK
    BY FreshTyped DEF Init, EngineInit, EngineTypeOK, Places
  <1>5. /\ transfers \in 0..MaxTransfers /\ faults \in 0..MaxFaults + 1
        /\ ~(faults > MaxFaults) /\ at \in 0..255
    BY ConstantTypes, SMT DEF Init
  <1>6. phase \in Phases /\ phase = "free" /\ cut \in BOOLEAN
    BY Zenon DEF Init, Phases
  <1>7. BusTypeOK
    BY <1>1, <1>2, <1>3, <1>4, <1>5, <1>6, Zenon DEF BusTypeOK
  <1>8. ScriptInv
    <2>1. script = << >> /\ ~Playing /\ phase # "between"
      BY <1>6 DEF Init, Playing
    <2>2. Range(<< >>) = {}
      BY DEF Range
    <2> QED BY <2>1, <2>2, EmptySeq, Zenon DEF ScriptInv
  <1>9. BitsInv
    <2>1. eng.state = "address" /\ eng.bits = 0
      BY DEF Init, EngineInit, FreshLocals
    <2> QED BY <2>1, SMT DEF BitsInv
  <1> QED BY <1>5, <1>7, <1>8, <1>9, Zenon DEF IInv, SilentInv

\* Nothing happens.
LEMMA StutterTyped ==
    ASSUME IInv, UNCHANGED busVars
    PROVE  IInv'
  <1>1. /\ UNCHANGED deviceVars /\ UNCHANGED hostVars /\ latch' = latch /\ pc' = pc
        /\ eng' = eng /\ previous' = previous /\ interrupt' = interrupt /\ sda' = sda
        /\ scl' = scl /\ faults' = faults /\ cut' = cut /\ at' = at
    BY Zenon DEF busVars, engineVars, historyVars
  <1>2. DevicesOK'
    BY <1>1, SlaveParts, Untouched, Zenon DEF deviceVars, ddcVars, DevicesOK
  <1>3. EngineTypeOK' /\ BitsInv'
    BY <1>1, SlaveParts, Zenon DEF EngineTypeOK, BitsInv
  <1>4. ScriptInv' /\ phase' \in Phases /\ transfers' \in 0..MaxTransfers
    BY <1>1, HostKept, Zenon DEF IInv
  <1>5. SilentInv' /\ faults' \in 0..MaxFaults + 1 /\ cut' \in BOOLEAN
        /\ at' \in 0..255 \cup {Unknown}
    BY <1>1, Zenon DEF IInv, SilentInv, BusTypeOK
  <1> QED BY <1>2, <1>3, <1>4, <1>5, Zenon DEF IInv, BusTypeOK, DevicesOK

\* Every step keeps the inductive invariant.
LEMMA NextTyped ==
    ASSUME IInv, [Act]_busVars
    PROVE  IInv'
  <1>1. CASE Host
    BY <1>1, HostFaults, HostLines, HostScript, Zenon
       DEF IInv, BusTypeOK, SlaveOK, DevicesOK
  <1>2. CASE Slave
    BY <1>2, SlaveTyped, Zenon
  <1>3. CASE UNCHANGED busVars
    BY <1>3, StutterTyped, Zenon
  <1> QED BY <1>1, <1>2, <1>3, Zenon DEF Act

\* While the slave waits, nothing moves but its count.
LEMMA Waiting == [Next]_vars => [Act]_busVars
  BY Zenon DEF Next, SlaveWaits, Wait, Spin, SeesOtherPin, HostStill, Unnoticed,
     vars, busVars

\* The types, the order of the scripts and the silence after the last fault
\* hold in every reachable state.
THEOREM Typing == Spec => []IInv
  BY InitTyped, NextTyped, Waiting, PTL DEF Spec

\* The count goes up by one while there is time left, and else starts again.
LEMMA SpinsKept ==
    ASSUME SpinsTypeOK, [Next]_vars
    PROVE  SpinsTypeOK'
  <1>1. CASE idle_spins' = idle_spins \/ idle_spins' = 0
    BY <1>1, SpinsAssumption DEF SpinsTypeOK
  <1>2. CASE Spin
    BY <1>2, SpinsAssumption DEF SpinsTypeOK, Spin, GivenUp
  <1>3. CASE Host
    BY <1>1, <1>3, Zenon
       DEF Host, HostStarts, HostGoesOn, HostClocksStart, HostData, HostRise,
           HostFall, HostCloses, HostCloseRise, HostRestarts, HostStops, Vanish,
           LineDrops, LineRises, Drive, SlaveStill
  <1>4. CASE Slave
    BY <1>1, <1>4, Zenon
       DEF Slave, Start, Iteration, SeesRepeatedStart, Resample, SeesStop, SeesRise,
           SeesFall, SeesData, Sees, SlaveGivesUp, Timeout, Finish
  <1>5. CASE SeesOtherPin
    BY <1>1, <1>5, Zenon DEF SeesOtherPin
  <1>6. CASE UNCHANGED vars
    BY <1>1, <1>6, Zenon DEF vars
  <1> QED BY <1>2, <1>3, <1>4, <1>5, <1>6, Zenon DEF Next, Act, SlaveWaits, Wait

\* Every variable of the slave, of the devices and of the master keeps its
\* type; no packet outgrows the buffer of ddcci.c, and no index its reply.
THEOREM TypeCorrect == Spec => []TypeOK
  <1>1. Init => SpinsTypeOK
    BY SpinsAssumption DEF Init, EngineInit, SpinsTypeOK
  <1>2. SpinsTypeOK /\ [Next]_vars => SpinsTypeOK'
    BY SpinsKept
  <1>3. IInv /\ SpinsTypeOK => TypeOK
    BY Zenon DEF IInv, TypeOK
  <1> QED BY <1>1, <1>2, <1>3, Typing, PTL DEF Spec

-----------------------------------------------------------------------------
(* The slave follows the transfer *)

\* Where the master may be early there is one fault in all, whatever its kind;
\* where it may not, there are as many as one likes.
EarlyAlone == MayBeEarly => MaxFaults <= 1

\* The wire is what the master drives, unless the slave pulls it.
LEMMA WireFacts ==
    ASSUME EngineTypeOK
    PROVE  /\ latch = 1 => Sda = sda
           /\ sda = 0 => Sda = 0
           /\ Sda = 1 => sda = 1 /\ latch = 1
           /\ Lines[1] = Sda /\ Lines[2] = scl
           /\ sda \in {0, 1} /\ scl \in {0, 1} /\ latch \in {0, 1} /\ Sda \in {0, 1}
  <1>1. sda \in {0, 1} /\ scl \in {0, 1} /\ latch \in {0, 1}
    BY Zenon DEF EngineTypeOK
  <1>2. Sda \in {0, 1} /\ (Sda = 0 <=> sda = 0 \/ latch = 0)
    BY LineTyped, Zenon
  <1>3. Lines[1] = Sda /\ Lines[2] = scl
    BY DEF Lines
  <1> QED BY <1>1, <1>2, <1>3

\* What a rising clock does to the locals.
LEMMA RiseFields ==
    ASSUME eng \in Locals, NEW bit \in {0, 1}, Rise(bit)
    PROVE  /\ eng.state = "ignore" => eng' = eng
           /\ eng.state = "address" /\ eng.bits < 7 =>
                  eng'.state = "address" /\ eng'.bits = eng.bits + 1
           /\ eng.state = "address" /\ eng.bits = 7 =>
                  eng'.state = "address_ack" /\ eng'.ack_phase = 0 /\ eng'.read = (bit = 1)
           /\ eng.state = "address_ack" /\ eng.ack_phase = 1 =>
                  /\ eng'.state = "address_ack" /\ eng'.ack_phase = 2
                  /\ eng'.read = eng.read /\ eng'.active = eng.active
           /\ eng.state = "rx" /\ eng.bits < 7 =>
                  eng'.state = "rx" /\ eng'.bits = eng.bits + 1
           /\ eng.state = "rx" /\ eng.bits = 7 =>
                  eng'.state = "rx_ack" /\ eng'.ack_phase = 0
           /\ eng.state = "rx_ack" /\ eng.ack_phase = 1 =>
                  eng'.state = "rx_ack" /\ eng'.ack_phase = 2 /\ eng'.rx_ack = eng.rx_ack
           /\ eng.state = "tx" /\ eng.tx_bits < 7 =>
                  eng'.state = "tx" /\ eng'.tx_bits = eng.tx_bits + 1
           /\ eng.state = "tx" /\ eng.tx_bits = 7 =>
                  eng'.state = "tx_master_ack" /\ eng'.ack_phase = 0
           /\ eng.state = "tx_master_ack" /\ eng.ack_phase = 1 =>
                  /\ eng'.state = "tx_master_ack" /\ eng'.ack_phase = 2
                  /\ eng'.master_ack = (bit = 0)
  <1>0. /\ eng.bits < 8 => /\ Shifted(bit) \in Locals
                           /\ Shifted(bit).state = eng.state
                           /\ Shifted(bit).bits = eng.bits + 1
    BY ShiftedTyped, Zenon
  <1>1. eng.bits \in 0..8 /\ eng.shift \in Byte
    BY SMT DEF Locals
  <1>2. ASSUME eng.state = "ignore" PROVE eng' = eng
    BY <1>2 DEF Rise, RiseAddress, RiseReceive, RiseAck, RiseTransmit, RiseMasterAck, RiseIgnore
  <1>3. ASSUME eng.state = "address", eng.bits < 8 PROVE RiseAddress(bit)
    BY <1>3 DEF Rise, RiseReceive, RiseAck, RiseTransmit, RiseMasterAck, RiseIgnore
  <1>4. ASSUME eng.state = "address", eng.bits < 7
        PROVE  eng'.state = "address" /\ eng'.bits = eng.bits + 1
    <2>1. eng.bits < 8 /\ eng.bits + 1 # 8
      BY <1>1, <1>4, SMT
    <2>2. eng' = Shifted(bit)
      BY <1>0, <1>3, <1>4, <2>1 DEF RiseAddress
    <2> QED BY <1>0, <1>4, <2>1, <2>2
  <1>5. ASSUME eng.state = "address", eng.bits = 7
        PROVE  eng'.state = "address_ack" /\ eng'.ack_phase = 0 /\ eng'.read = (bit = 1)
    <2>1. eng.bits < 8 /\ eng.bits + 1 = 8
      BY <1>1, <1>5, SMT
    <2> DEFINE next == Shifted(bit)
    <2>2. \E d : eng' = [next EXCEPT !.read = (next.shift % 2 = 1), !.active = d,
                                     !.ack_phase = 0, !.state = "address_ack"]
      BY <1>0, <1>3, <1>5, <2>1 DEF RiseAddress
    <2>3. next.shift = (2 * eng.shift + bit) % 256
      BY <1>0, <1>5, <2>1, SMT DEF Shifted, Locals
    <2>4. \A s \in Nat : ((2 * s + bit) % 256) % 2 = bit
      BY SMT
    <2>5. eng.shift \in Nat
      BY <1>1, SMT DEF Byte
    <2>6. next.shift % 2 = bit
      BY <2>3, <2>4, <2>5
    <2>7. next \in Locals
      BY <1>0, <2>1
    <2> HIDE DEF next
    <2>8. eng'.state = "address_ack" /\ eng'.ack_phase = 0 /\ eng'.read = (next.shift % 2 = 1)
      BY <2>2, <2>7 DEF Locals
    <2> QED BY <2>6, <2>8
  <1>6. ASSUME eng.state \in {"address_ack", "rx_ack"}, eng.ack_phase = 1
        PROVE  /\ eng'.state = eng.state /\ eng'.ack_phase = 2 /\ eng'.read = eng.read
               /\ eng'.active = eng.active /\ eng'.rx_ack = eng.rx_ack
    <2>1. RiseAck
      BY <1>6 DEF Rise, RiseAddress, RiseReceive, RiseTransmit, RiseMasterAck, RiseIgnore
    <2>2. eng' = [eng EXCEPT !.ack_phase = 2]
      BY <1>6, <2>1 DEF RiseAck
    <2> QED BY <2>2 DEF Locals
  <1>7. ASSUME eng.state = "rx" PROVE RiseReceive(bit)
    BY <1>7 DEF Rise, RiseAddress, RiseAck, RiseTransmit, RiseMasterAck, RiseIgnore
  <1>8. ASSUME eng.state = "rx", eng.bits < 7
        PROVE  eng'.state = "rx" /\ eng'.bits = eng.bits + 1
    <2>1. eng.bits < 8 /\ eng.bits + 1 # 8
      BY <1>1, <1>8, SMT
    <2>2. eng' = Shifted(bit)
      BY <1>0, <1>7, <1>8, <2>1 DEF RiseReceive
    <2> QED BY <1>0, <1>8, <2>1, <2>2
  <1>9. ASSUME eng.state = "rx", eng.bits = 7
        PROVE  eng'.state = "rx_ack" /\ eng'.ack_phase = 0
    <2>1. eng.bits < 8 /\ eng.bits + 1 = 8
      BY <1>1, <1>9, SMT
    <2>2. \E a : eng' = [Shifted(bit) EXCEPT !.rx_ack = a, !.ack_phase = 0, !.state = "rx_ack"]
      BY <1>0, <1>7, <1>9, <2>1 DEF RiseReceive
    <2>3. PICK e \in Locals : e = Shifted(bit)
      BY <1>0, <2>1
    <2>4. \E a : eng' = [e EXCEPT !.rx_ack = a, !.ack_phase = 0, !.state = "rx_ack"]
      BY <2>2, <2>3
    <2> QED BY <2>4 DEF Locals
  <1>10. ASSUME eng.state = "tx"
         PROVE  eng' = [eng EXCEPT !.tx_bits = eng.tx_bits + 1,
                           !.ack_phase = IF eng.tx_bits = 7 THEN 0 ELSE eng.ack_phase,
                           !.state = IF eng.tx_bits = 7 THEN "tx_master_ack" ELSE eng.state]
    BY <1>10 DEF Rise, RiseAddress, RiseReceive, RiseAck, RiseTransmit, RiseMasterAck, RiseIgnore
  <1>11. ASSUME eng.state = "tx", eng.tx_bits < 7
         PROVE  eng'.state = "tx" /\ eng'.tx_bits = eng.tx_bits + 1
    <2>1. eng.tx_bits \in 0..8
      BY SMT DEF Locals
    <2>2. eng.tx_bits # 7
      BY <1>11, <2>1, SMT
    <2> QED BY <1>10, <1>11, <2>2 DEF Locals
  <1>12. ASSUME eng.state = "tx", eng.tx_bits = 7
         PROVE  eng'.state = "tx_master_ack" /\ eng'.ack_phase = 0
    BY <1>10, <1>12 DEF Locals
  <1>13. ASSUME eng.state = "tx_master_ack", eng.ack_phase = 1
         PROVE  /\ eng'.state = "tx_master_ack" /\ eng'.ack_phase = 2
                /\ eng'.master_ack = (bit = 0)
    <2>1. eng' = [eng EXCEPT !.master_ack = (bit = 0), !.ack_phase = 2]
      BY <1>13 DEF Rise, RiseAddress, RiseReceive, RiseAck, RiseTransmit, RiseMasterAck, RiseIgnore
    <2> QED BY <1>13, <2>1 DEF Locals
  <1> QED BY <1>2, <1>4, <1>5, <1>6, <1>8, <1>9, <1>11, <1>12, <1>13, Zenon

\* What a falling clock does to the locals and to the output latch.
LEMMA FallFields ==
    ASSUME eng \in Locals, Fall
    PROVE  /\ eng.state \in {"address", "rx", "ignore"} => eng' = eng /\ latch' = latch
           /\ eng.state = "address_ack" /\ eng.ack_phase = 0 =>
                  /\ eng'.state = "address_ack" /\ eng'.ack_phase = 1
                  /\ eng'.read = eng.read /\ eng'.active = eng.active
                  /\ latch' = Pull(eng.active # NoDevice)
           /\ eng.state = "address_ack" /\ eng.ack_phase = 2 =>
                  IF eng.active = NoDevice THEN eng'.state = "ignore" /\ latch' = 1
                  ELSE IF eng.read THEN eng'.state = "tx" /\ eng'.tx_bits = 0
                  ELSE eng'.state = "rx" /\ eng'.bits = 0 /\ latch' = 1
           /\ eng.state = "rx_ack" /\ eng.ack_phase = 0 =>
                  /\ eng'.state = "rx_ack" /\ eng'.ack_phase = 1
                  /\ eng'.rx_ack = eng.rx_ack /\ latch' = Pull(eng.rx_ack)
           /\ eng.state = "rx_ack" /\ eng.ack_phase = 2 =>
                  /\ latch' = 1
                  /\ IF eng.rx_ack THEN eng'.state = "rx" /\ eng'.bits = 0
                     ELSE eng'.state = "ignore"
           /\ eng.state = "tx" => eng' = eng
           /\ eng.state = "tx_master_ack" /\ eng.ack_phase = 0 =>
                  eng'.state = "tx_master_ack" /\ eng'.ack_phase = 1 /\ latch' = 1
           /\ eng.state = "tx_master_ack" /\ eng.ack_phase = 2 =>
                  IF eng.master_ack THEN eng'.state = "tx" /\ eng'.tx_bits = 0
                  ELSE eng'.state = "ignore" /\ latch' = 1
  <1>1. SendNext => eng'.state = "tx" /\ eng'.tx_bits = 0
    <2> DEFINE byte == read_byte(eng.active)
    <2>1. SendNext => eng' = [eng EXCEPT !.tx_byte = byte, !.tx_bits = 0, !.ack_phase = 0,
                                         !.state = "tx"]
      BY Zenon DEF SendNext
    <2> HIDE DEF byte
    <2> QED BY <2>1 DEF Locals
  <1>2. ReceiveNext => eng'.state = "rx" /\ eng'.bits = 0
    BY DEF ReceiveNext, Locals
  <1>3. Ignore => eng'.state = "ignore"
    BY DEF Ignore, Locals
  <1>4. ASSUME eng' = [eng EXCEPT !.ack_phase = 1]
        PROVE  /\ eng'.state = eng.state /\ eng'.ack_phase = 1 /\ eng'.read = eng.read
               /\ eng'.active = eng.active /\ eng'.rx_ack = eng.rx_ack
    BY <1>4 DEF Locals
  <1>5. ASSUME eng.state \in {"address", "rx", "ignore"} PROVE eng' = eng /\ latch' = latch
    BY <1>5, Zenon DEF Fall, FallAddressAck, FallReceiveAck, FallTransmit, FallMasterAck, FallIdle
  <1>6. ASSUME eng.state = "address_ack" PROVE FallAddressAck
    BY <1>6 DEF Fall, FallReceiveAck, FallTransmit, FallMasterAck, FallIdle
  <1>7. ASSUME eng.state = "rx_ack" PROVE FallReceiveAck
    BY <1>7 DEF Fall, FallAddressAck, FallTransmit, FallMasterAck, FallIdle
  <1>8. ASSUME eng.state = "tx" PROVE eng' = eng
    BY <1>8 DEF Fall, FallAddressAck, FallReceiveAck, FallTransmit, FallMasterAck, FallIdle
  <1>9. ASSUME eng.state = "tx_master_ack" PROVE FallMasterAck
    BY <1>9 DEF Fall, FallAddressAck, FallReceiveAck, FallTransmit, FallIdle
  <1>10. ASSUME eng.state = "address_ack", eng.ack_phase = 0
         PROVE  latch' = Pull(eng.active # NoDevice) /\ eng' = [eng EXCEPT !.ack_phase = 1]
    BY <1>6, <1>10, SMT DEF FallAddressAck
  <1>11. ASSUME eng.state = "address_ack", eng.ack_phase = 2
         PROVE  IF eng.active = NoDevice THEN Ignore /\ latch' = 1
                ELSE IF eng.read THEN SendNext
                ELSE ReceiveNext /\ latch' = 1
    BY <1>6, <1>11 DEF FallAddressAck, AfterAck
  <1>12. ASSUME eng.state = "rx_ack", eng.ack_phase = 0
         PROVE  latch' = Pull(eng.rx_ack) /\ eng' = [eng EXCEPT !.ack_phase = 1]
    BY <1>7, <1>12, SMT DEF FallReceiveAck
  <1>13. ASSUME eng.state = "rx_ack", eng.ack_phase = 2
         PROVE  /\ latch' = 1
                /\ IF eng.rx_ack THEN eng'.state = "rx" /\ eng'.bits = 0
                   ELSE eng'.state = "ignore"
    <2>1. /\ latch' = 1
          /\ IF eng.rx_ack THEN ReceiveNext
             ELSE eng' = [eng EXCEPT !.shift = 0, !.bits = 0, !.ack_phase = 0,
                                     !.state = "ignore"]
      BY <1>7, <1>13 DEF FallReceiveAck, AfterAck
    <2>2. eng' = [eng EXCEPT !.shift = 0, !.bits = 0, !.ack_phase = 0, !.state = "ignore"] =>
              eng'.state = "ignore"
      BY DEF Locals
    <2> QED BY <1>2, <2>1, <2>2, Zenon
  <1>14. ASSUME eng.state = "tx_master_ack", eng.ack_phase = 0
         PROVE  latch' = 1 /\ eng' = [eng EXCEPT !.ack_phase = 1]
    BY <1>9, <1>14, SMT DEF FallMasterAck
  <1>15. ASSUME eng.state = "tx_master_ack", eng.ack_phase = 2
         PROVE  IF eng.master_ack THEN SendNext ELSE Ignore /\ latch' = 1
    BY <1>9, <1>15 DEF FallMasterAck
  <1> QED BY <1>1, <1>2, <1>3, <1>4, <1>5, <1>8, <1>10, <1>11, <1>12, <1>13, <1>14, <1>15, Zenon

\* Which slots are reads, and which is the last.
LEMMA SlotKinds ==
    ASSUME ScriptInv, Playing
    PROVE  /\ slot \in Nat
           /\ slot < 9 => ~IsRead(slot)
           /\ slot >= 9 /\ Reading => IsRead(slot)
           /\ ~Reading => ~IsRead(slot)
           /\ slot = Slots - 1 => slot % 9 = 8
           /\ slot = Slots - 1 /\ Reading => slot >= 9
           /\ Reading <=> Transfer.reads > 0
  <1>0. script # << >> /\ IsTransfer(Transfer)
    BY SlotFacts, Zenon DEF ScriptInv
  <1>1. PICK n \in Nat \ {0}, k \in Nat : n = Len(Transfer.bytes) /\ k = Transfer.reads
    BY <1>0, SlotFacts, Zenon
  <1>2. Slots = 9 * (n + k) /\ (Reading <=> k > 0)
    BY <1>1, Zenon DEF Slots, Reading
  <1>3. k > 0 => n = 1
    BY <1>0, <1>1, TransferFacts, Zenon
  <1>4. slot \in 0..9 * (n + k) - 1
    BY <1>0, <1>2, SlotFacts, Zenon
  <1>5. IsRead(slot) <=> slot \div 9 + 1 > n
    BY <1>1, Zenon DEF IsRead, ByteOf
  <1>6. /\ slot \in Nat
        /\ slot < 9 => ~(slot \div 9 + 1 > n)
        /\ slot >= 9 /\ k > 0 => slot \div 9 + 1 > n
        /\ ~(k > 0) => ~(slot \div 9 + 1 > n)
        /\ slot = 9 * (n + k) - 1 => slot % 9 = 8
        /\ slot = 9 * (n + k) - 1 /\ k > 0 => slot >= 9
    BY <1>3, <1>4, SMT
  <1> QED BY <1>2, <1>5, <1>6, Zenon DEF Reading

\* The last bit of an address is the direction.
LEMMA DirectionBit ==
    ASSUME ScriptInv, Playing, slot = 7
    PROVE  MasterBit(slot) = IF Reading THEN 1 ELSE 0
  <1>0. script # << >> /\ IsTransfer(Transfer)
    BY SlotFacts, Zenon DEF ScriptInv
  <1>1. ~IsRead(7)
    <2>1. 7 < 9
      BY SMT
    <2> QED BY <2>1, SlotKinds, Zenon
  <1>2. ~IsAck(7) /\ ByteOf(7) = 1
    <2>1. 7 % 9 # 8 /\ 7 \div 9 + 1 = 1
      BY SMT
    <2> QED BY <2>1, Zenon DEF IsAck, ByteOf
  <1>3. MasterBit(7) = Bit(Transfer.bytes[1], 7 - (7 % 9))
    <2>1. MasterBit(7) = Bit(Transfer.bytes[ByteOf(7)], 7 - (7 % 9))
      BY <1>1, <1>2 DEF MasterBit
    <2> QED BY <1>2, <2>1
  <1>4. Transfer.bytes[1] = 2 * Transfer.to + (IF Transfer.reads > 0 THEN 1 ELSE 0)
        /\ Transfer.to \in 0..127
    BY <1>0, TransferFacts, Zenon
  <1>5. \A t \in 0..127 : /\ Bit(2 * t + 1, 7 - (7 % 9)) = 1
                          /\ Bit(2 * t + 0, 7 - (7 % 9)) = 0
    BY SMT DEF Bit
  <1>6. Bit(Transfer.bytes[1], 7 - (7 % 9)) = IF Transfer.reads > 0 THEN 1 ELSE 0
    BY <1>4, <1>5, Zenon
  <1> QED BY <1>3, <1>6, Zenon DEF Reading

\* The master acknowledges every byte it reads but the last.
LEMMA MasterAckBit ==
    ASSUME ScriptInv, Playing, slot >= 9, Reading, slot % 9 = 8
    PROVE  MasterBit(slot) = IF slot # Slots - 1 THEN 0 ELSE 1
  <1>1. IsRead(slot)
    BY SlotKinds, Zenon
  <1>2. IsAck(slot)
    BY Zenon DEF IsAck
  <1> QED BY <1>1, <1>2, Zenon DEF MasterBit

\* Once the slave has seen the clock of a slot rise, it has sampled the slot.
LEMMA RiseInStep ==
    ASSUME IInv, LinesInv, phase = "high", Listening(slot), Rise(Sda),
           UNCHANGED << latch, script, slot >>
    PROVE  Sampled(slot)'
  <1>0. /\ Playing /\ ScriptInv /\ eng \in Locals /\ EngineTypeOK /\ Sda \in {0, 1}
        /\ sda = MasterBit(slot)
    BY SlaveParts DEF IInv, Playing, LinesInv
  <1>1. slot \in Nat
    BY <1>0, SlotKinds, Zenon
  <1>2. latch = 1 => Sda = MasterBit(slot)
    BY <1>0, WireFacts, Zenon
  <1>3. latch' = latch /\ slot' = slot /\ (Reading' <=> Reading) /\ Slots' = Slots
    BY DEF Reading, Slots, Transfer
  <1>4. CASE eng.state = "ignore"
    <2>1. eng' = eng
      BY <1>0, <1>4, RiseFields, Zenon
    <2>2. slot >= 9 /\ latch = 1
      BY <1>4, Zenon DEF Listening
    <2> QED BY <1>3, <1>4, <2>1, <2>2, Zenon DEF Sampled
  <1>5. CASE eng.state = "address"
    <2>1. slot < 8 /\ eng.bits = slot /\ latch = 1
      BY <1>5, Zenon DEF Listening
    <2>2. CASE slot < 7
      <3>1. eng'.state = "address" /\ eng'.bits = slot + 1
        BY <1>0, <1>5, <2>1, <2>2, RiseFields, Zenon
      <3> QED BY <1>3, <2>1, <2>2, <3>1, Zenon DEF Sampled
    <2>3. CASE slot = 7
      <3>1. eng'.state = "address_ack" /\ eng'.ack_phase = 0 /\ eng'.read = (Sda = 1)
        BY <1>0, <1>5, <2>1, <2>3, RiseFields, Zenon
      <3>2. Sda = IF Reading THEN 1 ELSE 0
        BY <1>0, <1>2, <2>1, <2>3, DirectionBit, Zenon
      <3>3. eng'.read = Reading
        <4>1. (Sda = 1) = Reading
          BY <3>2 DEF Reading
        <4> QED BY <3>1, <4>1, Zenon
      <3>4. eng'.read = Reading'
        BY <1>3, <3>3 DEF Reading
      <3> QED BY <1>3, <2>1, <2>3, <3>1, <3>4, Zenon DEF Sampled
    <2> QED BY <1>1, <2>1, <2>2, <2>3, SMT
  <1>6. CASE eng.state = "address_ack"
    <2>1. slot = 8 /\ eng.ack_phase = 1 /\ eng.read = Reading
          /\ latch = Pull(eng.active # NoDevice)
      BY <1>6, Zenon DEF Listening
    <2>2. /\ eng'.state = "address_ack" /\ eng'.ack_phase = 2
          /\ eng'.read = eng.read /\ eng'.active = eng.active
      BY <1>0, <1>6, <2>1, RiseFields, Zenon
    <2>3. eng'.read = Reading'
      BY <1>3, <2>1, <2>2 DEF Reading
    <2> QED BY <1>3, <2>1, <2>2, <2>3, Zenon DEF Sampled
  <1>7. CASE eng.state = "rx"
    <2>1. slot >= 9 /\ ~Reading /\ slot % 9 < 8 /\ eng.bits = slot % 9 /\ latch = 1
      BY <1>7, Zenon DEF Listening
    <2>2. CASE slot % 9 < 7
      <3>1. eng'.state = "rx" /\ eng'.bits = (slot % 9) + 1
        BY <1>0, <1>7, <2>1, <2>2, RiseFields, Zenon
      <3> QED BY <1>3, <2>1, <2>2, <3>1, Zenon DEF Sampled
    <2>3. CASE slot % 9 = 7
      <3>1. eng'.state = "rx_ack" /\ eng'.ack_phase = 0
        BY <1>0, <1>7, <2>1, <2>3, RiseFields, Zenon
      <3> QED BY <1>3, <2>1, <2>3, <3>1, Zenon DEF Sampled
    <2> QED BY <1>1, <2>1, <2>2, <2>3, SMT
  <1>8. CASE eng.state = "rx_ack"
    <2>1. /\ slot >= 9 /\ ~Reading /\ slot % 9 = 8 /\ eng.ack_phase = 1
          /\ latch = Pull(eng.rx_ack)
      BY <1>8, Zenon DEF Listening
    <2>2. eng'.state = "rx_ack" /\ eng'.ack_phase = 2 /\ eng'.rx_ack = eng.rx_ack
      BY <1>0, <1>8, <2>1, RiseFields, Zenon
    <2> QED BY <1>3, <2>1, <2>2, Zenon DEF Sampled
  <1>9. CASE eng.state = "tx"
    <2>1. slot >= 9 /\ Reading /\ slot % 9 < 8 /\ eng.tx_bits = slot % 9
      BY <1>9, Zenon DEF Listening
    <2>2. CASE slot % 9 < 7
      <3>1. eng'.state = "tx" /\ eng'.tx_bits = (slot % 9) + 1
        BY <1>0, <1>9, <2>1, <2>2, RiseFields, Zenon
      <3> QED BY <1>3, <2>1, <2>2, <3>1, Zenon DEF Sampled
    <2>3. CASE slot % 9 = 7
      <3>1. eng'.state = "tx_master_ack" /\ eng'.ack_phase = 0
        BY <1>0, <1>9, <2>1, <2>3, RiseFields, Zenon
      <3> QED BY <1>3, <2>1, <2>3, <3>1, Zenon DEF Sampled
    <2> QED BY <1>1, <2>1, <2>2, <2>3, SMT
  <1>10. CASE eng.state = "tx_master_ack"
    <2>1. slot >= 9 /\ Reading /\ slot % 9 = 8 /\ eng.ack_phase = 1 /\ latch = 1
      BY <1>10, Zenon DEF Listening
    <2>2. /\ eng'.state = "tx_master_ack" /\ eng'.ack_phase = 2
          /\ eng'.master_ack = (Sda = 0)
      BY <1>0, <1>10, <2>1, RiseFields, Zenon
    <2>3. Sda = IF slot # Slots - 1 THEN 0 ELSE 1
      BY <1>0, <1>2, <2>1, MasterAckBit, Zenon
    <2>4. (Sda = 0) = (slot # Slots - 1)
      BY <2>3
    <2>5. eng'.master_ack = (slot' # Slots' - 1)
      BY <1>3, <2>2, <2>4, Zenon
    <2> QED BY <1>3, <2>1, <2>2, <2>5, Zenon DEF Sampled
  <1> QED BY <1>4, <1>5, <1>6, <1>7, <1>8, <1>9, <1>10, Zenon DEF Listening

\* Once it has seen the clock fall, it is ready for the next slot.
LEMMA FallInStep ==
    ASSUME IInv, phase \in {"low", "set"}, slot > 0, Sampled(slot - 1), Fall,
           UNCHANGED << script, slot >>
    PROVE  Listening(slot)'
  <1>0. Playing /\ ScriptInv /\ eng \in Locals
    BY SlaveParts DEF IInv, Playing
  <1>1. PICK n \in Nat : slot = n + 1
    <2>1. slot \in Nat
      BY <1>0, SlotKinds, Zenon
    <2>2. \A s \in Nat : s > 0 => \E n \in Nat : s = n + 1
      <3> TAKE s \in Nat
      <3> HAVE s > 0
      <3> WITNESS s - 1 \in Nat
      <3> QED OBVIOUS
    <2> QED BY <2>1, <2>2, Zenon
  <1>2. slot - 1 = n /\ slot # Slots
    <2>1. slot - 1 = n
      BY <1>1
    <2>2. PICK m \in Nat \ {0} : m = Slots
      BY <1>0, SlotFacts, Zenon DEF ScriptInv
    <2>3. slot \in 0..m - 1
      BY <1>0, <2>2, SlotFacts, Zenon DEF ScriptInv
    <2>4. slot # m
      BY <2>3, SMT
    <2> QED BY <2>1, <2>2, <2>4, Zenon
  <1>3. slot' = n + 1 /\ (Reading' <=> Reading)
    BY <1>1 DEF Reading, Transfer
  <1>4. Sampled(n)
    BY <1>2, Zenon
  <1>5. n # Slots - 1
    <2>1. PICK m \in Nat \ {0} : m = Slots
      BY <1>0, SlotFacts, Zenon DEF ScriptInv
    <2>2. n + 1 # m
      BY <1>1, <1>2, <2>1, Zenon
    <2>3. n # m - 1
      BY <2>2, SMT
    <2> QED BY <2>1, <2>3, Zenon
  <1>6. /\ n % 9 < 8 => (n + 1) % 9 = (n % 9) + 1
        /\ n % 9 = 8 => (n + 1) % 9 = 0
        /\ n >= 9 => n + 1 >= 9
        /\ n < 7 => n + 1 < 8
        /\ n % 9 < 7 => n % 9 < 8 /\ (n % 9) + 1 < 8
        /\ 0 < 8 /\ 7 + 1 = 8 /\ 8 + 1 >= 9 /\ (8 + 1) % 9 = 0
        /\ n % 9 = 7 => n % 9 < 8
    BY SMT
  <1>7. CASE eng.state = "ignore"
    <2>1. eng' = eng /\ latch' = latch
      BY <1>0, <1>7, FallFields, Zenon
    <2>2. n >= 9 /\ latch = 1
      BY <1>4, <1>7, Zenon DEF Sampled
    <2> QED BY <1>3, <1>6, <1>7, <2>1, <2>2, Zenon DEF Listening
  <1>8. CASE eng.state = "address"
    <2>1. eng' = eng /\ latch' = latch
      BY <1>0, <1>8, FallFields, Zenon
    <2>2. n < 7 /\ eng.bits = n + 1 /\ latch = 1
      BY <1>4, <1>8, Zenon DEF Sampled
    <2> QED BY <1>3, <1>6, <1>8, <2>1, <2>2, Zenon DEF Listening
  <1>9. CASE eng.state = "address_ack" /\ n = 7 /\ eng.ack_phase = 0
    <2>1. eng.read = Reading
      BY <1>4, <1>9, Zenon DEF Sampled
    <2>2. /\ eng'.state = "address_ack" /\ eng'.ack_phase = 1
          /\ eng'.read = eng.read /\ eng'.active = eng.active
          /\ latch' = Pull(eng.active # NoDevice)
      BY <1>0, <1>9, FallFields, Zenon
    <2>3. eng'.read = Reading'
      BY <1>3, <2>1, <2>2 DEF Reading
    <2>4. slot' = 8
      BY <1>3, <1>6, <1>9, Zenon
    <2> QED BY <2>2, <2>3, <2>4, Zenon DEF Listening
  <1>10. CASE eng.state = "address_ack" /\ n = 8 /\ eng.ack_phase = 2
    <2>1. eng.read = Reading
      BY <1>4, <1>10, Zenon DEF Sampled
    <2>2. IF eng.active = NoDevice THEN eng'.state = "ignore" /\ latch' = 1
          ELSE IF eng.read THEN eng'.state = "tx" /\ eng'.tx_bits = 0
          ELSE eng'.state = "rx" /\ eng'.bits = 0 /\ latch' = 1
      BY <1>0, <1>10, FallFields, Zenon
    <2>3. slot' >= 9 /\ slot' % 9 = 0 /\ slot' % 9 < 8
      BY <1>3, <1>6, <1>10, Zenon
    <2> QED BY <1>3, <2>1, <2>2, <2>3, Zenon DEF Listening
  <1>11. CASE eng.state = "rx"
    <2>1. eng' = eng /\ latch' = latch
      BY <1>0, <1>11, FallFields, Zenon
    <2>2. n >= 9 /\ ~Reading /\ n % 9 < 7 /\ eng.bits = (n % 9) + 1 /\ latch = 1
      BY <1>4, <1>11, Zenon DEF Sampled
    <2> QED BY <1>3, <1>6, <1>11, <2>1, <2>2, Zenon DEF Listening
  <1>12. CASE eng.state = "rx_ack" /\ n % 9 = 7 /\ eng.ack_phase = 0
    <2>1. n >= 9 /\ ~Reading
      BY <1>4, <1>12, Zenon DEF Sampled
    <2>2. /\ eng'.state = "rx_ack" /\ eng'.ack_phase = 1
          /\ eng'.rx_ack = eng.rx_ack /\ latch' = Pull(eng.rx_ack)
      BY <1>0, <1>12, FallFields, Zenon
    <2>3. slot' >= 9 /\ slot' % 9 = 8
      BY <1>3, <1>6, <1>12, <2>1, Zenon
    <2> QED BY <1>3, <2>1, <2>2, <2>3, Zenon DEF Listening
  <1>13. CASE eng.state = "rx_ack" /\ n % 9 = 8 /\ eng.ack_phase = 2
    <2>1. n >= 9 /\ ~Reading
      BY <1>4, <1>13, Zenon DEF Sampled
    <2>2. /\ latch' = 1
          /\ IF eng.rx_ack THEN eng'.state = "rx" /\ eng'.bits = 0 ELSE eng'.state = "ignore"
      BY <1>0, <1>13, FallFields, Zenon
    <2>3. slot' >= 9 /\ slot' % 9 = 0 /\ slot' % 9 < 8
      BY <1>3, <1>6, <1>13, <2>1, Zenon
    <2> QED BY <1>3, <2>1, <2>2, <2>3, Zenon DEF Listening
  <1>14. CASE eng.state = "tx"
    <2>1. eng' = eng
      BY <1>0, <1>14, FallFields, Zenon
    <2>2. n >= 9 /\ Reading /\ n % 9 < 7 /\ eng.tx_bits = (n % 9) + 1
      BY <1>4, <1>14, Zenon DEF Sampled
    <2> QED BY <1>3, <1>6, <1>14, <2>1, <2>2, Zenon DEF Listening
  <1>15. CASE eng.state = "tx_master_ack" /\ n % 9 = 7 /\ eng.ack_phase = 0
    <2>1. n >= 9 /\ Reading
      BY <1>4, <1>15, Zenon DEF Sampled
    <2>2. eng'.state = "tx_master_ack" /\ eng'.ack_phase = 1 /\ latch' = 1
      BY <1>0, <1>15, FallFields, Zenon
    <2>3. slot' >= 9 /\ slot' % 9 = 8
      BY <1>3, <1>6, <1>15, <2>1, Zenon
    <2> QED BY <1>3, <2>1, <2>2, <2>3, Zenon DEF Listening
  <1>16. CASE eng.state = "tx_master_ack" /\ n % 9 = 8 /\ eng.ack_phase = 2
    <2>1. n >= 9 /\ Reading /\ eng.master_ack = (n # Slots - 1)
      BY <1>4, <1>16 DEF Sampled
    <2>2. eng'.state = "tx" /\ eng'.tx_bits = 0
      BY <1>0, <1>5, <1>16, <2>1, FallFields, Zenon
    <2>3. slot' >= 9 /\ slot' % 9 = 0 /\ slot' % 9 < 8
      BY <1>3, <1>6, <1>16, <2>1, Zenon
    <2> QED BY <1>3, <2>1, <2>2, <2>3, Zenon DEF Listening
  <1> QED BY <1>4, <1>7, <1>8, <1>9, <1>10, <1>11, <1>12, <1>13, <1>14, <1>15, <1>16,
             Zenon DEF Sampled

\* The last acknowledge bit, or a refusal: the slave lets go of the line.
LEMMA LastFall ==
    ASSUME IInv, NackInv, phase \in {"closing", "closeSet"}, nack => latch = 1,
           Sampled(slot), Fall
    PROVE  Closed'
  <1>0. Playing /\ ScriptInv /\ eng \in Locals /\ script # << >>
    BY SlaveParts DEF IInv, Playing, ScriptInv
  <1>1. slot \in Nat /\ slot % 9 = 8
    BY <1>0, SlotKinds, Zenon DEF NackInv, IsAck
  <1>2. slot >= 9 /\ Reading => slot = Slots - 1
    BY <1>0, SlotKinds, Zenon DEF NackInv
  <1>3. slot = 8 /\ Reading => nack
    <2>1. slot = 8 => ~(slot >= 9)
      BY <1>1, SMT
    <2> QED BY <1>0, <2>1, SlotKinds, Zenon DEF NackInv
  <1>4. slot % 9 = 8 => ~(slot < 7) /\ slot # 7 /\ slot % 9 # 7 /\ ~(slot % 9 < 7)
    BY <1>1, SMT
  <1>5. CASE eng.state = "ignore"
    <2>1. eng' = eng /\ latch' = latch /\ latch = 1
      BY <1>0, <1>5, FallFields, Zenon DEF Sampled
    <2> QED BY <1>5, <2>1 DEF Closed, Over
  <1>6. CASE eng.state = "address_ack"
    <2>1. /\ slot = 8 /\ eng.ack_phase = 2 /\ eng.read = Reading
          /\ latch = Pull(eng.active # NoDevice)
      BY <1>1, <1>4, <1>6, Zenon DEF Sampled
    <2>2. nack => eng.active = NoDevice
      BY <2>1 DEF Pull
    <2>3. eng.active # NoDevice => ~eng.read
      BY <1>3, <2>1, <2>2, Zenon
    <2>4. IF eng.active = NoDevice THEN eng'.state = "ignore" /\ latch' = 1
          ELSE IF eng.read THEN eng'.state = "tx" /\ eng'.tx_bits = 0
          ELSE eng'.state = "rx" /\ eng'.bits = 0 /\ latch' = 1
      BY <1>0, <1>6, <2>1, FallFields, Zenon
    <2> QED BY <2>3, <2>4 DEF Closed, Over
  <1>7. CASE eng.state = "rx_ack"
    <2>1. eng.ack_phase = 2
      BY <1>1, <1>4, <1>7, Zenon DEF Sampled
    <2>2. /\ latch' = 1
          /\ IF eng.rx_ack THEN eng'.state = "rx" /\ eng'.bits = 0 ELSE eng'.state = "ignore"
      BY <1>0, <1>7, <2>1, FallFields, Zenon
    <2> QED BY <2>2 DEF Closed, Over
  <1>8. CASE eng.state = "tx_master_ack"
    <2>1. /\ slot >= 9 /\ Reading /\ eng.ack_phase = 2
          /\ eng.master_ack = (slot # Slots - 1)
      BY <1>1, <1>4, <1>8 DEF Sampled
    <2>2. eng'.state = "ignore" /\ latch' = 1
      BY <1>0, <1>2, <1>8, <2>1, FallFields, Zenon
    <2> QED BY <2>2 DEF Closed, Over
  <1> QED BY <1>1, <1>4, <1>5, <1>6, <1>7, <1>8, Zenon DEF Sampled

\* The clock that closes a transfer.
LEMMA LastRise ==
    ASSUME IInv, Closed, Rise(Sda), latch' = latch
    PROVE  Over'
  <1>0. eng \in Locals /\ Sda \in {0, 1}
    BY SlaveParts, Zenon
  <1>1. CASE eng.state = "ignore"
    <2>1. eng' = eng
      BY <1>0, <1>1, RiseFields, Zenon
    <2> QED BY <1>1, <2>1 DEF Closed, Over
  <1>2. CASE eng.state = "rx"
    <2>1. eng.bits = 0 /\ 0 < 7
      BY <1>2, SMT DEF Closed
    <2>2. eng'.state = "rx"
      BY <1>0, <1>2, <2>1, RiseFields, Zenon
    <2> QED BY <2>2 DEF Closed, Over
  <1> QED BY <1>1, <1>2 DEF Closed, Over

\* What does not move, the same.
LEMMA SameTransfer ==
    ASSUME UNCHANGED << script, slot, nack >>
    PROVE  /\ MasterBit(slot)' = MasterBit(slot) /\ Slots' = Slots
           /\ Restarts' <=> Restarts
           /\ IsAck(slot)' <=> IsAck(slot)
           /\ IsRead(slot)' <=> IsRead(slot)
  <1>1. script' = script /\ slot' = slot /\ nack' = nack
    OBVIOUS
  <1>2. Slots' = Slots
    BY <1>1, Zenon DEF Slots, Transfer
  <1>3. Restarts' <=> Restarts
    BY <1>1 DEF Restarts, Transfer
  <1>4. MasterBit(slot)' = MasterBit(slot)
    BY <1>1 DEF MasterBit, IsRead, IsAck, ByteOf, Bit, Slots, Transfer
  <1>5. (IsAck(slot)' <=> IsAck(slot)) /\ (IsRead(slot)' <=> IsRead(slot))
    BY <1>1 DEF IsAck, IsRead, ByteOf, Transfer
  <1> QED BY <1>2, <1>3, <1>4, <1>5, Zenon

\* ... and what the slave has seen of it.
LEMMA SameSampling ==
    ASSUME UNCHANGED << script, eng, latch >>, NEW n
    PROVE  /\ slot' = n => (Listening(n) => Listening(slot)')
           /\ slot' = n => (Sampled(n) => Sampled(slot)')
           /\ slot' = n + 1 /\ slot' - 1 = n => (Sampled(n) => Sampled(slot - 1)')
           /\ Listening(0) => Listening(0)'
           /\ Over => Over'
           /\ Closed => Closed'
  <1>1. script' = script /\ eng' = eng /\ latch' = latch
    OBVIOUS
  <1>2. /\ Over => Over' 
        /\ Closed => Closed'
    BY <1>1, Zenon DEF Over, Closed
  <1>3. (Reading' <=> Reading) /\ Slots' = Slots
    BY <1>1, Zenon DEF Reading, Slots, Transfer
  <1>4. eng.read = Reading => eng'.read = Reading'
    BY <1>1, <1>3 DEF Reading
  <1>5. /\ slot' = n => (Listening(n) => Listening(slot)')
        /\ Listening(0) => Listening(0)'
    BY <1>1, <1>3, <1>4, Zenon DEF Listening
  <1>6. /\ slot' = n => (Sampled(n) => Sampled(slot)')
        /\ slot' = n + 1 /\ slot' - 1 = n => (Sampled(n) => Sampled(slot - 1)')
    BY <1>1, <1>3, <1>4, Zenon DEF Sampled
  <1> QED BY <1>2, <1>5, <1>6, Zenon

\* A master that waits for the slave's loop moves when it has seen the lines.
LEMMA MovesInPoll ==
    ASSUME MasterMoves, pc = "poll"
    PROVE  Lines = previous /\ previous[1] = Sda /\ previous[2] = scl
  <1>1. Lines = previous
    BY DEF MasterMoves, CaughtUp, SlaveBusy
  <1> QED BY <1>1 DEF Lines

\* No loop, no edge: after a repeated START only the clock may fall.
LEMMA MovesElsewhere ==
    ASSUME MasterMoves, pc \in Places
    PROVE  pc # "resample"
  BY DEF MasterMoves, CaughtUp, SlaveBusy

\* The master's edges leave the slave alone.
LEMMA DriveFrame ==
    ASSUME NEW a, NEW b, Drive(a, b)
    PROVE  /\ sda' = a /\ scl' = b /\ eng' = eng /\ latch' = latch
           /\ previous' = previous /\ pc' = pc /\ LatchInterrupt
           /\ a = sda => Sda' = Sda
  <1>1. /\ sda' = a /\ scl' = b /\ eng' = eng /\ latch' = latch
        /\ previous' = previous /\ pc' = pc /\ LatchInterrupt
    BY Zenon DEF Drive, SlaveStill
  <1>2. a = sda => Sda' = Sda
    BY <1>1, Zenon DEF Sda
  <1> QED BY <1>1, <1>2, Zenon

\* What the slave's steps leave to the master.
LEMMA SlaveFrame ==
    ASSUME Slave
    PROVE  /\ UNCHANGED << script, slot, nack, phase >> /\ sda' = sda /\ scl' = scl
  BY Zenon DEF Slave, Unnoticed, SlaveGivesUp, hostVars, Start, Iteration, Finish, Timeout,
     SeesRepeatedStart, Resample, SeesStop, SeesRise, SeesFall, SeesData, HostStill

\* The lines, after every step.
LEMMA LinesKept ==
    ASSUME IInv, Following, Act
    PROVE  LinesInv'
  <1>0. LinesInv
    BY Zenon DEF Following
  <1>1. CASE Slave
    <2>1. UNCHANGED << script, slot, nack, phase >> /\ sda' = sda /\ scl' = scl
      BY <1>1, SlaveFrame, Zenon
    <2>2. MasterBit(slot)' = MasterBit(slot) /\ (Restarts' <=> Restarts)
      BY <2>1, SameTransfer, Zenon
    <2> QED BY <1>0, <2>1, <2>2 DEF LinesInv
  <1>2. CASE HostStarts \/ HostGoesOn \/ HostRestarts
    <2>1. phase' = "started" /\ slot' = 0 /\ sda' = 0 /\ scl' = 1
      BY <1>2, Zenon DEF HostStarts, HostGoesOn, HostRestarts, Drive
    <2> QED BY <2>1 DEF LinesInv
  <1>3. CASE HostClocksStart
    <2>1. phase' = "low" /\ scl' = 0
      BY <1>3, Zenon DEF HostClocksStart, Drive
    <2> QED BY <2>1 DEF LinesInv
  <1>4. CASE HostData
    <2>1. /\ phase' = "set" /\ scl' = 0 /\ sda' = MasterBit(slot)
          /\ UNCHANGED << script, slot, nack >>
      BY <1>4, Zenon DEF HostData, Drive
    <2>2. MasterBit(slot)' = MasterBit(slot)
      BY <2>1, SameTransfer, Zenon
    <2> QED BY <2>1, <2>2 DEF LinesInv
  <1>5. CASE HostRise
    <2>1. /\ phase = "set" /\ phase' = "high" /\ scl' = 1 /\ sda' = sda
          /\ UNCHANGED << script, slot >>
      BY <1>5, Zenon DEF HostRise, Drive
    <2>2. sda = MasterBit(slot)
      BY <1>0, <2>1, Zenon DEF LinesInv
    <2>3. MasterBit(slot)' = MasterBit(slot)
      BY <2>1 DEF MasterBit, IsRead, IsAck, ByteOf, Bit, Slots, Transfer
    <2> QED BY <2>1, <2>2, <2>3 DEF LinesInv
  <1>6. CASE HostFall
    <2>1. phase' \in {"closing", "low"} /\ scl' = 0
      BY <1>6, Zenon DEF HostFall, Drive
    <2> QED BY <2>1 DEF LinesInv
  <1>7. CASE HostCloses
    <2>1. /\ phase' = "closeSet" /\ scl' = 0 /\ sda' = IF Restarts THEN 1 ELSE 0
          /\ UNCHANGED << script, slot, nack >>
      BY <1>7, Zenon DEF HostCloses, Drive
    <2>2. Restarts' <=> Restarts
      BY <2>1, SameTransfer, Zenon
    <2> QED BY <2>1, <2>2 DEF LinesInv
  <1>8. CASE HostCloseRise
    <2>1. /\ phase = "closeSet" /\ phase' = "closeHigh" /\ scl' = 1 /\ sda' = sda
          /\ UNCHANGED << script, slot, nack >>
      BY <1>8, Zenon DEF HostCloseRise, Drive
    <2>2. Restarts' <=> Restarts
      BY <2>1, SameTransfer, Zenon
    <2>3. sda = IF Restarts THEN 1 ELSE 0
      BY <1>0, <2>1, Zenon DEF LinesInv
    <2> QED BY <2>1, <2>2, <2>3 DEF LinesInv
  <1>9. CASE HostStops \/ Vanish \/ LineDrops \/ LineRises
    <2>1. phase' \in {"between", "free", "gone", "return"}
      BY <1>9 DEF HostStops, Vanish, LineDrops, LineRises
    <2> QED BY <2>1 DEF LinesInv
  <1> QED BY <1>1, <1>2, <1>3, <1>4, <1>5, <1>6, <1>7, <1>8, <1>9, Zenon DEF Act, Host

\* The refusal, after every step.
LEMMA NackKept ==
    ASSUME IInv, Following, Act
    PROVE  NackInv'
  <1>0. NackInv
    BY Zenon DEF Following
  <1>1. CASE Slave \/ HostCloses \/ HostCloseRise
    <2>1. /\ UNCHANGED << script, slot, nack >>
          /\ \/ phase' = phase
             \/ phase \in {"closing", "closeSet"} /\ phase' \in {"closeSet", "closeHigh"}
      <3>1. CASE Slave
        BY <3>1, SlaveFrame, Zenon
      <3> QED BY <1>1, <3>1 DEF HostCloses, HostCloseRise
    <2>2. /\ Slots' = Slots /\ (IsAck(slot)' <=> IsAck(slot))
          /\ (IsRead(slot)' <=> IsRead(slot))
      BY <2>1, SameTransfer, Zenon
    <2> QED BY <1>0, <2>1, <2>2 DEF NackInv
  <1>2. CASE HostStarts \/ HostGoesOn \/ HostRestarts \/ HostClocksStart \/ HostData
    <2>1. phase' \in {"started", "low", "set"} /\ ~nack'
      <3>1. CASE HostStarts
        BY <3>1 DEF HostStarts
      <3>2. CASE HostRestarts
        BY <3>2 DEF HostRestarts, Restarts
      <3>3. CASE HostGoesOn \/ HostClocksStart \/ HostData
        BY <1>0, <3>3 DEF HostGoesOn, HostClocksStart, HostData, NackInv
      <3> QED BY <1>2, <3>1, <3>2, <3>3, Zenon
    <2> QED BY <2>1 DEF NackInv
  <1>3. CASE HostRise
    <2>1. /\ phase' = "high" /\ UNCHANGED << script, slot >>
          /\ nack' = (IsAck(slot) /\ ~IsRead(slot) /\ Sda = 1)
      BY <1>3, Zenon DEF HostRise
    <2>2. (IsAck(slot)' <=> IsAck(slot)) /\ (IsRead(slot)' <=> IsRead(slot))
      BY <2>1 DEF IsAck, IsRead, ByteOf, Transfer
    <2> QED BY <2>1, <2>2 DEF NackInv
  <1>4. CASE HostFall
    <2>0. /\ phase = "high" /\ UNCHANGED << script, nack >>
          /\ \/ (nack \/ slot = Slots - 1) /\ phase' = "closing" /\ slot' = slot
             \/ ~nack /\ phase' = "low"
      BY <1>4 DEF HostFall
    <2>1. CASE (nack \/ slot = Slots - 1) /\ phase' = "closing" /\ slot' = slot
      <3>1. UNCHANGED << script, slot, nack >>
        BY <2>0, <2>1
      <3>2. /\ Slots' = Slots /\ (IsAck(slot)' <=> IsAck(slot))
            /\ (IsRead(slot)' <=> IsRead(slot))
        BY <3>1, SameTransfer, Zenon
      <3> QED BY <1>0, <2>1, <3>1, <3>2 DEF NackInv
    <2>2. CASE ~nack /\ phase' = "low"
      BY <2>0, <2>2 DEF NackInv
    <2> QED BY <2>0, <2>1, <2>2, Zenon
  <1>5. CASE HostStops \/ Vanish \/ LineDrops \/ LineRises
    <2>1. phase' \in {"between", "free", "gone", "return"} /\ ~nack'
      <3>1. CASE HostStops \/ Vanish
        BY <3>1 DEF HostStops, Vanish
      <3>2. CASE LineDrops \/ LineRises
        BY <1>0, <3>2 DEF LineDrops, LineRises, NackInv
      <3> QED BY <1>5, <3>1, <3>2, Zenon
    <2> QED BY <2>1 DEF NackInv
  <1> QED BY <1>1, <1>2, <1>3, <1>4, <1>5, Zenon DEF Act, Host

\* The slave stays in step while the master moves.
LEMMA InStepHost ==
    ASSUME IInv, Following, Host
    PROVE  InStep' /\ Afresh'
  <1>0. LinesInv /\ NackInv /\ InStep /\ Afresh /\ EngineTypeOK /\ pc \in Places /\ ScriptInv
    BY SlaveParts, Zenon DEF Following, IInv
  <1>1. CASE HostStarts \/ HostGoesOn \/ HostRestarts
    <2>1. /\ phase' = "started" /\ MasterMoves /\ Drive(0, 1)
          /\ \/ Lines = << 1, 1 >>
             \/ phase = "closeHigh" /\ Restarts
      BY <1>1, Zenon DEF HostStarts, HostGoesOn, HostRestarts
    <2>2. pc' = pc /\ latch' = latch /\ previous' = previous
      BY <2>1, DriveFrame, Zenon
    <2>3. Afresh'
      BY <1>0, <2>1, <2>2, MovesElsewhere, Zenon DEF Afresh
    <2>4. ASSUME pc = "poll" PROVE previous = << 1, 1 >> /\ latch = 1
      <3>1. Lines = previous /\ previous[1] = Sda /\ previous[2] = scl
        BY <2>1, <2>4, MovesInPoll, Zenon
      <3>2. CASE Lines = << 1, 1 >>
        <4>1. Sda = 1
          BY <3>2 DEF Lines
        <4> QED BY <1>0, <3>1, <3>2, <4>1, WireFacts, Zenon
      <3>3. CASE phase = "closeHigh" /\ Restarts
        <4>1. Ended /\ scl = 1 /\ sda = 1
          BY <1>0, <2>4, <3>3 DEF InStep, LinesInv
        <4>2. latch = 1
          BY <3>1, <4>1, Zenon DEF Ended, Over
        <4>3. Sda = 1
          BY <1>0, <4>1, <4>2, WireFacts, Zenon
        <4> QED BY <3>1, <4>1, <4>2, <4>3 DEF Lines
      <3> QED BY <2>1, <3>2, <3>3, Zenon
    <2>5. pc' = "poll" => Begun'
      BY <2>2, <2>4, Zenon DEF Begun
    <2> QED BY <2>1, <2>3, <2>5 DEF InStep
  <1>2. CASE HostClocksStart
    <2>1. /\ phase = "started" /\ phase' = "low" /\ Drive(0, 0)
          /\ UNCHANGED << script, slot >>
          /\ MasterMoves \/ pc = "resample"
      BY <1>2, Zenon DEF HostClocksStart
    <2>2. pc' = pc /\ latch' = latch /\ previous' = previous /\ eng' = eng
      BY <2>1, DriveFrame, Zenon
    <2>3. sda = 0 /\ scl = 1 /\ slot = 0
      BY <1>0, <2>1, Zenon DEF LinesInv
    <2>4. Afresh'
      <3>1. pc' = "resample" => slot' = 0 /\ Listening(0)
        BY <1>0, <2>1, <2>2, <2>3 DEF Afresh, Playing
      <3>2. Listening(0) => Listening(0)'
        BY <2>1, <2>2, SameSampling, Zenon
      <3> QED BY <2>1, <3>1, <3>2 DEF Afresh
    <2>5. ASSUME pc' = "poll" PROVE Before'
      <3>1. pc = "poll" /\ MasterMoves
        BY <2>1, <2>2, <2>5
      <3>2. previous[1] = Sda
        BY <3>1, MovesInPoll, Zenon
      <3>3. Sda = 0
        BY <1>0, <2>3, WireFacts, Zenon
      <3>4. Begun /\ previous # << 1, 1 >>
        BY <1>0, <2>1, <3>1, <3>2, <3>3 DEF InStep
      <3>5. Listening(0)
        BY <3>4, Zenon DEF Begun
      <3>6. Listening(slot)'
        BY <2>1, <2>2, <2>3, <3>5, SameSampling, Zenon
      <3>7. ~(slot' > 0)
        BY <2>1, <2>3, SMT
      <3> QED BY <3>6, <3>7, Zenon DEF Before
    <2> QED BY <2>1, <2>4, <2>5 DEF InStep
  <1>3. CASE HostData
    <2>1. /\ phase = "low" /\ phase' = "set" /\ Drive(MasterBit(slot), 0)
          /\ UNCHANGED << script, slot >> /\ DataMoves
      BY <1>3, Zenon DEF HostData
    <2>2. pc' = pc /\ latch' = latch /\ previous' = previous /\ eng' = eng
      BY <2>1, DriveFrame, Zenon
    <2>3. Afresh'
      <3>1. pc # "resample"
        BY <1>0, <2>1, MovesElsewhere DEF DataMoves
      <3> QED BY <2>2, <3>1, Zenon DEF Afresh
    <2>4. ASSUME pc' = "poll" PROVE Before'
      <3>1. Before
        BY <1>0, <2>1, <2>2, <2>4 DEF InStep
      <3> QED BY <2>1, <2>2, <3>1 DEF Before, Listening, Sampled, Reading, Slots, Transfer
    <2> QED BY <2>1, <2>3, <2>4 DEF InStep
  <1>4. CASE HostRise
    <2>1. /\ phase = "set" /\ phase' = "high" /\ Drive(sda, 1)
          /\ UNCHANGED << script, slot >> /\ MasterMoves
          /\ nack' = (IsAck(slot) /\ ~IsRead(slot) /\ Sda = 1)
      BY <1>4, Zenon DEF HostRise
    <2>2. /\ pc' = pc /\ latch' = latch /\ previous' = previous /\ eng' = eng
          /\ Sda' = Sda
      BY <2>1, DriveFrame, Zenon
    <2>3. Afresh'
      BY <1>0, <2>1, <2>2, MovesElsewhere, Zenon DEF Afresh
    <2>4. ASSUME pc' = "poll" PROVE During'
      <3>1. previous[1] = Sda /\ previous[2] = scl
        BY <2>1, <2>2, <2>4, MovesInPoll, Zenon
      <3>2. scl = 0
        BY <1>0, <2>1 DEF LinesInv
      <3>3. Before
        BY <1>0, <2>1, <2>2, <2>4 DEF InStep
      <3>4. previous[2] # 1
        BY <3>1, <3>2
      <3>5. Listening(slot)
        BY <3>3, <3>4, Zenon DEF Before
      <3>6. Listening(slot)'
        BY <2>1, <2>2, <3>5, SameSampling, Zenon
      <3>7. nack' => latch' = 1
        BY <1>0, <2>1, <2>2, WireFacts, Zenon
      <3> QED BY <2>2, <3>1, <3>4, <3>6, <3>7, Zenon DEF During
    <2> QED BY <2>1, <2>3, <2>4 DEF InStep
  <1>5. CASE HostFall
    <2>1. /\ phase = "high" /\ Drive(sda, 0)
          /\ UNCHANGED << script, nack >> /\ MasterMoves
          /\ \/ phase' = "closing" /\ slot' = slot
             \/ phase' = "low" /\ slot' = slot + 1
      BY <1>5 DEF HostFall
    <2>2. pc' = pc /\ latch' = latch /\ previous' = previous /\ eng' = eng
      BY <2>1, DriveFrame, Zenon
    <2>3. Afresh'
      BY <1>0, <2>1, <2>2, MovesElsewhere, Zenon DEF Afresh
    <2>4. ASSUME pc' = "poll"
          PROVE  Sampled(slot) /\ (nack => latch = 1) /\ previous[2] = 1
      <3>1. previous[2] = scl
        BY <2>1, <2>2, <2>4, MovesInPoll, Zenon
      <3>2. scl = 1
        BY <1>0, <2>1 DEF LinesInv
      <3>3. During
        BY <1>0, <2>1, <2>2, <2>4 DEF InStep
      <3> QED BY <3>1, <3>2, <3>3, Zenon DEF During
    <2>5. CASE phase' = "closing" /\ slot' = slot
      <3>1. Sampled(slot) => Sampled(slot)'
        BY <2>1, <2>2, <2>5, SameSampling, Zenon
      <3>2. pc' = "poll" => Ending'
        BY <2>1, <2>2, <2>4, <3>1 DEF Ending
      <3> QED BY <2>3, <2>5, <3>2 DEF InStep
    <2>6. CASE phase' = "low" /\ slot' = slot + 1
      <3>1. slot \in Nat
        <4>1. Playing
          BY <2>1 DEF Playing
        <4> QED BY <1>0, <4>1, SlotKinds, Zenon
      <3>2. PICK n \in Nat : n = slot
        BY <3>1, Zenon
      <3>3. (n + 1) - 1 = n /\ n + 1 > 0
        BY SMT
      <3>4. slot' = n + 1 /\ slot' - 1 = n /\ slot' > 0
        BY <2>6, <3>2, <3>3, Zenon
      <3>5. Sampled(n) => Sampled(slot - 1)'
        BY <2>1, <2>2, <3>4, SameSampling, Zenon
      <3>6. pc' = "poll" => Before'
        BY <2>2, <2>4, <3>2, <3>4, <3>5, Zenon DEF Before
      <3> QED BY <2>3, <2>6, <3>6 DEF InStep
    <2> QED BY <2>1, <2>5, <2>6, Zenon
  <1>6. CASE HostCloses
    <2>1. /\ phase = "closing" /\ phase' = "closeSet" /\ \E a : Drive(a, 0)
          /\ UNCHANGED << script, slot, nack >> /\ DataMoves
      BY <1>6, Zenon DEF HostCloses
    <2>2. pc' = pc /\ latch' = latch /\ previous' = previous /\ eng' = eng
      BY <2>1, DriveFrame, Zenon
    <2>3. Afresh'
      <3>1. pc # "resample"
        BY <1>0, <2>1, MovesElsewhere DEF DataMoves
      <3> QED BY <2>2, <3>1, Zenon DEF Afresh
    <2>4. ASSUME pc' = "poll" PROVE Ending'
      <3>1. Ending
        BY <1>0, <2>1, <2>2, <2>4 DEF InStep
      <3>2. (Sampled(slot) => Sampled(slot)') /\ (Closed => Closed')
        BY <2>1, <2>2, SameSampling, Zenon
      <3> QED BY <2>1, <2>2, <3>1, <3>2 DEF Ending
    <2> QED BY <2>1, <2>3, <2>4 DEF InStep
  <1>7. CASE HostCloseRise
    <2>1. /\ phase = "closeSet" /\ phase' = "closeHigh" /\ Drive(sda, 1)
          /\ UNCHANGED << script, slot, nack >> /\ MasterMoves
      BY <1>7, Zenon DEF HostCloseRise
    <2>2. pc' = pc /\ latch' = latch /\ previous' = previous /\ eng' = eng /\ Sda' = Sda
      BY <2>1, DriveFrame, Zenon
    <2>3. Afresh'
      BY <1>0, <2>1, <2>2, MovesElsewhere, Zenon DEF Afresh
    <2>4. ASSUME pc' = "poll" PROVE Ended'
      <3>1. previous[1] = Sda /\ previous[2] = scl
        BY <2>1, <2>2, <2>4, MovesInPoll, Zenon
      <3>2. scl = 0
        BY <1>0, <2>1 DEF LinesInv
      <3>3. Ending
        BY <1>0, <2>1, <2>2, <2>4 DEF InStep
      <3>4. previous[2] # 1
        BY <3>1, <3>2
      <3>5. Closed'
        BY <2>1, <2>2, <3>3, <3>4, SameSampling, Zenon DEF Ending
      <3> QED BY <2>2, <3>1, <3>4, <3>5, Zenon DEF Ended
    <2> QED BY <2>1, <2>3, <2>4 DEF InStep
  <1>8. CASE HostStops \/ Vanish \/ LineDrops \/ LineRises
    <2>1. phase' \in {"between", "free", "gone", "return"}
      BY <1>8 DEF HostStops, Vanish, LineDrops, LineRises
    <2> QED BY <2>1 DEF InStep, Afresh, Playing
  <1> QED BY <1>1, <1>2, <1>3, <1>4, <1>5, <1>6, <1>7, <1>8, Zenon DEF Host

\* The slave stays in step as its loop goes round.
LEMMA InStepSlave ==
    ASSUME IInv, Following, Slave
    PROVE  InStep' /\ Afresh'
  <1>0. /\ LinesInv /\ NackInv /\ InStep /\ Afresh /\ Resting /\ Deaf /\ EngineTypeOK
        /\ ScriptInv /\ eng \in Locals /\ Sda \in {0, 1} /\ BitsInv
    BY SlaveParts, Zenon DEF Following, IInv
  <1>1. /\ UNCHANGED << script, slot, nack, phase >> /\ sda' = sda /\ scl' = scl
    BY SlaveFrame, Zenon
  <1>2. Lines[1] = Sda /\ Lines[2] = scl
    BY <1>0, WireFacts, Zenon
  <1>3. CASE Start
    <2>1. pc = "idle" /\ interrupt /\ latch' = latch /\ eng' = eng
          /\ \/ Lines = << 0, 1 >> /\ pc' = "poll" /\ previous' = Lines
             \/ pc' = "idle"
      BY <1>3, Zenon DEF Start
    <2>2. Afresh'
      BY <2>1 DEF Afresh
    <2>3. CASE pc' = "idle"
      BY <2>2, <2>3 DEF InStep
    <2>4. CASE Lines = << 0, 1 >> /\ pc' = "poll" /\ previous' = Lines
      <3>1. scl = 1
        BY <2>4 DEF Lines
      <3>2. Playing' => phase' = "started"
        BY <1>0, <1>1, <2>1, <3>1 DEF Deaf, Playing
      <3>3. eng = FreshLocals /\ latch = 1
        BY <1>0, <2>1 DEF Resting
      <3>4. eng'.state = "address" /\ eng'.bits = 0 /\ latch' = 1 /\ 0 < 8
        BY <2>1, <3>3 DEF FreshLocals
      <3>5. Listening(0)'
        BY <3>4, Zenon DEF Listening
      <3>6. Begun'
        BY <2>4, <3>5, Zenon DEF Begun
      <3> QED BY <2>2, <3>2, <3>6 DEF InStep, Playing
    <2> QED BY <2>1, <2>3, <2>4, Zenon
  <1>4. CASE SeesRepeatedStart
    <2>1. /\ pc = "poll" /\ pc' = "resample" /\ scl = 1 /\ previous[1] = 1 /\ Sda = 0
          /\ latch' = 1
          /\ eng' = [eng EXCEPT !.state = "address", !.shift = 0, !.bits = 0,
                          !.read = FALSE, !.rx_ack = TRUE, !.ack_phase = 0,
                          !.active = NoDevice]
      BY <1>4, Zenon DEF SeesRepeatedStart, Sees, WasSda
    <2>2. eng'.state = "address" /\ eng'.bits = 0 /\ 0 < 8
      BY <1>0, <2>1 DEF Locals
    <2>3. Listening(0)'
      BY <2>1, <2>2, Zenon DEF Listening
    <2>4. Playing => phase = "started"
      <3>1. phase # "high" /\ phase # "closeHigh"
        BY <1>0, <2>1 DEF InStep, During, Ended
      <3>2. phase \notin {"low", "set", "closing", "closeSet"}
        BY <1>0, <2>1 DEF LinesInv
      <3> QED BY <3>1, <3>2 DEF Playing, IInv, BusTypeOK, Phases
    <2>5. Playing' => phase' = "started" /\ slot' = 0
      BY <1>0, <1>1, <2>4 DEF LinesInv, Playing
    <2>6. Afresh'
      BY <2>3, <2>5, Zenon DEF Afresh
    <2> QED BY <2>1, <2>6 DEF InStep
  <1>5. CASE Resample
    <2>1. /\ pc = "resample" /\ pc' = "poll" /\ previous' = Lines
          /\ latch' = latch /\ eng' = eng
      BY <1>5, Zenon DEF Resample
    <2>2. Afresh'
      BY <2>1 DEF Afresh
    <2>3. Playing => phase \in {"started", "low"} /\ slot = 0 /\ Listening(0)
      BY <1>0, <2>1 DEF Afresh
    <2>4. Playing => Listening(0)' /\ Listening(slot)'
      BY <1>1, <2>1, <2>3, SameSampling, Zenon
    <2>5. CASE phase = "started"
      <3>1. sda = 0 /\ scl = 1
        BY <1>0, <2>5, Zenon DEF LinesInv
      <3>2. Sda = 0
        BY <1>0, <3>1, WireFacts, Zenon
      <3>3. previous' = << 0, 1 >>
        BY <2>1, <3>1, <3>2 DEF Lines
      <3>4. Begun'
        BY <2>4, <2>5, <3>3 DEF Begun, Playing
      <3> QED BY <1>1, <2>2, <2>5, <3>4 DEF InStep
    <2>6. CASE phase = "low"
      <3>1. scl = 0
        BY <1>0, <2>6 DEF LinesInv
      <3>2. previous'[2] # 1
        BY <1>2, <2>1, <3>1
      <3>3. Listening(slot)'
        BY <2>4, <2>6 DEF Playing
      <3>4. Before'
        BY <3>2, <3>3, Zenon DEF Before
      <3> QED BY <1>1, <2>2, <2>6, <3>4 DEF InStep
    <2>7. CASE ~Playing
      BY <1>1, <2>2, <2>7 DEF InStep, Playing
    <2> QED BY <2>3, <2>5, <2>6, <2>7
  <1>6. CASE SeesStop \/ SlaveGivesUp \/ Finish
    <2>1. pc' \in {"finish", "idle"}
      BY <1>6, Zenon DEF SeesStop, SlaveGivesUp, Timeout, Finish
    <2> QED BY <2>1 DEF InStep, Afresh
  <1>7. CASE SeesRise
    <2>1. /\ pc = "poll" /\ previous[2] = 0 /\ scl = 1 /\ previous[1] = Sda
          /\ Rise(Sda) /\ previous' = Lines /\ latch' = latch /\ pc' = pc
      BY <1>7, Zenon DEF SeesRise, Sees, WasScl, WasSda
    <2>2. Afresh'
      BY <2>1 DEF Afresh
    <2>3. Sda' = Sda
      BY <1>1, <2>1, Zenon DEF Sda
    <2>4. previous'[1] = Sda' /\ previous'[2] = 1 /\ previous[2] # 1
      BY <1>2, <2>1, <2>3
    <2>5. CASE phase = "high"
      <3>1. During
        BY <1>0, <2>1, <2>5 DEF InStep
      <3>2. Listening(slot) /\ (nack => latch = 1)
        BY <2>4, <3>1, Zenon DEF During
      <3>3. Sampled(slot)'
        BY <1>0, <1>1, <2>1, <2>5, <3>2, RiseInStep, Zenon
      <3>4. nack' => latch' = 1
        BY <1>1, <2>1, <3>2
      <3>5. During'
        BY <2>4, <3>3, <3>4, Zenon DEF During
      <3> QED BY <1>1, <2>2, <2>5, <3>5 DEF InStep
    <2>6. CASE phase = "closeHigh"
      <3>1. Closed
        BY <1>0, <2>1, <2>4, <2>6 DEF InStep, Ended
      <3>2. Over'
        BY <2>1, <3>1, LastRise, Zenon
      <3>3. Ended'
        BY <2>4, <3>2, Zenon DEF Ended
      <3> QED BY <1>1, <2>2, <2>6, <3>3 DEF InStep
    <2>7. CASE phase = "started"
      <3>1. Begun
        BY <1>0, <2>1, <2>7 DEF InStep
      <3>2. previous[2] = 1
        BY <3>1 DEF Begun
      <3> QED BY <2>4, <3>2, Zenon
    <2>8. phase \notin {"low", "set", "closing", "closeSet"}
      BY <1>0, <2>1 DEF LinesInv
    <2> QED BY <1>1, <2>2, <2>5, <2>6, <2>7, <2>8 DEF InStep
  <1>8. CASE SeesFall
    <2>1. /\ pc = "poll" /\ previous[2] = 1 /\ scl = 0 /\ Fall /\ previous' = Lines
          /\ pc' = pc
      BY <1>8, Zenon DEF SeesFall, Sees, WasScl
    <2>2. Afresh'
      BY <2>1 DEF Afresh
    <2>3. previous'[2] # 1
      BY <1>2, <2>1
    <2>4. CASE phase \in {"low", "set"}
      <3>1. Before
        BY <1>0, <2>1, <2>4 DEF InStep
      <3>2. CASE slot > 0
        <4>1. Sampled(slot - 1)
          BY <2>1, <3>1, <3>2, Zenon DEF Before
        <4>2. Listening(slot)'
          BY <1>1, <2>1, <2>4, <3>2, <4>1, FallInStep, Zenon
        <4>3. Before'
          BY <2>3, <4>2, Zenon DEF Before
        <4> QED BY <1>1, <2>2, <2>4, <4>3 DEF InStep
      <3>3. CASE ~(slot > 0)
        <4>1. Listening(slot)
          BY <3>1, <3>3, Zenon DEF Before
        <4>2. slot = 0
          <5>1. Playing
            BY <2>4 DEF Playing
          <5>2. slot \in Nat
            BY <1>0, <5>1, SlotKinds, Zenon
          <5> QED BY <3>3, <5>2, SMT
        <4>3. eng.state = "address"
          <5>1. ~(0 >= 9) /\ 0 # 8
            BY SMT
          <5> QED BY <4>1, <4>2, <5>1, Zenon DEF Listening
        <4>4. eng' = eng /\ latch' = latch
          BY <1>0, <2>1, <4>3, FallFields, Zenon
        <4>5. Listening(slot)'
          BY <1>1, <4>1, <4>4, SameSampling, Zenon
        <4>6. Before'
          BY <2>3, <4>5, Zenon DEF Before
        <4> QED BY <1>1, <2>2, <2>4, <4>6 DEF InStep
      <3> QED BY <3>2, <3>3
    <2>5. CASE phase \in {"closing", "closeSet"}
      <3>1. Ending
        BY <1>0, <2>1, <2>5 DEF InStep
      <3>2. Closed'
        BY <1>0, <2>1, <2>5, <3>1, LastFall, Zenon DEF Ending
      <3>3. Ending'
        BY <2>3, <3>2, Zenon DEF Ending, Closed, Over
      <3> QED BY <1>1, <2>2, <2>5, <3>3 DEF InStep
    <2>6. phase \notin {"started", "high", "closeHigh"}
      BY <1>0, <2>1 DEF LinesInv
    <2> QED BY <1>1, <2>2, <2>4, <2>5, <2>6 DEF InStep
  <1>9. CASE SeesData
    <2>1. /\ pc = "poll" /\ previous[2] = 0 /\ scl = 0 /\ previous' = Lines
          /\ pc' = pc /\ eng' = eng /\ latch' = latch
      BY <1>9, Zenon DEF SeesData, Sees, WasScl
    <2>2. Afresh'
      BY <2>1 DEF Afresh
    <2>3. previous'[2] # 1 /\ previous[2] # 1
      BY <1>2, <2>1
    <2>4. CASE phase \in {"low", "set"}
      <3>1. Listening(slot)
        BY <1>0, <2>1, <2>3, <2>4 DEF InStep, Before
      <3>2. Listening(slot)'
        BY <1>1, <2>1, <3>1, SameSampling, Zenon
      <3>3. Before'
        BY <2>3, <3>2, Zenon DEF Before
      <3> QED BY <1>1, <2>2, <2>4, <3>3 DEF InStep
    <2>5. CASE phase \in {"closing", "closeSet"}
      <3>1. Closed /\ (nack => latch = 1)
        BY <1>0, <2>1, <2>3, <2>5 DEF InStep, Ending
      <3>2. Closed'
        BY <1>1, <2>1, <3>1, SameSampling, Zenon
      <3>3. nack' => latch' = 1
        BY <1>1, <2>1, <3>1
      <3>4. Ending'
        BY <2>3, <3>2, <3>3, Zenon DEF Ending
      <3> QED BY <1>1, <2>2, <2>5, <3>4 DEF InStep
    <2>6. phase \notin {"started", "high", "closeHigh"}
      BY <1>0, <2>1 DEF LinesInv
    <2> QED BY <1>1, <2>2, <2>4, <2>5, <2>6 DEF InStep
  <1> QED BY <1>3, <1>4, <1>5, <1>6, <1>7, <1>8, <1>9, Zenon DEF Slave, Iteration

\* The slave lets go of the line outside its loop, and forgets the transfer
\* outside its handler.
LEMMA RestingKept ==
    ASSUME IInv, Following, Act
    PROVE  Resting'
  <1>0. Resting
    BY Zenon DEF Following
  <1>1. CASE Host
    <2>1. UNCHANGED << latch, pc, eng >>
      BY <1>1, Zenon DEF Host, HostStarts, HostGoesOn, HostClocksStart, HostData, HostRise,
         HostFall, HostCloses, HostCloseRise, HostRestarts, HostStops, Vanish, LineDrops,
         LineRises, Drive, SlaveStill, engineVars
    <2> QED BY <1>0, <2>1 DEF Resting
  <1>2. CASE Start
    <2>1. latch' = latch /\ eng' = eng /\ pc = "idle"
      BY <1>2, Zenon DEF Start
    <2> QED BY <1>0, <2>1 DEF Resting
  <1>3. CASE SeesRepeatedStart \/ SeesStop \/ SlaveGivesUp
    <2>1. latch' = 1 /\ pc' \in {"resample", "finish"}
      BY <1>3, Zenon DEF SeesRepeatedStart, SeesStop, SlaveGivesUp, Timeout
    <2> QED BY <2>1 DEF Resting
  <1>4. CASE Resample \/ SeesRise \/ SeesFall \/ SeesData
    <2>1. pc' = "poll"
      BY <1>4 DEF Resample, SeesRise, SeesFall, SeesData, Sees
    <2> QED BY <2>1 DEF Resting
  <1>5. CASE Finish
    <2>1. latch' = 1 /\ eng' = FreshLocals
      BY <1>5, Zenon DEF Finish
    <2> QED BY <2>1 DEF Resting, FreshLocals
  <1> QED BY <1>1, <1>2, <1>3, <1>4, <1>5, Zenon DEF Act, Slave, Iteration

\* An edge that nobody waits for is no START.
LEMMA DeafKept ==
    ASSUME EarlyAlone, IInv, Following, Act
    PROVE  Deaf'
  <1>0. /\ LinesInv /\ InStep /\ Resting /\ Deaf /\ EngineTypeOK /\ pc \in Places
        /\ faults \in Nat /\ MaxFaults \in Nat
    <2>1. faults \in Nat
      BY ConstantTypes DEF IInv, BusTypeOK
    <2> QED BY <2>1, SlaveParts, ConstantTypes, Zenon DEF Following, IInv
  <1>1. CASE Slave
    <2>0. /\ UNCHANGED << script, slot, nack, phase >> /\ sda' = sda /\ scl' = scl
      BY <1>1, SlaveFrame, Zenon
    <2>1. CASE Start /\ Unnoticed
      <3>0. faults' = faults /\ pc = "idle" /\ interrupt
        BY <2>1, Zenon DEF Start, Unnoticed
      <3>1. CASE Lines = << 0, 1 >>
        <4>1. pc' = "poll"
          BY <2>1, <3>1, Zenon DEF Start
        <4> QED BY <4>1 DEF Deaf
      <3>2. CASE Lines # << 0, 1 >>
        <4>1. interrupt' = FALSE
          BY <2>1, <3>2, Zenon DEF Start
        <4>2. phase # "started"
          <5>1. phase = "started" => Sda = 0 /\ scl = 1
            BY <1>0, WireFacts, Zenon DEF LinesInv
          <5> QED BY <3>2, <5>1 DEF Lines
        <4>3. MayBeEarly /\ Playing => faults >= 1
          BY <1>0, <3>0, <4>2 DEF Deaf
        <4> QED BY <2>0, <3>0, <4>1, <4>3 DEF Deaf, Playing
      <3> QED BY <3>1, <3>2
    <2>2. CASE SeesRepeatedStart \/ Resample \/ SeesRise \/ SeesFall \/ SeesData
      <3>1. pc' \in {"poll", "resample"}
        BY <2>2 DEF SeesRepeatedStart, Resample, SeesRise, SeesFall, SeesData, Sees
      <3> QED BY <3>1 DEF Deaf
    <2>3. CASE SeesStop
      <3>1. /\ pc = "poll" /\ pc' = "finish" /\ scl = 1 /\ previous[1] = 0 /\ Sda = 1
        BY <2>3, Zenon DEF SeesStop, Sees, WasSda
      <3>2. phase # "high" /\ phase # "closeHigh"
        BY <1>0, <3>1 DEF InStep, During, Ended
      <3>3. phase \notin {"low", "set", "closing", "closeSet"}
        BY <1>0, <3>1 DEF LinesInv
      <3>4. phase # "started"
        <4>1. phase = "started" => Sda = 0
          BY <1>0, WireFacts, Zenon DEF LinesInv
        <4> QED BY <3>1, <4>1
      <3>5. ~Playing
        BY <3>2, <3>3, <3>4 DEF Playing, IInv, BusTypeOK, Phases
      <3> QED BY <2>0, <3>5 DEF Deaf, Playing
    <2>4. CASE SlaveGivesUp
      <3>1. pc' = "finish" /\ (Playing => faults' = faults + 1)
        BY <2>4, Zenon DEF SlaveGivesUp, Timeout, LinesStill
      <3>2. Playing => faults' >= 1
        BY <1>0, <3>1
      <3> QED BY <2>0, <3>1, <3>2 DEF Deaf, Playing
    <2>5. CASE Finish /\ Unnoticed
      <3>1. pc = "finish" /\ interrupt' = FALSE /\ faults' = faults
        BY <2>5, Zenon DEF Finish, Unnoticed
      <3>2. MayBeEarly /\ Playing => faults >= 1
        BY <1>0, <3>1 DEF Deaf
      <3> QED BY <2>0, <3>1, <3>2 DEF Deaf, Playing
    <2> QED BY <1>1, <2>1, <2>2, <2>3, <2>4, <2>5, Zenon DEF Slave, Iteration
  <1>2. CASE HostStarts \/ HostGoesOn
    <2>1. /\ phase \in {"free", "between"} /\ phase' = "started" /\ MasterMoves
          /\ Drive(0, 1) /\ Lines = << 1, 1 >>
      BY <1>2 DEF HostStarts, HostGoesOn
    <2>2. /\ sda' = 0 /\ latch' = latch /\ pc' = pc /\ LatchInterrupt
      BY <2>1, DriveFrame, Zenon
    <2>3. Sda' = 0
      BY <1>0, <2>2, SMT DEF Sda, EngineTypeOK
    <2>4. interrupt'
      BY <2>1, <2>2, <2>3 DEF LatchInterrupt, Lines
    <2>5. pc = "finish" => faults' >= 1
      BY <1>0, <2>1 DEF MasterMoves, CaughtUp
    <2> QED BY <2>1, <2>2, <2>4, <2>5 DEF Deaf
  <1>3. CASE HostClocksStart \/ HostData \/ HostRise \/ HostFall \/ HostCloses
             \/ HostCloseRise \/ HostRestarts
    <2>1. /\ Playing /\ pc' = pc
          /\ MasterMoves \/ pc \in {"poll", "resample"}
      BY <1>3 DEF HostClocksStart, HostData, HostRise, HostFall, HostCloses, HostCloseRise,
         HostRestarts, Playing, Drive, SlaveStill, DataMoves
    <2>2. CASE pc \in {"poll", "resample"}
      BY <2>1, <2>2 DEF Deaf
    <2>3. CASE pc \in {"idle", "finish"}
      <3>1. \/ pc = "idle" /\ ~interrupt /\ faults' = faults
            \/ MayBeEarly /\ faults < MaxFaults /\ faults' = faults + 1
        BY <2>1, <2>3 DEF MasterMoves, CaughtUp
      <3>2. MayBeEarly => faults' >= 1
        BY <1>0, <2>1, <2>3, <3>1 DEF Deaf
      <3>3. phase' = "started" \/ scl' = 0 \/ (pc = "idle" => ~interrupt')
        <4>1. CASE HostRestarts
          BY <4>1 DEF HostRestarts
        <4>2. CASE HostClocksStart \/ HostData \/ HostFall \/ HostCloses
          BY <4>2, Zenon DEF HostClocksStart, HostData, HostFall, HostCloses, Drive
        <4>3. CASE HostRise \/ HostCloseRise
          <5>1. Drive(sda, 1) /\ phase \in {"set", "closeSet"}
            BY <4>3 DEF HostRise, HostCloseRise
          <5>2. Sda' = Sda /\ LatchInterrupt
            BY <5>1, DriveFrame, Zenon
          <5>3. interrupt' = interrupt
            BY <1>0, <5>2 DEF LatchInterrupt, EngineTypeOK
          <5>4. ASSUME pc = "idle", interrupt PROVE FALSE
            <6>1. MayBeEarly /\ faults < MaxFaults
              BY <3>1, <5>4
            <6>2. faults = 0
              BY <1>0, <6>1, SMT DEF EarlyAlone
            <6>3. ~(faults >= 1)
              BY <6>2, SMT
            <6>4. phase # "started"
              BY <5>1
            <6> QED BY <1>0, <2>1, <2>3, <6>1, <6>3, <6>4, Zenon DEF Deaf
          <5> QED BY <5>3, <5>4
        <4> QED BY <1>3, <4>1, <4>2, <4>3, Zenon
      <3> QED BY <2>1, <2>3, <3>2, <3>3 DEF Deaf
    <2> QED BY <1>0, <2>2, <2>3 DEF Places
  <1>4. CASE HostStops \/ Vanish \/ LineDrops \/ LineRises
    <2>1. phase' \in {"between", "free", "gone", "return"}
      BY <1>4 DEF HostStops, Vanish, LineDrops, LineRises
    <2> QED BY <2>1 DEF Deaf, Playing
  <1> QED BY <1>1, <1>2, <1>3, <1>4, Zenon DEF Act, Host

\* Nothing happens, and the slave stays in step.
LEMMA FollowingStutters ==
    ASSUME Following, UNCHANGED busVars
    PROVE  Following'
  <1>1. /\ script' = script /\ phase' = phase /\ slot' = slot /\ nack' = nack
        /\ faults' = faults /\ sda' = sda /\ scl' = scl /\ latch' = latch
        /\ interrupt' = interrupt /\ pc' = pc /\ eng' = eng /\ previous' = previous
    BY Zenon DEF busVars, hostVars, engineVars
  <1>2. /\ MasterBit(slot)' = MasterBit(slot) /\ Slots' = Slots /\ (Restarts' <=> Restarts)
        /\ (IsAck(slot)' <=> IsAck(slot)) /\ (IsRead(slot)' <=> IsRead(slot))
    BY <1>1, SameTransfer, Zenon
  <1>3. LinesInv' /\ NackInv'
    BY <1>1, <1>2 DEF Following, LinesInv, NackInv
  <1>4. /\ Listening(slot) => Listening(slot)'
        /\ Sampled(slot) => Sampled(slot)'
        /\ Sampled(slot - 1) => Sampled(slot - 1)'
        /\ Listening(0) => Listening(0)'
        /\ Over => Over'
        /\ Closed => Closed'
    BY <1>1, <1>2 DEF Listening, Sampled, Over, Closed, Reading, Transfer
  <1>5. Sda' = Sda
    BY <1>1, Zenon DEF Sda
  <1>6. /\ Begun => Begun'
        /\ Before => Before'
        /\ During => During'
        /\ Ending => Ending'
        /\ Ended => Ended'
    BY <1>1, <1>4, <1>5 DEF Begun, Before, During, Ending, Ended
  <1>7. InStep' /\ Afresh' /\ Resting' /\ Deaf'
    BY <1>1, <1>4, <1>6 DEF Following, InStep, Afresh, Resting, Deaf, Playing, FreshLocals
  <1> QED BY <1>3, <1>7, Zenon DEF Following

\* At first nobody is talking.
LEMMA FollowingInit == Init => Following
  <1> SUFFICES ASSUME Init PROVE Following
    OBVIOUS
  <1>1. /\ phase = "free" /\ nack = FALSE /\ pc = "idle" /\ latch = 1 /\ eng = FreshLocals
    BY Zenon DEF Init, EngineInit
  <1>2. ~Playing
    BY <1>1 DEF Playing
  <1>3. LinesInv /\ NackInv /\ InStep
    BY <1>1 DEF LinesInv, NackInv, InStep
  <1>4. Afresh /\ Resting /\ Deaf
    BY <1>1, <1>2 DEF Afresh, Resting, Deaf
  <1> QED BY <1>3, <1>4, Zenon DEF Following

\* A slave in step pulls the line only in its slots.
LEMMA FollowingDrives ==
    ASSUME IInv, Following
    PROVE  DrivesOnlyItsSlots
  <1> SUFFICES ASSUME CaughtUp, latch = 0
               PROVE  /\ pc = "poll"
                      /\ Playing => /\ phase \in {"low", "set", "high"}
                                    /\ IsRead(slot) # IsAck(slot)
    BY Zenon DEF DrivesOnlyItsSlots
  <1>0. LinesInv /\ InStep /\ Resting /\ EngineTypeOK /\ ScriptInv
    BY SlaveParts, Zenon DEF Following, IInv
  <1>1. pc = "poll"
    BY <1>0 DEF Resting
  <1>2. Lines = previous
    BY <1>1 DEF CaughtUp
  <1>3. previous[1] = Sda /\ previous[2] = scl /\ Sda = 0
    BY <1>0, <1>2 DEF Lines, Sda, EngineTypeOK
  <1> SUFFICES ASSUME Playing
               PROVE  /\ phase \in {"low", "set", "high"}
                      /\ IsRead(slot) # IsAck(slot)
    BY <1>1
  <1>4. /\ slot \in Nat
        /\ slot < 9 => ~IsRead(slot)
        /\ slot >= 9 /\ Reading => IsRead(slot)
        /\ ~Reading => ~IsRead(slot)
    BY <1>0, SlotKinds, Zenon
  <1>5. IsAck(slot) <=> slot % 9 = 8
    BY Zenon DEF IsAck
  <1>6. \A n : Listening(n) =>
            \/ n = 8
            \/ n >= 9 /\ ~Reading /\ n % 9 = 8
            \/ n >= 9 /\ Reading /\ n % 9 < 8
    BY SMT DEF Listening
  <1>7. \A n : Sampled(n) =>
            \/ n = 8
            \/ n >= 9 /\ ~Reading /\ n % 9 = 8
            \/ n >= 9 /\ Reading /\ (n % 9 < 7 \/ n % 9 = 7)
    BY SMT DEF Sampled
  <1>8. Listening(slot) \/ Sampled(slot) => IsRead(slot) # IsAck(slot)
    <2>1. /\ slot = 8 => slot < 9 /\ slot % 9 = 8
          /\ slot % 9 < 8 \/ slot % 9 < 7 \/ slot % 9 = 7 => slot % 9 # 8
      BY <1>4, SMT
    <2>2. CASE slot = 8 \/ (slot >= 9 /\ ~Reading /\ slot % 9 = 8)
      <3>1. ~IsRead(slot) /\ IsAck(slot)
        BY <1>4, <1>5, <2>1, <2>2, Zenon
      <3> QED BY <3>1
    <2>3. CASE slot >= 9 /\ Reading /\ slot % 9 # 8
      <3>1. IsRead(slot) /\ ~IsAck(slot)
        BY <1>4, <1>5, <2>3, Zenon
      <3> QED BY <3>1
    <2> QED BY <1>6, <1>7, <2>1, <2>2, <2>3, Zenon
  <1>9. CASE phase \in {"low", "set"}
    <2>1. previous[2] # 1
      BY <1>0, <1>3, <1>9 DEF LinesInv
    <2>2. Listening(slot)
      BY <1>0, <1>1, <1>9, <2>1 DEF InStep, Before
    <2> QED BY <1>8, <1>9, <2>2
  <1>10. CASE phase = "high"
    <2>1. previous[2] = 1
      BY <1>0, <1>3, <1>10 DEF LinesInv
    <2>2. Sampled(slot)
      BY <1>0, <1>1, <1>10, <2>1 DEF InStep, During
    <2> QED BY <1>8, <1>10, <2>2
  <1>11. phase # "started"
    <2>1. ASSUME phase = "started" PROVE FALSE
      <3>1. Begun
        BY <1>0, <1>1, <2>1 DEF InStep
      <3>2. Listening(0)
        BY <3>1 DEF Begun
      <3>3. ~(0 = 8) /\ ~(0 >= 9)
        BY SMT
      <3> QED BY <1>6, <3>2, <3>3, Zenon
    <2> QED BY <2>1
  <1>12. phase \notin {"closing", "closeSet"}
    <2>1. ASSUME phase \in {"closing", "closeSet"} PROVE FALSE
      <3>1. previous[2] # 1
        BY <1>0, <1>3, <2>1 DEF LinesInv
      <3>2. Closed
        BY <1>0, <1>1, <2>1, <3>1 DEF InStep, Ending
      <3> QED BY <3>2 DEF Closed, Over
    <2> QED BY <2>1
  <1>13. phase # "closeHigh"
    <2>1. ASSUME phase = "closeHigh" PROVE FALSE
      <3>1. previous[2] = 1
        BY <1>0, <1>3, <2>1 DEF LinesInv
      <3>2. Over
        BY <1>0, <1>1, <2>1, <3>1 DEF InStep, Ended
      <3> QED BY <3>2 DEF Over
    <2> QED BY <2>1
  <1> QED BY <1>9, <1>10, <1>11, <1>12, <1>13 DEF Playing, IInv, BusTypeOK, Phases

\* The slave follows every transfer it answers, whatever the scripts and however
\* many: with any number of silences and disappearances if no edge comes before
\* the handler is ready for it, and with a single fault if one may.
THEOREM InStepAlways ==
    ASSUME EarlyAlone
    PROVE  Spec => [](IInv /\ Following)
  <1>1. Init => IInv /\ Following
    BY InitTyped, FollowingInit, Zenon
  <1>2. IInv /\ Following /\ [Act]_busVars => (IInv /\ Following)'
    <2> SUFFICES ASSUME IInv, Following, [Act]_busVars PROVE IInv' /\ Following'
      OBVIOUS
    <2>1. IInv'
      BY NextTyped, Zenon
    <2>2. CASE Act
      <3>1. InStep' /\ Afresh'
        BY <2>2, InStepHost, InStepSlave, Zenon DEF Act
      <3> QED BY <2>1, <2>2, <3>1, LinesKept, NackKept, RestingKept, DeafKept, Zenon
              DEF Following
    <2>3. CASE UNCHANGED busVars
      BY <2>1, <2>3, FollowingStutters, Zenon
    <2> QED BY <2>2, <2>3
  <1> QED BY <1>1, <1>2, Waiting, PTL DEF Spec

\* The slave pulls SDA only in the acknowledge slots of what it is sent and in
\* the data slots of what it is asked for, and never outside its handler: it
\* forges no bit, no START and no STOP (run_transaction of soft_i2c.c).  Not
\* after an early edge and a silence, of which EarlyAlone allows one: together
\* they can make it acknowledge in a slot that is not its own.
THEOREM PullsOnlyItsSlots ==
    ASSUME EarlyAlone
    PROVE  Spec => []DrivesOnlyItsSlots
  <1>1. IInv /\ Following => DrivesOnlyItsSlots
    BY FollowingDrives, Zenon
  <1> QED BY <1>1, InStepAlways, PTL

-----------------------------------------------------------------------------
=============================================================================
