---------------------------- MODULE DdcHostProofs ----------------------------
(***************************************************************************)
(* What the master may rely on: a message whose every byte was             *)
(* acknowledged is carried out, and every bit that it reads is the one it  *)
(* ought to see, whatever was cut short, lost or refused before.           *)
(*                                                                         *)
(* The device carries a message out when the transfer ends, which it may   *)
(* see long after the master: between the last acknowledge bit and that    *)
(* end the message is owed (Owed), from then on it is settled (Settled),   *)
(* and Settling says at every point of the bus which of the two holds.     *)
(* For the reads the slave's locals, the two devices and the master's slot *)
(* have to count the same bytes (Moved, Serving), and the master's idea of *)
(* the EDID pointer has to survive a transfer that is cut (Pointing).      *)
(***************************************************************************)
EXTENDS DdcDeviceProofs

\* The master is clocking bytes.
InBytes == phase \in {"low", "set", "high"}

\* The clock of the transfer's last acknowledge bit is up: it is decided what
\* the master may rely on.
Concluded == phase = "high" /\ (nack \/ slot = Slots - 1)

\* The message that the master will have in "last" when the clock falls.
Known == IF Concluded THEN LastKnown ELSE last

\* The reply to a message.
ReplyTo(m) ==
    IF m # Nothing /\ m.op = "get" /\ m.flaw = "none" /\ m.code = DDCCI_VCP_BRIGHTNESS
    THEN VcpResponse(DDCCI_VCP_BRIGHTNESS, DDCCI_BRIGHTNESS_MAX, s_brightness)
    ELSE IF m # Nothing /\ m.op = "get" /\ m.flaw = "none" /\ m.code = DDCCI_VCP_POWER_MODE
    THEN VcpResponse(DDCCI_VCP_POWER_MODE, DDCCI_POWER_OFF_WRITE, s_power_mode)
    ELSE NullResponse

\* A device without a reply will make up the null response.
Answered(m) == IF s_response_ready THEN s_tx = ReplyTo(m) ELSE ReplyTo(m) = NullResponse

Stored(m) ==
    m # Nothing /\ m.op = "set" /\ m.flaw = "none" =>
        /\ m.code = DDCCI_VCP_BRIGHTNESS =>
               s_brightness = ClampPercent(m.value) /\ s_brightness_update_pending
        /\ m.code = DDCCI_VCP_POWER_MODE /\ m.value % 256 \in PowerModes =>
               s_power_mode = m.value % 256 /\ s_power_mode_update_pending

\* The device has carried the message out, and nothing since.
Settled(m) == m = Unknown \/ (Stored(m) /\ Answered(m))

\* It will have, once the transfer that it is in has ended.
Owed(m) ==
    \/ m = Unknown
    \/ eng.read /\ m = Nothing
    \/ ~eng.read /\ s_rx = << >> /\ Settled(m)
    \/ ~eng.read /\ m \in Messages /\ s_rx = Packet(m) /\ s_rx # << >>

InDdc  == pc = "poll" /\ eng.active = DDCCI_I2C_ADDRESS
Due(m) == IF InDdc THEN Owed(m) ELSE Settled(m)

\* The DDC/CI device is talked to, and nothing is decided.
DdcOpen == InBytes /\ Transfer.to = DDCCI_I2C_ADDRESS /\ ~Concluded

\* The promise that the master relies on, open or closed.
Settling ==
    IF DdcOpen THEN (pc \in {"idle", "finish"} /\ cut) \/ Settled(Known)
               ELSE Due(Known)

\* Knowledge survives only a bus that is left in order.
Orderly ==
    /\ last \in Messages \cup {Nothing, Unknown}
    /\ phase \in {"gone", "return"} => last = Unknown /\ at = Unknown
    /\ phase \in {"free", "between"} /\ (last # Unknown \/ at # Unknown) =>
           /\ sda = 1 /\ scl = 1 /\ pc # "resample"
           /\ pc = "poll" => previous = << 0, 1 >> /\ latch = 1

\* Somebody has acknowledged the address.
Taken == InBytes /\ (slot >= 9 \/ (slot = 8 /\ phase = "high" /\ ~nack))

\* He is one of the two devices, and stays until the slave gives up.
Heard ==
    /\ Taken => Transfer.to \in {DDCCI_I2C_ADDRESS, EDID_EEPROM_I2C_ADDRESS}
    /\ Taken /\ ~cut => pc = "poll"
    /\ InBytes /\ pc = "poll" /\ (Reading \/ Transfer.to = EDID_EEPROM_I2C_ADDRESS) =>
           eng.state # "ignore"

\* The slave sends the byte that the device holds, bit by bit.
Output ==
    pc = "poll" =>
        /\ eng.state = "tx" =>
              IF previous[2] = 0 THEN latch = Bit(eng.tx_byte, 7 - eng.tx_bits)
              ELSE eng.tx_bits > 0 /\ latch = Bit(eng.tx_byte, 8 - eng.tx_bits)
        /\ eng.state = "tx_master_ack" /\ eng.ack_phase = 0 =>
              previous[2] = 1 /\ latch = Bit(eng.tx_byte, 0)
        /\ eng.state = "tx" \/ (eng.state = "tx_master_ack" /\ eng.ack_phase # 2) =>
              eng.tx_byte = read_byte(eng.active)
        /\ eng.state \in {"tx", "tx_master_ack"} => eng.read
        /\ eng.active = DDCCI_I2C_ADDRESS /\ eng.read => s_response_ready
        /\ eng.state = "rx_ack" /\ eng.active = EDID_EEPROM_I2C_ADDRESS => eng.rx_ack

\* The data bytes that a transfer has moved, by the locals and the slot.
MovedBy(e, n) ==
    CASE e.state = "address_ack"     -> 0
      [] e.state \in {"rx", "tx"}    -> ByteOf(n) - 2
      [] e.state = "rx_ack"          -> ByteOf(n) - (IF n % 9 = 0 THEN 2 ELSE 1)
      [] e.state = "tx_master_ack"   ->
             ByteOf(n) - (IF e.ack_phase = 2 /\ n % 9 # 0 THEN 1 ELSE 2)

Moved == MovedBy(eng, slot)

Least(a, b) == IF a < b THEN a ELSE b

\* The devices have sent or taken k bytes.
Counts(k) ==
    /\ eng.active = DDCCI_I2C_ADDRESS /\ eng.read => s_tx_index = Least(k, Len(s_tx))
    /\ eng.active = EDID_EEPROM_I2C_ADDRESS /\ eng.read =>
           at = Unknown \/ s_pointer = (at + k) % 256
    /\ eng.active = EDID_EEPROM_I2C_ADDRESS /\ ~eng.read =>
           IF k = 0 THEN s_expect_pointer
           ELSE ~s_expect_pointer /\ s_pointer = (Transfer.bytes[2] + k - 1) % 256

\* Where the devices are in what they send and take.
Serving ==
    InBytes /\ pc = "poll" /\ eng.state \notin {"address", "ignore"} =>
        /\ Counts(Moved)
        /\ eng.state = "rx" =>
               eng.shift = High(Transfer.bytes[ByteOf(slot)], eng.bits)

\* The EDID pointer is where the master knows it, but while it is being moved.
Pointing ==
    \/ InBytes /\ Transfer.to = EDID_EEPROM_I2C_ADDRESS /\ slot >= 9
    \/ at = Unknown
    \/ s_pointer = at

RInv == Settling /\ Orderly /\ Heard /\ Output /\ Serving /\ Pointing

-----------------------------------------------------------------------------
(* The device *)

\* A message that is not touched stays as it is.
LEMMA SettledFrame ==
    ASSUME NEW m, Settled(m), Known' = m, UNCHANGED << mailboxVars, s_tx, s_response_ready >>
    PROVE  Settled(Known)'
  BY DEF Settled, Stored, Answered, ReplyTo, mailboxVars, VcpResponse

\* ... owed or settled.
LEMMA DueFrame ==
    ASSUME NEW m, Due(m), Known' = m, UNCHANGED << mailboxVars, s_rx, s_tx, s_response_ready >>,
           InDdc' <=> InDdc, eng'.read = eng.read
    PROVE  Due(Known)'
  <1>1. Settled(m) => Settled(Known)'
    BY SettledFrame
  <1>2. CASE InDdc
    BY <1>1, <1>2 DEF Due, Owed
  <1>3. CASE ~InDdc
    BY <1>1, <1>3 DEF Due
  <1> QED BY <1>2, <1>3

\* A message with nothing wrong makes a valid packet, and no other message does.
LEMMA ValidPackets ==
    ASSUME NEW m \in Messages, PacketTypeOK, s_rx = Packet(m)
    PROVE  request_packet_valid <=> m.flaw = "none"
  <1>0. s_rx \in Seq(Byte) /\ Len(s_rx) <= DDCCI_RX_MAX
    BY Zenon DEF PacketTypeOK
  <1>1. CASE m.flaw = "none"
    <2>1. PICK n \in {2, 4} : n = Len(Payload(m))
      BY PacketShape, Zenon
    <2>2. Payload(m) \in Seq(Byte) /\ n <= 127
      BY PayloadTyped, SMT
    <2>3. s_rx = Framed(Payload(m))
      BY <1>1, PacketShape, Zenon
    <2>4. /\ Len(s_rx) = n + 3 /\ s_rx[1] = DDCCI_HOST_SOURCE /\ s_rx[2] = 128 + n
          /\ Last(s_rx) = xor_checksum(DDCCI_REQUEST_CHECKSUM_SEED, Front(s_rx))
      BY <2>1, <2>2, <2>3, FramedShape, Zenon
    <2>5. /\ n + 3 >= 4 /\ 128 + n >= 128 /\ n + 3 = ((128 + n) % 128) + 3
      BY SMT
    <2> QED BY <1>1, <2>4, <2>5, Zenon DEF request_packet_valid, ChecksumMatches
  <1>2. CASE m.flaw # "none"
    <2>1. Len(s_rx) <= Len(Packet(m)) /\ \A i \in 1..Len(s_rx) - 1 : s_rx[i] = Packet(m)[i]
      BY <1>0
    <2>2. s_rx[Len(s_rx)] \div 2 = Packet(m)[Len(s_rx)] \div 2
      OBVIOUS
    <2>3. Valid(s_rx) => m.flaw = "none"
      BY <1>0, <2>1, <2>2, OnlySoundPackets, Zenon
    <2> QED BY <1>2, <2>3, ValidMeans, Zenon
  <1> QED BY <1>1, <1>2, Zenon

\* A message that is owed is settled when its transfer ends, whether by a STOP,
\* a repeated START or a silence.
LEMMA EndSettles ==
    ASSUME MailboxTypeOK, PacketTypeOK, Directions, pc = "poll", end_device(eng.active),
           NEW m, Due(m), Known' = m
    PROVE  Settled(Known)'
  <1>1. CASE UNCHANGED << mailboxVars, s_tx, s_response_ready >> /\ Settled(m)
    BY <1>1, SettledFrame
  <1>2. CASE m = Unknown
    BY <1>2 DEF Settled
  <1>3. CASE eng.active # DDCCI_I2C_ADDRESS
    <2>1. UNCHANGED << mailboxVars, s_tx, s_response_ready >>
      BY <1>3, Zenon DEF end_device, DdcIs, EepromIs, NobodyIs, deviceVars, ddcVars, packetVars
    <2>2. Settled(m)
      BY <1>3, Zenon DEF Due, InDdc
    <2> QED BY <1>1, <2>1, <2>2, Zenon
  <1>4. ASSUME eng.active = DDCCI_I2C_ADDRESS, m # Unknown
        PROVE  Settled(Known)'
    <2>0. ddcci_end /\ s_read_direction = eng.read /\ Owed(m)
      <3>1. DDCCI_I2C_ADDRESS # EDID_EEPROM_I2C_ADDRESS /\ DDCCI_I2C_ADDRESS # NoDevice
        BY AddressFacts, SMT
      <3> QED BY <1>4, <3>1, Zenon
              DEF end_device, DdcIs, EepromIs, NobodyIs, Due, InDdc, Directions
    <2>1. CASE eng.read /\ m = Nothing
      <3>1. s_response_ready' = FALSE
        BY <2>0, <2>1, Zenon DEF ddcci_end, ReplyAfterRead
      <3>2. Known' = Nothing
        BY <2>1
      <3> QED BY <3>1, <3>2 DEF Settled, Stored, Answered, ReplyTo
    <2>2. CASE ~eng.read /\ s_rx = << >> /\ Settled(m)
      <3>1. ~(Len(s_rx) > 0)
        BY <2>2
      <3>2. UNCHANGED << mailboxVars, s_tx, s_response_ready >>
        BY <2>0, <2>2, <3>1, Zenon DEF ddcci_end
      <3> QED BY <1>1, <2>2, <3>2, Zenon
    <2>3. CASE ~eng.read /\ m \in Messages /\ s_rx = Packet(m) /\ s_rx # << >>
      <3>1. Len(s_rx) > 0
        BY <2>3 DEF PacketTypeOK
      <3>2. process_write_packet
        BY <2>0, <2>3, <3>1, Zenon DEF ddcci_end
      <3>3. /\ s_tx' = Answer /\ s_response_ready'
            /\ \/ /\ SetVcp /\ s_rx[4] = DDCCI_VCP_BRIGHTNESS
                  /\ SetVcpBrightness(256 * s_rx[5] + s_rx[6])
               \/ /\ SetVcp /\ s_rx[4] = DDCCI_VCP_POWER_MODE
                  /\ SetVcpPowerMode(256 * s_rx[5] + s_rx[6])
               \/ /\ ~(SetVcp /\ s_rx[4] \in {DDCCI_VCP_BRIGHTNESS, DDCCI_VCP_POWER_MODE})
                  /\ UNCHANGED mailboxVars
        BY <3>2, Zenon DEF process_write_packet, Respond
      <3>4. request_packet_valid <=> m.flaw = "none"
        BY <2>3, ValidPackets, Zenon
      <3>5. DDCCI_VCP_BRIGHTNESS # DDCCI_VCP_POWER_MODE /\ DDCCI_CMD_GET_VCP # DDCCI_CMD_SET_VCP
        BY SMT DEF DDCCI_VCP_BRIGHTNESS, DDCCI_VCP_POWER_MODE, DDCCI_CMD_GET_VCP,
           DDCCI_CMD_SET_VCP
      <3>6. CASE m.flaw # "none"
        <4>1. s_tx' = NullResponse /\ s_response_ready'
          BY <3>3, <3>4, <3>6, Zenon DEF Answer, GetVcp
        <4> QED BY <3>6, <4>1 DEF Settled, Stored, Answered, ReplyTo
      <3>7. CASE m.flaw = "none" /\ m.op = "get"
        <4>1. GetVcp /\ ~SetVcp /\ s_rx[4] = m.code
          BY <2>3, <3>4, <3>5, <3>7, SoundFields, Zenon DEF GetVcp, SetVcp
        <4>2. UNCHANGED mailboxVars
          BY <3>3, <4>1, Zenon
        <4>3. s_tx' = ReplyTo(m)
          <5>1. m # Nothing
            BY <2>3, NothingFacts, Zenon
          <5> QED BY <3>3, <3>5, <3>7, <4>1, <5>1, Zenon DEF Answer, ReplyTo
        <4>4. s_tx' = ReplyTo(Known)'
          BY <4>2, <4>3 DEF ReplyTo, mailboxVars, VcpResponse
        <4> QED BY <3>3, <3>7, <4>4, Zenon DEF Settled, Stored, Answered
      <3>8. CASE m.flaw = "none" /\ m.op = "set"
        <4>1. SetVcp /\ ~GetVcp /\ s_rx[4] = m.code
              /\ 256 * s_rx[5] + s_rx[6] = m.value /\ m.value \in Word
          <5>1. SetVcp /\ ~GetVcp /\ s_rx[4] = m.code
            BY <2>3, <3>4, <3>5, <3>8, SoundFields, Zenon DEF GetVcp, SetVcp
          <5>2. /\ m.value \in Word
                /\ s_rx[5] = m.value \div 256 /\ s_rx[6] = m.value % 256
            BY <2>3, <3>8, SoundFields, Zenon
          <5>3. 256 * s_rx[5] + s_rx[6] = m.value
            BY <5>2, WordOf, Zenon
          <5> QED BY <5>1, <5>2, <5>3, Zenon
        <4>2. /\ m.code = DDCCI_VCP_BRIGHTNESS => SetVcpBrightness(m.value)
              /\ m.code = DDCCI_VCP_POWER_MODE => SetVcpPowerMode(m.value)
          BY <3>3, <3>5, <4>1, Zenon
        <4>3. Stored(Known)'
          BY <3>5, <4>2 DEF Stored, SetVcpBrightness, SetVcpPowerMode, ClampPercent, PowerModes
        <4>4. s_tx' = ReplyTo(Known)'
          <5>1. s_tx' = NullResponse
            BY <3>3, <4>1, Zenon DEF Answer
          <5> QED BY <3>8, <5>1 DEF ReplyTo
        <4> QED BY <3>3, <4>3, <4>4, Zenon DEF Settled, Answered
      <3> QED BY <2>3, <3>6, <3>7, <3>8, Zenon DEF Messages
    <2> QED BY <1>4, <2>0, <2>1, <2>2, <2>3, Zenon DEF Owed
  <1> QED BY <1>2, <1>3, <1>4, Zenon

\* A read that finds no reply makes up the one that is due.
LEMMA BeginSettles ==
    ASSUME NEW d, NEW read \in BOOLEAN, begin(d, read), NEW m, Settled(m), Known' = m
    PROVE  Settled(Known)'
  <1>1. CASE UNCHANGED << mailboxVars, s_tx, s_response_ready >>
    BY <1>1, SettledFrame
  <1>2. CASE ~UNCHANGED << mailboxVars, s_tx, s_response_ready >>
    <2>1. /\ ~s_response_ready /\ UNCHANGED mailboxVars
          /\ s_tx' = NullResponse /\ s_response_ready' = TRUE
      BY <1>2, Zenon DEF begin, DdcIs, EepromIs, NobodyIs, ddcci_begin, Respond, deviceVars,
         ddcVars, packetVars
    <2> QED BY <2>1 DEF Settled, Stored, Answered, ReplyTo, mailboxVars, VcpResponse
  <1> QED BY <1>1, <1>2

\* A rising clock carries nothing out, whatever byte it completes.
LEMMA RiseSettles ==
    ASSUME eng \in Locals, BitsInv, NEW bit \in {0, 1}, Rise(bit),
           NEW m, Settled(m), Known' = m
    PROVE  Settled(Known)'
  <1>1. UNCHANGED deviceVars => UNCHANGED << mailboxVars, s_tx, s_response_ready >>
    BY Zenon DEF deviceVars, ddcVars, packetVars
  <1>2. UNCHANGED << mailboxVars, s_tx, s_response_ready >> => Settled(Known)'
    BY SettledFrame
  <1>3. CASE eng.state = "address"
    <2>1. \/ UNCHANGED deviceVars
          \/ eng'.read \in BOOLEAN /\ begin(eng'.active, eng'.read)
      BY <1>3, RiseOfAddress, Zenon
    <2>2. CASE eng'.read \in BOOLEAN /\ begin(eng'.active, eng'.read)
      <3>1. PICK d : d = eng'.active
        OBVIOUS
      <3>2. PICK read \in BOOLEAN : read = eng'.read
        BY <2>2, Zenon
      <3>3. begin(d, read)
        BY <2>2, <3>1, <3>2, Zenon
           DEF begin, DdcIs, EepromIs, NobodyIs, ddcci_begin, eeprom_begin
      <3> QED BY <3>3, BeginSettles, Zenon
    <2> QED BY <1>1, <1>2, <2>1, <2>2, Zenon
  <1>4. CASE eng.state = "rx"
    <2>1. UNCHANGED deviceVars \/ \E byte : write_byte(eng.active, byte)
      BY <1>4, RiseOfByte, Zenon
    <2>2. \A byte : write_byte(eng.active, byte) =>
              UNCHANGED << mailboxVars, s_tx, s_response_ready >>
      BY Zenon DEF write_byte, DdcIs, EepromIs, ddcci_write_byte, ddcVars, packetVars
    <2> QED BY <1>1, <1>2, <2>1, <2>2, Zenon
  <1>5. CASE eng.state \notin {"address", "rx"}
    <2>1. UNCHANGED << mailboxVars, s_tx, s_response_ready >>
      BY <1>5, RiseOther, Zenon
    <2> QED BY <1>2, <2>1, Zenon
  <1> QED BY <1>3, <1>4, <1>5

-----------------------------------------------------------------------------
(* What the slave knows at the edges of the master *)

\* What the master will know does not change inside a transfer.
LEMMA KnownFrame ==
    /\ ~Concluded /\ ~Concluded' /\ last' = last => Known' = Known
    /\ UNCHANGED << script, slot, nack, cut, last, phase >> =>
           /\ Known' = Known /\ (DdcOpen' <=> DdcOpen) /\ (Concluded' <=> Concluded)
           /\ (Taken' <=> Taken)
  <1>1. script' = script => Slots' = Slots /\ Transfer' = Transfer
    BY SameMessage, Zenon
  <1>2. UNCHANGED << script, slot, nack, cut, last, phase >> =>
            /\ (DdcOpen' <=> DdcOpen) /\ (Concluded' <=> Concluded) /\ (Taken' <=> Taken)
    BY <1>1 DEF DdcOpen, InBytes, Concluded, Taken
  <1>3. UNCHANGED << script, slot, nack, cut, last, phase >> => LastKnown' = LastKnown
    BY <1>1 DEF LastKnown
  <1> QED BY <1>2, <1>3, Zenon DEF Known

\* The bytes of a transfer are clocked while it is played, and until the last
\* of them nothing is concluded.
LEMMA PhaseFacts ==
    /\ InBytes => Playing
    /\ ~InBytes => ~Concluded /\ ~DdcOpen /\ ~Taken
    /\ phase # "high" => ~Concluded
    /\ ~Concluded => Known = last
    /\ Concluded => Known = LastKnown /\ ~DdcOpen
    /\ Playing <=> phase \in {"started", "low", "set", "high", "closing", "closeSet", "closeHigh"}
       \/ phase \notin Phases
  BY DEF InBytes, Playing, Concluded, DdcOpen, Taken, Known, Phases

\* Before its clock rises the slave listens to the slot.
LEMMA BeforeRise ==
    ASSUME IInv, Following, HInv, phase = "set", MasterMoves, pc = "poll"
    PROVE  /\ Listening(slot) /\ Content
           /\ previous[2] = 0 /\ sda = MasterBit(slot) /\ Playing /\ ScriptInv
  <1>1. /\ previous[2] = 0
    BY MovesInPoll DEF Following, LinesInv
  <1>2. Before /\ Content /\ sda = MasterBit(slot)
    BY DEF Following, InStep, HInv, Hears, LinesInv
  <1>3. Listening(slot)
    BY <1>1, <1>2, SMT DEF Before
  <1> QED BY <1>1, <1>2, <1>3 DEF IInv, Playing

\* An acknowledge bit that is low on the bus is pulled by the slave, which
\* listens to that very slot.
LEMMA AckedSlot ==
    ASSUME IInv, Following, HInv, HostRise, IsAck(slot), ~IsRead(slot), Sda # 1
    PROVE  /\ pc = "poll" /\ Content
           /\ \/ /\ slot = 8 /\ eng.state = "address_ack"
                 /\ eng.read = Reading /\ eng.active # NoDevice
              \/ slot >= 9 /\ ~Reading /\ eng.state = "rx_ack" /\ eng.rx_ack
  <1>0. phase = "set" /\ MasterMoves
    BY Zenon DEF HostRise
  <1>1. sda = 1
    BY <1>0 DEF Following, LinesInv, MasterBit
  <1>2. latch # 1
    BY <1>1, SlaveParts, WireFacts
  <1>3. pc = "poll"
    BY <1>2, Zenon DEF Following, Resting
  <1>4. Listening(slot) /\ Content
    BY <1>0, <1>3, BeforeRise, Zenon
  <1>5. slot % 9 = 8
    BY Zenon DEF IsAck
  <1>6. \/ /\ slot = 8 /\ eng.state = "address_ack"
           /\ eng.read = Reading /\ latch = Pull(eng.active # NoDevice)
        \/ slot >= 9 /\ ~Reading /\ eng.state = "rx_ack" /\ latch = Pull(eng.rx_ack)
        \/ slot < 8
    BY <1>2, <1>4, <1>5, SMT DEF Listening
  <1>7. slot \in Nat /\ ~(slot < 8)
    <2>1. slot \in Nat
      BY <1>0, SlotKinds DEF IInv, Playing
    <2> QED BY <1>5, <2>1, SMT
  <1> QED BY <1>2, <1>3, <1>4, <1>6, <1>7 DEF Pull

\* The bytes that a whole write to the device has collected are its message.
LEMMA WholePacket ==
    ASSUME PacketTypeOK, IsTransfer(Transfer), Transfer.to = DDCCI_I2C_ADDRESS,
           Len(Transfer.bytes) # 1, Prefix, Len(s_rx) + 1 = Len(Transfer.bytes)
    PROVE  /\ Transfer.message \in Messages
           /\ s_rx = Packet(Transfer.message) /\ s_rx # << >>
  <1> DEFINE m == Transfer.message  p == Packet(m)
  <1>1. /\ m \in Messages /\ Len(Transfer.bytes) = Len(p) + 1
        /\ \A i \in 1..Len(p) : Transfer.bytes[i + 1] = p[i]
    BY DdcTransfer, Zenon
  <1>2. p \in Seq(Byte) /\ s_rx \in Seq(Byte)
    BY <1>1, PacketTyped, Zenon DEF PacketTypeOK
  <1>3. \A i \in 1..Len(s_rx) : s_rx[i] = Transfer.bytes[i + 1]
    BY Zenon DEF Prefix
  <1> HIDE DEF p, m
  <1>4. Len(s_rx) = Len(p)
    BY <1>1, <1>2
  <1>5. s_rx = p
    BY <1>1, <1>2, <1>3, <1>4
  <1>6. s_rx # << >>
    BY <1>2, <1>4, <1>1
  <1> QED BY <1>1, <1>5, <1>6 DEF p, m

\* When the clock of the last acknowledge bit rises, whatever the master will
\* take as known is owed or settled.
LEMMA ConcludingRise ==
    ASSUME IInv, Following, HInv, RInv, HostRise, Concluded', Transfer.to = DDCCI_I2C_ADDRESS
    PROVE  Due(Known)'
  <1>0. /\ phase = "set" /\ MasterMoves /\ phase' = "high"
        /\ UNCHANGED << script, slot, cut, last >>
        /\ nack' = (IsAck(slot) /\ ~IsRead(slot) /\ Sda = 1)
    BY Zenon DEF HostRise
  <1>1. /\ eng' = eng /\ pc' = pc
        /\ UNCHANGED << mailboxVars, s_rx, s_tx, s_response_ready >>
    BY HostFrame, Zenon DEF Host
  <1>2. /\ Transfer' = Transfer /\ Slots' = Slots
        /\ nack' \/ slot = Slots - 1
    BY <1>0, SameMessage DEF Concluded
  <1>3. Known' = LastKnown'
    BY Zenon DEF Known
  <1>4. PICK m : m = Known'
    OBVIOUS
  <1>5. Due(m) => Due(Known)'
    BY <1>1, <1>4, DueFrame, Zenon DEF InDdc
  <1>6. Known = last /\ DdcOpen
    BY <1>0, PhaseFacts, Zenon DEF DdcOpen, InBytes
  <1>7. (pc # "poll" /\ cut) \/ Settled(last)
    BY <1>6 DEF RInv, Settling
  <1>8. m = Unknown => Due(m)
    BY DEF Due, Owed, Settled
  <1>9. /\ Playing /\ ScriptInv /\ IsTransfer(Transfer) /\ PacketTypeOK
        /\ slot \in Nat /\ Len(Transfer.bytes) \in Nat \ {0} /\ Transfer.reads \in Nat
        /\ Slots = 9 * (Len(Transfer.bytes) + Transfer.reads)
        /\ (Reading <=> Transfer.reads > 0)
    <2>1. Playing /\ ScriptInv /\ PacketTypeOK
      BY <1>0, Zenon DEF IInv, BusTypeOK, Playing
    <2> QED BY <2>1, FirstByte, TransferFacts, SlotKinds, Zenon DEF Slots
  <1>10. CASE nack'
    <2>1. CASE slot = 8 /\ ~cut
      <3>1. m = last
        BY <1>0, <1>2, <1>3, <1>4, <1>10, <2>1 DEF LastKnown
      <3>2. ~InDdc
        <4>1. SUFFICES ASSUME pc = "poll" PROVE eng.active # DDCCI_I2C_ADDRESS
          BY Zenon DEF InDdc
        <4>2. Listening(8)
          BY <1>0, <2>1, <4>1, BeforeRise
        <4>3. latch = 1
          BY <1>0, <1>10, SlaveParts, WireFacts
        <4>4. eng.state = "ignore" \/ latch = Pull(eng.active # NoDevice)
          BY <4>2 DEF Listening
        <4>5. eng.state # "ignore"
          BY <4>2 DEF Listening
        <4>6. DDCCI_I2C_ADDRESS # NoDevice
          BY AddressFacts, SMT
        <4> QED BY <4>3, <4>4, <4>5, <4>6 DEF Pull
      <3>3. Due(m)
        BY <1>7, <2>1, <3>1, <3>2 DEF Due
      <3> QED BY <1>5, <3>3, Zenon
    <2>2. CASE ~(slot = 8 /\ ~cut)
      <3>1. m = Unknown
        BY <1>0, <1>2, <1>3, <1>4, <1>10, <2>2 DEF LastKnown
      <3> QED BY <1>5, <1>8, <3>1, Zenon
    <2> QED BY <2>1, <2>2
  <1>11. CASE ~nack' /\ Reading
    <2>1. CASE cut
      <3>1. m = Unknown
        BY <1>0, <1>2, <1>3, <1>4, <1>9, <1>11, <2>1 DEF LastKnown
      <3> QED BY <1>5, <1>8, <3>1, Zenon
    <2>2. CASE ~cut
      <3>1. m = Nothing
        BY <1>0, <1>2, <1>3, <1>4, <1>9, <1>11, <2>2 DEF LastKnown
      <3>2. slot >= 9 /\ slot % 9 = 8
        BY <1>2, <1>9, <1>11, SlotKinds
      <3>3. pc = "poll" /\ eng.state # "ignore"
        <4>1. InBytes /\ Taken
          BY <1>0, <3>2, Zenon DEF InBytes, Taken
        <4> QED BY <1>11, <2>2, <4>1, Zenon DEF RInv, Heard
      <3>4. Listening(slot) /\ Content
        BY <1>0, <3>3, BeforeRise, Zenon
      <3>5. eng.state = "tx_master_ack"
        <4>1. ~(slot < 8) /\ slot # 8 /\ ~(slot % 9 < 8)
          BY <1>9, <3>2, SMT
        <4> QED BY <1>11, <3>3, <3>4, <4>1, Zenon DEF Listening
      <3>6. eng.active = DDCCI_I2C_ADDRESS
        BY <3>4, <3>5 DEF Content, find_device
      <3>7. eng.read
        BY <3>3, <3>5, Zenon DEF RInv, Output
      <3>8. Due(m)
        BY <3>1, <3>3, <3>6, <3>7, Zenon DEF Due, Owed, InDdc
      <3> QED BY <1>5, <3>8, Zenon
    <2> QED BY <2>1, <2>2
  <1>12. CASE ~nack' /\ ~Reading
    <2>1. IsAck(slot) /\ ~IsRead(slot) /\ slot = Slots - 1
      BY <1>2, <1>9, <1>12, SlotKinds DEF IsAck
    <2>2. /\ pc = "poll" /\ Content
          /\ \/ /\ slot = 8 /\ eng.state = "address_ack"
                /\ eng.read = Reading /\ eng.active # NoDevice
             \/ slot >= 9 /\ ~Reading /\ eng.state = "rx_ack" /\ eng.rx_ack
      BY <1>0, <1>12, <2>1, AckedSlot
    <2>3. /\ Transfer.reads = 0 /\ slot = 9 * Len(Transfer.bytes) - 1
          /\ (slot = 8 <=> Len(Transfer.bytes) = 1)
      <3>1. PICK n \in Nat \ {0} : n = Len(Transfer.bytes)
        BY <1>9, Zenon
      <3>2. Transfer.reads = 0
        BY <1>9, <1>12, SMT
      <3>3. Slots = 9 * (n + 0)
        BY <1>9, <3>1, <3>2, Zenon
      <3>4. slot = 9 * n - 1 /\ (slot = 8 <=> n = 1)
        BY <2>1, <3>3, SMT
      <3> QED BY <3>1, <3>2, <3>4, Zenon
    <2>4. eng.active = DDCCI_I2C_ADDRESS
      BY <2>2 DEF Content, find_device
    <2>5. ~eng.read
      BY <1>12, <2>2, Zenon DEF HInv, Directions
    <2>6. Prefix /\ Collecting
      BY <2>2, <2>4, <2>5, Zenon DEF Content, Written
    <2>7. CASE slot = 8
      <3>1. m = last
        BY <1>0, <1>2, <1>3, <1>4, <1>12, <2>3, <2>7 DEF LastKnown
      <3>2. s_rx = << >>
        BY <2>2, <2>6, <2>7 DEF Collecting
      <3>3. Due(m)
        BY <1>7, <2>2, <2>4, <2>5, <3>1, <3>2, Zenon DEF Due, Owed, InDdc
      <3> QED BY <1>5, <3>3, Zenon
    <2>8. CASE slot # 8
      <3>1. m = Transfer.message
        BY <1>0, <1>2, <1>3, <1>4, <1>12, <2>3, <2>8 DEF LastKnown
      <3>2. Len(s_rx) + 1 = Len(Transfer.bytes)
        <4>1. Len(s_rx) + (IF slot % 9 = 0 THEN 2 ELSE 1) = ByteOf(slot)
          BY <2>2, <2>6, <2>8 DEF Collecting
        <4>2. slot % 9 = 8 /\ ByteOf(slot) = Len(Transfer.bytes)
          <5>1. PICK n \in Nat \ {0} : n = Len(Transfer.bytes)
            BY <1>9, Zenon
          <5>2. slot = 9 * n - 1
            BY <2>3, <5>1, Zenon
          <5>3. slot % 9 = 8 /\ slot \div 9 + 1 = n
            BY <5>2, SMT
          <5> QED BY <5>1, <5>3, Zenon DEF ByteOf
        <4> QED BY <4>1, <4>2
      <3>3. m \in Messages /\ s_rx = Packet(m) /\ s_rx # << >>
        BY <1>9, <2>3, <2>6, <2>8, <3>1, <3>2, WholePacket
      <3>4. Due(m)
        BY <2>2, <2>4, <2>5, <3>3, Zenon DEF Due, Owed, InDdc
      <3> QED BY <1>5, <3>4, Zenon
    <2> QED BY <2>7, <2>8
  <1> QED BY <1>10, <1>11, <1>12

\* What is known of the device is kept by every step of the master.
LEMMA SettlingHost ==
    ASSUME IInv, Following, HInv, RInv, Host
    PROVE  Settling'
  <1>0. /\ eng' = eng /\ pc' = pc
        /\ UNCHANGED << mailboxVars, s_rx, s_tx, s_response_ready >>
        /\ (InDdc' <=> InDdc)
    BY HostFrame, Zenon DEF InDdc
  <1>1. Due(Known) /\ Known' = Known => Due(Known)'
    <2>1. PICK m : m = Known
      OBVIOUS
    <2> QED BY <1>0, <2>1, DueFrame, Zenon
  <1>2. Settled(Known) /\ Known' = Known => Settled(Known)'
    <2>1. PICK m : m = Known
      OBVIOUS
    <2> QED BY <1>0, <2>1, SettledFrame, Zenon
  <1>3. /\ ~DdcOpen => Due(Known)
        /\ DdcOpen => (pc \in {"idle", "finish"} /\ cut) \/ Settled(Known)
    BY Zenon DEF RInv, Settling
  <1>4. ~DdcOpen' /\ Due(Known)' => Settling'
    BY Zenon DEF Settling
  <1>5. DdcOpen /\ DdcOpen' /\ Known' = Known /\ cut' = cut => Settling'
    <2>1. DdcOpen' /\ Settled(Known)' => Settling'
      BY Zenon DEF Settling
    <2>2. DdcOpen' /\ pc' \in {"idle", "finish"} /\ cut' => Settling'
      BY Zenon DEF Settling
    <2> QED BY <1>0, <1>2, <1>3, <2>1, <2>2
  <1>6. ~DdcOpen /\ ~DdcOpen' /\ Known' = Known => Settling'
    BY <1>1, <1>3, <1>4, Zenon
  <1>7. CASE HostStarts \/ HostGoesOn \/ HostCloses \/ HostCloseRise \/ HostRestarts
             \/ HostStops \/ LineDrops \/ LineRises
    <2>1. /\ phase \notin {"low", "set", "high"} /\ phase' \notin {"low", "set", "high"}
          /\ last' = last
      BY <1>7 DEF HostStarts, HostGoesOn, HostCloses, HostCloseRise, HostRestarts, HostStops,
         LineDrops, LineRises, historyVars
    <2>2. ~DdcOpen /\ ~DdcOpen' /\ ~Concluded /\ ~Concluded'
      BY <2>1 DEF DdcOpen, InBytes, Concluded
    <2> QED BY <1>6, <2>1, <2>2, KnownFrame, Zenon
  <1>8. CASE Vanish
    <2>1. phase' \in {"free", "gone"} /\ last' = Unknown
      BY <1>8, Zenon DEF Vanish
    <2>2. ~DdcOpen' /\ ~Concluded'
      BY <2>1 DEF DdcOpen, InBytes, Concluded
    <2>3. Known' = Unknown
      BY <2>1, <2>2, Zenon DEF Known
    <2>4. Due(Known)'
      BY <2>3 DEF Due, Owed, Settled
    <2> QED BY <1>4, <2>2, <2>4, Zenon
  <1>9. CASE HostClocksStart
    <2>1. /\ phase = "started" /\ phase' = "low" /\ last' = last
          /\ UNCHANGED << script, slot, nack, cut >>
          /\ MasterMoves \/ pc = "resample"
      BY <1>9, Zenon DEF HostClocksStart
    <2>2. ~DdcOpen /\ ~Concluded /\ ~Concluded'
      BY <2>1 DEF DdcOpen, InBytes, Concluded
    <2>3. Known' = Known
      BY <2>1, <2>2, KnownFrame, Zenon
    <2>4. eng.active # DDCCI_I2C_ADDRESS \/ pc # "poll"
      <3>1. SUFFICES ASSUME pc = "poll" PROVE eng.active # DDCCI_I2C_ADDRESS
        OBVIOUS
      <3>2. MasterMoves
        BY <2>1, <3>1
      <3>3. previous[1] = 0
        <4>1. sda = 0
          BY <2>1 DEF Following, LinesInv
        <4> QED BY <3>1, <3>2, <4>1, MovesInPoll, SlaveParts, WireFacts
      <3>4. Listening(0)
        BY <2>1, <3>1, <3>3 DEF Following, InStep, Begun
      <3>5. eng.state = "address"
        BY <3>4, SMT DEF Listening
      <3>6. eng.active = NoDevice
        BY <3>5, Zenon DEF HInv, Directions
      <3> QED BY <3>6, AddressFacts, SMT
    <2>5. Settled(Known)
      BY <1>3, <2>2, <2>4, Zenon DEF Due, InDdc
    <2>6. Settled(Known)' /\ Due(Known)'
      BY <1>1, <1>2, <1>3, <2>2, <2>3, <2>5, Zenon
    <2> QED BY <2>6, Zenon DEF Settling
  <1>10. CASE HostData
    <2>1. /\ phase = "low" /\ phase' = "set"
          /\ UNCHANGED << script, slot, nack, cut, last >>
      BY <1>10, Zenon DEF HostData, historyVars
    <2>2. Transfer' = Transfer /\ ~Concluded /\ ~Concluded'
      BY <2>1, SameMessage DEF Concluded
    <2>3. Known' = Known /\ (DdcOpen' <=> DdcOpen)
      BY <2>1, <2>2, KnownFrame DEF DdcOpen, InBytes
    <2> QED BY <1>5, <1>6, <2>1, <2>3, Zenon
  <1>11. CASE HostFall
    <2>1. /\ phase = "high" /\ UNCHANGED << script, nack, cut >>
          /\ IF nack \/ slot = Slots - 1
             THEN phase' = "closing" /\ last' = LastKnown
             ELSE phase' = "low" /\ last' = last
      BY <1>11, Zenon DEF HostFall
    <2>2. Transfer' = Transfer /\ ~Concluded'
      BY <2>1, SameMessage DEF Concluded
    <2>3. CASE Concluded
      <3>1. phase' = "closing" /\ last' = LastKnown
        BY <2>1, <2>3, Zenon DEF Concluded
      <3>2. ~DdcOpen /\ ~DdcOpen'
        BY <2>3, <3>1 DEF DdcOpen, InBytes
      <3>3. Known' = Known
        BY <2>2, <2>3, <3>1, Zenon DEF Known
      <3> QED BY <1>6, <3>2, <3>3, Zenon
    <2>4. CASE ~Concluded
      <3>1. phase' = "low" /\ last' = last
        BY <2>1, <2>4, Zenon DEF Concluded
      <3>2. Known' = Known /\ (DdcOpen' <=> DdcOpen)
        BY <2>1, <2>2, <2>4, <3>1, KnownFrame DEF DdcOpen, InBytes
      <3> QED BY <1>5, <1>6, <2>1, <3>2, Zenon
    <2> QED BY <2>3, <2>4
  <1>12. CASE HostRise
    <2>1. /\ phase = "set" /\ phase' = "high"
          /\ UNCHANGED << script, slot, cut, last >>
      BY <1>12, Zenon DEF HostRise
    <2>2. Transfer' = Transfer /\ ~Concluded
      BY <2>1, SameMessage DEF Concluded
    <2>3. CASE Concluded'
      <3>1. ~DdcOpen'
        BY <2>3 DEF DdcOpen
      <3>2. CASE Transfer.to = DDCCI_I2C_ADDRESS
        BY <1>4, <1>12, <2>3, <3>1, <3>2, ConcludingRise, Zenon
      <3>3. CASE Transfer.to # DDCCI_I2C_ADDRESS
        <4>1. Known' = Known
          BY <2>1, <2>2, <2>3, <3>3, Zenon DEF Known, LastKnown
        <4>2. ~DdcOpen
          BY <3>3, Zenon DEF DdcOpen
        <4> QED BY <1>6, <3>1, <4>1, <4>2, Zenon
      <3> QED BY <3>2, <3>3
    <2>4. CASE ~Concluded'
      <3>1. Known' = Known /\ (DdcOpen' <=> DdcOpen)
        BY <2>1, <2>2, <2>4, KnownFrame DEF DdcOpen, InBytes
      <3> QED BY <1>5, <1>6, <2>1, <3>1, Zenon
    <2> QED BY <2>3, <2>4
  <1> QED BY <1>7, <1>8, <1>9, <1>10, <1>11, <1>12, Zenon DEF Host

-----------------------------------------------------------------------------
(* What the slave does with it *)

\* While bytes are clocked the slave sees neither a START nor a STOP, and does
\* not enter its handler.
LEMMA InsideBytes ==
    ASSUME IInv, Following, InBytes
    PROVE  /\ ~SeesRepeatedStart /\ ~SeesStop
           /\ Start => pc = "idle" /\ pc' = "idle"
           /\ Resample => slot = 0 /\ Listening(0)
           /\ phase = "high" \/ scl = 0
  <1>1. phase = "high" \/ scl = 0
    BY DEF InBytes, Following, LinesInv
  <1>2. Playing
    BY PhaseFacts, Zenon
  <1>3. pc = "poll" /\ scl = 1 => previous[1] = Sda
    BY <1>1 DEF Following, LinesInv, InStep, During, InBytes
  <1>4. ~SeesRepeatedStart /\ ~SeesStop
    BY <1>3, SMT DEF SeesRepeatedStart, SeesStop, Sees, WasSda
  <1>5. Start => pc = "idle" /\ pc' = "idle"
    <2>1. SUFFICES ASSUME Start PROVE pc = "idle" /\ pc' = "idle"
      OBVIOUS
    <2>2. pc = "idle" /\ interrupt
      BY <2>1, Zenon DEF Start
    <2>3. phase # "started"
      BY DEF InBytes
    <2>4. scl = 0
      BY <1>2, <2>2, <2>3, Zenon DEF Following, Deaf
    <2>5. Lines # << 0, 1 >>
      BY <2>4 DEF Lines
    <2> QED BY <2>1, <2>2, <2>5 DEF Start
  <1>6. Resample => slot = 0 /\ Listening(0)
    BY <1>2, Zenon DEF Resample, Following, Afresh
  <1> QED BY <1>1, <1>4, <1>5, <1>6, Zenon

\* Where the slave can see the clock rise.
LEMMA RiseWhen ==
    ASSUME IInv, Following, SeesRise
    PROVE  /\ \/ phase = "high" /\ Listening(slot)
              \/ phase = "closeHigh" /\ Closed
              \/ phase \in {"free", "between", "gone", "return"}
           /\ pc = "poll" /\ pc' = "poll" /\ Rise(Sda) /\ previous[2] = 0 /\ scl = 1
           /\ latch' = latch /\ previous' = Lines
  <1>1. /\ pc = "poll" /\ pc' = "poll" /\ Rise(Sda) /\ previous[2] = 0 /\ scl = 1
        /\ latch' = latch /\ previous' = Lines
    BY Zenon DEF SeesRise, Sees, WasScl
  <1>2. phase \in Phases
    BY Zenon DEF IInv, BusTypeOK
  <1>3. phase \notin {"low", "set", "closing", "closeSet"}
    BY <1>1 DEF Following, LinesInv
  <1>4. phase # "started"
    BY <1>1 DEF Following, InStep, Begun
  <1>5. phase = "high" => Listening(slot)
    BY <1>1 DEF Following, InStep, During
  <1>6. phase = "closeHigh" => Closed
    BY <1>1 DEF Following, InStep, Ended
  <1> QED BY <1>1, <1>2, <1>3, <1>4, <1>5, <1>6 DEF Phases

\* Nothing is known of a bus that was left in disorder.
LEMMA RiseOutside ==
    ASSUME IInv, Following, RInv, SeesRise, phase \in {"free", "between", "gone", "return"}
    PROVE  last = Unknown /\ at = Unknown
  <1>1. pc = "poll" /\ previous[2] = 0
    BY RiseWhen, Zenon
  <1>2. previous # << 0, 1 >>
    BY <1>1
  <1> QED BY <1>1, <1>2, Zenon DEF RInv, Orderly

\* A byte that comes in is kept by the device, if at all.
LEMMA RiseKeeps ==
    ASSUME eng \in Locals, BitsInv, NEW bit \in {0, 1}, Rise(bit),
           eng.state # "address", ~(eng.state = "rx" /\ eng.bits = 7)
    PROVE  /\ eng'.active = eng.active /\ eng'.read = eng.read
           /\ UNCHANGED << mailboxVars, s_rx, s_tx, s_response_ready >>
  <1>1. CASE eng.state = "rx"
    <2>1. /\ eng'.active = eng.active /\ eng'.read = eng.read
          /\ eng.bits < 7 => UNCHANGED deviceVars
          /\ ~(eng.bits < 7) => eng.bits = 7
      BY <1>1, RiseOfByte, Zenon
    <2> QED BY <1>1, <2>1, Zenon DEF deviceVars, ddcVars, packetVars
  <1>2. CASE eng.state # "rx"
    BY <1>2, RiseOther, Zenon
  <1> QED BY <1>1, <1>2

\* What is known of the device is kept by every step of the slave.
LEMMA SettlingSlave ==
    ASSUME IInv, Following, HInv, RInv, Slave, HInv'
    PROVE  Settling'
  <1>0. /\ UNCHANGED << script, slot, nack, phase >> /\ last' = last /\ Transfer' = Transfer
        /\ MailboxTypeOK /\ PacketTypeOK /\ Directions /\ eng \in Locals /\ BitsInv
        /\ Sda \in {0, 1} /\ DDCCI_I2C_ADDRESS # NoDevice
    <2>1. UNCHANGED << script, slot, nack, phase >>
      BY SlaveFrame, Zenon
    <2>2. last' = last
      BY Zenon DEF Slave, Unnoticed, SlaveGivesUp, historyVars
    <2>3. Transfer' = Transfer
      BY <2>1, SameMessage, Zenon
    <2>4. MailboxTypeOK /\ PacketTypeOK /\ Directions
      BY Zenon DEF IInv, BusTypeOK, HInv
    <2>5. DDCCI_I2C_ADDRESS # NoDevice
      BY AddressFacts, SMT
    <2> QED BY <2>1, <2>2, <2>3, <2>4, <2>5, SlaveParts, Zenon
  <1>1. PICK m : m = Known
    OBVIOUS
  <1>2. /\ ~DdcOpen => Due(m)
        /\ DdcOpen => (pc \in {"idle", "finish"} /\ cut) \/ Settled(m)
    BY <1>1, Zenon DEF RInv, Settling
  <1>3. /\ ~DdcOpen' /\ Due(Known)' => Settling'
        /\ DdcOpen' /\ Settled(Known)' => Settling'
        /\ DdcOpen' /\ pc' \in {"idle", "finish"} /\ cut' => Settling'
    BY Zenon DEF Settling
  <1>4. ~InDdc' /\ Settled(Known)' => Due(Known)' /\ Settling'
    <2>1. ~InDdc' /\ Settled(Known)' => Due(Known)'
      BY Zenon DEF Due
    <2> QED BY <1>3, <2>1, Zenon
  <1>5. UNCHANGED deviceVars => UNCHANGED << mailboxVars, s_rx, s_tx, s_response_ready >>
    BY Zenon DEF deviceVars, ddcVars, packetVars
  <1>6. CASE SlaveGivesUp
    <2>1. /\ pc = "poll" /\ pc' = "finish" /\ end_device(eng.active)
          /\ cut' = (cut \/ Playing)
      BY <1>6, Zenon DEF SlaveGivesUp, Timeout, LinesStill
    <2>2. DdcOpen' <=> DdcOpen
      BY <1>0 DEF DdcOpen, InBytes, Concluded, Slots
    <2>3. CASE DdcOpen
      <3>1. cut'
        BY <2>1, <2>3, PhaseFacts, Zenon DEF DdcOpen
      <3> QED BY <1>3, <2>1, <2>2, <2>3, <3>1
    <2>4. CASE ~DdcOpen
      <3>1. Known' = m \/ Known' = Unknown
        BY <1>0, <1>1, <2>1 DEF Known, Concluded, LastKnown, Slots
      <3>2. Settled(Known)'
        <4>1. Known' = m => Settled(Known)'
          BY <1>0, <1>2, <2>1, <2>4, EndSettles, Zenon
        <4>2. Known' = Unknown => Settled(Known)'
          BY DEF Settled
        <4> QED BY <3>1, <4>1, <4>2, Zenon
      <3>3. ~InDdc'
        BY <2>1 DEF InDdc
      <3> QED BY <1>4, <3>2, <3>3, Zenon
    <2> QED BY <2>3, <2>4
  <1>7. ASSUME cut' = cut, Slave, ~SlaveGivesUp
        PROVE  Settling'
    <2>0. Known' = m /\ (DdcOpen' <=> DdcOpen)
      BY <1>0, <1>1, <1>7, KnownFrame, Zenon
    <2>1. UNCHANGED << mailboxVars, s_tx, s_response_ready >> /\ Settled(m) => Settled(Known)'
      BY <2>0, SettledFrame, Zenon
    <2>2. ASSUME UNCHANGED << mailboxVars, s_rx, s_tx, s_response_ready >>,
                 InDdc' <=> InDdc, eng'.read = eng.read,
                 pc \in {"idle", "finish"} => pc' \in {"idle", "finish"}
          PROVE  Settling'
      <3>1. Due(m) => Due(Known)'
        BY <2>0, <2>2, DueFrame, Zenon
      <3> QED BY <1>2, <1>3, <1>7, <2>0, <2>1, <2>2, <3>1
    <2>3. CASE Start
      <3>1. UNCHANGED deviceVars /\ eng' = eng /\ pc = "idle"
        BY <2>3, Zenon DEF Start
      <3>2. eng.active # DDCCI_I2C_ADDRESS
        <4>1. eng = FreshLocals
          BY <3>1, Zenon DEF Following, Resting
        <4> QED BY <1>0, <4>1 DEF FreshLocals
      <3>3. ~InDdc /\ ~InDdc'
        BY <3>1, <3>2, Zenon DEF InDdc
      <3>4. CASE DdcOpen
        <4>1. pc' = "idle"
          BY <2>3, <3>4, InsideBytes, PhaseFacts, Zenon
        <4> QED BY <1>5, <2>2, <3>1, <3>3, <4>1
      <3>5. CASE ~DdcOpen
        <4>1. Settled(m)
          BY <1>2, <3>3, <3>5, Zenon DEF Due
        <4>2. Settled(Known)'
          BY <1>5, <2>1, <3>1, <4>1, Zenon
        <4> QED BY <1>4, <3>3, <4>2, Zenon
      <3> QED BY <3>4, <3>5
    <2>4. CASE SeesRepeatedStart \/ SeesStop
      <3>1. /\ pc = "poll" /\ end_device(eng.active) /\ pc' \in {"resample", "finish"}
        BY <2>4 DEF SeesRepeatedStart, SeesStop, Sees, EndsTransfer
      <3>2. ~DdcOpen
        BY <2>4, InsideBytes, PhaseFacts, Zenon
      <3>3. Settled(Known)'
        BY <1>0, <1>2, <2>0, <3>1, <3>2, EndSettles, Zenon
      <3>4. ~InDdc'
        BY <3>1 DEF InDdc
      <3> QED BY <1>4, <3>3, <3>4, Zenon
    <2>5. CASE Resample
      <3>1. UNCHANGED deviceVars /\ eng' = eng /\ pc = "resample" /\ pc' = "poll"
        BY <2>5, Zenon DEF Resample
      <3>2. eng.active = NoDevice
        BY <1>0, <3>1, Zenon DEF Directions
      <3>3. ~InDdc /\ ~InDdc'
        BY <1>0, <3>1, <3>2, Zenon DEF InDdc
      <3> QED BY <1>5, <2>2, <3>1, <3>3
    <2>6. CASE SeesData
      <3>1. UNCHANGED deviceVars /\ eng' = eng /\ pc' = pc
        BY <2>6, Zenon DEF SeesData
      <3>2. InDdc' <=> InDdc
        BY <3>1, Zenon DEF InDdc
      <3> QED BY <1>5, <2>2, <3>1, <3>2
    <2>7. CASE SeesFall
      <3>1. UNCHANGED deviceVars /\ Fall /\ pc' = pc
        BY <2>7, Zenon DEF SeesFall
      <3>2. eng'.active = eng.active /\ eng'.read = eng.read
        BY <1>0, <3>1, FallMore, Zenon
      <3>3. InDdc' <=> InDdc
        BY <3>1, <3>2, Zenon DEF InDdc
      <3> QED BY <1>5, <2>2, <3>1, <3>2, <3>3
    <2>8. CASE Finish
      <3>1. UNCHANGED deviceVars /\ pc = "finish" /\ pc' = "idle"
        BY <2>8, Zenon DEF Finish
      <3>2. ~InDdc /\ ~InDdc'
        BY <3>1 DEF InDdc
      <3>3. CASE DdcOpen /\ cut
        BY <1>3, <1>7, <2>0, <3>1, <3>3
      <3>4. CASE ~(DdcOpen /\ cut)
        <4>1. Settled(m)
          BY <1>2, <3>2, <3>4, Zenon DEF Due
        <4>2. Settled(Known)'
          BY <1>5, <2>1, <3>1, <4>1, Zenon
        <4> QED BY <1>4, <3>2, <4>2, Zenon
      <3> QED BY <3>3, <3>4
    <2>9. CASE SeesRise
      <3>1. /\ \/ phase = "high" /\ Listening(slot)
               \/ phase = "closeHigh" /\ Closed
               \/ phase \in {"free", "between", "gone", "return"}
            /\ pc = "poll" /\ pc' = "poll" /\ Rise(Sda)
        BY <2>9, RiseWhen, Zenon
      <3>2. Settled(m) => Settled(Known)'
        BY <1>0, <2>0, <3>1, RiseSettles, Zenon
      <3>3. ASSUME eng.state # "address", ~(eng.state = "rx" /\ eng.bits = 7)
            PROVE  Settling'
        <4>1. /\ eng'.active = eng.active /\ eng'.read = eng.read
              /\ UNCHANGED << mailboxVars, s_rx, s_tx, s_response_ready >>
          BY <1>0, <3>1, <3>3, RiseKeeps, Zenon
        <4>2. InDdc' <=> InDdc
          BY <3>1, <4>1, Zenon DEF InDdc
        <4> QED BY <2>2, <3>1, <4>1, <4>2
      <3>4. CASE DdcOpen
        <4>1. Settled(m)
          BY <1>2, <3>1, <3>4
        <4> QED BY <1>3, <2>0, <3>2, <3>4, <4>1, Zenon
      <3>5. CASE Concluded
        <4>1. /\ Listening(slot) /\ slot % 9 = 8
          <5>1. phase = "high"
            BY <3>5, Zenon DEF Concluded
          <5>2. nack \/ slot = Slots - 1
            BY <3>5, Zenon DEF Concluded
          <5>3. slot = Slots - 1 => slot % 9 = 8
            BY <5>1, SlotKinds DEF IInv, Playing
          <5>4. nack => slot % 9 = 8
            BY Zenon DEF Following, NackInv, IsAck
          <5> QED BY <3>1, <5>1, <5>2, <5>3, <5>4
        <4>2. slot \in Nat
          BY <3>5, SlotKinds DEF IInv, Playing, Concluded
        <4>3. ~(slot < 8) /\ ~(slot % 9 < 8)
          BY <4>1, <4>2, SMT
        <4>4. eng.state # "address" /\ eng.state # "rx"
          BY <4>1, <4>3 DEF Listening
        <4> QED BY <3>3, <4>4, Zenon
      <3>6. CASE phase = "high" /\ ~DdcOpen /\ ~Concluded
        <4>1. Transfer.to # DDCCI_I2C_ADDRESS
          BY <3>6, Zenon DEF DdcOpen, InBytes
        <4>2. Content /\ Content'
          BY <1>0, <3>1, <3>6 DEF HInv, Hears
        <4>3. eng.active # DDCCI_I2C_ADDRESS /\ eng'.active # DDCCI_I2C_ADDRESS
          <5>3. eng'.active = NoDevice \/ eng'.active = find_device(Transfer.to)
            BY <1>0, <4>2, Zenon DEF Content, HInv, Directions
          <5>4. find_device(Transfer.to) # DDCCI_I2C_ADDRESS
            BY <1>0, <4>1, AddressFacts DEF find_device
          <5>5. eng.active = NoDevice \/ eng.active = find_device(Transfer.to)
            BY <4>2, Zenon DEF Content, HInv, Directions
          <5>6. DDCCI_I2C_ADDRESS # NoDevice
            BY AddressFacts, SMT
          <5> QED BY <5>3, <5>4, <5>5, <5>6
        <4>4. ~InDdc /\ ~InDdc'
          BY <4>3, Zenon DEF InDdc
        <4>5. Settled(m)
          BY <1>2, <3>6, <4>4, Zenon DEF Due
        <4> QED BY <1>4, <3>2, <4>4, <4>5, Zenon
      <3>7. CASE phase = "closeHigh"
        <4>1. eng.state \in {"rx", "ignore"} /\ (eng.state = "rx" => eng.bits = 0)
          BY <3>1, <3>7 DEF Closed, Over
        <4> QED BY <3>3, <4>1
      <3>8. CASE phase \in {"free", "between", "gone", "return"}
        <4>1. last = Unknown
          BY <2>9, <3>8, RiseOutside, Zenon
        <4>2. ~Concluded' /\ ~DdcOpen'
          BY <1>0, <3>8 DEF Concluded, DdcOpen, InBytes
        <4>3. Known' = Unknown
          BY <1>0, <4>1, <4>2, Zenon DEF Known
        <4>4. Due(Known)'
          BY <4>3 DEF Due, Owed, Settled
        <4> QED BY <1>3, <4>2, <4>4, Zenon
      <3> QED BY <3>1, <3>4, <3>5, <3>6, <3>7, <3>8
    <2> QED BY <1>7, <2>3, <2>4, <2>5, <2>6, <2>7, <2>8, <2>9, Zenon DEF Slave, Iteration
  <1>8. SlaveGivesUp \/ cut' = cut
    BY Zenon DEF Slave, Unnoticed, historyVars
  <1> QED BY <1>6, <1>7, <1>8, Zenon

-----------------------------------------------------------------------------
(* A bus that is left in order *)

\* What a transfer leaves is a message, nothing or unknown.
LEMMA LastKnownTyped ==
    ASSUME ScriptInv, Playing, last \in Messages \cup {Nothing, Unknown}
    PROVE  LastKnown \in Messages \cup {Nothing, Unknown}
  <1>1. IsTransfer(Transfer)
    BY FirstByte, Zenon
  <1>2. Transfer.to = DDCCI_I2C_ADDRESS /\ Len(Transfer.bytes) # 1 =>
            Transfer.message \in Messages
    BY <1>1, DdcTransfer, Zenon
  <1>3. \/ LastKnown \in {last, Unknown, Nothing}
        \/ /\ LastKnown = Transfer.message
           /\ Transfer.to = DDCCI_I2C_ADDRESS /\ Len(Transfer.bytes) # 1
    BY DEF LastKnown
  <1> QED BY <1>2, <1>3

\* The master leaves the bus in order, or knows nothing.
LEMMA OrderlyHost ==
    ASSUME IInv, Following, Orderly, Host
    PROVE  Orderly'
  <1>0. last \in Messages \cup {Nothing, Unknown} /\ pc' = pc /\ previous' = previous
    BY HostFrame, Zenon DEF Orderly
  <1>1. CASE HostStarts \/ HostGoesOn \/ HostClocksStart \/ HostData \/ HostRise \/ HostCloses
             \/ HostCloseRise \/ HostRestarts
    <2>1. phase' \notin {"free", "between", "gone", "return"} /\ last' = last
      BY <1>1 DEF HostStarts, HostGoesOn, HostClocksStart, HostData, HostRise, HostCloses,
         HostCloseRise, HostRestarts, historyVars
    <2> QED BY <1>0, <2>1 DEF Orderly
  <1>2. CASE HostFall
    <2>1. phase' \in {"closing", "low"} /\ last' \in {last, LastKnown} /\ phase = "high"
      BY <1>2 DEF HostFall
    <2>2. last' \in Messages \cup {Nothing, Unknown}
      BY <1>0, <2>1, LastKnownTyped DEF IInv, Playing
    <2> QED BY <2>1, <2>2 DEF Orderly
  <1>3. CASE HostStops
    <2>1. /\ phase = "closeHigh" /\ ~Restarts /\ MasterMoves /\ last' = last
          /\ sda' = 1 /\ scl' = 1 /\ latch' = latch
          /\ phase' \in {"between", "free"}
      BY <1>3 DEF HostStops, Drive, SlaveStill, historyVars
    <2>2. sda = 0 /\ scl = 1
      BY <2>1 DEF Following, LinesInv
    <2>3. pc # "resample"
      BY <2>1, MovesElsewhere, SlaveParts, Zenon
    <2>4. pc = "poll" => previous = << 0, 1 >> /\ latch = 1
      <3>1. SUFFICES ASSUME pc = "poll" PROVE previous = << 0, 1 >> /\ latch = 1
        OBVIOUS
      <3>2. Lines = previous /\ previous[2] = 1
        BY <2>1, <2>2, <3>1, MovesInPoll
      <3>3. Sda = 0
        BY <2>2, SlaveParts, WireFacts
      <3>4. previous = << 0, 1 >>
        BY <2>2, <3>2, <3>3, Zenon DEF Lines
      <3>5. Ended
        BY <2>1, <3>1, Zenon DEF Following, InStep
      <3> QED BY <3>2, <3>4, <3>5, Zenon DEF Ended, Over
    <2> QED BY <1>0, <2>1, <2>3, <2>4 DEF Orderly
  <1>4. CASE Vanish
    <2>1. last' = Unknown /\ at' = Unknown
      BY <1>4, Zenon DEF Vanish
    <2> QED BY <2>1, Zenon DEF Orderly
  <1>5. CASE LineDrops \/ LineRises
    <2>1. phase \in {"gone", "return"} /\ last' = last /\ at' = at
      BY <1>5 DEF LineDrops, LineRises, historyVars
    <2>2. last' = Unknown /\ at' = Unknown
      BY <2>1, Zenon DEF Orderly
    <2> QED BY <2>2, Zenon DEF Orderly
  <1> QED BY <1>1, <1>2, <1>3, <1>4, <1>5, Zenon DEF Host

\* The slave, which has seen half a STOP, will see the other half.
LEMMA OrderlySlave ==
    ASSUME IInv, Following, Orderly, Slave
    PROVE  Orderly'
  <1>0. /\ UNCHANGED << phase, sda, scl, last, at >>
    <2>1. last' = last /\ at' = at
      BY Zenon DEF Slave, Unnoticed, SlaveGivesUp, historyVars
    <2> QED BY <2>1, SlaveFrame, Zenon
  <1>1. SUFFICES ASSUME phase \in {"free", "between"}, last # Unknown \/ at # Unknown
                 PROVE  /\ pc' # "resample"
                        /\ pc' = "poll" => previous' = << 0, 1 >> /\ latch' = 1
    BY <1>0 DEF Orderly
  <1>2. /\ sda = 1 /\ scl = 1 /\ pc # "resample"
        /\ pc = "poll" => previous = << 0, 1 >> /\ latch = 1
    BY <1>1, Zenon DEF Orderly
  <1>3. latch = 1 /\ Sda = 1 /\ Lines = << 1, 1 >>
    <2>1. latch = 1
      BY <1>2, Zenon DEF Following, Resting
    <2>2. Sda = 1
      BY <1>2, <2>1, SlaveParts, WireFacts
    <2> QED BY <1>2, <2>1, <2>2, Zenon DEF Lines
  <1>4. pc = "poll" => previous[1] = 0 /\ previous[2] = 1
    BY <1>2
  <1>5. ~SeesRepeatedStart /\ ~SeesRise /\ ~SeesFall /\ ~SeesData /\ ~Resample /\ ~Timeout
    BY <1>2, <1>3, <1>4 DEF SeesRepeatedStart, SeesRise, SeesFall, SeesData, Resample, Timeout, LinesStill,
       Sees, WasSda, WasScl
  <1>6. CASE Start
    BY <1>3, <1>6 DEF Start
  <1>7. CASE SeesStop \/ Finish
    BY <1>7 DEF SeesStop, Finish
  <1> QED BY <1>5, <1>6, <1>7, Zenon DEF Slave, Iteration, SlaveGivesUp

-----------------------------------------------------------------------------
(* Who has acknowledged *)

\* The acknowledge bit of the address is the device's.
LEMMA HeardHost ==
    ASSUME IInv, Following, HInv, Heard, Host, Following'
    PROVE  Heard'
  <1>0. eng' = eng /\ pc' = pc /\ latch' = latch
    BY HostFrame, Zenon
  <1>1. ~InBytes' => Heard'
    BY DEF Heard, Taken
  <1>2. ASSUME InBytes, script' = script, cut' = cut, Taken' => Taken
        PROVE  Heard'
    <2>1. Transfer' = Transfer /\ (Reading' <=> Reading)
      BY <1>2, SameMessage, Zenon
    <2> QED BY <1>0, <1>2, <2>1 DEF Heard
  <1>3. CASE HostStarts \/ HostGoesOn \/ HostCloses \/ HostCloseRise \/ HostRestarts
             \/ HostStops \/ Vanish \/ LineDrops \/ LineRises
    <2>1. phase' \notin {"low", "set", "high"}
      BY <1>3 DEF HostStarts, HostGoesOn, HostCloses, HostCloseRise, HostRestarts, HostStops,
         Vanish, LineDrops, LineRises
    <2> QED BY <1>1, <2>1 DEF InBytes
  <1>4. CASE HostClocksStart
    <2>1. phase = "started" /\ phase' = "low" /\ slot' = slot
      BY <1>4, Zenon DEF HostClocksStart
    <2>2. slot' = 0
      BY <2>1 DEF Following, LinesInv
    <2>3. ~Taken'
      BY <2>1, <2>2, SMT DEF Taken
    <2>4. pc' = "poll" => eng'.state = "address"
      <3>1. SUFFICES ASSUME pc' = "poll" PROVE eng'.state = "address"
        OBVIOUS
      <3>2. Listening(slot)'
        BY <2>1, <2>2, <3>1, SMT DEF Following, InStep, Before
      <3> QED BY <2>2, <3>2 DEF Listening
    <2> QED BY <2>3, <2>4 DEF Heard
  <1>5. CASE HostData
    <2>1. /\ phase = "low" /\ phase' = "set" /\ UNCHANGED << script, slot, nack, cut >>
      BY <1>5, Zenon DEF HostData, historyVars
    <2> QED BY <1>2, <2>1 DEF InBytes, Taken
  <1>6. CASE HostFall
    <2>1. /\ phase = "high" /\ UNCHANGED << script, nack, cut >>
          /\ IF nack \/ slot = Slots - 1 THEN phase' = "closing"
             ELSE phase' = "low" /\ slot' = slot + 1
      BY <1>6, Zenon DEF HostFall
    <2>2. slot \in Nat
      BY <2>1, SlotKinds DEF IInv, Playing
    <2>3. phase' # "closing" => (Taken' => Taken)
      BY <2>1, <2>2 DEF Taken, InBytes
    <2> QED BY <1>1, <1>2, <2>1, <2>3 DEF InBytes
  <1>7. CASE HostRise
    <2>1. /\ phase = "set" /\ phase' = "high" /\ UNCHANGED << script, slot, cut >>
          /\ nack' = (IsAck(slot) /\ ~IsRead(slot) /\ Sda = 1)
      BY <1>7, Zenon DEF HostRise
    <2>2. CASE slot = 8 /\ ~nack'
      <3>1. IsAck(slot) /\ ~IsRead(slot)
        BY <2>1, <2>2, SlotKinds DEF IsAck, IInv, Playing
      <3>2. pc = "poll" /\ Content /\ eng.state = "address_ack" /\ eng.active # NoDevice
        <4>1. Sda # 1
          BY <2>1, <2>2, <3>1
        <4>2. ~(slot >= 9)
          BY <2>2, SMT
        <4> QED BY <1>7, <3>1, <4>1, <4>2, AckedSlot, Zenon
      <3>3. Transfer.to \in {DDCCI_I2C_ADDRESS, EDID_EEPROM_I2C_ADDRESS}
        BY <3>2 DEF Content, find_device
      <3>4. Transfer' = Transfer
        BY <2>1, SameMessage, Zenon
      <3> QED BY <1>0, <3>2, <3>3, <3>4 DEF Heard
    <2>3. CASE ~(slot = 8 /\ ~nack')
      <3>1. Taken' => Taken
        BY <2>1, <2>3 DEF Taken, InBytes
      <3> QED BY <1>2, <2>1, <3>1 DEF InBytes
    <2> QED BY <2>2, <2>3
  <1> QED BY <1>3, <1>4, <1>5, <1>6, <1>7, Zenon DEF Host

\* A rising clock makes the slave ignore nobody.
LEMMA RiseMinds ==
    ASSUME eng \in Locals, BitsInv, NEW bit \in {0, 1}, Rise(bit), eng.state # "ignore"
    PROVE  eng'.state # "ignore"
  <1>1. CASE eng.state = "address"
    BY <1>1, RiseOfAddress
  <1>2. CASE eng.state = "rx"
    BY <1>2, RiseOfByte
  <1>3. CASE eng.state \notin {"address", "rx"}
    BY <1>3, RiseOther
  <1> QED BY <1>1, <1>2, <1>3

\* What the slave has sampled when it sees the clock of a byte fall.
LEMMA FallWhen ==
    ASSUME IInv, Following, HInv, InBytes, SeesFall
    PROVE  /\ phase \in {"low", "set"} /\ pc = "poll" /\ Content /\ Fall
           /\ previous[2] = 1 /\ pc' = "poll"
           /\ previous' = Lines /\ scl = 0 /\ UNCHANGED deviceVars
           /\ Playing /\ ScriptInv /\ slot \in Nat
           /\ \/ slot = 0 /\ eng.state = "address"
              \/ slot > 0 /\ Sampled(slot - 1)
  <1>1. /\ pc = "poll" /\ pc' = "poll" /\ previous[2] = 1 /\ scl = 0 /\ Fall
        /\ previous' = Lines /\ UNCHANGED deviceVars
    BY DEF SeesFall, Sees, WasScl
  <1>2. phase \in {"low", "set"}
    BY <1>1 DEF InBytes, Following, LinesInv
  <1>3. Playing /\ ScriptInv
    BY PhaseFacts, Zenon DEF IInv
  <1>4. slot \in Nat
    BY <1>3, SlotKinds, Zenon
  <1>5. Before /\ Content
    BY <1>1, <1>2 DEF Following, InStep, HInv, Hears
  <1>6. slot > 0 => Sampled(slot - 1)
    BY <1>1, <1>5, Zenon DEF Before
  <1>7. ~(slot > 0) => slot = 0 /\ eng.state = "address"
    <2>1. SUFFICES ASSUME ~(slot > 0) PROVE slot = 0 /\ eng.state = "address"
      OBVIOUS
    <2>2. slot = 0 /\ ~(slot >= 9) /\ slot # 8
      BY <1>4, <2>1, SMT
    <2>3. Listening(slot)
      BY <1>5, <2>1, Zenon DEF Before
    <2> QED BY <2>2, <2>3, Zenon DEF Listening
  <1> QED BY <1>1, <1>2, <1>3, <1>4, <1>5, <1>6, <1>7, Zenon

\* Nobody who is read, and not the EEPROM, is ever ignored.
LEMMA FallMinds ==
    ASSUME IInv, Following, HInv, RInv, InBytes, SeesFall,
           Reading \/ Transfer.to = EDID_EEPROM_I2C_ADDRESS
    PROVE  eng'.state # "ignore"
  <1>0. /\ pc = "poll" /\ Content /\ Fall /\ Playing /\ ScriptInv /\ slot \in Nat
        /\ \/ slot = 0 /\ eng.state = "address"
           \/ slot > 0 /\ Sampled(slot - 1)
        /\ eng \in Locals
    BY FallWhen, SlaveParts, Zenon
  <1>1. eng.state # "ignore"
    BY <1>0, Zenon DEF RInv, Heard
  <1>2. CASE eng.state \in {"address", "rx", "tx"}
    <2>1. eng' = eng
      BY <1>0, <1>2, FallFields
    <2> QED BY <1>1, <2>1
  <1>3. CASE eng.state = "address_ack"
    <2>1. Sampled(slot - 1)
      BY <1>0, <1>3
    <2>2. eng.ack_phase = 0 \/ (eng.ack_phase = 2 /\ slot >= 9)
      <3>1. slot - 1 = 8 => slot >= 9
        BY <1>0, SMT
      <3>2. eng.ack_phase = 0 \/ (slot - 1 = 8 /\ eng.ack_phase = 2)
        BY <1>3, <2>1 DEF Sampled
      <3> QED BY <3>1, <3>2, Zenon
    <2>3. CASE eng.ack_phase = 0
      BY <1>0, <1>3, <2>3, FallFields
    <2>4. CASE eng.ack_phase = 2 /\ slot >= 9
      <3>1. Transfer.to \in {DDCCI_I2C_ADDRESS, EDID_EEPROM_I2C_ADDRESS}
        BY <2>4, Zenon DEF RInv, Heard, Taken
      <3>2. eng.active = Transfer.to
        BY <1>0, <1>3, <3>1 DEF Content, find_device
      <3>3. eng.active # NoDevice
        BY <3>1, <3>2, AddressFacts, SMT
      <3>4. eng'.state \in {"tx", "rx"}
        BY <1>0, <1>3, <2>4, <3>3, FallFields
      <3> QED BY <3>4
    <2> QED BY <2>2, <2>3, <2>4
  <1>4. CASE eng.state = "rx_ack"
    <2>1. Sampled(slot - 1) /\ ~Reading
      BY <1>0, <1>4 DEF Sampled
    <2>2. eng.rx_ack
      <3>1. eng.active = EDID_EEPROM_I2C_ADDRESS
        BY <1>0, <1>4, <2>1 DEF Content, find_device
      <3> QED BY <1>0, <1>4, <3>1, Zenon DEF RInv, Output
    <2>3. eng.ack_phase \in {0, 2}
      BY <1>4, <2>1 DEF Sampled
    <2> QED BY <1>0, <1>4, <2>2, <2>3, FallFields
  <1>5. CASE eng.state = "tx_master_ack"
    <2>1. Sampled(slot - 1)
      BY <1>0, <1>5
    <2>2. eng.ack_phase = 0 \/ (eng.ack_phase = 2 /\ eng.master_ack)
      <3>1. slot - 1 # Slots - 1
        <4>1. slot \in 0..Slots - 1 /\ Slots \in Nat
          BY <1>0, SlotFacts DEF ScriptInv
        <4> QED BY <4>1, SMT
      <3>2. \/ eng.ack_phase = 0
            \/ eng.ack_phase = 2 /\ eng.master_ack = (slot - 1 # Slots - 1)
        BY <1>5, <2>1 DEF Sampled
      <3> QED BY <3>1, <3>2
    <2>3. CASE eng.ack_phase = 0
      BY <1>0, <1>5, <2>3, FallFields
    <2>4. CASE eng.ack_phase = 2 /\ eng.master_ack
      BY <1>0, <1>5, <2>4, FallFields
    <2> QED BY <2>2, <2>3, <2>4
  <1>6. eng.state \in States
    BY <1>0 DEF Locals
  <1> QED BY <1>1, <1>2, <1>3, <1>4, <1>5, <1>6 DEF States

\* Who has acknowledged stays until he gives up.
LEMMA HeardSlave ==
    ASSUME IInv, Following, HInv, RInv, Slave
    PROVE  Heard'
  <1>0. /\ UNCHANGED << script, slot, nack, phase >> /\ Transfer' = Transfer
        /\ (Reading' <=> Reading) /\ (cut => cut') /\ Heard
        /\ (Taken' <=> Taken) /\ (InBytes' <=> InBytes)
    <2>1. UNCHANGED << script, slot, nack, phase >>
      BY SlaveFrame, Zenon
    <2>2. Transfer' = Transfer /\ (Reading' <=> Reading)
      BY <2>1, SameMessage, Zenon
    <2>3. cut => cut'
      BY Zenon DEF Slave, Unnoticed, SlaveGivesUp, historyVars
    <2> QED BY <2>1, <2>2, <2>3, Zenon DEF RInv, Taken, InBytes
  <1>1. SUFFICES ASSUME InBytes
                 PROVE  /\ Taken /\ ~cut' => pc' = "poll"
                        /\ pc' = "poll" /\ (Reading \/ Transfer.to = EDID_EEPROM_I2C_ADDRESS)
                               => eng'.state # "ignore"
    BY <1>0, Zenon DEF Heard, Taken
  <1>2. Taken /\ ~cut => pc = "poll"
    BY <1>0, Zenon DEF Heard
  <1>3. pc = "poll" /\ (Reading \/ Transfer.to = EDID_EEPROM_I2C_ADDRESS) =>
            eng.state # "ignore"
    BY <1>0, <1>1, Zenon DEF Heard
  <1>4. CASE SlaveGivesUp
    <2>1. pc' = "finish" /\ cut'
      BY <1>1, <1>4, PhaseFacts DEF SlaveGivesUp, Timeout
    <2> QED BY <2>1
  <1>5. CASE Start
    <2>1. pc = "idle" /\ pc' = "idle"
      BY <1>1, <1>5, InsideBytes, Zenon
    <2> QED BY <1>0, <1>2, <2>1
  <1>6. CASE Finish
    <2>1. pc = "finish" /\ pc' = "idle"
      BY <1>6, Zenon DEF Finish
    <2> QED BY <1>0, <1>2, <2>1
  <1>7. CASE Resample
    <2>1. pc' = "poll" /\ eng' = eng
      BY <1>7, Zenon DEF Resample
    <2>2. slot = 0 /\ Listening(0)
      BY <1>1, <1>7, InsideBytes, Zenon
    <2> QED BY <2>1, <2>2 DEF Listening
  <1>8. CASE SeesData
    <2>1. pc = "poll" /\ pc' = "poll" /\ eng' = eng
      BY <1>8 DEF SeesData, Sees
    <2> QED BY <1>3, <2>1
  <1>9. CASE SeesRise
    <2>1. pc = "poll" /\ pc' = "poll" /\ Rise(Sda)
      BY <1>9, RiseWhen, Zenon
    <2>2. eng.state # "ignore" => eng'.state # "ignore"
      BY <2>1, SlaveParts, RiseMinds, Zenon
    <2> QED BY <1>3, <2>1, <2>2
  <1>10. CASE SeesFall
    <2>1. pc' = "poll"
      BY <1>1, <1>10, FallWhen, Zenon
    <2> QED BY <1>1, <1>10, <2>1, FallMinds, Zenon
  <1>11. ~SeesRepeatedStart /\ ~SeesStop
    BY <1>1, InsideBytes, Zenon
  <1> QED BY <1>4, <1>5, <1>6, <1>7, <1>8, <1>9, <1>10, <1>11, Zenon DEF Slave, Iteration

-----------------------------------------------------------------------------
(* Bits that are sent *)

\* A rising clock while a byte is sent.
LEMMA RiseSends ==
    ASSUME eng \in Locals, NEW bit \in {0, 1}, Rise(bit)
    PROVE  /\ eng.state = "tx" =>
                  /\ eng'.tx_byte = eng.tx_byte /\ eng'.tx_bits = eng.tx_bits + 1
                  /\ UNCHANGED deviceVars
                  /\ IF eng.tx_bits = 7 THEN eng'.state = "tx_master_ack" /\ eng'.ack_phase = 0
                     ELSE eng'.state = "tx"
           /\ eng.state = "tx_master_ack" =>
                  /\ eng'.tx_byte = eng.tx_byte /\ eng'.state = "tx_master_ack"
                  /\ eng.ack_phase = 1 => eng'.ack_phase = 2 /\ read_advance(eng.active)
                  /\ eng.ack_phase # 1 => eng' = eng /\ UNCHANGED deviceVars
  <1>0. DOMAIN eng = {"state", "shift", "bits", "read", "rx_ack", "ack_phase",
                      "tx_byte", "tx_bits", "master_ack", "active"}
    BY DEF Locals
  <1>1. CASE eng.state = "tx"
    <2>1. RiseTransmit
      BY <1>1 DEF Rise, RiseAddress, RiseReceive, RiseAck, RiseMasterAck, RiseIgnore
    <2>2. /\ eng' = [eng EXCEPT !.tx_bits = eng.tx_bits + 1,
                            !.ack_phase = IF eng.tx_bits = 7 THEN 0 ELSE eng.ack_phase,
                            !.state = IF eng.tx_bits = 7 THEN "tx_master_ack" ELSE eng.state]
          /\ UNCHANGED deviceVars
      BY <2>1 DEF RiseTransmit
    <2> QED BY <1>0, <1>1, <2>2
  <1>2. CASE eng.state = "tx_master_ack"
    <2>1. RiseMasterAck(bit)
      BY <1>2 DEF Rise, RiseAddress, RiseReceive, RiseAck, RiseTransmit, RiseIgnore
    <2>2. CASE eng.ack_phase = 1
      <3>1. /\ eng' = [eng EXCEPT !.master_ack = (bit = 0), !.ack_phase = 2]
            /\ read_advance(eng.active)
        BY <2>1, <2>2 DEF RiseMasterAck
      <3>2. eng'.ack_phase = 2 /\ eng'.tx_byte = eng.tx_byte /\ eng'.state = "tx_master_ack"
        BY <1>0, <1>2, <3>1
      <3> QED BY <1>2, <2>2, <3>1, <3>2
    <2>3. CASE eng.ack_phase # 1
      <3>1. eng' = eng /\ UNCHANGED deviceVars
        BY <2>1, <2>3 DEF RiseMasterAck
      <3> QED BY <1>2, <2>3, <3>1
    <2> QED BY <2>2, <2>3
  <1> QED BY <1>1, <1>2

\* A falling clock while a byte is sent, or before the first.
LEMMA FallSends ==
    ASSUME eng \in Locals, Fall
    PROVE  /\ eng'.state = "tx" =>
                  \/ /\ eng.state = "tx" /\ eng' = eng
                     /\ latch' = Bit(eng.tx_byte, 7 - eng.tx_bits)
                  \/ /\ eng'.tx_byte = read_byte(eng.active) /\ eng'.tx_bits = 0
                     /\ latch' = Bit(eng'.tx_byte, 7)
                     /\ \/ eng.state = "address_ack" /\ eng.read
                        \/ eng.state = "tx_master_ack"
           /\ eng'.state = "tx_master_ack" =>
                  /\ eng.state = "tx_master_ack" /\ eng.ack_phase = 0
                  /\ eng'.ack_phase = 1 /\ eng'.tx_byte = eng.tx_byte
           /\ eng'.state = "rx_ack" => eng.state = "rx_ack"
  <1>0. DOMAIN eng = {"state", "shift", "bits", "read", "rx_ack", "ack_phase",
                      "tx_byte", "tx_bits", "master_ack", "active"}
    BY DEF Locals
  <1>1. ASSUME SendNext
        PROVE  /\ eng'.state = "tx" /\ eng'.tx_byte = read_byte(eng.active)
               /\ eng'.tx_bits = 0 /\ latch' = Bit(eng'.tx_byte, 7)
    <2>1. PICK b : b = read_byte(eng.active)
      OBVIOUS
    <2>2. /\ eng' = [eng EXCEPT !.tx_byte = b, !.tx_bits = 0, !.ack_phase = 0, !.state = "tx"]
          /\ latch' = Bit(b, 7)
      BY <1>1, <2>1 DEF SendNext
    <2>3. eng'.state = "tx" /\ eng'.tx_byte = b /\ eng'.tx_bits = 0
      BY <1>0, <2>2
    <2> QED BY <2>1, <2>2, <2>3
  <1>2. CASE FallAddressAck
    <2>1. eng.state = "address_ack"
      BY <1>2, Zenon DEF FallAddressAck
    <2>2. CASE eng' = [eng EXCEPT !.ack_phase = 1]
      <3>1. eng'.state = "address_ack"
        BY <1>0, <2>1, <2>2
      <3> QED BY <3>1
    <2>3. CASE Ignore \/ ReceiveNext
      <3>1. eng'.state \in {"ignore", "rx"}
        BY <1>0, <2>3 DEF Ignore, ReceiveNext
      <3> QED BY <3>1
    <2>4. CASE eng.read /\ SendNext
      BY <1>1, <2>1, <2>4
    <2> QED BY <1>2, <2>2, <2>3, <2>4, Zenon DEF FallAddressAck
  <1>3. CASE FallReceiveAck
    <2>1. eng.state = "rx_ack"
      BY <1>3, Zenon DEF FallReceiveAck
    <2>2. eng'.state \in {"rx_ack", "rx", "ignore"}
      <3>1. \/ eng' = [eng EXCEPT !.ack_phase = 1]
            \/ ReceiveNext
            \/ eng' = [eng EXCEPT !.shift = 0, !.bits = 0, !.ack_phase = 0, !.state = "ignore"]
        BY <1>3, Zenon DEF FallReceiveAck
      <3> QED BY <1>0, <2>1, <3>1 DEF ReceiveNext
    <2> QED BY <2>1, <2>2
  <1>4. CASE FallTransmit
    BY <1>4 DEF FallTransmit
  <1>5. CASE FallMasterAck
    <2>1. eng.state = "tx_master_ack"
      BY <1>5, Zenon DEF FallMasterAck
    <2>2. CASE eng.ack_phase = 0 /\ eng' = [eng EXCEPT !.ack_phase = 1]
      <3>1. /\ eng'.state = "tx_master_ack" /\ eng'.ack_phase = 1
            /\ eng'.tx_byte = eng.tx_byte
        BY <1>0, <2>1, <2>2
      <3> QED BY <2>1, <2>2, <3>1
    <2>3. CASE SendNext
      BY <1>1, <2>1, <2>3
    <2>4. CASE Ignore
      <3>1. eng'.state = "ignore"
        BY <1>0, <2>4 DEF Ignore
      <3> QED BY <3>1
    <2> QED BY <1>5, <2>2, <2>3, <2>4, Zenon DEF FallMasterAck
  <1>6. CASE FallIdle
    BY <1>6 DEF FallIdle
  <1> QED BY <1>2, <1>3, <1>4, <1>5, <1>6, Zenon DEF Fall

\* The byte that a device holds moves with the device only.
LEMMA SameByte ==
    ASSUME UNCHANGED deviceVars, eng'.active = eng.active
    PROVE  /\ read_byte(eng.active)' = read_byte(eng.active)
           /\ s_response_ready' = s_response_ready
  BY DEF deviceVars, ddcVars, packetVars, eepromVars, read_byte, ddcci_read_byte,
     eeprom_read_byte

\* What the device has ready for a read stays ready while it is read.
LEMMA ReadyRises ==
    ASSUME eng \in Locals, BitsInv, NEW bit \in {0, 1}, Rise(bit),
           eng.active = DDCCI_I2C_ADDRESS /\ eng.read => s_response_ready,
           eng.state = "address" => eng.active = NoDevice
    PROVE  eng'.active = DDCCI_I2C_ADDRESS /\ eng'.read => s_response_ready'
  <1>0. DDCCI_I2C_ADDRESS # NoDevice /\ DDCCI_I2C_ADDRESS # EDID_EEPROM_I2C_ADDRESS
    BY AddressFacts, SMT
  <1>1. UNCHANGED deviceVars => s_response_ready' = s_response_ready
    BY Zenon DEF deviceVars, ddcVars, packetVars
  <1>2. CASE eng.state = "address"
    <2>1. CASE eng.bits < 7
      <3>1. eng'.active = eng.active
        BY <1>2, <2>1, RiseOfAddress, Zenon
      <3> QED BY <1>0, <1>2, <3>1
    <2>2. CASE ~(eng.bits < 7)
      <3>1. begin(eng'.active, eng'.read)
        BY <1>2, <2>2, RiseOfAddress, Zenon
      <3>2. SUFFICES ASSUME eng'.active = DDCCI_I2C_ADDRESS, eng'.read
                     PROVE  s_response_ready'
        OBVIOUS
      <3>3. ddcci_begin(TRUE)
        BY <1>0, <3>1, <3>2 DEF begin, DdcIs, EepromIs, NobodyIs, ddcci_begin, Respond
      <3> QED BY <3>3 DEF ddcci_begin, Respond
    <2> QED BY <2>1, <2>2
  <1>3. CASE eng.state = "rx"
    <2>1. /\ eng'.active = eng.active /\ eng'.read = eng.read
          /\ UNCHANGED deviceVars \/ \E byte : write_byte(eng.active, byte)
      BY <1>3, RiseOfByte, Zenon
    <2>2. \A byte : write_byte(eng.active, byte) => s_response_ready' = s_response_ready
      BY Zenon DEF write_byte, DdcIs, EepromIs, ddcci_write_byte, ddcVars, packetVars
    <2> QED BY <1>1, <2>1, <2>2
  <1>4. CASE eng.state \notin {"address", "rx"}
    <2>1. /\ eng'.active = eng.active /\ eng'.read = eng.read
          /\ s_response_ready' = s_response_ready
      BY <1>4, RiseOther, Zenon
    <2> QED BY <2>1
  <1> QED BY <1>2, <1>3, <1>4

\* The slave's own acknowledge bit goes by.
LEMMA RiseStays ==
    ASSUME eng \in Locals, NEW bit \in {0, 1}, Rise(bit),
           eng.state \in {"address_ack", "rx_ack", "ignore"}
    PROVE  eng'.state = eng.state /\ UNCHANGED deviceVars
  <1>0. DOMAIN eng = {"state", "shift", "bits", "read", "rx_ack", "ack_phase",
                      "tx_byte", "tx_bits", "master_ack", "active"}
    BY DEF Locals
  <1>1. RiseAck \/ RiseIgnore
    BY DEF Rise, RiseAddress, RiseReceive, RiseTransmit, RiseMasterAck
  <1>2. CASE RiseAck
    <2>1. PICK p : p = IF eng.ack_phase = 1 THEN 2 ELSE eng.ack_phase
      OBVIOUS
    <2>2. eng' = [eng EXCEPT !.ack_phase = p] /\ UNCHANGED deviceVars
      BY <1>2, <2>1 DEF RiseAck
    <2> QED BY <1>0, <2>2
  <1>3. CASE RiseIgnore
    BY <1>3 DEF RiseIgnore
  <1> QED BY <1>1, <1>2, <1>3

\* The master's edges do not reach into the slave.
LEMMA OutputHost ==
    ASSUME Output, Host
    PROVE  Output'
  <1>1. eng' = eng /\ pc' = pc /\ latch' = latch /\ previous' = previous
    BY HostFrame, Zenon
  <1>2. UNCHANGED deviceVars
    BY HostFrame, Zenon
  <1>3. read_byte(eng.active)' = read_byte(eng.active) /\ s_response_ready' = s_response_ready
    BY <1>1, <1>2, SameByte, Zenon
  <1> QED BY <1>1, <1>3 DEF Output

\* A bit that is on the wire when the clock rises has been sent.
LEMMA OutputRise ==
    ASSUME IInv, Following, Directions, Output, SeesRise
    PROVE  Output'
  <1>0. /\ eng \in Locals /\ BitsInv /\ Sda \in {0, 1} /\ Rise(Sda)
        /\ pc = "poll" /\ previous[2] = 0 /\ previous'[2] = 1 /\ latch' = latch
        /\ eng.state \in States
    <2>1. previous' = Lines /\ scl = 1
      BY RiseWhen, Zenon
    <2>2. previous'[2] = 1
      BY <2>1 DEF Lines
    <2>3. eng.state \in States
      BY SlaveParts DEF Locals
    <2> QED BY <2>2, <2>3, RiseWhen, SlaveParts, Zenon
  <1>1. eng'.active = DDCCI_I2C_ADDRESS /\ eng'.read => s_response_ready'
    BY <1>0, ReadyRises, Zenon DEF Output, Directions
  <1>2. eng.state \in {"tx", "tx_master_ack"} => eng.read /\ eng'.active = eng.active /\ eng'.read
    <2>1. eng.state \in {"tx", "tx_master_ack"} =>
              eng'.active = eng.active /\ eng'.read = eng.read
      <3>1. SUFFICES ASSUME eng.state \in {"tx", "tx_master_ack"}
                     PROVE  eng'.active = eng.active /\ eng'.read = eng.read
        OBVIOUS
      <3>2. eng.state \notin {"address", "rx"}
        BY <3>1
      <3> QED BY <1>0, <3>2, RiseOther, Zenon
    <2> QED BY <1>0, <2>1 DEF Output
  <1>3. CASE eng.state = "tx"
    <2>1. /\ eng'.tx_byte = eng.tx_byte /\ eng'.tx_bits = eng.tx_bits + 1
          /\ UNCHANGED deviceVars
          /\ IF eng.tx_bits = 7 THEN eng'.state = "tx_master_ack" /\ eng'.ack_phase = 0
             ELSE eng'.state = "tx"
      BY <1>0, <1>3, RiseSends, Zenon
    <2>2. /\ latch = Bit(eng.tx_byte, 7 - eng.tx_bits)
          /\ eng.tx_byte = read_byte(eng.active)
      BY <1>0, <1>3, SMT DEF Output
    <2>3. eng'.tx_byte = read_byte(eng.active)'
      BY <1>2, <1>3, <2>1, <2>2, SameByte
    <2>4. eng.tx_bits \in 0..8
      BY <1>0 DEF Locals
    <2>5. CASE eng.tx_bits = 7
      <3>1. eng'.state = "tx_master_ack" /\ eng'.ack_phase = 0
        BY <2>1, <2>5
      <3>2. latch' = Bit(eng'.tx_byte, 0)
        BY <1>0, <2>1, <2>2, <2>5, SMT
      <3> QED BY <1>0, <1>1, <1>2, <1>3, <2>3, <3>1, <3>2 DEF Output
    <2>6. CASE eng.tx_bits # 7
      <3>1. eng'.state = "tx"
        BY <2>1, <2>6
      <3>2. 8 - eng'.tx_bits = 7 - eng.tx_bits /\ eng'.tx_bits > 0
        BY <2>1, <2>4, SMT
      <3>3. latch' = Bit(eng'.tx_byte, 8 - eng'.tx_bits)
        BY <1>0, <2>1, <2>2, <3>2
      <3> QED BY <1>0, <1>1, <1>2, <1>3, <2>3, <3>1, <3>2, <3>3 DEF Output
    <2> QED BY <2>5, <2>6
  <1>4. CASE eng.state = "tx_master_ack"
    <2>0. eng.ack_phase # 0 /\ eng.ack_phase \in 0..2
      BY <1>0, <1>4 DEF Output, Locals
    <2>1. CASE eng.ack_phase = 1
      <3>1. eng'.state = "tx_master_ack" /\ eng'.ack_phase = 2
        BY <1>0, <1>4, <2>1, RiseSends, Zenon
      <3> QED BY <1>1, <1>2, <1>4, <3>1 DEF Output
    <2>2. CASE eng.ack_phase = 2
      <3>1. eng' = eng
        BY <1>0, <1>4, <2>2, RiseSends
      <3> QED BY <1>1, <1>2, <1>4, <2>2, <3>1 DEF Output
    <2> QED BY <2>0, <2>1, <2>2
  <1>5. CASE eng.state \in {"address_ack", "rx_ack", "ignore"}
    <2>1. eng'.state = eng.state
      BY <1>0, <1>5, RiseStays, Zenon
    <2>2. eng'.rx_ack = eng.rx_ack /\ eng'.active = eng.active
      <3>1. eng.state \notin {"address", "rx"}
        BY <1>5
      <3> QED BY <1>0, <3>1, RiseOther, Zenon
    <2> QED BY <1>0, <1>1, <1>5, <2>1, <2>2 DEF Output
  <1>6. CASE eng.state = "address"
    <2>1. eng'.state \in {"address", "address_ack"}
      BY <1>0, <1>6, RiseOfAddress
    <2> QED BY <1>1, <2>1 DEF Output
  <1>7. CASE eng.state = "rx"
    <2>1. /\ eng'.active = eng.active /\ eng'.state \in {"rx", "rx_ack"}
          /\ eng'.state = "rx_ack" => eng'.rx_ack = Acknowledges(eng.active)
      BY <1>0, <1>7, RiseOfByte
    <2>2. eng'.state = "rx_ack" /\ eng'.active = EDID_EEPROM_I2C_ADDRESS => eng'.rx_ack
      <3>1. SUFFICES ASSUME eng'.state = "rx_ack", eng'.active = EDID_EEPROM_I2C_ADDRESS
                     PROVE  eng'.rx_ack
        OBVIOUS
      <3>2. EDID_EEPROM_I2C_ADDRESS # DDCCI_I2C_ADDRESS
        BY AddressFacts, SMT
      <3>3. Acknowledges(eng.active)
        BY <2>1, <3>1, <3>2, Zenon DEF Acknowledges
      <3> QED BY <2>1, <3>1, <3>3
    <2> QED BY <1>1, <2>1, <2>2 DEF Output
  <1> QED BY <1>0, <1>3, <1>4, <1>5, <1>6, <1>7 DEF States

\* A bit goes on the wire when the clock falls.
LEMMA OutputFall ==
    ASSUME IInv, Output, SeesFall
    PROVE  Output'
  <1>0. /\ eng \in Locals /\ Fall /\ pc = "poll" /\ UNCHANGED deviceVars
        /\ previous[2] = 1 /\ previous'[2] = 0
    BY SlaveParts DEF SeesFall, Sees, WasScl, Lines
  <1>1. eng'.active = eng.active /\ eng'.read = eng.read /\ eng'.rx_ack = eng.rx_ack
    BY <1>0, FallMore, Zenon
  <1>2. read_byte(eng.active)' = read_byte(eng.active) /\ s_response_ready' = s_response_ready
    BY <1>0, <1>1, SameByte, Zenon
  <1>3. eng'.active = DDCCI_I2C_ADDRESS /\ eng'.read => s_response_ready'
    BY <1>0, <1>1, <1>2 DEF Output
  <1>4. eng'.state = "rx_ack" /\ eng'.active = EDID_EEPROM_I2C_ADDRESS => eng'.rx_ack
    <2>1. eng'.state = "rx_ack" => eng.state = "rx_ack"
      BY <1>0, FallSends, Zenon
    <2> QED BY <1>0, <1>1, <2>1 DEF Output
  <1>5. CASE eng'.state = "tx"
    <2>1. eng'.read /\ eng'.tx_byte = read_byte(eng.active)'
          /\ latch' = Bit(eng'.tx_byte, 7 - eng'.tx_bits)
      <3>1. CASE /\ eng.state = "tx" /\ eng' = eng
                 /\ latch' = Bit(eng.tx_byte, 7 - eng.tx_bits)
        BY <1>0, <1>2, <3>1 DEF Output
      <3>2. CASE /\ eng'.tx_byte = read_byte(eng.active) /\ eng'.tx_bits = 0
                 /\ latch' = Bit(eng'.tx_byte, 7)
                 /\ \/ eng.state = "address_ack" /\ eng.read
                    \/ eng.state = "tx_master_ack"
        <4>1. 7 - 0 = 7
          BY SMT
        <4>2. eng.read
          BY <1>0, <3>2, Zenon DEF Output
        <4> QED BY <1>1, <1>2, <3>2, <4>1, <4>2, Zenon
      <3> QED BY <1>0, <1>5, <3>1, <3>2, FallSends, Zenon
    <2> QED BY <1>0, <1>3, <1>5, <2>1 DEF Output
  <1>6. CASE eng'.state = "tx_master_ack"
    <2>1. /\ eng.state = "tx_master_ack" /\ eng.ack_phase = 0
          /\ eng'.ack_phase = 1 /\ eng'.tx_byte = eng.tx_byte
      BY <1>0, <1>6, FallSends, Zenon
    <2>2. eng.tx_byte = read_byte(eng.active) /\ eng.read
      BY <1>0, <2>1 DEF Output
    <2> QED BY <1>1, <1>2, <1>3, <1>6, <2>1, <2>2 DEF Output
  <1>7. CASE eng'.state \notin {"tx", "tx_master_ack"}
    BY <1>3, <1>4, <1>7 DEF Output
  <1> QED BY <1>5, <1>6, <1>7

\* The slave goes on sending what the device holds.
LEMMA OutputSlave ==
    ASSUME IInv, Following, Directions, Output, Slave
    PROVE  Output'
  <1>1. CASE Start \/ Resample
    <2>1. eng' = eng /\ eng.state = "address" /\ eng.active = NoDevice
      <3>1. CASE Start
        <4>1. eng' = eng /\ eng = FreshLocals
          BY <3>1, Zenon DEF Start, Following, Resting
        <4> QED BY <4>1 DEF FreshLocals
      <3>2. CASE Resample
        BY <3>2, Zenon DEF Resample, Directions
      <3> QED BY <1>1, <3>1, <3>2
    <2>2. DDCCI_I2C_ADDRESS # NoDevice
      BY AddressFacts, SMT
    <2> QED BY <2>1, <2>2 DEF Output
  <1>2. CASE SeesRepeatedStart \/ SeesStop \/ SlaveGivesUp \/ Finish
    <2>1. pc' # "poll"
      BY <1>2 DEF SeesRepeatedStart, SeesStop, SlaveGivesUp, Timeout, Finish
    <2> QED BY <2>1 DEF Output
  <1>3. CASE SeesData
    <2>1. /\ eng' = eng /\ pc' = pc /\ pc = "poll" /\ latch' = latch /\ UNCHANGED deviceVars
          /\ previous'[2] = previous[2]
      <3>1. previous' = Lines /\ scl = 0 /\ previous[2] = 0
        BY <1>3 DEF SeesData, WasScl
      <3>2. previous'[2] = 0
        BY <3>1 DEF Lines
      <3> QED BY <1>3, <3>1, <3>2 DEF SeesData, Sees
    <2>2. /\ read_byte(eng.active)' = read_byte(eng.active)
          /\ s_response_ready' = s_response_ready
      BY <2>1, SameByte, Zenon
    <2> QED BY <2>1, <2>2 DEF Output
  <1>4. CASE SeesRise
    BY <1>4, OutputRise, Zenon
  <1>5. CASE SeesFall
    BY <1>5, OutputFall, Zenon
  <1> QED BY <1>1, <1>2, <1>3, <1>4, <1>5, Zenon DEF Slave, Iteration

-----------------------------------------------------------------------------
(* Bytes that are counted *)

\* What is moved, state by state.
LEMMA MovedIn ==
    ASSUME NEW e, NEW n \in Nat
    PROVE  /\ e.state = "address_ack" => MovedBy(e, n) = 0
           /\ e.state \in {"rx", "tx"} => MovedBy(e, n) = ByteOf(n) - 2
           /\ e.state = "rx_ack" /\ n % 9 = 0 => MovedBy(e, n) = ByteOf(n) - 2
           /\ e.state = "rx_ack" /\ n % 9 # 0 => MovedBy(e, n) = ByteOf(n) - 1
           /\ e.state = "tx_master_ack" /\ (n % 9 = 0 \/ e.ack_phase # 2) =>
                  MovedBy(e, n) = ByteOf(n) - 2
           /\ e.state = "tx_master_ack" /\ n % 9 # 0 /\ e.ack_phase = 2 =>
                  MovedBy(e, n) = ByteOf(n) - 1
           /\ ByteOf(n) \in Nat \ {0} /\ (n >= 9 => ByteOf(n) - 2 \in Nat)
           /\ n = 9 => ByteOf(n) - 2 = 0
  BY DEF MovedBy, ByteOf

\* The slave has sampled a slot: in the next it has moved as much.
LEMMA MovedNext ==
    ASSUME NEW n \in Nat, Sampled(n), eng.state \notin {"address", "ignore"}
    PROVE  /\ MovedBy(eng, n + 1) = MovedBy(eng, n)
           /\ eng.state = "rx" => ByteOf(n + 1) = ByteOf(n)
  <1>1. /\ n % 9 < 8 => ByteOf(n + 1) = ByteOf(n) /\ (n + 1) % 9 # 0
        /\ n % 9 = 8 => ByteOf(n + 1) = ByteOf(n) + 1 /\ (n + 1) % 9 = 0
    BY ByteSteps, Zenon
  <1>2. \/ eng.state = "address_ack"
        \/ eng.state \in {"rx", "tx"} /\ n % 9 < 7
        \/ eng.state = "rx_ack" /\ n % 9 \in {7, 8}
        \/ eng.state = "tx_master_ack" /\ n % 9 = 7 /\ eng.ack_phase = 0
        \/ eng.state = "tx_master_ack" /\ n % 9 = 8 /\ eng.ack_phase = 2
    BY DEF Sampled
  <1>3. ByteOf(n) \in Nat
    BY MovedIn
  <1>4. CASE eng.state = "address_ack"
    BY <1>4, MovedIn
  <1>5. CASE eng.state \in {"rx", "tx"} /\ n % 9 < 7
    <2>1. ByteOf(n + 1) = ByteOf(n)
      BY <1>1, <1>5, SMT
    <2>2. MovedBy(eng, n) = ByteOf(n) - 2 /\ MovedBy(eng, n + 1) = ByteOf(n + 1) - 2
      BY <1>5, MovedIn
    <2> QED BY <2>1, <2>2
  <1>6. CASE eng.state = "rx_ack" /\ n % 9 \in {7, 8}
    <2>1. MovedBy(eng, n) = ByteOf(n) - 1
      BY <1>6, MovedIn
    <2>2. MovedBy(eng, n + 1) = ByteOf(n + 1) - (IF (n + 1) % 9 = 0 THEN 2 ELSE 1)
      BY <1>6, MovedIn
    <2> QED BY <1>1, <1>3, <1>6, <2>1, <2>2
  <1>7. CASE eng.state = "tx_master_ack" /\ n % 9 = 7 /\ eng.ack_phase = 0
    <2>1. ByteOf(n + 1) = ByteOf(n)
      BY <1>1, <1>7, SMT
    <2>2. MovedBy(eng, n) = ByteOf(n) - 2 /\ MovedBy(eng, n + 1) = ByteOf(n + 1) - 2
      BY <1>7, MovedIn
    <2> QED BY <1>7, <2>1, <2>2
  <1>8. CASE eng.state = "tx_master_ack" /\ n % 9 = 8 /\ eng.ack_phase = 2
    <2>1. MovedBy(eng, n) = ByteOf(n) - 1
      BY <1>8, MovedIn
    <2>2. MovedBy(eng, n + 1) = ByteOf(n + 1) - 2
      BY <1>1, <1>8, MovedIn
    <2> QED BY <1>1, <1>3, <1>8, <2>1, <2>2
  <1> QED BY <1>2, <1>4, <1>5, <1>6, <1>7, <1>8

\* A device that is not touched has moved as much as it had.
LEMMA CountsFrame ==
    ASSUME NEW k, Counts(k), Moved' = k, UNCHANGED << deviceVars, script, at >>,
           eng'.active = eng.active, eng'.read = eng.read
    PROVE  Counts(Moved)'
  BY DEF Counts, Least, Transfer, deviceVars, ddcVars, packetVars, eepromVars

\* The master reads the next byte.
LEMMA CountsRead ==
    ASSUME DevicesOK, at \in 0..255 \cup {Unknown}, NEW k \in Nat, Counts(k), Moved' = k + 1,
           UNCHANGED << script, at >>, eng'.active = eng.active, eng'.read = eng.read,
           eng.read, read_advance(eng.active)
    PROVE  Counts(Moved)'
  <1>1. DDCCI_I2C_ADDRESS # EDID_EEPROM_I2C_ADDRESS
    BY AddressFacts, SMT
  <1>2. PICK n \in Nat : n = Len(s_tx)
    BY DEF DevicesOK, PacketTypeOK
  <1>3. CASE eng.active = DDCCI_I2C_ADDRESS /\ ddcci_read_advance
    <2>1. s_tx_index = Least(k, n) /\ s_tx' = s_tx
          /\ s_tx_index' = IF s_tx_index < n THEN s_tx_index + 1 ELSE s_tx_index
      BY <1>2, <1>3 DEF Counts, ddcci_read_advance
    <2>2. s_tx_index' = Least(k + 1, n)
      BY <1>2, <2>1, SMT DEF Least
    <2>3. s_tx_index' = Least(Moved, Len(s_tx))'
      BY <1>2, <2>1, <2>2 DEF Least
    <2> QED BY <1>1, <1>3, <2>3 DEF Counts
  <1>4. CASE eng.active = EDID_EEPROM_I2C_ADDRESS /\ eeprom_read_advance
    <2>1. s_pointer' = (s_pointer + 1) % 256
      BY <1>4 DEF eeprom_read_advance
    <2>2. at = Unknown \/ (at \in 0..255 /\ s_pointer = (at + k) % 256)
      BY <1>4 DEF Counts
    <2>3. at = Unknown \/ s_pointer' = (at + (k + 1)) % 256
      BY <2>1, <2>2, SMT
    <2> QED BY <1>1, <1>4, <2>3 DEF Counts
  <1> QED BY <1>3, <1>4 DEF read_advance, DdcIs, EepromIs

\* The master writes the next byte.
LEMMA CountsWrite ==
    ASSUME DevicesOK, NEW k \in Nat, Counts(k), Moved' = k + 1,
           UNCHANGED << script, at >>, eng'.active = eng.active, eng'.read = eng.read,
           ~eng.read, NEW b \in Byte, write_byte(eng.active, b),
           Transfer.bytes[2] \in Byte, k = 0 => b = Transfer.bytes[2]
    PROVE  Counts(Moved)'
  <1>1. DDCCI_I2C_ADDRESS # EDID_EEPROM_I2C_ADDRESS
    BY AddressFacts, SMT
  <1>2. Transfer' = Transfer
    BY DEF Transfer
  <1>3. CASE eng.active = DDCCI_I2C_ADDRESS
    BY <1>1, <1>3 DEF Counts
  <1>4. CASE eng.active = EDID_EEPROM_I2C_ADDRESS /\ eeprom_write_byte(b)
    <2>1. PICK c \in Byte : c = Transfer.bytes[2]
      OBVIOUS
    <2>2. ~s_expect_pointer' /\ s_pointer' = IF s_expect_pointer THEN b ELSE (s_pointer + 1) % 256
      BY <1>4 DEF eeprom_write_byte
    <2>3. IF k = 0 THEN s_expect_pointer
          ELSE ~s_expect_pointer /\ s_pointer = (c + k - 1) % 256
      BY <1>4, <2>1 DEF Counts
    <2>4. s_pointer' = (c + (k + 1) - 1) % 256
      <3>1. CASE k = 0
        <4>1. s_pointer' = c
          BY <2>1, <2>2, <2>3, <3>1
        <4> QED BY <3>1, <4>1, SMT DEF Byte
      <3>2. CASE k # 0
        <4>1. s_pointer' = (s_pointer + 1) % 256 /\ s_pointer = (c + k - 1) % 256
          BY <2>2, <2>3, <3>2
        <4> QED BY <3>2, <4>1, SMT DEF Byte
      <3> QED BY <3>1, <3>2
    <2>5. k + 1 # 0
      BY SMT
    <2> QED BY <1>1, <1>2, <1>4, <2>1, <2>2, <2>4, <2>5 DEF Counts
  <1> QED BY <1>3, <1>4 DEF write_byte, DdcIs, EepromIs

\* A transfer begins, with nothing moved.
LEMMA CountsBegin ==
    ASSUME PacketTypeOK, at \in 0..255 \cup {Unknown}, at = Unknown \/ s_pointer = at,
           Moved' = 0, at' = at, begin(eng'.active, eng'.read), eng'.read \in BOOLEAN
    PROVE  Counts(Moved)'
  <1>1. DDCCI_I2C_ADDRESS # EDID_EEPROM_I2C_ADDRESS /\ DDCCI_I2C_ADDRESS # NoDevice
        /\ EDID_EEPROM_I2C_ADDRESS # NoDevice
    BY AddressFacts, SMT
  <1>2. CASE eng'.active = DDCCI_I2C_ADDRESS /\ ddcci_begin(eng'.read)
    <2>1. eng'.read => s_tx_index' = 0 /\ Len(s_tx)' \in Nat
      BY <1>2, NullTyped DEF ddcci_begin, Respond, PacketTypeOK
    <2>2. Len(s_tx)' \in Nat => Least(0, Len(s_tx)') = 0
      BY SMT DEF Least
    <2>3. eng'.read => s_tx_index' = Least(Moved, Len(s_tx))'
      BY <2>1, <2>2 DEF Least
    <2> QED BY <1>1, <1>2, <2>3 DEF Counts
  <1>3. CASE eng'.active = EDID_EEPROM_I2C_ADDRESS /\ eeprom_begin(eng'.read)
    <2>1. s_pointer' = s_pointer /\ (~eng'.read => s_expect_pointer')
      BY <1>3 DEF eeprom_begin
    <2>2. at = Unknown \/ s_pointer = (at + 0) % 256
      BY SMT
    <2> QED BY <1>1, <1>3, <2>1, <2>2 DEF Counts
  <1>4. CASE eng'.active = NoDevice
    BY <1>1, <1>4 DEF Counts
  <1> QED BY <1>2, <1>3, <1>4 DEF begin, DdcIs, EepromIs, NobodyIs


\* The master goes from slot to slot, and the devices keep their counts.
LEMMA ServingHost ==
    ASSUME IInv, Following, Serving, Host, Following'
    PROVE  Serving'
  <1>0. eng' = eng /\ pc' = pc /\ UNCHANGED deviceVars
    BY HostFrame, Zenon
  <1>1. ~InBytes' => Serving'
    BY DEF Serving
  <1>2. CASE HostStarts \/ HostGoesOn \/ HostCloses \/ HostCloseRise \/ HostRestarts
             \/ HostStops \/ Vanish \/ LineDrops \/ LineRises
    <2>1. phase' \notin {"low", "set", "high"}
      BY <1>2 DEF HostStarts, HostGoesOn, HostCloses, HostCloseRise, HostRestarts, HostStops,
         Vanish, LineDrops, LineRises
    <2> QED BY <1>1, <2>1 DEF InBytes
  <1>3. CASE HostClocksStart
    <2>1. phase = "started" /\ phase' = "low" /\ slot' = slot
      BY <1>3, Zenon DEF HostClocksStart
    <2>2. slot' = 0
      BY <2>1 DEF Following, LinesInv
    <2>3. pc' = "poll" => eng'.state = "address"
      <3>1. SUFFICES ASSUME pc' = "poll" PROVE eng'.state = "address"
        OBVIOUS
      <3>2. Listening(slot)'
        BY <2>1, <2>2, <3>1, SMT DEF Following, InStep, Before
      <3> QED BY <2>2, <3>2 DEF Listening
    <2> QED BY <2>3 DEF Serving
  <1>4. CASE HostData \/ HostRise
    <2>1. InBytes /\ UNCHANGED << script, slot, at >>
      BY <1>4, Zenon DEF HostData, HostRise, historyVars, InBytes
    <2>2. PICK k : k = Moved
      OBVIOUS
    <2>3. Moved' = k
      BY <1>0, <2>1, <2>2 DEF Moved, MovedBy, ByteOf
    <2>4. eng'.active = eng.active /\ eng'.read = eng.read
      BY <1>0
    <2>5. Counts(k) => Counts(Moved)'
      BY <1>0, <2>1, <2>3, <2>4, CountsFrame, Zenon
    <2>6. ByteOf(slot)' = ByteOf(slot) /\ Transfer' = Transfer
      BY <2>1 DEF ByteOf, Transfer
    <2> QED BY <1>0, <2>1, <2>2, <2>5, <2>6 DEF Serving, High
  <1>5. CASE HostFall
    <2>1. /\ phase = "high" /\ MasterMoves /\ script' = script
          /\ IF nack \/ slot = Slots - 1 THEN phase' = "closing"
             ELSE phase' = "low" /\ slot' = slot + 1 /\ at' = at
      BY <1>5, Zenon DEF HostFall
    <2>2. CASE phase' = "closing"
      BY <1>1, <2>2 DEF InBytes
    <2>3. CASE phase' # "closing" /\ pc = "poll" /\ eng.state \notin {"address", "ignore"}
      <3>1. slot' = slot + 1 /\ at' = at /\ slot \in Nat /\ InBytes
        BY <2>1, <2>3, SlotKinds DEF IInv, Playing, InBytes
      <3>2. previous[2] = 1
        BY <2>1, <2>3, MovesInPoll DEF Following, LinesInv
      <3>3. Sampled(slot)
        BY <2>1, <2>3, <3>2 DEF Following, InStep, During
      <3>4. /\ MovedBy(eng, slot + 1) = MovedBy(eng, slot)
            /\ eng.state = "rx" => ByteOf(slot + 1) = ByteOf(slot)
        BY <2>3, <3>1, <3>3, MovedNext, Zenon
      <3>5. PICK k : k = Moved
        OBVIOUS
      <3>6. Moved' = k
        BY <1>0, <3>1, <3>4, <3>5, Zenon DEF Moved
      <3>7. eng'.active = eng.active /\ eng'.read = eng.read
        BY <1>0
      <3>8. Counts(Moved)'
        <4>1. Counts(k)
          BY <2>3, <3>1, <3>5, Zenon DEF Serving
        <4> QED BY <1>0, <2>1, <3>1, <3>6, <3>7, <4>1, CountsFrame, Zenon
      <3>9. Transfer' = Transfer /\ (eng.state = "rx" => ByteOf(slot)' = ByteOf(slot))
        BY <2>1, <3>1, <3>4 DEF ByteOf, Transfer
      <3> QED BY <1>0, <2>3, <3>1, <3>8, <3>9 DEF Serving, High
    <2>4. CASE pc # "poll" \/ eng.state \in {"address", "ignore"}
      BY <1>0, <2>4 DEF Serving
    <2> QED BY <2>2, <2>3, <2>4
  <1> QED BY <1>2, <1>3, <1>4, <1>5, Zenon DEF Host

\* A clock falls, and nothing is moved.
LEMMA ServingFall ==
    ASSUME IInv, Following, HInv, Serving, SeesFall, InBytes, UNCHANGED << script, slot, at >>
    PROVE  Serving'
  <1>0. /\ phase \in {"low", "set"} /\ pc = "poll" /\ Fall /\ UNCHANGED deviceVars
        /\ Playing /\ ScriptInv /\ slot \in Nat /\ eng \in Locals
        /\ \/ slot = 0 /\ eng.state = "address"
           \/ slot > 0 /\ Sampled(slot - 1)
    BY FallWhen, SlaveParts, Zenon
  <1>1. /\ eng'.active = eng.active /\ eng'.read = eng.read
        /\ \/ eng' = eng
           \/ eng'.state = eng.state /\ eng.state \in {"address_ack", "rx_ack"}
              /\ eng'.ack_phase = 1
           \/ eng'.state \in {"tx", "tx_master_ack", "ignore"}
           \/ /\ eng'.state = "rx" /\ eng'.bits = 0 /\ eng'.shift = 0
              /\ eng.ack_phase = 2
              /\ \/ eng.state = "address_ack" /\ ~eng.read
                 \/ eng.state = "rx_ack" /\ eng.rx_ack
    BY <1>0, FallMore, Zenon
  <1>2. Transfer' = Transfer /\ ByteOf(slot)' = ByteOf(slot)
    BY DEF Transfer, ByteOf
  <1>3. CASE slot = 0 /\ eng.state = "address"
    <2>1. eng' = eng
      BY <1>0, <1>3, FallFields
    <2> QED BY <1>3, <2>1 DEF Serving
  <1>4. CASE eng.state = "ignore"
    <2>1. eng' = eng
      BY <1>0, <1>4, FallFields
    <2> QED BY <1>4, <2>1 DEF Serving
  <1>5. CASE eng.state \in {"address", "address_ack", "rx", "rx_ack", "tx", "tx_master_ack"}
             /\ slot > 0 /\ Sampled(slot - 1)
    <2>1. CASE eng.state = "address"
      <3>1. eng' = eng
        BY <1>0, <2>1, FallFields
      <3> QED BY <2>1, <3>1 DEF Serving
    <2>2. CASE eng.state # "address"
      <3>0. eng.state \notin {"address", "ignore"} /\ slot - 1 \in Nat /\ (slot - 1) + 1 = slot
        BY <1>0, <1>5, <2>2
      <3>1. PICK k : k = Moved
        OBVIOUS
      <3>2. Counts(k) /\ (eng.state = "rx" =>
                eng.shift = High(Transfer.bytes[ByteOf(slot)], eng.bits))
        BY <1>0, <3>0, <3>1, Zenon DEF Serving
      <3>3. Moved' = k => Counts(Moved)'
        BY <1>0, <1>1, <3>2, CountsFrame, Zenon
      <3>4. /\ \/ eng.state = "address_ack" /\ eng.ack_phase = 0 /\ slot = 8
               \/ eng.state = "address_ack" /\ eng.ack_phase = 2 /\ slot = 9 /\ eng.read = Reading
               \/ eng.state = "rx"
               \/ eng.state = "rx_ack" /\ eng.ack_phase = 0 /\ slot % 9 # 0
               \/ eng.state = "rx_ack" /\ eng.ack_phase = 2 /\ slot % 9 = 0 /\ ~Reading
               \/ eng.state = "tx"
               \/ eng.state = "tx_master_ack" /\ eng.ack_phase = 0 /\ slot % 9 # 0
               \/ eng.state = "tx_master_ack" /\ eng.ack_phase = 2 /\ slot % 9 = 0
        <4>1. /\ slot - 1 = 7 => slot = 8
              /\ slot - 1 = 8 => slot = 9
              /\ (slot - 1) % 9 = 7 => slot % 9 # 0
              /\ (slot - 1) % 9 = 8 => slot % 9 = 0
          BY <1>0, SMT
        <4>2. Sampled(slot - 1) /\ eng.state \notin {"address", "ignore"}
          BY <1>5, <3>0
        <4> HIDE DEF Reading
        <4> QED BY <4>1, <4>2 DEF Sampled
      <3>5. CASE eng.state \in {"rx", "tx"}
        <4>1. eng' = eng
          BY <1>0, <3>5, FallFields
        <4>2. Moved' = k
          BY <3>1, <4>1 DEF Moved, MovedBy, ByteOf
        <4> QED BY <1>0, <1>2, <3>2, <3>3, <4>1, <4>2 DEF Serving, High
      <3>6. CASE eng.state = "address_ack" /\ eng.ack_phase = 0 /\ slot = 8
        <4>1. eng'.state = "address_ack"
          BY <1>0, <3>6, FallFields
        <4>2. Moved' = k
          BY <1>0, <3>1, <3>6, <4>1, MovedIn DEF Moved
        <4> QED BY <3>3, <4>1, <4>2 DEF Serving
      <3>7. CASE eng.state = "rx_ack" /\ eng.ack_phase = 0 /\ slot % 9 # 0
        <4>1. eng'.state = "rx_ack"
          BY <1>0, <3>7, FallFields
        <4>2. Moved' = k
          BY <1>0, <3>1, <3>7, <4>1, MovedIn DEF Moved
        <4> QED BY <3>3, <4>1, <4>2 DEF Serving
      <3>8. CASE eng.state = "tx_master_ack" /\ eng.ack_phase = 0 /\ slot % 9 # 0
        <4>1. eng'.state = "tx_master_ack" /\ eng'.ack_phase = 1
          BY <1>0, <3>8, FallFields
        <4>2. Moved' = k
          BY <1>0, <3>1, <3>8, <4>1, MovedIn DEF Moved
        <4> QED BY <3>3, <4>1, <4>2 DEF Serving
      <3>9. CASE \/ eng.state = "address_ack" /\ eng.ack_phase = 2 /\ slot = 9 /\ eng.read = Reading
                 \/ eng.state = "rx_ack" /\ eng.ack_phase = 2 /\ slot % 9 = 0 /\ ~Reading
                 \/ eng.state = "tx_master_ack" /\ eng.ack_phase = 2 /\ slot % 9 = 0
        <4>1. eng'.state \in {"tx", "rx", "ignore"}
          BY <1>0, <3>9, FallFields
        <4>2. k = ByteOf(slot) - 2
          BY <1>0, <3>1, <3>9, MovedIn DEF Moved
        <4>3. eng'.state # "ignore" => Moved' = k
          BY <1>0, <4>1, <4>2, MovedIn DEF Moved
        <4>4. eng'.state = "rx" =>
                  eng'.shift = High(Transfer.bytes[ByteOf(slot)], eng'.bits)
          <5>1. SUFFICES ASSUME eng'.state = "rx"
                PROVE eng'.shift = High(Transfer.bytes[ByteOf(slot)], eng'.bits)
            OBVIOUS
          <5>2. eng'.bits = 0 /\ eng'.shift = 0 /\ ~Reading
            BY <1>1, <3>9, <5>1
          <5>3. Transfer.bytes[ByteOf(slot)] \in Byte
            BY <1>0, <5>2, WriteSlots, Zenon
          <5> QED BY <5>2, <5>3, BitsOf
        <4> QED BY <1>2, <3>3, <4>1, <4>3, <4>4 DEF Serving, High
      <3> QED BY <3>4, <3>5, <3>6, <3>7, <3>8, <3>9, Zenon
    <2> QED BY <2>1, <2>2
  <1>6. eng.state \in States
    BY <1>0 DEF Locals
  <1> QED BY <1>0, <1>3, <1>4, <1>5, <1>6 DEF States


\* The clock rises on a byte that comes in.
LEMMA ServingReceives ==
    ASSUME IInv, Following, HInv, Serving, SeesRise, phase = "high", Listening(slot),
           eng.state = "rx", UNCHANGED << script, slot, at >>
    PROVE  Serving'
  <1>0. /\ Playing /\ ScriptInv /\ slot \in Nat /\ eng \in Locals /\ BitsInv /\ DevicesOK
        /\ Sda \in {0, 1} /\ pc = "poll" /\ Rise(Sda) /\ InBytes /\ EngineTypeOK
    <2>1. Playing /\ InBytes
      BY DEF Playing, InBytes
    <2>2. ScriptInv
      BY Zenon DEF IInv
    <2> QED BY <2>1, <2>2, SlotKinds, SlaveParts, RiseWhen, Zenon
  <1>1. slot >= 9 /\ ~Reading /\ slot % 9 < 8 /\ eng.bits = slot % 9 /\ latch = 1
    BY Zenon DEF Listening
  <1>2. /\ ~IsRead(slot) /\ Transfer.bytes[ByteOf(slot)] \in Byte
        /\ ByteOf(slot) \in Nat /\ ByteOf(slot) <= Len(Transfer.bytes)
    BY <1>0, <1>1, WriteSlots, Zenon
  <1>3. Transfer' = Transfer /\ ByteOf(slot)' = ByteOf(slot)
    BY DEF Transfer, ByteOf
  <1>4. PICK b \in Byte : b = Transfer.bytes[ByteOf(slot)]
    BY <1>2
  <1>5. Sda = Bit(b, 7 - (slot % 9))
    <2>1. Sda = sda
      BY <1>0, <1>1, WireFacts, Zenon
    <2>2. sda = MasterBit(slot)
      BY DEF Following, LinesInv
    <2>3. ~IsAck(slot)
      BY <1>0, <1>1, SMT DEF IsAck
    <2> QED BY <1>2, <1>4, <2>1, <2>2, <2>3, Zenon DEF MasterBit
  <1>6. PICK k : k = Moved
    OBVIOUS
  <1>7. Counts(k) /\ eng.shift = High(b, eng.bits)
    BY <1>0, <1>4, <1>6, Zenon DEF Serving
  <1>8. PICK y : y = (2 * eng.shift + Sda) % 256
    OBVIOUS
  <1>9. y = High(b, eng.bits + 1)
    <2>1. y = (2 * High(b, eng.bits) + Bit(b, 7 - eng.bits)) % 256
      BY <1>1, <1>5, <1>7, <1>8
    <2>2. eng.bits \in 0..7
      BY <1>0, <1>1, SMT
    <2> QED BY <2>1, <2>2, NextBit
  <1>10. /\ eng'.active = eng.active /\ eng'.read = eng.read
         /\ eng.bits < 7 => /\ eng'.state = "rx" /\ eng'.shift = y
                            /\ eng'.bits = eng.bits + 1
                            /\ UNCHANGED deviceVars
         /\ ~(eng.bits < 7) => /\ eng.bits = 7 /\ eng'.state = "rx_ack"
                               /\ write_byte(eng.active, y)
    BY <1>0, <1>8, RiseOfByte, Zenon
  <1>11. CASE eng.bits < 7
    <2>1. Moved' = k
      BY <1>0, <1>6, <1>10, <1>11, MovedIn DEF Moved
    <2>2. Counts(Moved)'
      BY <1>7, <1>10, <1>11, <2>1, CountsFrame, Zenon
    <2>3. eng'.shift = High(Transfer.bytes[ByteOf(slot)], eng'.bits)
      BY <1>4, <1>9, <1>10, <1>11
    <2> QED BY <1>3, <2>2, <2>3 DEF Serving, High
  <1>12. CASE ~(eng.bits < 7)
    <2>1. eng.bits = 7 /\ eng'.state = "rx_ack" /\ write_byte(eng.active, y)
      BY <1>10, <1>12
    <2>2. y = b
      BY <1>9, <2>1, BitsOf
    <2>3. k \in Nat /\ k = ByteOf(slot) - 2
      BY <1>0, <1>1, <1>6, MovedIn DEF Moved
    <2>4. Moved' = k + 1
      <3>1. slot % 9 # 0
        BY <1>1, <2>1
      <3>2. Moved' = ByteOf(slot) - 1
        BY <1>0, <2>1, <3>1, MovedIn DEF Moved
      <3> QED BY <1>2, <2>3, <3>2
    <2>5. k = 0 => b = Transfer.bytes[2]
      BY <1>2, <1>4, <2>3
    <2>6. Transfer.bytes[2] \in Byte
      <3>1. 2 \in 1..Len(Transfer.bytes)
        BY <1>0, <1>2, <2>3, FirstByte
      <3>2. Transfer.bytes \in Seq(Byte)
        BY <1>0, SlotFacts, Zenon DEF ScriptInv
      <3> QED BY <3>1, <3>2, ElementTyped, Zenon
    <2>7. ~eng.read
      BY Zenon DEF HInv, Directions
    <2>8. Counts(Moved)'
      BY <1>0, <1>7, <1>10, <2>1, <2>2, <2>3, <2>4, <2>5, <2>6, <2>7, CountsWrite
    <2> QED BY <2>1, <2>8 DEF Serving
  <1> QED BY <1>11, <1>12

\* The clock rises on the last bit of an address.
LEMMA ServingBegins ==
    ASSUME IInv, HInv, Pointing, SeesRise, phase = "high", Listening(slot), Rise(Sda),
           eng.state = "address", UNCHANGED << script, slot, at >>
    PROVE  Serving'
  <1>0. /\ Playing /\ ScriptInv /\ slot \in Nat /\ eng \in Locals /\ BitsInv
        /\ Sda \in {0, 1} /\ PacketTypeOK /\ at \in 0..255 \cup {Unknown}
    <2>1. Playing
      BY DEF Playing
    <2>2. ScriptInv /\ PacketTypeOK /\ at \in 0..255 \cup {Unknown}
      BY Zenon DEF IInv, BusTypeOK
    <2> QED BY <2>1, <2>2, SlotKinds, SlaveParts, Zenon
  <1>1. ~(slot >= 9)
    <2>1. slot < 8
      BY Zenon DEF Listening
    <2> QED BY <1>0, <2>1, SMT
  <1>2. /\ eng.bits < 7 => eng'.state = "address"
        /\ ~(eng.bits < 7) => /\ eng'.state = "address_ack" /\ eng'.read \in BOOLEAN
                              /\ begin(eng'.active, eng'.read)
    BY <1>0, RiseOfAddress
  <1>3. CASE eng.bits < 7
    BY <1>2, <1>3 DEF Serving
  <1>4. CASE ~(eng.bits < 7)
    <2>1. Moved' = 0
      BY <1>0, <1>2, <1>4, MovedIn DEF Moved
    <2>2. at = Unknown \/ s_pointer = at
      BY <1>1, Zenon DEF Pointing
    <2>3. Counts(Moved)'
      BY <1>0, <1>2, <1>4, <2>1, <2>2, CountsBegin
    <2> QED BY <1>2, <1>4, <2>3 DEF Serving
  <1> QED BY <1>3, <1>4

\* A clock rises, and at the end of a byte one more is moved.
LEMMA ServingRise ==
    ASSUME IInv, Following, HInv, RInv, SeesRise, InBytes, UNCHANGED << script, slot, at >>
    PROVE  Serving'
  <1>0. /\ phase = "high" /\ Listening(slot) /\ pc = "poll" /\ Rise(Sda)
        /\ Playing /\ ScriptInv /\ slot \in Nat /\ eng \in Locals /\ BitsInv /\ DevicesOK
        /\ Sda \in {0, 1} /\ at \in 0..255 \cup {Unknown}
        /\ Serving /\ Pointing /\ Output
    <2>1. phase = "high" /\ Listening(slot)
      BY RiseWhen DEF InBytes
    <2>2. ScriptInv /\ at \in 0..255 \cup {Unknown}
      BY Zenon DEF IInv, BusTypeOK
    <2>3. Serving /\ Pointing /\ Output
      BY Zenon DEF RInv
    <2> QED BY <2>1, <2>2, <2>3, PhaseFacts, SlotKinds, SlaveParts, RiseWhen, Zenon
  <1>1. CASE eng.state = "address"
    BY <1>0, <1>1, ServingBegins, Zenon
  <1>2. CASE eng.state = "rx"
    BY <1>0, <1>2, ServingReceives, Zenon
  <1>3. CASE eng.state = "ignore"
    <2>1. eng'.state = "ignore"
      BY <1>0, <1>3, RiseStays, Zenon
    <2> QED BY <2>1 DEF Serving
  <1>4. CASE eng.state \in {"address_ack", "rx_ack", "tx", "tx_master_ack"}
    <2>0. PICK k : k = Moved
      OBVIOUS
    <2>1. Counts(k) /\ eng'.active = eng.active /\ eng'.read = eng.read
      <3>1. Counts(k)
        BY <1>0, <1>4, <2>0 DEF Serving
      <3>2. eng.state \notin {"address", "rx"}
        BY <1>4
      <3> QED BY <1>0, <3>1, <3>2, RiseOther, Zenon
    <2>2. UNCHANGED deviceVars /\ Moved' = k => Counts(Moved)'
      BY <2>1, CountsFrame, Zenon
    <2>3. CASE eng.state = "address_ack"
      <3>1. eng'.state = "address_ack" /\ UNCHANGED deviceVars
        BY <1>0, <2>3, RiseStays, Zenon
      <3>2. Moved' = k
        BY <1>0, <2>0, <2>3, <3>1, MovedIn DEF Moved
      <3> QED BY <2>2, <3>1, <3>2 DEF Serving
    <2>4. CASE eng.state = "rx_ack"
      <3>1. eng'.state = "rx_ack" /\ UNCHANGED deviceVars
        BY <1>0, <2>4, RiseStays, Zenon
      <3>2. slot % 9 # 0
        BY <1>0, <2>4 DEF Listening
      <3>3. Moved' = k
        BY <1>0, <2>0, <2>4, <3>1, <3>2, MovedIn DEF Moved
      <3> QED BY <2>2, <3>1, <3>3 DEF Serving
    <2>5. CASE eng.state = "tx"
      <3>1. /\ UNCHANGED deviceVars
            /\ eng'.state = "tx" \/ (eng'.state = "tx_master_ack" /\ eng'.ack_phase = 0)
        BY <1>0, <2>5, RiseSends, Zenon
      <3>2. Moved' = k
        BY <1>0, <2>0, <2>5, <3>1, MovedIn DEF Moved
      <3> QED BY <2>2, <3>1, <3>2 DEF Serving
    <2>6. CASE eng.state = "tx_master_ack"
      <3>1. eng.ack_phase = 1 /\ slot % 9 # 0 /\ slot >= 9
        BY <1>0, <2>6 DEF Listening
      <3>2. eng'.state = "tx_master_ack" /\ eng'.ack_phase = 2 /\ read_advance(eng.active)
        BY <1>0, <2>6, <3>1, RiseSends, Zenon
      <3>3. k \in Nat /\ Moved' = k + 1
        BY <1>0, <2>0, <2>6, <3>1, <3>2, MovedIn DEF Moved
      <3>4. eng.read
        BY <1>0, <2>6 DEF Output
      <3>5. Counts(Moved)'
        BY <1>0, <2>1, <3>2, <3>3, <3>4, CountsRead, Zenon
      <3> QED BY <3>2, <3>5 DEF Serving
    <2> QED BY <1>4, <2>3, <2>4, <2>5, <2>6
  <1>5. eng.state \in States
    BY <1>0 DEF Locals
  <1> QED BY <1>1, <1>2, <1>3, <1>4, <1>5 DEF States

\* The devices keep their counts as the slave's loop goes round.
LEMMA ServingSlave ==
    ASSUME IInv, Following, HInv, RInv, Slave
    PROVE  Serving'
  <1>0. /\ UNCHANGED << script, slot, nack, phase >> /\ at' = at /\ Serving
        /\ (InBytes' <=> InBytes)
    <2>1. UNCHANGED << script, slot, nack, phase >>
      BY SlaveFrame, Zenon
    <2>2. at' = at
      BY Zenon DEF Slave, Unnoticed, SlaveGivesUp, historyVars
    <2> QED BY <2>1, <2>2, Zenon DEF RInv, InBytes
  <1>1. SUFFICES ASSUME InBytes, pc' = "poll" PROVE Serving'
    BY <1>0, Zenon DEF Serving
  <1>2. ~SeesRepeatedStart /\ ~SeesStop /\ ~Start /\ ~SlaveGivesUp /\ ~Finish
    <2>1. ~SlaveGivesUp /\ ~Finish
      BY <1>1 DEF SlaveGivesUp, Timeout, Finish
    <2>2. ~Start
      BY <1>1, InsideBytes
    <2> QED BY <1>1, <2>1, <2>2, InsideBytes, Zenon
  <1>3. CASE Resample
    <2>1. eng' = eng /\ slot = 0 /\ Listening(0)
      BY <1>1, <1>3, InsideBytes, Zenon DEF Resample
    <2>2. eng.state = "address"
      BY <2>1 DEF Listening
    <2> QED BY <2>1, <2>2 DEF Serving
  <1>4. CASE SeesData
    <2>1. eng' = eng /\ pc = "poll" /\ UNCHANGED deviceVars
      BY <1>4, Zenon DEF SeesData, Sees
    <2>2. PICK k : k = Moved
      OBVIOUS
    <2>3. Moved' = k /\ eng'.active = eng.active /\ eng'.read = eng.read
      BY <1>0, <2>1, <2>2 DEF Moved, MovedBy, ByteOf
    <2>4. Counts(k) => Counts(Moved)'
      BY <1>0, <2>1, <2>3, CountsFrame, Zenon
    <2>5. ByteOf(slot)' = ByteOf(slot) /\ Transfer' = Transfer
      BY <1>0 DEF ByteOf, Transfer
    <2> QED BY <1>0, <1>1, <2>1, <2>2, <2>4, <2>5 DEF Serving, High
  <1>5. CASE SeesRise
    BY <1>0, <1>1, <1>5, ServingRise, Zenon
  <1>6. CASE SeesFall
    BY <1>0, <1>1, <1>6, ServingFall, Zenon
  <1> QED BY <1>2, <1>3, <1>4, <1>5, <1>6, Zenon DEF Slave, Iteration


-----------------------------------------------------------------------------
(* The EDID pointer *)

\* A whole transfer with the EEPROM leaves the pointer where the master takes it
\* to be.
LEMMA PointerArrives ==
    ASSUME IInv, Following, HInv, RInv, HostFall, Transfer.to = EDID_EEPROM_I2C_ADDRESS,
           ~nack, ~cut, slot = Slots - 1, slot >= 9
    PROVE  PointerKnown = Unknown \/ s_pointer = PointerKnown
  <1>0. phase = "high" /\ MasterMoves /\ Playing /\ ScriptInv /\ InBytes
    BY Zenon DEF HostFall, IInv, Playing, InBytes, Phases
  <1>1. PICK n \in Nat, r \in Nat :
            n = Len(Transfer.bytes) /\ r = Transfer.reads /\ n >= 1 /\ (r > 0 => n = 1)
    BY <1>0, FirstByte, TransferFacts
  <1>2. slot \in Nat /\ slot = 9 * (n + r) - 1
    BY <1>0, <1>1, SlotKinds DEF Slots
  <1>3. slot % 9 = 8 /\ ByteOf(slot) = n + r /\ slot % 9 # 0 /\ ~(slot < 8) /\ slot # 8
        /\ ~(slot % 9 < 8) /\ n + r >= 2
    <2>1. PICK k \in Nat : k = n + r
      BY SMT
    <2>2. slot = 9 * k - 1 /\ slot >= 9
      BY <1>2, <2>1
    <2>3. slot % 9 = 8 /\ slot \div 9 + 1 = k /\ k >= 2
      BY <2>1, <2>2, SMT
    <2> QED BY <1>2, <2>1, <2>3 DEF ByteOf
  <1>4. pc = "poll" /\ eng.state # "ignore" /\ Content
    <2>1. pc = "poll"
      BY <1>0, Zenon DEF RInv, Heard, Taken
    <2> QED BY <1>0, <2>1 DEF RInv, Heard, HInv, Hears
  <1>5. Sampled(slot)
    <2>1. previous[2] = 1
      BY <1>0, <1>4, MovesInPoll DEF Following, LinesInv
    <2> QED BY <1>0, <1>4, <2>1 DEF Following, InStep, During
  <1>6. \/ eng.state = "rx_ack" /\ ~Reading
        \/ eng.state = "tx_master_ack" /\ Reading /\ eng.ack_phase = 2
    <2>1. slot % 9 # 7 /\ ~(slot % 9 < 7) /\ ~(slot < 7) /\ slot # 7
      BY <1>2, <1>3, SMT
    <2> HIDE DEF Reading
    <2> QED BY <1>3, <1>4, <1>5, <2>1, Zenon DEF Sampled
  <1>7. Moved = n + r - 1
    <2>1. Moved = ByteOf(slot) - 1
      BY <1>2, <1>3, <1>6, MovedIn DEF Moved
    <2> QED BY <1>3, <2>1
  <1>8. eng.active = EDID_EEPROM_I2C_ADDRESS
    BY <1>4, <1>6 DEF Content, find_device
  <1>9. Counts(Moved)
    BY <1>0, <1>4, <1>6, Zenon DEF RInv, Serving
  <1>10. CASE eng.state = "tx_master_ack" /\ Reading
    <2>1. eng.read
      BY <1>4, <1>10, Zenon DEF RInv, Output
    <2>2. r > 0 /\ Moved = r
      <3>1. r > 0
        BY <1>1, <1>10 DEF Reading
      <3>2. n = 1
        BY <1>1, <3>1
      <3> QED BY <1>7, <3>1, <3>2, SMT
    <2>3. at = Unknown \/ s_pointer = (at + r) % 256
      BY <1>8, <1>9, <2>1, <2>2 DEF Counts
    <2> QED BY <1>1, <2>2, <2>3 DEF PointerKnown
  <1>11. CASE eng.state = "rx_ack" /\ ~Reading
    <2>1. ~eng.read
      BY <1>11, Zenon DEF HInv, Directions
    <2>2. r = 0 /\ n >= 2 /\ Moved = n - 1 /\ Moved # 0
      BY <1>1, <1>3, <1>7, <1>11 DEF Reading
    <2>3. s_pointer = (Transfer.bytes[2] + Moved - 1) % 256
      BY <1>8, <1>9, <2>1, <2>2 DEF Counts
    <2>4. Transfer.bytes[2] \in Byte
      <3>1. 2 \in 1..Len(Transfer.bytes)
        BY <1>1, <2>2
      <3>2. Transfer.bytes \in Seq(Byte)
        BY <1>0, FirstByte, TransferFacts, Zenon
      <3> QED BY <3>1, <3>2, ElementTyped, Zenon
    <2>5. s_pointer = (Transfer.bytes[2] + n - 2) % 256
      BY <2>2, <2>3, <2>4, SMT DEF Byte
    <2> QED BY <1>1, <2>2, <2>5 DEF PointerKnown
  <1> QED BY <1>6, <1>10, <1>11

\* The master knows where the pointer is, or that it does not.
LEMMA PointingHost ==
    ASSUME IInv, Following, HInv, RInv, Host
    PROVE  Pointing'
  <1>0. s_pointer' = s_pointer /\ Pointing
    BY HostFrame, Zenon DEF deviceVars, eepromVars, RInv
  <1>1. CASE HostStarts \/ HostGoesOn \/ HostClocksStart \/ HostCloses \/ HostCloseRise
             \/ HostRestarts \/ HostStops \/ LineDrops \/ LineRises
    <2>1. phase \notin {"low", "set", "high"} /\ at' = at
      BY <1>1 DEF HostStarts, HostGoesOn, HostClocksStart, HostCloses, HostCloseRise,
         HostRestarts, HostStops, LineDrops, LineRises, historyVars
    <2> QED BY <1>0, <2>1 DEF Pointing, InBytes
  <1>2. CASE HostData \/ HostRise
    <2>1. InBytes' /\ UNCHANGED << script, slot, at >>
      BY <1>2, Zenon DEF HostData, HostRise, historyVars, InBytes
    <2> QED BY <1>0, <2>1 DEF Pointing, Transfer
  <1>3. CASE Vanish
    BY <1>3 DEF Vanish, Pointing
  <1>4. CASE HostFall
    <2>1. /\ phase = "high" /\ script' = script
          /\ IF nack \/ slot = Slots - 1 THEN phase' = "closing" /\ at' = PointerKnown
             ELSE phase' = "low" /\ slot' = slot + 1 /\ at' = at
      BY <1>4, Zenon DEF HostFall
    <2>2. slot \in Nat /\ Playing /\ ScriptInv
      BY <2>1, SlotKinds DEF IInv, Playing
    <2>3. CASE ~(nack \/ slot = Slots - 1)
      BY <1>0, <2>1, <2>2, <2>3 DEF Pointing, Transfer, InBytes
    <2>4. CASE nack \/ slot = Slots - 1
      <3>1. at' = PointerKnown
        BY <2>1, <2>4
      <3>2. CASE at' = at /\ ~(Transfer.to = EDID_EEPROM_I2C_ADDRESS /\ slot >= 9)
        BY <1>0, <3>2 DEF Pointing
      <3>3. CASE at' = Unknown \/ s_pointer = at'
        BY <1>0, <3>3 DEF Pointing
      <3>4. CASE Transfer.to # EDID_EEPROM_I2C_ADDRESS \/ (nack /\ slot = 8)
        BY <3>1, <3>2, <3>4 DEF PointerKnown
      <3>5. CASE Transfer.to = EDID_EEPROM_I2C_ADDRESS /\ ~(nack /\ slot = 8) /\ (nack \/ cut)
        BY <3>1, <3>3, <3>5 DEF PointerKnown
      <3>6. CASE Transfer.to = EDID_EEPROM_I2C_ADDRESS /\ ~nack /\ ~cut
        <4>1. CASE slot >= 9
          BY <1>4, <2>4, <3>1, <3>3, <3>6, <4>1, PointerArrives
        <4>2. CASE ~(slot >= 9)
          <5>1. PICK n \in Nat, r \in Nat :
                    n = Len(Transfer.bytes) /\ r = Transfer.reads /\ n >= 1
            BY <2>2, FirstByte, TransferFacts
          <5>2. slot = 9 * (n + r) - 1
            BY <2>4, <3>6, <5>1 DEF Slots
          <5>3. n = 1 /\ r = 0
            <6>1. \A a, b \in Nat : a >= 1 /\ ~(9 * (a + b) - 1 >= 9) => a = 1 /\ b = 0
              BY SMT
            <6> QED BY <4>2, <5>1, <5>2, <6>1, Zenon
          <5>4. PointerKnown = at
            BY <3>6, <5>1, <5>3 DEF PointerKnown
          <5> QED BY <3>1, <3>2, <4>2, <5>4
        <4> QED BY <4>1, <4>2
      <3> QED BY <3>4, <3>5, <3>6
    <2> QED BY <2>3, <2>4
  <1> QED BY <1>1, <1>2, <1>3, <1>4, Zenon DEF Host

\* Only a byte that is read or written moves the pointer.
LEMMA PointerStays ==
    ASSUME eng \in Locals, BitsInv, NEW bit \in {0, 1}, Rise(bit),
           eng.state \in {"rx", "tx_master_ack"} =>
               eng.active # EDID_EEPROM_I2C_ADDRESS \/ (eng.state = "rx" /\ eng.bits < 7)
    PROVE  s_pointer' = s_pointer
  <1>1. /\ UNCHANGED deviceVars => s_pointer' = s_pointer
        /\ UNCHANGED eepromVars => s_pointer' = s_pointer
    BY Zenon DEF deviceVars, eepromVars
  <1>2. CASE eng.state = "address"
    <2>1. \A d, read : begin(d, read) => s_pointer' = s_pointer
      BY <1>1, Zenon DEF begin, DdcIs, EepromIs, NobodyIs, eeprom_begin
    <2> QED BY <1>1, <1>2, <2>1, RiseOfAddress, Zenon
  <1>3. CASE eng.state = "rx"
    <2>1. \A b : write_byte(eng.active, b) /\ eng.active # EDID_EEPROM_I2C_ADDRESS
                     => s_pointer' = s_pointer
      BY <1>1, Zenon DEF write_byte, DdcIs, EepromIs
    <2>2. eng.bits < 7 => UNCHANGED deviceVars
      BY <1>3, RiseOfByte, Zenon
    <2>3. ~(eng.bits < 7) => \E b : write_byte(eng.active, b)
      BY <1>3, RiseOfByte, Zenon
    <2> QED BY <1>1, <1>3, <2>1, <2>2, <2>3
  <1>4. CASE eng.state = "tx_master_ack"
    <2>1. read_advance(eng.active) /\ eng.active # EDID_EEPROM_I2C_ADDRESS
              => s_pointer' = s_pointer
      BY <1>1, Zenon DEF read_advance, DdcIs, EepromIs
    <2>2. eng.ack_phase = 1 => read_advance(eng.active)
      BY <1>4, RiseSends, Zenon
    <2>3. eng.ack_phase # 1 => UNCHANGED deviceVars
      BY <1>4, RiseSends, Zenon
    <2> QED BY <1>1, <1>4, <2>1, <2>2, <2>3
  <1>5. CASE eng.state = "tx"
    BY <1>1, <1>5, RiseSends, Zenon
  <1>6. CASE eng.state \in {"address_ack", "rx_ack", "ignore"}
    BY <1>1, <1>6, RiseStays, Zenon
  <1>7. eng.state \in States
    BY DEF Locals
  <1> QED BY <1>2, <1>3, <1>4, <1>5, <1>6, <1>7 DEF States

\* The pointer moves only in a transfer with the EEPROM, or where the master
\* knows nothing of it.
LEMMA PointingSlave ==
    ASSUME IInv, Following, HInv, RInv, Slave
    PROVE  Pointing'
  <1>0. /\ UNCHANGED << script, slot, nack, phase >> /\ at' = at /\ Pointing
        /\ Transfer' = Transfer
    <2>1. UNCHANGED << script, slot, nack, phase >>
      BY SlaveFrame, Zenon
    <2>2. at' = at
      BY Zenon DEF Slave, Unnoticed, SlaveGivesUp, historyVars
    <2>3. Transfer' = Transfer
      BY <2>1, SameMessage, Zenon
    <2> QED BY <2>1, <2>2, <2>3, Zenon DEF RInv
  <1>1. CASE s_pointer' = s_pointer
    BY <1>0, <1>1 DEF Pointing, InBytes
  <1>2. \A d : end_device(d) => s_pointer' = s_pointer
    BY Zenon DEF end_device, DdcIs, EepromIs, NobodyIs, deviceVars, eepromVars
  <1>3. CASE Start \/ Resample \/ SeesData \/ SeesFall \/ Finish
    <2>1. UNCHANGED deviceVars
      BY <1>3, Zenon DEF Start, Resample, SeesData, SeesFall, Finish
    <2> QED BY <1>1, <2>1, Zenon DEF deviceVars, eepromVars
  <1>4. CASE SeesRepeatedStart \/ SeesStop \/ SlaveGivesUp
    <2>1. end_device(eng.active)
      BY <1>4, Zenon DEF SeesRepeatedStart, SeesStop, SlaveGivesUp, Timeout, EndsTransfer
    <2> QED BY <1>1, <1>2, <2>1, Zenon
  <1>5. CASE SeesRise
    <2>0. eng \in Locals /\ BitsInv /\ Sda \in {0, 1} /\ Rise(Sda) /\ pc = "poll"
      BY <1>5, RiseWhen, SlaveParts, Zenon
    <2>1. CASE phase = "high" /\ Listening(slot)
      <3>1. CASE Transfer.to = EDID_EEPROM_I2C_ADDRESS /\ slot >= 9
        BY <1>0, <2>1, <3>1 DEF Pointing, InBytes
      <3>2. CASE ~(Transfer.to = EDID_EEPROM_I2C_ADDRESS /\ slot >= 9)
        <4>1. eng.state \in {"rx", "tx_master_ack"} => slot >= 9
          BY <2>1 DEF Listening
        <4>2. eng.state \in {"rx", "tx_master_ack"} => eng.active # EDID_EEPROM_I2C_ADDRESS
          <5>1. SUFFICES ASSUME eng.state \in {"rx", "tx_master_ack"}
                         PROVE  eng.active # EDID_EEPROM_I2C_ADDRESS
            OBVIOUS
          <5>2. eng.active = find_device(Transfer.to)
            BY <2>0, <2>1, <5>1 DEF HInv, Hears, Content
          <5>3. EDID_EEPROM_I2C_ADDRESS # NoDevice
            BY AddressFacts, SMT
          <5> QED BY <3>2, <4>1, <5>1, <5>2, <5>3 DEF find_device
        <4> QED BY <1>1, <2>0, <4>2, PointerStays, Zenon
      <3> QED BY <3>1, <3>2
    <2>2. CASE phase = "closeHigh" /\ Closed
      <3>1. eng.state \in {"rx", "ignore"} /\ (eng.state = "rx" => eng.bits = 0)
        BY <2>2 DEF Closed, Over
      <3>2. eng.state \in {"rx", "tx_master_ack"} => eng.state = "rx" /\ eng.bits < 7
        BY <3>1, SMT
      <3> QED BY <1>1, <2>0, <3>2, PointerStays, Zenon
    <2>3. CASE phase \in {"free", "between", "gone", "return"}
      <3>1. at = Unknown
        BY <1>5, <2>3, RiseOutside, Zenon
      <3> QED BY <1>0, <3>1 DEF Pointing
    <2> QED BY <1>5, <2>1, <2>2, <2>3, RiseWhen, Zenon
  <1> QED BY <1>3, <1>4, <1>5, Zenon DEF Slave, Iteration


-----------------------------------------------------------------------------
(* The invariant of the host *)

\* At first nothing is owed, and the pointer is at the start of the table.
LEMMA ReliedInit == Init => RInv
  <1> SUFFICES ASSUME Init PROVE RInv
    OBVIOUS
  <1>1. /\ phase = "free" /\ last = Nothing /\ at = 0 /\ s_pointer = 0
        /\ sda = 1 /\ scl = 1 /\ pc = "idle" /\ s_response_ready = FALSE
    BY Zenon DEF Init, EngineInit, PacketInit, edid_eeprom_init
  <1>2. ~InBytes /\ ~Concluded /\ ~DdcOpen /\ ~InDdc /\ Known = Nothing
    BY <1>1 DEF InBytes, Concluded, DdcOpen, InDdc, Known
  <1>3. Settling
    <2>1. ReplyTo(Nothing) = NullResponse
      BY Zenon DEF ReplyTo
    <2>2. Settled(Nothing)
      BY <1>1, <2>1 DEF Settled, Stored, Answered
    <2> QED BY <1>2, <2>2, Zenon DEF Settling, Due
  <1>4. Orderly
    BY <1>1 DEF Orderly
  <1>5. Heard /\ Serving
    BY <1>2, Zenon DEF Heard, Taken, Serving
  <1>6. Output
    BY <1>1 DEF Output
  <1>7. Pointing
    BY <1>1 DEF Pointing
  <1> QED BY <1>3, <1>4, <1>5, <1>6, <1>7, Zenon DEF RInv

\* Nothing happens, and nothing is owed that was not.
LEMMA ReliedStutters ==
    ASSUME RInv, UNCHANGED busVars
    PROVE  RInv'
  <1>1. /\ eng' = eng /\ pc' = pc /\ previous' = previous /\ latch' = latch
        /\ sda' = sda /\ scl' = scl /\ UNCHANGED deviceVars
        /\ UNCHANGED << script, slot, nack, cut, last, phase, at >>
    BY Zenon DEF busVars, engineVars, hostVars, historyVars
  <1>2. UNCHANGED << mailboxVars, s_rx, s_tx, s_response_ready >> /\ s_pointer' = s_pointer
    BY <1>1, Zenon DEF deviceVars, ddcVars, packetVars, eepromVars
  <1>3. Transfer' = Transfer /\ (Reading' <=> Reading) /\ ByteOf(slot)' = ByteOf(slot)
    BY <1>1 DEF Transfer, Reading, ByteOf
  <1>4. Settling'
    <2>1. PICK m : m = Known
      OBVIOUS
    <2>2. Known' = m /\ (DdcOpen' <=> DdcOpen)
      BY <1>1, <2>1, KnownFrame, Zenon
    <2>3. InDdc' <=> InDdc
      BY <1>1 DEF InDdc
    <2>4. Settled(m) => Settled(Known)'
      BY <1>2, <2>2, SettledFrame, Zenon
    <2>5. Due(m) => Due(Known)'
      BY <1>1, <1>2, <2>2, <2>3, DueFrame
    <2>6. IF DdcOpen THEN (pc \in {"idle", "finish"} /\ cut) \/ Settled(m) ELSE Due(m)
      BY <2>1, Zenon DEF RInv, Settling
    <2>7. /\ ~DdcOpen' /\ Due(Known)' => Settling'
          /\ DdcOpen' /\ Settled(Known)' => Settling'
          /\ DdcOpen' /\ pc' \in {"idle", "finish"} /\ cut' => Settling'
      BY Zenon DEF Settling
    <2> QED BY <1>1, <2>2, <2>4, <2>5, <2>6, <2>7
  <1>5. Orderly'
    BY <1>1 DEF RInv, Orderly
  <1>6. Heard'
    BY <1>1, <1>3 DEF RInv, Heard, Taken, InBytes
  <1>7. Output'
    <2>1. read_byte(eng.active)' = read_byte(eng.active) /\ s_response_ready' = s_response_ready
      BY <1>1, SameByte, Zenon
    <2> QED BY <1>1, <2>1 DEF RInv, Output
  <1>8. Serving'
    <2>1. PICK k : k = Moved
      OBVIOUS
    <2>2. Moved' = k /\ eng'.active = eng.active /\ eng'.read = eng.read
      BY <1>1, <2>1 DEF Moved, MovedBy, ByteOf
    <2>3. Counts(k) => Counts(Moved)'
      BY <1>1, <2>2, CountsFrame, Zenon
    <2> QED BY <1>1, <1>3, <2>1, <2>3 DEF RInv, Serving, InBytes, High
  <1>9. Pointing'
    BY <1>1, <1>2, <1>3 DEF RInv, Pointing, InBytes
  <1> QED BY <1>4, <1>5, <1>6, <1>7, <1>8, <1>9, Zenon DEF RInv

\* Every step keeps what the master relies on.
LEMMA ReliedKept ==
    ASSUME IInv, Following, HInv, RInv, [Act]_busVars, Following', HInv'
    PROVE  RInv'
  <1>0. Orderly /\ Heard /\ Output /\ Serving /\ Directions
    BY Zenon DEF RInv, HInv
  <1>1. CASE Host
    BY <1>0, <1>1, SettlingHost, OrderlyHost, HeardHost, OutputHost, ServingHost,
       PointingHost, Zenon DEF RInv
  <1>2. CASE Slave
    BY <1>0, <1>2, SettlingSlave, OrderlySlave, HeardSlave, OutputSlave, ServingSlave,
       PointingSlave, Zenon DEF RInv
  <1>3. CASE UNCHANGED busVars
    BY <1>3, ReliedStutters, Zenon
  <1> QED BY <1>1, <1>2, <1>3, Zenon DEF Act

-----------------------------------------------------------------------------
(* What follows for the host *)

\* Out of a transfer with the device nothing is owed that is not settled.
LEMMA ReliedIsStored ==
    ASSUME RInv
    PROVE  AckedIsStored
  <1>1. SUFFICES ASSUME pc = "idle",
                        phase \in {"started", "low", "set", "high"} =>
                            Transfer.to # DDCCI_I2C_ADDRESS,
                        last \notin {Nothing, Unknown}, last.op = "set", last.flaw = "none"
                 PROVE  Stored(last)
    BY DEF AckedIsStored, Stored
  <1>2. ~DdcOpen /\ ~InDdc
    BY <1>1 DEF DdcOpen, InDdc, InBytes
  <1>3. Known = last
    BY <1>1 DEF Known, Concluded, LastKnown
  <1>4. Settled(last)
    BY <1>2, <1>3, Zenon DEF RInv, Settling, Due
  <1> QED BY <1>1, <1>4 DEF Settled

\* The reply to the last message is the one that is expected.
LEMMA ReplyExpected == ExpectedReply = ReplyTo(last)
  <1>1. DDCCI_VCP_BRIGHTNESS # DDCCI_VCP_POWER_MODE
    BY SMT DEF DDCCI_VCP_BRIGHTNESS, DDCCI_VCP_POWER_MODE
  <1> QED BY <1>1 DEF ExpectedReply, ReplyTo

\* The bit on the wire is a bit of the byte that the device holds.
LEMMA BitRead ==
    ASSUME IInv, Following, HInv, RInv, phase = "high", IsRead(slot), ~IsAck(slot), ~cut
    PROVE  /\ Sda = Bit(read_byte(eng.active), 7 - (slot % 9))
           /\ slot \in Nat /\ slot >= 9 /\ Moved = ByteOf(slot) - 2 /\ Counts(Moved)
           /\ eng.active = Transfer.to /\ eng.read /\ pc = "poll" /\ ~Concluded
           /\ Transfer.to \in {DDCCI_I2C_ADDRESS, EDID_EEPROM_I2C_ADDRESS}
  <1>0. Playing /\ ScriptInv /\ InBytes /\ EngineTypeOK
    <2>1. Playing /\ InBytes
      BY DEF Playing, InBytes
    <2> QED BY <2>1, SlaveParts, Zenon DEF IInv
  <1>1. slot \in Nat /\ slot >= 9 /\ Reading /\ slot % 9 < 8 /\ slot # Slots - 1 /\ ~nack
    <2>1. slot \in Nat /\ ~(slot < 9) /\ Reading /\ (slot = Slots - 1 => slot % 9 = 8)
      BY <1>0, SlotKinds, Zenon
    <2>2. slot % 9 # 8
      BY DEF IsAck
    <2>3. ~nack
      BY Zenon DEF Following, NackInv
    <2>4. slot >= 9 /\ slot % 9 < 8
      BY <2>1, <2>2, SMT
    <2> QED BY <2>1, <2>2, <2>3, <2>4
  <1>2. ~Concluded /\ Taken
    BY <1>0, <1>1, Zenon DEF Concluded, Taken
  <1>3. /\ pc = "poll" /\ eng.state # "ignore" /\ Content /\ During
        /\ Transfer.to \in {DDCCI_I2C_ADDRESS, EDID_EEPROM_I2C_ADDRESS}
    <2>1. /\ pc = "poll"
          /\ Transfer.to \in {DDCCI_I2C_ADDRESS, EDID_EEPROM_I2C_ADDRESS}
      BY <1>2, Zenon DEF RInv, Heard
    <2>2. eng.state # "ignore"
      BY <1>0, <1>1, <2>1, Zenon DEF RInv, Heard
    <2> QED BY <2>1, <2>2 DEF Following, InStep, HInv, Hears
  <1>4. Sda = latch
    <2>1. MasterBit(slot) = 1
      BY Zenon DEF MasterBit
    <2>2. sda = 1 /\ latch \in {0, 1}
      BY <1>0, <2>1, WireFacts DEF Following, LinesInv
    <2> QED BY <2>2, SMT DEF Sda
  <1>5. \/ previous[2] = 1 /\ eng.state = "tx" /\ eng.tx_bits = (slot % 9) + 1
        \/ previous[2] = 1 /\ eng.state = "tx_master_ack" /\ eng.ack_phase = 0 /\ slot % 9 = 7
        \/ previous[2] # 1 /\ eng.state = "tx" /\ eng.tx_bits = slot % 9
    <2>0. /\ ~(slot < 8) /\ ~(slot < 7) /\ slot # 7 /\ slot # 8 /\ slot % 9 # 8
      BY <1>1, SMT
    <2>1. CASE previous[2] = 1
      <3>1. Sampled(slot)
        BY <1>3, <2>1 DEF During
      <3> QED BY <1>1, <1>3, <2>0, <2>1, <3>1, Zenon DEF Sampled
    <2>2. CASE previous[2] # 1
      <3>1. Listening(slot)
        BY <1>3, <2>2 DEF During
      <3> QED BY <1>1, <1>3, <2>0, <2>2, <3>1, Zenon DEF Listening
    <2> QED BY <2>1, <2>2
  <1>6. eng.tx_byte = read_byte(eng.active) /\ eng.read
    BY <1>3, <1>5 DEF RInv, Output
  <1>7. latch = Bit(eng.tx_byte, 7 - (slot % 9))
    <2>0. previous[2] = 0 \/ previous[2] = 1
      BY DEF IInv, BusTypeOK, EngineTypeOK
    <2>1. CASE previous[2] = 1 /\ eng.state = "tx" /\ eng.tx_bits = (slot % 9) + 1
      <3>1. latch = Bit(eng.tx_byte, 8 - eng.tx_bits)
        BY <1>3, <2>1 DEF RInv, Output
      <3>2. 8 - eng.tx_bits = 7 - (slot % 9)
        BY <1>1, <2>1, SMT
      <3> QED BY <3>1, <3>2
    <2>2. CASE previous[2] = 1 /\ eng.state = "tx_master_ack" /\ eng.ack_phase = 0 /\ slot % 9 = 7
      <3>1. latch = Bit(eng.tx_byte, 0)
        BY <1>3, <2>2 DEF RInv, Output
      <3>2. 7 - (slot % 9) = 0
        BY <2>2, SMT
      <3> QED BY <3>1, <3>2
    <2>3. CASE previous[2] # 1 /\ eng.state = "tx" /\ eng.tx_bits = slot % 9
      <3>1. latch = Bit(eng.tx_byte, 7 - eng.tx_bits)
        BY <1>3, <2>0, <2>3 DEF RInv, Output
      <3> QED BY <2>3, <3>1
    <2> QED BY <1>5, <2>1, <2>2, <2>3
  <1>8. Moved = ByteOf(slot) - 2
    BY <1>1, <1>5, MovedIn DEF Moved
  <1>9. Counts(Moved)
    BY <1>0, <1>3, <1>5, Zenon DEF RInv, Serving
  <1>10. eng.active = Transfer.to
    BY <1>3, <1>5 DEF Content, find_device
  <1> QED BY <1>1, <1>2, <1>3, <1>4, <1>6, <1>7, <1>8, <1>9, <1>10, Zenon

\* ... and that byte is the one the master ought to see.
LEMMA ReliedIsRead ==
    ASSUME IInv, Following, HInv, RInv
    PROVE  ReadsAreTrue
  <1>1. SUFFICES ASSUME phase = "high", IsRead(slot), ~IsAck(slot), ~cut,
                        ExpectedByte(ByteOf(slot) - 1) # Unknown
                 PROVE  Sda = Bit(ExpectedByte(ByteOf(slot) - 1), 7 - (slot % 9))
    BY DEF ReadsAreTrue
  <1>2. /\ Sda = Bit(read_byte(eng.active), 7 - (slot % 9))
        /\ slot \in Nat /\ slot >= 9 /\ Moved = ByteOf(slot) - 2 /\ Counts(Moved)
        /\ eng.active = Transfer.to /\ eng.read /\ pc = "poll" /\ ~Concluded
        /\ Transfer.to \in {DDCCI_I2C_ADDRESS, EDID_EEPROM_I2C_ADDRESS}
    BY <1>1, BitRead, Zenon
  <1>3. DDCCI_I2C_ADDRESS # EDID_EEPROM_I2C_ADDRESS
    BY AddressFacts, SMT
  <1>4. PICK k \in Nat : k = Moved
    BY <1>2, MovedIn
  <1>5. PICK n : n = ByteOf(slot) - 1
    OBVIOUS
  <1>6. n = k + 1 /\ n - 1 = k
    <2>1. ByteOf(slot) \in Nat
      BY <1>2, MovedIn
    <2> QED BY <1>2, <1>4, <1>5, <2>1, SMT
  <1>7. SUFFICES read_byte(eng.active) = ExpectedByte(n)
    BY <1>2, <1>5
  <1>8. CASE Transfer.to = EDID_EEPROM_I2C_ADDRESS
    <2>1. at # Unknown
      BY <1>1, <1>8 DEF ExpectedByte
    <2>2. s_pointer = (at + k) % 256
      BY <1>2, <1>4, <1>8, <2>1 DEF Counts
    <2>3. at + n - 1 = at + k
      <3>1. at \in Nat
        BY <2>1 DEF IInv, BusTypeOK
      <3> QED BY <1>6, <3>1, SMT
    <2>4. ExpectedByte(n) = s_edid[s_pointer]
      BY <1>8, <2>1, <2>2, <2>3 DEF ExpectedByte
    <2> QED BY <1>2, <1>3, <1>8, <2>4 DEF read_byte, eeprom_read_byte
  <1>9. CASE Transfer.to = DDCCI_I2C_ADDRESS
    <2>1. last # Unknown
      BY <1>1, <1>3, <1>9 DEF ExpectedByte
    <2>2. DdcOpen /\ Known = last
      BY <1>1, <1>2, <1>9, Zenon DEF DdcOpen, InBytes, Known
    <2>3. Settled(last)
      BY <1>2, <2>2 DEF RInv, Settling
    <2>4. s_response_ready
      BY <1>2, <1>9, Zenon DEF RInv, Output
    <2>5. s_tx = ExpectedReply
      BY <2>1, <2>3, <2>4, ReplyExpected DEF Settled, Answered
    <2>6. PICK l \in Nat : l = Len(s_tx)
      BY DEF IInv, BusTypeOK, PacketTypeOK
    <2>7. s_tx_index = Least(k, l)
      BY <1>2, <1>4, <1>9, <2>6 DEF Counts
    <2>8. IF k < l THEN s_tx_index = k ELSE s_tx_index = l
      BY <2>7, Zenon DEF Least
    <2>9. ddcci_read_byte = IF n <= l THEN s_tx[n] ELSE 0
      <3>1. CASE k < l
        BY <1>6, <2>6, <2>8, <3>1 DEF ddcci_read_byte
      <3>2. CASE ~(k < l)
        BY <1>6, <2>6, <2>8, <3>2 DEF ddcci_read_byte
      <3> QED BY <3>1, <3>2
    <2>10. ExpectedByte(n) = IF n <= l THEN s_tx[n] ELSE 0
      BY <1>3, <1>9, <2>1, <2>5, <2>6 DEF ExpectedByte
    <2>11. eng.active = DDCCI_I2C_ADDRESS
      BY <1>2, <1>9
    <2>12. read_byte(eng.active) = ddcci_read_byte
      BY <1>3, <2>11 DEF read_byte
    <2> QED BY <2>9, <2>10, <2>12, Zenon
  <1> QED BY <1>2, <1>8, <1>9

\* What the master relies on holds in every reachable state.
LEMMA ReliedAlways ==
    ASSUME EarlyAlone
    PROVE  Spec => [](IInv /\ Following /\ HInv /\ RInv)
  <1>1. Init => HInv /\ RInv
    BY HeardInit, ReliedInit, Zenon
  <1>2. IInv /\ Following /\ HInv /\ [Act]_busVars => HInv'
    BY HeardKept, Zenon
  <1>3. IInv /\ Following /\ HInv /\ RInv /\ [Act]_busVars /\ Following' /\ HInv' => RInv'
    BY ReliedKept, Zenon
  <1>4. Spec => [](IInv /\ Following)
    BY InStepAlways, Zenon
  <1> QED BY <1>1, <1>2, <1>3, <1>4, Waiting, PTL DEF Spec

\* Once the slave is at rest, a message whose every byte it acknowledged has
\* been carried out, whichever way the transfer was closed and whatever was
\* cut short, lost or refused before it (ddcci_end, process_write_packet).
THEOREM AckedAreStored ==
    ASSUME EarlyAlone
    PROVE  Spec => []AckedIsStored
  <1>1. IInv /\ Following /\ HInv /\ RInv => AckedIsStored
    BY ReliedIsStored, Zenon
  <1>2. Spec => [](IInv /\ Following /\ HInv /\ RInv)
    BY ReliedAlways, Zenon
  <1> QED BY <1>1, <1>2, PTL

\* Every bit that the master samples in a read is the one it ought to see: of
\* the reply to the last request that it knows was taken, of the zeros after
\* its end, of the EDID from where its last transfer left the pointer
\* (run_transaction, ddcci_read_byte, eeprom_read_byte).
THEOREM ReadsAlwaysTrue ==
    ASSUME EarlyAlone
    PROVE  Spec => []ReadsAreTrue
  <1>1. IInv /\ Following /\ HInv /\ RInv => ReadsAreTrue
    BY ReliedIsRead, Zenon
  <1>2. Spec => [](IInv /\ Following /\ HInv /\ RInv)
    BY ReliedAlways, Zenon
  <1> QED BY <1>1, <1>2, PTL

-----------------------------------------------------------------------------
=============================================================================
