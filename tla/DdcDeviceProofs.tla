--------------------------- MODULE DdcDeviceProofs ---------------------------
(***************************************************************************)
(* The bus implements the abstract device of VcpDevice: nothing but a      *)
(* whole and sound message changes a setting, and it does so in one step.  *)
(*                                                                         *)
(* The slave decides from the bytes it has collected when the transfer     *)
(* ends, however it ends.  What has to be shown is that bytes it takes for *)
(* a valid packet are the message that the master has wholly clocked out   *)
(* (Carries).  That follows from what the slave has collected while it     *)
(* follows a transfer being a prefix of what is sent (Content): the length *)
(* byte refuses every shorter or longer packet, the seal the damaged one.  *)
(* A laptop that vanishes may still clock in one bit, of either value      *)
(* (NextCarries).                                                          *)
(***************************************************************************)
EXTENDS DdcBusProofs

\* The length byte of a payload of n bytes, and the packet it announces.
LengthByte(n)   == 128 + n
Announced(byte) == (byte % 128) + 3

\* The seal of a damaged packet.
Damaged(byte) == (byte + 128) % 256

\* What request_packet_valid says, of any bytes.
Valid(rx) ==
    /\ Len(rx) >= 4
    /\ rx[1] = DDCCI_HOST_SOURCE
    /\ rx[2] >= 128
    /\ Len(rx) = Announced(rx[2])
    /\ ChecksumMatches(rx)

\* If these bytes are a valid packet, they are the message on the wire.
Carries(rx) ==
    Valid(rx) => wire \in Messages /\ wire.flaw = "none" /\ rx = Packet(wire)

\* The DDC/CI device is being written.
Written == eng.active = DDCCI_I2C_ADDRESS /\ ~eng.read

\* The locals agree with each other and with the device.
Directions ==
    /\ eng.state = "address" => eng.active = NoDevice
    /\ eng.state = "address" /\ eng.bits = 0 => eng.shift = 0
    /\ pc = "resample" => eng.state = "address"
    /\ eng.active = DDCCI_I2C_ADDRESS => s_read_direction = eng.read
    /\ eng.state \in {"rx", "rx_ack"} => ~eng.read

\* The first k bits of a byte.
High(byte, k) == byte \div 2^(8 - k)

\* The slave has collected the first bytes of the transfer; all of them only
\* after the master has clocked the last.
Prefix ==
    /\ Len(s_rx) + 1 <= Len(Transfer.bytes)
    /\ \A i \in 1..Len(s_rx) : s_rx[i] = Transfer.bytes[i + 1]
    /\ Len(s_rx) > 0 /\ Len(s_rx) + 1 = Len(Transfer.bytes) => wire = WholeMessage

\* The byte that is under way is the next one of the transfer.
Collecting ==
    /\ eng.state = "address_ack" => s_rx = << >>
    /\ eng.state = "rx" =>
          /\ Len(s_rx) + 2 = ByteOf(slot)
          /\ eng.shift = High(Transfer.bytes[ByteOf(slot)], eng.bits)
    /\ eng.state = "rx_ack" /\ eng.rx_ack =>
          Len(s_rx) + (IF slot % 9 = 0 THEN 2 ELSE 1) = ByteOf(slot)

\* What the slave knows of the transfer it follows.
Content ==
    /\ eng.state = "address" => eng.shift = High(Transfer.bytes[1], eng.bits)
    /\ eng.state # "address" => eng.active = find_device(Transfer.to)
    /\ Written => Prefix /\ Collecting

\* The lines of a vanished laptop may still clock in a bit.
RisePossible == phase = "gone" \/ scl = 0 \/ previous[2] = 0

\* ... and with it the last byte of a packet.
NextCarries ==
    eng.state = "rx" /\ eng.bits = 7 /\ PacketFits =>
        \A x \in {0, 1} : Carries(Append(s_rx, (2 * eng.shift + x) % 256))

\* What the slave has heard, in and after a transfer.
Hears ==
    pc = "poll" =>
        /\ phase \in {"low", "set", "high"} => Content
        /\ Written => Carries(s_rx)
        /\ phase = "closeHigh" /\ eng.state = "rx" => eng.bits <= 1
        /\ ~Playing /\ Written /\ RisePossible => NextCarries
        /\ phase = "gone" /\ scl = 1 => previous[2] = 1

\* The message of a transfer is on the wire or not yet; before the last
\* acknowledge bit it is.
Clocked ==
    /\ phase \in {"low", "set", "high", "closing", "closeSet", "closeHigh"} =>
           wire \in {Nothing, WholeMessage}
    /\ phase = "high" /\ slot = Slots - 2 => wire = WholeMessage

HInv == Directions /\ Hears /\ Clocked

-----------------------------------------------------------------------------
(* Bytes and packets *)

\* A byte arrives bit by bit, the highest first.
LEMMA NextBit ==
    ASSUME NEW b \in Byte, NEW k \in 0..7
    PROVE  /\ High(b, k) \in Byte
           /\ (2 * High(b, k) + Bit(b, 7 - k)) % 256 = High(b, k + 1)
  <1>1. k \in {0, 1, 2, 3, 4, 5, 6, 7}
    OBVIOUS
  <1>2. CASE k = 0 BY <1>2 DEF High, Bit, Byte
  <1>3. CASE k = 1 BY <1>3 DEF High, Bit, Byte
  <1>4. CASE k = 2 BY <1>4 DEF High, Bit, Byte
  <1>5. CASE k = 3 BY <1>5 DEF High, Bit, Byte
  <1>6. CASE k = 4 BY <1>6 DEF High, Bit, Byte
  <1>7. CASE k = 5 BY <1>7 DEF High, Bit, Byte
  <1>8. CASE k = 6 BY <1>8 DEF High, Bit, Byte
  <1>9. CASE k = 7 BY <1>9 DEF High, Bit, Byte
  <1> QED BY <1>1, <1>2, <1>3, <1>4, <1>5, <1>6, <1>7, <1>8, <1>9

\* No bits, all bits, and all but the last.
LEMMA BitsOf ==
    ASSUME NEW b \in Byte
    PROVE  /\ High(b, 0) = 0 /\ High(b, 8) = b
           /\ \A x \in {0, 1} : /\ (2 * High(b, 7) + x) % 256 \in Byte
                                /\ ((2 * High(b, 7) + x) % 256) \div 2 = b \div 2
  BY SMT DEF High, Byte

\* A framed payload: its source, its length, its bytes, and its seal.
LEMMA FramedShape ==
    ASSUME NEW p \in Seq(Byte), Len(p) <= 127
    PROVE  /\ Framed(p) \in Seq(Byte) /\ Len(Framed(p)) = Len(p) + 3
           /\ Framed(p)[1] = DDCCI_HOST_SOURCE
           /\ Framed(p)[2] = 128 + Len(p)
           /\ \A i \in 1..Len(p) : Framed(p)[i + 2] = p[i]
           /\ Last(Framed(p)) =
                  xor_checksum(DDCCI_REQUEST_CHECKSUM_SEED, Front(Framed(p)))
  <1>0. Len(p) \in Nat
    BY LenProperties, Zenon
  <1>1. 128 + Len(p) \in Byte
    BY <1>0, SMT DEF Byte
  <1> DEFINE head == << DDCCI_HOST_SOURCE, 128 + Len(p) >>
             data == head \o p
  <1>2. /\ head \in Seq(Byte) /\ Len(head) = 2
        /\ head[1] = DDCCI_HOST_SOURCE /\ head[2] = 128 + Len(p)
    BY <1>1, CodesTyped, SMT
  <1>3. Framed(p) = Sealed(DDCCI_REQUEST_CHECKSUM_SEED, data)
    BY Zenon DEF Framed
  <1> HIDE DEF head
  <1>4. /\ data \in Seq(Byte) /\ Len(data) = 2 + Len(p)
        /\ data[1] = head[1] /\ data[2] = head[2]
        /\ \A i \in 1..Len(p) : data[i + 2] = p[i]
    <2>1. /\ data \in Seq(Byte) /\ Len(data) = Len(head) + Len(p)
          /\ \A i \in 1..Len(head) + Len(p) :
                 data[i] = IF i <= Len(head) THEN head[i] ELSE p[i - Len(head)]
      BY <1>2, ConcatProperties, Zenon
    <2>2. PICK n \in Nat : n = Len(p)
      BY <1>0, Zenon
    <2>3. \A i \in 1..2 + n : data[i] = IF i <= 2 THEN head[i] ELSE p[i - 2]
      BY <1>2, <2>1, <2>2, Zenon
    <2>4. /\ 1 \in 1..2 + n /\ 2 \in 1..2 + n /\ 1 <= 2 /\ 2 <= 2
          /\ \A i \in 1..n : i + 2 \in 1..2 + n /\ ~(i + 2 <= 2) /\ (i + 2) - 2 = i
      BY SMT
    <2> HIDE DEF data
    <2>5. data[1] = head[1] /\ data[2] = head[2]
      BY <2>3, <2>4, Zenon
    <2>6. ASSUME NEW i \in 1..n PROVE data[i + 2] = p[i]
      <3>1. data[i + 2] = IF i + 2 <= 2 THEN head[i + 2] ELSE p[(i + 2) - 2]
        BY <2>3, <2>4, Zenon
      <3> QED BY <2>4, <3>1, Zenon
    <2> QED BY <1>2, <2>1, <2>2, <2>5, <2>6, Zenon
  <1> HIDE DEF data
  <1>5. /\ Front(Framed(p)) = data
        /\ Last(Framed(p)) = xor_checksum(DDCCI_REQUEST_CHECKSUM_SEED, data)
        /\ \A i \in 1..Len(data) : Framed(p)[i] = data[i]
    <2>1. DDCCI_REQUEST_CHECKSUM_SEED \in Byte
      BY CodesTyped, Zenon
    <2> DEFINE t == Sealed(DDCCI_REQUEST_CHECKSUM_SEED, data)
    <2>2. /\ Front(t) = data /\ Last(t) = xor_checksum(DDCCI_REQUEST_CHECKSUM_SEED, data)
          /\ \A i \in 1..Len(data) : t[i] = data[i]
      BY <1>4, <2>1, SealedTyped, Zenon
    <2>3. Framed(p) = t
      BY <1>3, Zenon
    <2> HIDE DEF t
    <2> QED BY <2>2, <2>3, Zenon
  <1>6. /\ 1 \in 1..Len(data) /\ 2 \in 1..Len(data)
        /\ \A i \in 1..Len(p) : i + 2 \in 1..Len(data)
    BY <1>0, <1>4, SMT
  <1> QED BY <1>2, <1>4, <1>5, <1>6, FramedTyped, Zenon

\* Sequences that agree but for their last element.
LEMMA SameFront ==
    ASSUME NEW S, NEW r \in Seq(S), NEW s \in Seq(S), Len(r) = Len(s), Len(r) > 0,
           \A i \in 1..Len(r) - 1 : r[i] = s[i]
    PROVE  /\ Front(r) = Front(s)
           /\ Last(r) = Last(s) => r = s
           /\ Last(r) = r[Len(r)] /\ Last(s) = s[Len(r)]
  <1>1. Front(r) = Front(s)
    BY SMT DEF Front
  <1>2. Last(r) = r[Len(r)] /\ Last(s) = s[Len(r)]
    BY Zenon DEF Last
  <1>3. ASSUME Last(r) = Last(s) PROVE r = s
    <2>1. Len(r) \in Nat
      BY LenProperties, Zenon
    <2>2. \A i \in 1..Len(r) : i \in 1..Len(r) - 1 \/ i = Len(r)
      BY <2>1, SMT
    <2>3. \A i \in 1..Len(r) : r[i] = s[i]
      BY <1>2, <1>3, <2>2, Zenon
    <2> QED BY <2>3, SeqEqual, Zenon
  <1> QED BY <1>1, <1>2, <1>3, Zenon

\* The packet without its last byte.
LEMMA FrontShape ==
    ASSUME NEW S, NEW s \in Seq(S), Len(s) > 0, NEW x \in S
    PROVE  /\ Front(s) \in Seq(S) /\ Len(Front(s)) = Len(s) - 1
           /\ \A i \in 1..Len(s) - 1 : Front(s)[i] = s[i]
           /\ Append(Front(s), x) \in Seq(S) /\ Len(Append(Front(s), x)) = Len(s)
           /\ \A i \in 1..Len(s) - 1 : Append(Front(s), x)[i] = s[i]
           /\ Append(Front(s), x)[Len(s)] = x
  <1> DEFINE f == Front(s)
  <1>1. f \in Seq(S) /\ Len(f) = Len(s) - 1 /\ \A i \in 1..Len(s) - 1 : f[i] = s[i]
    <2>1. PICK n \in Nat : n = Len(s)
      BY LenProperties, Zenon
    <2>2. \A i \in 1..(n - 1) : i \in 1..n /\ i \in 1..((n - 1) - 1) + 1 /\ (1 + i) - 1 = i
      BY SMT
    <2>3. \A i \in 1..(n - 1) : s[i] \in S
      BY <2>1, <2>2, ElementTyped, Zenon
    <2>4. 1 \in Int /\ n - 1 \in Int
      BY SMT
    <2>5. /\ SubSeq(s, 1, n - 1) \in Seq(S)
          /\ Len(SubSeq(s, 1, n - 1)) = IF 1 <= n - 1 THEN (n - 1) - 1 + 1 ELSE 0
          /\ \A i \in 1..(n - 1) - 1 + 1 : SubSeq(s, 1, n - 1)[i] = s[1 + i - 1]
      <3> DEFINE k == n - 1
      <3>1. k \in Int /\ 1 \in Int /\ \A i \in 1..k : s[i] \in S
        BY <2>3, <2>4, Zenon
      <3> HIDE DEF k
      <3>2. /\ SubSeq(s, 1, k) \in Seq(S)
            /\ Len(SubSeq(s, 1, k)) = IF 1 <= k THEN k - 1 + 1 ELSE 0
            /\ \A i \in 1..k - 1 + 1 : SubSeq(s, 1, k)[i] = s[1 + i - 1]
        BY <3>1, SubSeqProperties
      <3> QED BY <3>2, Zenon DEF k
    <2>6. n > 0 => (IF 1 <= n - 1 THEN (n - 1) - 1 + 1 ELSE 0) = n - 1
      BY SMT
    <2>7. \A i \in 1..(n - 1) : i \in 1..(n - 1) - 1 + 1 /\ 1 + i - 1 = i
      BY SMT
    <2>8. f = SubSeq(s, 1, n - 1)
      BY <2>1, Zenon DEF Front
    <2> HIDE DEF f
    <2>9. \A i \in 1..(n - 1) : f[i] = s[i]
      <3> TAKE i \in 1..(n - 1)
      <3>1. f[i] = s[1 + i - 1]
        BY <2>5, <2>7, <2>8, Zenon
      <3> QED BY <2>7, <3>1, Zenon
    <2> QED BY <2>1, <2>5, <2>6, <2>8, <2>9, Zenon
  <1> HIDE DEF f
  <1>2. Len(s) \in Nat
    BY LenProperties, Zenon
  <1>3. /\ Append(f, x) \in Seq(S) /\ Len(Append(f, x)) = Len(s)
        /\ \A i \in 1..Len(s) - 1 : Append(f, x)[i] = s[i]
        /\ Append(f, x)[Len(s)] = x
    BY <1>1, <1>2, SMT
  <1> QED BY <1>1, <1>3 DEF f

\* The four kinds of packets: how long they are, and how long they say they
\* are.
LEMMA PacketShape ==
    ASSUME NEW m \in Messages
    PROVE  LET n == Len(Payload(m))  sound == Framed(Payload(m)) IN
           /\ n \in {2, 4} /\ sound \in Seq(Byte) /\ Len(sound) = n + 3
           /\ m.flaw = "none" => Packet(m) = sound
           /\ m.flaw = "checksum" =>
                  /\ Len(Packet(m)) = n + 3
                  /\ \A i \in 1..n + 2 : Packet(m)[i] = sound[i]
                  /\ Packet(m)[n + 3] = Damaged(Last(sound))
           /\ m.flaw = "cut" => Len(Packet(m)) = n + 2 /\ Packet(m)[2] = LengthByte(n)
           /\ m.flaw = "overlong" => Packet(m)[2] = LengthByte(DDCCI_RX_MAX)
           /\ m.flaw \in {"none", "checksum", "cut", "overlong"}
           /\ sound[2] = LengthByte(n)
           /\ Last(sound) = xor_checksum(DDCCI_REQUEST_CHECKSUM_SEED, Front(sound))
  <1> DEFINE p == Payload(m)
             sound == Framed(p)
             padding == [i \in 1..DDCCI_RX_MAX - Len(p) |-> 0]
  <1>1. p \in Seq(Byte) /\ Len(p) \in {2, 4}
    BY PayloadTyped, Zenon
  <1>2. m.flaw \in {"none", "checksum", "cut", "overlong"}
    BY Zenon DEF Messages
  <1>3. Packet(m) = CASE m.flaw = "none"     -> sound
                      [] m.flaw = "checksum" ->
                             Append(Front(sound), Damaged(Last(sound)))
                      [] m.flaw = "cut"      -> Front(sound)
                      [] m.flaw = "overlong" -> Framed(p \o padding)
    BY Zenon DEF Packet, Damaged
  <1> HIDE DEF p
  <1>4. PICK n \in {2, 4} : n = Len(p)
    BY <1>1, Zenon
  <1>5. n <= 127 /\ n + 3 > 0 /\ (n + 3) - 1 = n + 2 /\ 2 \in 1..n + 2 /\ n + 3 \in 1..n + 3
    BY SMT
  <1>x. \A q \in Seq(Byte) : Len(q) <= 127 => Framed(q)[2] = LengthByte(Len(q))
    <2> TAKE q \in Seq(Byte)
    <2> HAVE Len(q) <= 127
    <2>1. Framed(q)[2] = 128 + Len(q)
      BY FramedShape, Zenon
    <2> QED BY <2>1, Zenon DEF LengthByte
  <1>6. /\ sound \in Seq(Byte) /\ Len(sound) = n + 3 /\ sound[2] = LengthByte(n)
        /\ Last(sound) = xor_checksum(DDCCI_REQUEST_CHECKSUM_SEED, Front(sound))
    BY <1>1, <1>4, <1>5, <1>x, FramedShape, Zenon
  <1> HIDE DEF sound
  <1>7. PICK x \in Byte : x = Damaged(Last(sound))
    <2>1. PICK b \in Byte : b = Last(sound)
      BY <1>5, <1>6, ElementTyped, Zenon DEF Last
    <2>2. Damaged(b) \in Byte
      BY SMT DEF Byte, Damaged
    <2> QED BY <2>1, <2>2, Zenon
  <1>8. /\ Len(Front(sound)) = n + 2
        /\ \A i \in 1..n + 2 : Front(sound)[i] = sound[i]
        /\ Len(Append(Front(sound), x)) = n + 3
        /\ \A i \in 1..n + 2 : Append(Front(sound), x)[i] = sound[i]
        /\ Append(Front(sound), x)[n + 3] = x
    <2>1. Len(sound) > 0 /\ Len(sound) - 1 = n + 2
      BY <1>5, <1>6, Zenon
    <2> DEFINE f == Front(sound)
    <2>2. /\ Len(f) = Len(sound) - 1
          /\ \A i \in 1..Len(sound) - 1 : f[i] = sound[i]
          /\ Len(Append(f, x)) = Len(sound)
          /\ \A i \in 1..Len(sound) - 1 : Append(f, x)[i] = sound[i]
          /\ Append(f, x)[Len(sound)] = x
      <3>1. /\ Len(Front(sound)) = Len(sound) - 1
            /\ \A i \in 1..Len(sound) - 1 : Front(sound)[i] = sound[i]
            /\ Len(Append(Front(sound), x)) = Len(sound)
            /\ \A i \in 1..Len(sound) - 1 : Append(Front(sound), x)[i] = sound[i]
            /\ Append(Front(sound), x)[Len(sound)] = x
        BY <1>6, <2>1, FrontShape
      <3> QED BY <3>1 DEF f
    <2> HIDE DEF f
    <2>3. /\ Len(f) = n + 2 /\ \A i \in 1..n + 2 : f[i] = sound[i]
          /\ Len(Append(f, x)) = n + 3 /\ Append(f, x)[n + 3] = x
          /\ \A i \in 1..n + 2 : Append(f, x)[i] = sound[i]
      BY <1>6, <2>1, <2>2
    <2> QED BY <2>3 DEF f
  <1>9. Framed(p \o padding)[2] = LengthByte(DDCCI_RX_MAX)
    <2>1. PICK k \in Nat : k = DDCCI_RX_MAX - n /\ n + k = DDCCI_RX_MAX /\ n + k <= 127
      BY ConstantTypes, SMT
    <2>2. [i \in 1..k |-> 0] \in Seq(Byte) /\ Len([i \in 1..k |-> 0]) = k
      BY CodesTyped, SMT
    <2>3. padding \in Seq(Byte) /\ Len(padding) = k
      BY <1>4, <2>1, <2>2, Zenon
    <2> HIDE DEF padding
    <2>4. p \o padding \in Seq(Byte) /\ Len(p \o padding) = n + k
      BY <1>1, <1>4, <2>3, ConcatProperties, Zenon
    <2> QED BY <1>x, <2>1, <2>4, Zenon
  <1> HIDE DEF padding
  <1>10. m.flaw = "none" => Packet(m) = sound
    BY <1>3, Zenon
  <1>11. m.flaw = "checksum" => Packet(m) = Append(Front(sound), x)
    BY <1>3, <1>7, Zenon
  <1>12. m.flaw = "cut" => Packet(m) = Front(sound)
    BY <1>3, Zenon
  <1>13. m.flaw = "overlong" => Packet(m) = Framed(p \o padding)
    BY <1>3, Zenon
  <1> SUFFICES /\ n \in {2, 4} /\ sound \in Seq(Byte) /\ Len(sound) = n + 3
               /\ m.flaw = "none" => Packet(m) = sound
               /\ m.flaw = "checksum" =>
                      /\ Len(Packet(m)) = n + 3
                      /\ \A i \in 1..n + 2 : Packet(m)[i] = sound[i]
                      /\ Packet(m)[n + 3] = Damaged(Last(sound))
               /\ m.flaw = "cut" => Len(Packet(m)) = n + 2 /\ Packet(m)[2] = LengthByte(n)
               /\ m.flaw = "overlong" => Packet(m)[2] = LengthByte(DDCCI_RX_MAX)
               /\ m.flaw \in {"none", "checksum", "cut", "overlong"}
               /\ sound[2] = LengthByte(n)
               /\ Last(sound) = xor_checksum(DDCCI_REQUEST_CHECKSUM_SEED, Front(sound))
    BY <1>4, Zenon DEF sound, p
  <1> QED BY <1>2, <1>5, <1>6, <1>7, <1>8, <1>9, <1>10, <1>11, <1>12, <1>13, Zenon

\* A seal and the seal that is wrong by half its range are never confused, even
\* when the last bit is lost.
LEMMA SealsDiffer ==
    ASSUME NEW c \in Byte, NEW d \in Byte, c \div 2 = d \div 2
    PROVE  d # Damaged(c)
  BY SMT DEF Byte, Damaged

\* A length byte announces the packet it was made for.
LEMMA LengthsMatch ==
    ASSUME NEW n \in 0..127
    PROVE  Announced(LengthByte(n)) = n + 3
  BY SMT DEF Announced, LengthByte

\* Bytes that begin like a packet, and end like it but for the last bit, and
\* that the slave takes for a valid packet, are the packet, and a sound one.
LEMMA OnlySoundPackets ==
    ASSUME NEW m \in Messages, NEW rx \in Seq(Byte),
           Len(rx) <= DDCCI_RX_MAX, Len(rx) <= Len(Packet(m)),
           \A i \in 1..Len(rx) - 1 : rx[i] = Packet(m)[i],
           Len(rx) > 0 => rx[Len(rx)] \div 2 = Packet(m)[Len(rx)] \div 2,
           Valid(rx)
    PROVE  m.flaw = "none" /\ rx = Packet(m)
  <1> DEFINE n == Len(Payload(m))
             sound == Framed(Payload(m))
  <1>0. /\ n \in {2, 4} /\ sound \in Seq(Byte) /\ Len(sound) = n + 3
        /\ m.flaw = "none" => Packet(m) = sound
        /\ m.flaw = "checksum" =>
               /\ Len(Packet(m)) = n + 3
               /\ \A i \in 1..n + 2 : Packet(m)[i] = sound[i]
               /\ Packet(m)[n + 3] = Damaged(Last(sound))
        /\ m.flaw = "cut" => Len(Packet(m)) = n + 2 /\ Packet(m)[2] = LengthByte(n)
        /\ m.flaw = "overlong" => Packet(m)[2] = LengthByte(DDCCI_RX_MAX)
        /\ m.flaw \in {"none", "checksum", "cut", "overlong"}
        /\ sound[2] = LengthByte(n)
        /\ Last(sound) = xor_checksum(DDCCI_REQUEST_CHECKSUM_SEED, Front(sound))
    BY PacketShape, Zenon
  <1> HIDE DEF n, sound
  <1>1. /\ Len(rx) >= 4 /\ Len(rx) = Announced(rx[2])
        /\ Last(rx) = xor_checksum(DDCCI_REQUEST_CHECKSUM_SEED, Front(rx))
    BY Zenon DEF Valid, ChecksumMatches
  <1>2. PICK k \in Nat : k = Len(rx)
    BY LenProperties, Zenon
  <1>3. k >= 4 => 2 \in 1..k - 1 /\ k \in 1..k /\ k > 0
    BY SMT
  <1>4. rx[2] = Packet(m)[2]
    BY <1>1, <1>2, <1>3, Zenon
  <1>5. CASE m.flaw = "cut"
    <2>1. k = Announced(LengthByte(n)) /\ k <= n + 2
      BY <1>0, <1>1, <1>2, <1>4, <1>5, Zenon
    <2>2. n \in 0..127 /\ ~(n + 3 <= n + 2)
      BY <1>0, SMT
    <2> QED BY <2>1, <2>2, LengthsMatch, Zenon
  <1>6. CASE m.flaw = "overlong"
    <2>1. k = Announced(LengthByte(DDCCI_RX_MAX)) /\ k <= DDCCI_RX_MAX
      BY <1>0, <1>1, <1>2, <1>4, <1>6, Zenon
    <2>2. DDCCI_RX_MAX \in 0..127 /\ ~(DDCCI_RX_MAX + 3 <= DDCCI_RX_MAX)
      BY ConstantTypes, SMT
    <2> QED BY <2>1, <2>2, LengthsMatch, Zenon
  <1>7. CASE m.flaw \in {"none", "checksum"}
    <2>1. Packet(m)[2] = LengthByte(n)
      <3>1. 2 \in 1..n + 2
        BY <1>0, SMT
      <3> QED BY <1>0, <1>7, <3>1, Zenon
    <2>2. k = Announced(LengthByte(n))
      BY <1>1, <1>2, <1>4, <2>1, Zenon
    <2>3. k = n + 3 /\ k - 1 = n + 2
      <3>1. n \in 0..127 /\ (n + 3) - 1 = n + 2
        BY <1>0, SMT
      <3> QED BY <2>2, <3>1, LengthsMatch, Zenon
    <2>4. \A i \in 1..Len(rx) - 1 : rx[i] = sound[i]
      <3>1. \A i \in 1..n + 2 : Packet(m)[i] = sound[i]
        BY <1>0, <1>7, Zenon
      <3> QED BY <1>2, <2>3, <3>1, Zenon
    <2>5. Len(rx) = Len(sound) /\ Len(rx) > 0
      BY <1>0, <1>1, <1>2, <1>3, <2>3, Zenon
    <2>6. /\ Front(rx) = Front(sound)
          /\ Last(rx) = Last(sound) => rx = sound
          /\ Last(rx) = rx[k] /\ Last(sound) = sound[k]
      <3>1. /\ Front(rx) = Front(sound)
            /\ Last(rx) = Last(sound) => rx = sound
            /\ Last(rx) = rx[Len(rx)] /\ Last(sound) = sound[Len(rx)]
        BY <1>0, <2>4, <2>5, SameFront
      <3> QED BY <1>2, <3>1, Zenon
    <2>7. Last(rx) = Last(sound)
      BY <1>0, <1>1, <2>6, Zenon
    <2>8. m.flaw # "checksum"
      <3> SUFFICES ASSUME m.flaw = "checksum" PROVE FALSE
        OBVIOUS
      <3>1. PICK c \in Byte : c = rx[k]
        BY <1>1, <1>2, <1>3, ElementTyped, Zenon
      <3>2. PICK d \in Byte : d = Packet(m)[k]
        <4>1. Packet(m) \in Seq(Byte) /\ Len(Packet(m)) = k
          BY <1>0, <2>3, PacketTyped, Zenon
        <4> QED BY <1>1, <1>2, <1>3, <4>1, ElementTyped, Zenon
      <3>3. c \div 2 = d \div 2
        BY <1>1, <1>2, <1>3, <3>1, <3>2, Zenon
      <3>4. d = Damaged(c)
        BY <1>0, <2>3, <2>6, <2>7, <3>1, <3>2, Zenon
      <3> QED BY <3>3, <3>4, SealsDiffer, Zenon
    <2> QED BY <1>0, <1>7, <2>6, <2>7, <2>8, Zenon
  <1> QED BY <1>0, <1>5, <1>6, <1>7, Zenon

\* What process_write_packet checks.
LEMMA ValidMeans == request_packet_valid <=> Valid(s_rx)
  BY Zenon DEF request_packet_valid, Valid, Announced

\* A word is two bytes, and the two bytes are the word.
LEMMA WordOf ==
    ASSUME NEW v \in Word
    PROVE  256 * (v \div 256) + (v % 256) = v
  BY SMT DEF Word

\* Nothing is not a message.
LEMMA NothingFacts == Nothing \notin Messages
  BY ScriptsAssumption

\* The bytes of a sound packet that process_write_packet looks at.
LEMMA SoundFields ==
    ASSUME NEW m \in Messages, m.flaw = "none"
    PROVE  /\ m.op \in {"get", "set"} /\ m.code \in Byte /\ m.value \in Word
           /\ m.op = "get" => /\ Len(Packet(m)) = 5
                              /\ Packet(m)[3] = DDCCI_CMD_GET_VCP
                              /\ Packet(m)[4] = m.code
           /\ m.op = "set" => /\ Len(Packet(m)) = 7
                              /\ Packet(m)[3] = DDCCI_CMD_SET_VCP
                              /\ Packet(m)[4] = m.code
                              /\ Packet(m)[5] = m.value \div 256
                              /\ Packet(m)[6] = m.value % 256
  <1> DEFINE p == Payload(m)
  <1>1. m.op \in {"get", "set"} /\ m.code \in Byte /\ m.value \in Word
    BY Zenon DEF Messages
  <1>2. p \in Seq(Byte) /\ Len(p) \in {2, 4}
    BY PayloadTyped, Zenon
  <1>3. Packet(m) = Framed(p)
    BY Zenon DEF Packet
  <1>4. m.op = "get" => p = << DDCCI_CMD_GET_VCP, m.code >>
    BY Zenon DEF Payload
  <1>5. m.op = "set" => p = << DDCCI_CMD_SET_VCP, m.code, m.value \div 256, m.value % 256 >>
    <2>1. "set" # "get"
      OBVIOUS
    <2> QED BY <2>1, Zenon DEF Payload
  <1> HIDE DEF p
  <1>6. Len(p) <= 127
    <2>1. \A n \in {2, 4} : n <= 127
      BY SMT
    <2> QED BY <1>2, <2>1, Zenon
  <1>7. Len(Framed(p)) = Len(p) + 3 /\ \A i \in 1..Len(p) : Framed(p)[i + 2] = p[i]
    BY <1>2, <1>6, FramedShape, Zenon
  <1> DEFINE rx == Framed(p)
  <1>8. CASE m.op = "get"
    <2>1. Len(p) = 2 /\ p[1] = DDCCI_CMD_GET_VCP /\ p[2] = m.code
      BY <1>4, <1>8
    <2>2. 1 \in 1..Len(p) /\ 2 \in 1..Len(p) /\ 1 + 2 = 3 /\ 2 + 2 = 4 /\ 2 + 3 = 5
      BY <2>1, SMT
    <2>3. rx[1 + 2] = p[1] /\ rx[2 + 2] = p[2] /\ Len(rx) = Len(p) + 3
      BY <1>7, <2>2, Zenon
    <2>4. Len(rx) = 5 /\ rx[3] = DDCCI_CMD_GET_VCP /\ rx[4] = m.code
      BY <2>1, <2>2, <2>3, Zenon
    <2>5. m.op # "set"
      BY <1>8
    <2> QED BY <1>1, <1>3, <2>4, <2>5, Zenon
  <1>9. CASE m.op = "set"
    <2>1. /\ Len(p) = 4 /\ p[1] = DDCCI_CMD_SET_VCP /\ p[2] = m.code
          /\ p[3] = m.value \div 256 /\ p[4] = m.value % 256
      BY <1>5, <1>9
    <2>2. /\ 1 \in 1..Len(p) /\ 2 \in 1..Len(p) /\ 3 \in 1..Len(p) /\ 4 \in 1..Len(p)
          /\ 1 + 2 = 3 /\ 2 + 2 = 4 /\ 3 + 2 = 5 /\ 4 + 2 = 6 /\ 4 + 3 = 7
      BY <2>1, SMT
    <2>3. /\ rx[1 + 2] = p[1] /\ rx[2 + 2] = p[2] /\ rx[3 + 2] = p[3] /\ rx[4 + 2] = p[4]
          /\ Len(rx) = Len(p) + 3
      BY <1>7, <2>2, Zenon
    <2>4. /\ Len(rx) = 7 /\ rx[3] = DDCCI_CMD_SET_VCP /\ rx[4] = m.code
          /\ rx[5] = m.value \div 256 /\ rx[6] = m.value % 256
      BY <2>1, <2>2, <2>3, Zenon
    <2>5. m.op # "get"
      BY <1>9
    <2> QED BY <1>1, <1>3, <2>4, <2>5, Zenon
  <1> QED BY <1>1, <1>8, <1>9, Zenon

\* The bytes of a reply that carry its code and its values.
LEMMA ValueFields ==
    ASSUME NEW vcp \in Byte, NEW max \in Word, NEW cur \in Word
    PROVE  LET r == VcpResponse(vcp, max, cur) IN
           /\ Len(r) = 11 /\ r[5] = vcp
           /\ 256 * r[7] + r[8] = max
           /\ 256 * r[9] + r[10] = cur
  <1> DEFINE data == << DDCCI_DISPLAY_SOURCE, 128 + 8, DDCCI_CMD_GET_VCP_REPLY, 0, vcp, 0,
                        max \div 256, max % 256, cur \div 256, cur % 256 >>
             r == VcpResponse(vcp, max, cur)
  <1>1. max \div 256 \in Byte /\ max % 256 \in Byte /\ cur \div 256 \in Byte
        /\ cur % 256 \in Byte
    BY WordBytes, Zenon
  <1>2. data \in Seq(Byte) /\ Len(data) = 10
    BY <1>1, CodesTyped, TenBytes
  <1>3. /\ data[5] = vcp /\ data[7] = max \div 256 /\ data[8] = max % 256
        /\ data[9] = cur \div 256 /\ data[10] = cur % 256
    OBVIOUS
  <1>4. r = Sealed(DDCCI_REPLY_CHECKSUM_SEED, data)
    BY Zenon DEF VcpResponse
  <1> HIDE DEF data, r
  <1>5. /\ 5 \in 1..Len(data) /\ 7 \in 1..Len(data) /\ 8 \in 1..Len(data)
        /\ 9 \in 1..Len(data) /\ 10 \in 1..Len(data) /\ 10 + 1 = 11
    BY <1>2, SMT
  <1>6. DDCCI_REPLY_CHECKSUM_SEED \in Byte
    BY CodesTyped, Zenon
  <1>7. Len(r) = Len(data) + 1 /\ \A i \in 1..Len(data) : r[i] = data[i]
    BY <1>2, <1>4, <1>6, SealedTyped, Zenon
  <1>8. /\ Len(r) = 11 /\ r[5] = vcp /\ r[7] = max \div 256 /\ r[8] = max % 256
        /\ r[9] = cur \div 256 /\ r[10] = cur % 256
    <2>1. /\ r[5] = data[5] /\ r[7] = data[7] /\ r[8] = data[8] /\ r[9] = data[9]
          /\ r[10] = data[10]
      BY <1>5, <1>7, Zenon
    <2>2. Len(r) = 11
      BY <1>2, <1>5, <1>7, Zenon
    <2> QED BY <1>3, <2>1, <2>2
  <1>9. 256 * r[7] + r[8] = max /\ 256 * r[9] + r[10] = cur
    BY <1>8, WordOf, Zenon
  <1>10. Len(r) = 11 /\ r[5] = vcp /\ 256 * r[7] + r[8] = max /\ 256 * r[9] + r[10] = cur
    BY <1>8, <1>9, Zenon
  <1> QED BY <1>10, Zenon DEF r

\* What a transfer to the DDC/CI device sends after its address: the packet of
\* its message, or nothing.
LEMMA DdcTransfer ==
    ASSUME NEW t, IsTransfer(t), t.to = DDCCI_I2C_ADDRESS, Len(t.bytes) # 1
    PROVE  LET m == t.message IN
           /\ m \in Messages
           /\ Len(t.bytes) = Len(Packet(m)) + 1
           /\ \A i \in 1..Len(Packet(m)) : t.bytes[i + 1] = Packet(m)[i]
  <1>1. t.message \in Messages /\ t = Send(t.message, t.then)
    <2>1. CASE t.reads \in Nat \ {0} /\ t = Read(t.to, t.reads, t.then)
      <3>1. t.bytes = << 2 * t.to + 1 >>
        BY <2>1 DEF Read
      <3>2. Len(<< 2 * t.to + 1 >>) = 1
        OBVIOUS
      <3> QED BY <3>1, <3>2, Zenon
    <2> QED BY <2>1, Zenon DEF IsTransfer
  <1> DEFINE m == t.message
             head == << 2 * DDCCI_I2C_ADDRESS >>
             rest == Packet(m)
  <1>2. t.bytes = head \o rest
    <2> DEFINE w == Write(DDCCI_I2C_ADDRESS, Packet(t.message), t.then)
    <2>1. t = [w EXCEPT !.message = t.message]
      BY <1>1, Zenon DEF Send
    <2>2. /\ w.bytes = << 2 * DDCCI_I2C_ADDRESS >> \o Packet(t.message)
          /\ DOMAIN w = {"to", "bytes", "reads", "then", "message"}
      BY DEF Write
    <2> HIDE DEF w
    <2> QED BY <2>1, <2>2
  <1>3. rest \in Seq(Byte)
    BY <1>1, PacketTyped, Zenon
  <1>4. head \in Seq(Byte) /\ Len(head) = 1
    <2>1. 2 * DDCCI_I2C_ADDRESS \in Byte
      BY SMT DEF DDCCI_I2C_ADDRESS, Byte
    <2> QED BY <2>1
  <1> HIDE DEF head, rest
  <1>5. PICK n \in Nat : n = Len(rest)
    BY <1>3, LenProperties, Zenon
  <1>6. /\ Len(t.bytes) = Len(head) + Len(rest)
        /\ \A i \in 1..Len(head) + Len(rest) :
               t.bytes[i] = IF i <= Len(head) THEN head[i] ELSE rest[i - Len(head)]
    <2>1. /\ Len(head \o rest) = Len(head) + Len(rest)
          /\ \A i \in 1..Len(head) + Len(rest) :
               (head \o rest)[i] = IF i <= Len(head) THEN head[i] ELSE rest[i - Len(head)]
      BY <1>3, <1>4, ConcatProperties, Zenon
    <2> QED BY <1>2, <2>1, Zenon
  <1>7. /\ 1 + n = n + 1
        /\ \A i \in 1..n : i + 1 \in 1..1 + n /\ ~(i + 1 <= 1) /\ (i + 1) - 1 = i
    BY SMT
  <1>8. Len(t.bytes) = n + 1
    BY <1>4, <1>5, <1>6, <1>7, Zenon
  <1>9. \A i \in 1..n : t.bytes[i + 1] = rest[i]
    <2> TAKE i \in 1..n
    <2>1. t.bytes[i + 1] = IF i + 1 <= 1 THEN head[i + 1] ELSE rest[(i + 1) - 1]
      BY <1>4, <1>5, <1>6, <1>7, Zenon
    <2> QED BY <1>7, <2>1, Zenon
  <1> QED BY <1>1, <1>5, <1>8, <1>9, Zenon DEF rest

\* Bytes that begin like the bytes of a transfer to the device, but for the
\* last bit, and that it takes for a valid packet, are a whole sound message.
LEMMA TakesOnlyWhole ==
    ASSUME IsTransfer(Transfer), Transfer.to = DDCCI_I2C_ADDRESS,
           NEW rx \in Seq(Byte), Len(rx) <= DDCCI_RX_MAX,
           Len(rx) + 1 <= Len(Transfer.bytes),
           \A i \in 1..Len(rx) - 1 : rx[i] = Transfer.bytes[i + 1],
           Len(rx) > 0 => rx[Len(rx)] \div 2 = Transfer.bytes[Len(rx) + 1] \div 2,
           Valid(rx)
    PROVE  /\ WholeMessage \in Messages /\ WholeMessage.flaw = "none"
           /\ rx = Packet(WholeMessage)
           /\ Len(rx) > 0 /\ Len(rx) + 1 = Len(Transfer.bytes)
  <1> DEFINE m == Transfer.message
  <1>1. PICK k \in Nat : k = Len(rx)
    BY LenProperties, Zenon
  <1>2. k >= 4
    BY <1>1, Zenon DEF Valid
  <1>3. k > 0 /\ ~(k + 1 <= 1) /\ k \in 1..k /\ \A i \in 1..k - 1 : i \in 1..k
    BY <1>2, SMT
  <1>4. Len(Transfer.bytes) # 1
    BY <1>1, <1>3, Zenon
  <1>5. /\ m \in Messages /\ Len(Transfer.bytes) = Len(Packet(m)) + 1
        /\ \A i \in 1..Len(Packet(m)) : Transfer.bytes[i + 1] = Packet(m)[i]
    BY <1>4, DdcTransfer, Zenon
  <1>6. PICK n \in Nat : n = Len(Packet(m))
    <2>1. Packet(m) \in Seq(Byte)
      BY <1>5, PacketTyped, Zenon
    <2> QED BY <2>1, LenProperties, Zenon
  <1>7. k <= n
    <2>1. k + 1 <= n + 1
      BY <1>1, <1>5, <1>6, Zenon
    <2> QED BY <2>1, SMT
  <1>8. \A i \in 1..k : i \in 1..n
    BY <1>7, SMT
  <1>9. /\ \A i \in 1..Len(rx) - 1 : rx[i] = Packet(m)[i]
        /\ Len(rx) > 0 => rx[Len(rx)] \div 2 = Packet(m)[Len(rx)] \div 2
    BY <1>1, <1>3, <1>5, <1>6, <1>8, Zenon
  <1>10. m.flaw = "none" /\ rx = Packet(m)
    BY <1>1, <1>5, <1>6, <1>7, <1>9, OnlySoundPackets, Zenon
  <1>11. WholeMessage = m
    BY <1>5, <1>10, NothingFacts, Zenon DEF WholeMessage
  <1> QED BY <1>1, <1>3, <1>5, <1>10, <1>11, Zenon

\* So what is collected of a transfer, and no more, is no valid packet that is
\* not on the wire.
LEMMA PrefixCarries ==
    ASSUME IsTransfer(Transfer), Transfer.to = DDCCI_I2C_ADDRESS, PacketTypeOK, Prefix
    PROVE  Carries(s_rx)
  <1> SUFFICES ASSUME Valid(s_rx)
               PROVE  wire \in Messages /\ wire.flaw = "none" /\ s_rx = Packet(wire)
    BY Zenon DEF Carries
  <1>1. /\ s_rx \in Seq(Byte) /\ Len(s_rx) <= DDCCI_RX_MAX
        /\ Len(s_rx) + 1 <= Len(Transfer.bytes)
        /\ \A i \in 1..Len(s_rx) : s_rx[i] = Transfer.bytes[i + 1]
        /\ Len(s_rx) > 0 /\ Len(s_rx) + 1 = Len(Transfer.bytes) => wire = WholeMessage
    BY Zenon DEF PacketTypeOK, Prefix
  <1>2. PICK k \in Nat : k = Len(s_rx)
    BY <1>1, LenProperties, Zenon
  <1>3. (\A i \in 1..k - 1 : i \in 1..k) /\ (k > 0 => k \in 1..k)
    BY SMT
  <1>4. /\ \A i \in 1..Len(s_rx) - 1 : s_rx[i] = Transfer.bytes[i + 1]
        /\ Len(s_rx) > 0 => s_rx[Len(s_rx)] \div 2 = Transfer.bytes[Len(s_rx) + 1] \div 2
    BY <1>1, <1>2, <1>3, Zenon
  <1>5. /\ WholeMessage \in Messages /\ WholeMessage.flaw = "none"
        /\ s_rx = Packet(WholeMessage)
        /\ Len(s_rx) > 0 /\ Len(s_rx) + 1 = Len(Transfer.bytes)
    BY <1>1, <1>4, TakesOnlyWhole, Zenon
  <1> QED BY <1>1, <1>5, Zenon

\* The device is being written only in a transfer to it, and then what it has
\* collected is no packet but the message on the wire.
LEMMA ContentCarries ==
    IsTransfer(Transfer) /\ PacketTypeOK /\ Directions /\ Content =>
        (Written => Transfer.to = DDCCI_I2C_ADDRESS /\ Carries(s_rx))
  <1> SUFFICES ASSUME IsTransfer(Transfer), PacketTypeOK, Directions, Content, Written
               PROVE  Transfer.to = DDCCI_I2C_ADDRESS /\ Carries(s_rx)
    OBVIOUS
  <1>1. DDCCI_I2C_ADDRESS # NoDevice
    BY AddressFacts, SMT
  <1>2. eng.active = DDCCI_I2C_ADDRESS /\ eng.state # "address"
    BY <1>1, Zenon DEF Written, Directions
  <1>3. find_device(Transfer.to) = DDCCI_I2C_ADDRESS
    BY <1>2, Zenon DEF Content
  <1>4. Transfer.to = DDCCI_I2C_ADDRESS
    BY <1>1, <1>3, Zenon DEF find_device
  <1>5. Prefix
    BY Zenon DEF Content
  <1> QED BY <1>4, <1>5, PrefixCarries, Zenon

-----------------------------------------------------------------------------
(* What the steps of the slave do to a byte under way *)

\* From slot to slot.
LEMMA ByteSteps ==
    ASSUME NEW n \in Nat
    PROVE  /\ n % 9 < 8 => ByteOf(n + 1) = ByteOf(n) /\ (n + 1) % 9 # 0
           /\ n % 9 = 8 => ByteOf(n + 1) = ByteOf(n) + 1 /\ (n + 1) % 9 = 0
  BY SMT DEF ByteOf

\* In a write every slot belongs to a byte of the transfer.
LEMMA WriteSlots ==
    ASSUME ScriptInv, Playing, ~Reading
    PROVE  /\ ~IsRead(slot) /\ slot \in Nat
           /\ ByteOf(slot) \in Nat /\ ByteOf(slot) <= Len(Transfer.bytes)
           /\ Transfer.bytes[ByteOf(slot)] \in Byte
           /\ ByteOf(slot) = Len(Transfer.bytes) /\ slot % 9 = 7 => slot = Slots - 2
           /\ ByteOf(slot) = Len(Transfer.bytes) /\ slot % 9 >= 6 => slot >= Slots - 3
  <1>0. script # << >> /\ ~IsRead(slot) /\ slot \in Nat
    BY SlotKinds, Zenon DEF ScriptInv
  <1>1. /\ Len(Transfer.bytes) \in Nat \ {0} /\ Transfer.reads \in Nat
        /\ Transfer.bytes \in Seq(Byte) /\ slot \in 0..Slots - 1
    BY <1>0, SlotFacts, Zenon
  <1>2. Transfer.reads = 0
    BY <1>1, SMT DEF Reading
  <1>3. PICK k \in Nat : k = Len(Transfer.bytes)
    BY <1>1, Zenon
  <1>4. Slots = 9 * k
    BY <1>1, <1>2, <1>3, SMT DEF Slots
  <1>5. ByteOf(slot) \in 1..k
    BY <1>0, <1>1, <1>4, SMT DEF ByteOf
  <1>6. /\ ByteOf(slot) = k /\ slot % 9 = 7 => slot = Slots - 2
        /\ ByteOf(slot) = k /\ slot % 9 >= 6 => slot >= Slots - 3
    BY <1>0, <1>1, <1>4, SMT DEF ByteOf
  <1>7. Transfer.bytes[ByteOf(slot)] \in Byte
    BY <1>1, <1>3, <1>5, ElementTyped, Zenon
  <1>8. ByteOf(slot) \in Nat /\ ByteOf(slot) <= k
    BY <1>5, SMT
  <1> QED BY <1>0, <1>3, <1>6, <1>7, <1>8, Zenon

\* A bit comes in.
LEMMA ShiftIn ==
    ASSUME eng \in Locals, eng.bits < 8, NEW bit \in {0, 1}
    PROVE  /\ Shifted(bit).shift = (2 * eng.shift + bit) % 256
           /\ Shifted(bit).read = eng.read /\ Shifted(bit).active = eng.active
           /\ Shifted(bit).state = eng.state /\ Shifted(bit).bits = eng.bits + 1
           /\ Shifted(bit) \in Locals
  <1>1. Shifted(bit) \in Locals
    BY ShiftedTyped, Zenon
  <1> DEFINE v == (2 * eng.shift + bit) % 256
             n == eng.bits + 1
  <1>2. Shifted(bit) = [eng EXCEPT !.shift = v, !.bits = n]
    BY Zenon DEF Shifted
  <1>3. DOMAIN eng = {"state", "shift", "bits", "read", "rx_ack", "ack_phase",
                      "tx_byte", "tx_bits", "master_ack", "active"}
    BY DEF Locals
  <1> HIDE DEF v, n
  <1>4. /\ Shifted(bit).shift = v /\ Shifted(bit).read = eng.read
        /\ Shifted(bit).active = eng.active
        /\ Shifted(bit).state = eng.state /\ Shifted(bit).bits = n
    BY <1>2, <1>3
  <1> QED BY <1>1, <1>4, Zenon DEF v, n

\* A rising clock while the address comes in: the last bit finds the device.
LEMMA RiseOfAddress ==
    ASSUME eng \in Locals, BitsInv, NEW bit \in {0, 1}, Rise(bit), eng.state = "address"
    PROVE  LET byte == (2 * eng.shift + bit) % 256 IN
           /\ eng.bits < 7 => /\ eng'.state = "address" /\ eng'.shift = byte
                              /\ eng'.bits = eng.bits + 1
                              /\ eng'.active = eng.active /\ eng'.read = eng.read
                              /\ UNCHANGED deviceVars
           /\ ~(eng.bits < 7) => /\ eng.bits = 7 /\ eng'.state = "address_ack"
                                 /\ eng'.active = find_device(byte \div 2)
                                 /\ eng'.read \in BOOLEAN
                                 /\ begin(eng'.active, eng'.read)
  <1> DEFINE byte == (2 * eng.shift + bit) % 256
             next == Shifted(bit)
             device == find_device(next.shift \div 2)
             read == next.shift % 2 = 1
  <1>1. RiseAddress(bit)
    BY DEF Rise, RiseReceive, RiseAck, RiseTransmit, RiseMasterAck, RiseIgnore
  <1>2. eng.bits < 8 /\ eng.bits \in 0..8
    BY SMT DEF BitsInv, Locals
  <1>3. /\ next.shift = byte /\ next.read = eng.read /\ next.active = eng.active
        /\ next.state = eng.state /\ next.bits = eng.bits + 1 /\ next \in Locals
    BY <1>2, ShiftIn, Zenon
  <1>4. /\ IF next.bits = 8
           THEN /\ eng' = [next EXCEPT !.read = read, !.active = device,
                                       !.ack_phase = 0, !.state = "address_ack"]
                /\ begin(device, read)
           ELSE eng' = next /\ UNCHANGED deviceVars
    BY <1>1, Zenon DEF RiseAddress
  <1>5. (eng.bits < 7 => eng.bits + 1 # 8) /\ (~(eng.bits < 7) => eng.bits = 7 /\ eng.bits + 1 = 8)
    BY <1>2, SMT
  <1>6. CASE eng.bits < 7
    <2>1. eng' = next /\ UNCHANGED deviceVars
      BY <1>3, <1>4, <1>5, <1>6, Zenon
    <2> QED BY <1>3, <1>6, <2>1, Zenon
  <1>7. CASE ~(eng.bits < 7)
    <2>1. /\ eng' = [next EXCEPT !.read = read, !.active = device,
                                 !.ack_phase = 0, !.state = "address_ack"]
          /\ begin(device, read)
      BY <1>3, <1>4, <1>5, <1>7, Zenon
    <2>2. device = find_device(byte \div 2)
      BY <1>3, Zenon
    <2>3. DOMAIN next = {"state", "shift", "bits", "read", "rx_ack", "ack_phase",
                         "tx_byte", "tx_bits", "master_ack", "active"}
      BY <1>3 DEF Locals
    <2>4. read \in BOOLEAN
      BY Zenon
    <2> HIDE DEF next, device, read
    <2>5. eng'.read = read /\ eng'.active = device /\ eng'.state = "address_ack"
      BY <2>1, <2>3
    <2> QED BY <1>5, <1>7, <2>1, <2>2, <2>4, <2>5, Zenon
  <1> QED BY <1>6, <1>7, Zenon

\* ... while a byte comes in: the last bit hands it to the device.
LEMMA RiseOfByte ==
    ASSUME eng \in Locals, BitsInv, NEW bit \in {0, 1}, Rise(bit), eng.state = "rx"
    PROVE  LET byte == (2 * eng.shift + bit) % 256 IN
           /\ eng'.active = eng.active /\ eng'.read = eng.read
           /\ eng.bits < 7 => /\ eng'.state = "rx" /\ eng'.shift = byte
                              /\ eng'.bits = eng.bits + 1
                              /\ UNCHANGED deviceVars
           /\ ~(eng.bits < 7) => /\ eng.bits = 7 /\ eng'.state = "rx_ack"
                                 /\ eng'.rx_ack = Acknowledges(eng.active)
                                 /\ write_byte(eng.active, byte)
  <1> DEFINE byte == (2 * eng.shift + bit) % 256
             next == Shifted(bit)
             fits == Acknowledges(eng.active)
  <1>1. RiseReceive(bit)
    BY DEF Rise, RiseAddress, RiseAck, RiseTransmit, RiseMasterAck, RiseIgnore
  <1>2. eng.bits < 8 /\ eng.bits \in 0..8
    BY SMT DEF BitsInv, Locals
  <1>3. /\ next.shift = byte /\ next.read = eng.read /\ next.active = eng.active
        /\ next.state = eng.state /\ next.bits = eng.bits + 1 /\ next \in Locals
    BY <1>2, ShiftIn, Zenon
  <1>4. /\ IF next.bits = 8
           THEN /\ eng' = [next EXCEPT !.rx_ack = fits, !.ack_phase = 0, !.state = "rx_ack"]
                /\ write_byte(eng.active, next.shift)
           ELSE eng' = next /\ UNCHANGED deviceVars
    BY <1>1, Zenon DEF RiseReceive
  <1>5. (eng.bits < 7 => eng.bits + 1 # 8) /\ (~(eng.bits < 7) => eng.bits = 7 /\ eng.bits + 1 = 8)
    BY <1>2, SMT
  <1>6. CASE eng.bits < 7
    <2>1. eng' = next /\ UNCHANGED deviceVars
      BY <1>3, <1>4, <1>5, <1>6, Zenon
    <2> QED BY <1>3, <1>6, <2>1, Zenon
  <1>7. CASE ~(eng.bits < 7)
    <2>1. /\ eng' = [next EXCEPT !.rx_ack = fits, !.ack_phase = 0, !.state = "rx_ack"]
          /\ write_byte(eng.active, byte)
      BY <1>3, <1>4, <1>5, <1>7, Zenon
    <2>3. DOMAIN next = {"state", "shift", "bits", "read", "rx_ack", "ack_phase",
                         "tx_byte", "tx_bits", "master_ack", "active"}
      BY <1>3 DEF Locals
    <2> HIDE DEF next, fits
    <2>4. /\ eng'.rx_ack = fits /\ eng'.state = "rx_ack"
          /\ eng'.active = next.active /\ eng'.read = next.read
      BY <2>1, <2>3
    <2> QED BY <1>3, <1>5, <1>7, <2>1, <2>4, Zenon DEF fits
  <1> QED BY <1>6, <1>7, Zenon

\* ... at any other time: nothing is collected, decided or asked for.
LEMMA RiseOther ==
    ASSUME eng \in Locals, NEW bit \in {0, 1}, Rise(bit), eng.state \notin {"address", "rx"}
    PROVE  /\ eng'.active = eng.active /\ eng'.read = eng.read /\ eng'.rx_ack = eng.rx_ack
           /\ eng'.state \in {eng.state, "tx_master_ack"}
           /\ UNCHANGED << mailboxVars, s_rx, s_tx, s_response_ready, s_read_direction >>
  <1>0. DOMAIN eng = {"state", "shift", "bits", "read", "rx_ack", "ack_phase",
                      "tx_byte", "tx_bits", "master_ack", "active"}
    BY DEF Locals
  <1>1. UNCHANGED deviceVars =>
            UNCHANGED << mailboxVars, s_rx, s_tx, s_response_ready, s_read_direction >>
    BY Zenon DEF deviceVars, ddcVars, packetVars
  <1>2. CASE RiseAck
    <2>1. eng' = [eng EXCEPT !.ack_phase = IF @ = 1 THEN 2 ELSE @] /\ UNCHANGED deviceVars
      BY <1>2, Zenon DEF RiseAck
    <2>2. /\ eng'.active = eng.active /\ eng'.read = eng.read /\ eng'.rx_ack = eng.rx_ack
          /\ eng'.state = eng.state
      BY <1>0, <2>1
    <2> QED BY <1>1, <2>1, <2>2, Zenon
  <1>3. CASE RiseTransmit
    <2>1. /\ eng' = [eng EXCEPT !.tx_bits = @ + 1,
                          !.ack_phase = IF eng.tx_bits = 7 THEN 0 ELSE @,
                          !.state = IF eng.tx_bits = 7 THEN "tx_master_ack" ELSE @]
          /\ UNCHANGED deviceVars
      BY <1>3, Zenon DEF RiseTransmit
    <2>2. /\ eng'.active = eng.active /\ eng'.read = eng.read /\ eng'.rx_ack = eng.rx_ack
          /\ eng'.state = eng.state \/ eng'.state = "tx_master_ack"
      BY <1>0, <2>1
    <2> QED BY <1>1, <2>1, <2>2, Zenon
  <1>4. CASE RiseMasterAck(bit)
    <2>1. CASE eng.ack_phase = 1
      <3>1. /\ eng' = [eng EXCEPT !.master_ack = (bit = 0), !.ack_phase = 2]
            /\ read_advance(eng.active)
        BY <1>4, <2>1, Zenon DEF RiseMasterAck
      <3>2. /\ eng'.active = eng.active /\ eng'.read = eng.read /\ eng'.rx_ack = eng.rx_ack
            /\ eng'.state = eng.state
        BY <1>0, <3>1
      <3>3. UNCHANGED << mailboxVars, s_rx, s_tx, s_response_ready, s_read_direction >>
        BY <3>1, Zenon DEF read_advance, DdcIs, EepromIs, ddcci_read_advance, ddcVars, packetVars
      <3> QED BY <3>2, <3>3, Zenon
    <2>2. CASE eng.ack_phase # 1
      <3>1. eng' = eng /\ UNCHANGED deviceVars
        BY <1>4, <2>2, Zenon DEF RiseMasterAck
      <3> QED BY <1>1, <3>1, Zenon
    <2> QED BY <2>1, <2>2, Zenon
  <1>5. CASE RiseIgnore
    <2>1. eng' = eng /\ UNCHANGED deviceVars
      BY <1>5, Zenon DEF RiseIgnore
    <2> QED BY <1>1, <2>1, Zenon
  <1> QED BY <1>2, <1>3, <1>4, <1>5 DEF Rise, RiseAddress, RiseReceive

\* A falling clock: the next byte begins, or nothing that matters here.
LEMMA FallMore ==
    ASSUME eng \in Locals, Fall
    PROVE  /\ eng'.active = eng.active /\ eng'.read = eng.read
           /\ eng'.rx_ack = eng.rx_ack
           /\ \/ eng' = eng
              \/ eng'.state = eng.state /\ eng.state \in {"address_ack", "rx_ack"}
                 /\ eng'.ack_phase = 1
              \/ eng'.state \in {"tx", "tx_master_ack", "ignore"}
              \/ /\ eng'.state = "rx" /\ eng'.bits = 0 /\ eng'.shift = 0
                 /\ eng.ack_phase = 2
                 /\ \/ eng.state = "address_ack" /\ ~eng.read
                    \/ eng.state = "rx_ack" /\ eng.rx_ack
  <1>0. DOMAIN eng = {"state", "shift", "bits", "read", "rx_ack", "ack_phase",
                      "tx_byte", "tx_bits", "master_ack", "active"}
    BY DEF Locals
  <1>1. ASSUME SendNext
        PROVE  eng'.active = eng.active /\ eng'.read = eng.read /\ eng'.rx_ack = eng.rx_ack
               /\ eng'.state = "tx"
    <2> DEFINE byte == read_byte(eng.active)
    <2>1. eng' = [eng EXCEPT !.tx_byte = byte, !.tx_bits = 0, !.ack_phase = 0, !.state = "tx"]
      BY <1>1, Zenon DEF SendNext
    <2> HIDE DEF byte
    <2> QED BY <1>0, <2>1
  <1>2. ASSUME ReceiveNext
        PROVE  eng'.active = eng.active /\ eng'.read = eng.read /\ eng'.rx_ack = eng.rx_ack
               /\ eng'.state = "rx" /\ eng'.bits = 0 /\ eng'.shift = 0
    BY <1>0, <1>2 DEF ReceiveNext
  <1>3. ASSUME Ignore \/ eng' = [eng EXCEPT !.shift = 0, !.bits = 0, !.ack_phase = 0,
                                            !.state = "ignore"]
        PROVE  eng'.active = eng.active /\ eng'.read = eng.read /\ eng'.rx_ack = eng.rx_ack
               /\ eng'.state = "ignore"
    BY <1>0, <1>3 DEF Ignore
  <1>4. ASSUME eng' = [eng EXCEPT !.ack_phase = 1]
        PROVE  eng'.active = eng.active /\ eng'.read = eng.read /\ eng'.rx_ack = eng.rx_ack
               /\ eng'.state = eng.state /\ eng'.ack_phase = 1
    BY <1>0, <1>4
  <1>5. CASE FallAddressAck
    BY <1>1, <1>2, <1>3, <1>4, <1>5 DEF FallAddressAck
  <1>6. CASE FallReceiveAck
    BY <1>2, <1>3, <1>4, <1>6 DEF FallReceiveAck
  <1>7. CASE FallMasterAck
    <2>1. CASE eng' = [eng EXCEPT !.ack_phase = 1] /\ eng.state = "tx_master_ack"
      BY <1>4, <2>1
    <2> QED BY <1>1, <1>3, <1>7, <2>1 DEF FallMasterAck
  <1>8. CASE FallTransmit \/ FallIdle
    BY <1>8, Zenon DEF FallTransmit, FallIdle
  <1> QED BY <1>5, <1>6, <1>7, <1>8, Zenon DEF Fall

\* No step of the master touches the slave.
LEMMA HostFrame ==
    ASSUME Host
    PROVE  /\ eng' = eng /\ pc' = pc /\ previous' = previous /\ latch' = latch
           /\ UNCHANGED deviceVars
           /\ UNCHANGED << mailboxVars, s_rx, s_tx, s_response_ready, s_read_direction >>
  <1>1. ASSUME NEW a, NEW b, Drive(a, b)
        PROVE  /\ eng' = eng /\ pc' = pc /\ previous' = previous /\ latch' = latch
               /\ UNCHANGED deviceVars
    BY <1>1, Zenon DEF Drive, SlaveStill
  <1>2. CASE Vanish
    <2>1. /\ eng' = eng /\ pc' = pc /\ previous' = previous /\ latch' = latch
          /\ UNCHANGED deviceVars
      BY <1>2, Zenon DEF Vanish, engineVars
    <2> QED BY <2>1, Zenon DEF deviceVars, ddcVars, packetVars
  <1>3. CASE ~Vanish
    <2>1. \E a, b : Drive(a, b)
      BY <1>3, Zenon DEF Host, HostStarts, HostGoesOn, HostClocksStart, HostData, HostRise,
         HostFall, HostCloses, HostCloseRise, HostRestarts, HostStops, LineDrops, LineRises
    <2>2. /\ eng' = eng /\ pc' = pc /\ previous' = previous /\ latch' = latch
          /\ UNCHANGED deviceVars
      BY <1>1, <2>1, Zenon
    <2> QED BY <2>2, Zenon DEF deviceVars, ddcVars, packetVars
  <1> QED BY <1>2, <1>3, Zenon

\* The end of a transfer leaves its bytes and its direction.
LEMMA EndFrame ==
    ASSUME NEW d, end_device(d)
    PROVE  s_rx' = s_rx /\ s_read_direction' = s_read_direction
  BY Zenon DEF end_device, DdcIs, EepromIs, NobodyIs, ddcci_end, deviceVars, ddcVars, packetVars

\* A repeated START makes the locals fresh.
LEMMA AfreshFields ==
    ASSUME eng \in Locals, SeesRepeatedStart
    PROVE  /\ eng'.state = "address" /\ eng'.shift = 0 /\ eng'.bits = 0
           /\ eng'.active = NoDevice /\ eng'.read = FALSE
           /\ pc' = "resample" /\ end_device(eng.active)
  <1>1. DOMAIN eng = {"state", "shift", "bits", "read", "rx_ack", "ack_phase",
                      "tx_byte", "tx_bits", "master_ack", "active"}
    BY DEF Locals
  <1>2. /\ eng' = [eng EXCEPT !.state = "address", !.shift = 0, !.bits = 0,
                          !.read = FALSE, !.rx_ack = TRUE, !.ack_phase = 0,
                          !.active = NoDevice]
        /\ pc' = "resample" /\ end_device(eng.active)
    BY Zenon DEF SeesRepeatedStart, EndsTransfer
  <1>3. /\ eng'.state = "address" /\ eng'.shift = 0 /\ eng'.bits = 0
        /\ eng'.active = NoDevice /\ eng'.read = FALSE
    BY <1>1, <1>2
  <1> QED BY <1>2, <1>3, Zenon

\* The locals stay in agreement.
LEMMA DirectionsKept ==
    ASSUME IInv, Directions, Act
    PROVE  Directions'
  <1>0. /\ eng \in Locals /\ BitsInv /\ Sda \in {0, 1} /\ pc \in Places
        /\ DDCCI_I2C_ADDRESS # NoDevice
    BY SlaveParts, AddressFacts, SMT
  <1>1. UNCHANGED deviceVars => s_read_direction' = s_read_direction
    BY Zenon DEF deviceVars, ddcVars, packetVars
  <1>2. CASE Host
    <2>1. eng' = eng /\ pc' = pc /\ s_read_direction' = s_read_direction
      BY <1>2, HostFrame, Zenon
    <2> QED BY <2>1 DEF Directions
  <1>3. CASE Start
    <2>1. eng' = eng /\ s_read_direction' = s_read_direction /\ pc' # "resample"
      BY <1>1, <1>3 DEF Start
    <2> QED BY <2>1 DEF Directions
  <1>4. CASE SeesRepeatedStart
    <2>1. /\ eng'.state = "address" /\ eng'.shift = 0 /\ eng'.bits = 0
          /\ eng'.active = NoDevice
      BY <1>0, <1>4, AfreshFields, Zenon
    <2> QED BY <1>0, <2>1 DEF Directions
  <1>5. CASE Resample \/ SeesData
    <2>1. eng' = eng /\ s_read_direction' = s_read_direction /\ pc' # "resample"
      BY <1>1, <1>5 DEF Resample, SeesData, Sees
    <2> QED BY <2>1 DEF Directions
  <1>6. CASE SeesStop \/ Timeout
    <2>1. eng' = eng /\ s_read_direction' = s_read_direction /\ pc' # "resample"
      BY <1>6, EndFrame DEF SeesStop, Timeout
    <2> QED BY <2>1 DEF Directions
  <1>7. CASE SeesRise
    <2>1. Rise(Sda) /\ pc' # "resample"
      BY <1>7 DEF SeesRise, Sees
    <2>2. CASE eng.state = "address"
      <3>1. CASE eng.bits < 7
        <4>1. /\ eng'.state = "address" /\ eng'.bits = eng.bits + 1
              /\ eng'.active = eng.active /\ eng'.read = eng.read
          BY <1>0, <2>1, <2>2, <3>1, RiseOfAddress, Zenon
        <4>2. eng.bits + 1 # 0
          <5>1. eng.bits \in 0..8
            BY <1>0 DEF Locals
          <5> QED BY <5>1, SMT
        <4>3. eng'.active # DDCCI_I2C_ADDRESS
          BY <1>0, <2>2, <4>1 DEF Directions
        <4> QED BY <2>1, <2>2, <4>1, <4>2, <4>3 DEF Directions
      <3>2. CASE ~(eng.bits < 7)
        <4>1. eng'.state = "address_ack" /\ begin(eng'.active, eng'.read)
          BY <1>0, <2>1, <2>2, <3>2, RiseOfAddress, Zenon
        <4>2. eng'.active = DDCCI_I2C_ADDRESS => s_read_direction' = eng'.read
          <5>1. DDCCI_I2C_ADDRESS # EDID_EEPROM_I2C_ADDRESS
            BY AddressFacts, SMT
          <5> QED BY <1>0, <4>1, <5>1, Zenon
                  DEF begin, DdcIs, EepromIs, NobodyIs, ddcci_begin
        <4> QED BY <2>1, <4>1, <4>2 DEF Directions
      <3> QED BY <3>1, <3>2
    <2>3. CASE eng.state = "rx"
      <3>1. /\ eng'.active = eng.active /\ eng'.read = eng.read
            /\ eng.bits < 7 => eng'.state = "rx" /\ UNCHANGED deviceVars
            /\ ~(eng.bits < 7) => \E byte : /\ eng'.state = "rx_ack"
                                            /\ write_byte(eng.active, byte)
        BY <1>0, <2>1, <2>3, RiseOfByte, Zenon
      <3>2. \A byte : write_byte(eng.active, byte) => s_read_direction' = s_read_direction
        BY Zenon DEF write_byte, DdcIs, EepromIs, ddcci_write_byte, ddcVars, packetVars
      <3>3. s_read_direction' = s_read_direction /\ eng'.state \in {"rx", "rx_ack"}
        BY <1>1, <3>1, <3>2
      <3> QED BY <2>1, <2>3, <3>1, <3>3 DEF Directions
    <2>4. CASE eng.state \notin {"address", "rx"}
      <3>1. /\ eng'.active = eng.active /\ eng'.read = eng.read
            /\ eng'.state \in {eng.state, "tx_master_ack"}
            /\ s_read_direction' = s_read_direction
        BY <1>0, <2>1, <2>4, RiseOther, Zenon
      <3> QED BY <2>1, <2>4, <3>1 DEF Directions
    <2> QED BY <2>2, <2>3, <2>4
  <1>8. CASE SeesFall
    <2>1. Fall /\ pc' # "resample" /\ s_read_direction' = s_read_direction
      BY <1>1, <1>8 DEF SeesFall, Sees
    <2>2. eng'.active = eng.active /\ eng'.read = eng.read
      BY <1>0, <2>1, FallMore, Zenon
    <2>3. \/ eng' = eng
          \/ eng'.state = "rx_ack" /\ eng.state = "rx_ack"
          \/ eng'.state \in {"tx", "tx_master_ack", "ignore", "address_ack"}
          \/ eng'.state = "rx" /\ (~eng.read \/ eng.state = "rx_ack")
      BY <1>0, <2>1, FallMore
    <2> QED BY <2>1, <2>2, <2>3 DEF Directions
  <1>9. CASE Finish
    <2>1. eng' = FreshLocals /\ pc' = "idle"
      BY <1>9, Zenon DEF Finish
    <2>2. /\ FreshLocals.state = "address" /\ FreshLocals.shift = 0
          /\ FreshLocals.active = NoDevice
      BY DEF FreshLocals
    <2> QED BY <1>0, <2>1, <2>2 DEF Directions
  <1> QED BY <1>2, <1>3, <1>4, <1>5, <1>6, <1>7, <1>8, <1>9, Zenon
          DEF Act, Slave, Iteration, SlaveGivesUp

\* What belongs to the transfer stays while it is played.
LEMMA SameMessage ==
    ASSUME script' = script
    PROVE  /\ WholeMessage' = WholeMessage /\ Slots' = Slots /\ Transfer' = Transfer
           /\ Reading' <=> Reading
  <1>1. Transfer' = Transfer
    BY Zenon DEF Transfer
  <1> QED BY <1>1, Zenon DEF WholeMessage, Slots, Reading

\* The history of the wire follows the clock.
LEMMA ClockedKept ==
    ASSUME Clocked, Act
    PROVE  Clocked'
  <1>1. script' = script => WholeMessage' = WholeMessage /\ Slots' = Slots
    BY SameMessage, Zenon
  <1>2. CASE Slave
    <2>1. wire' = wire
      BY <1>2, Zenon DEF Slave, Unnoticed, SlaveGivesUp, historyVars
    <2> QED BY <1>1, <1>2, <2>1, SlaveFrame DEF Clocked
  <1>3. CASE HostStarts \/ HostGoesOn \/ HostRestarts \/ HostStops \/ Vanish
             \/ LineDrops \/ LineRises
    <2>1. phase' \in {"started", "between", "free", "gone", "return"}
      BY <1>3 DEF HostStarts, HostGoesOn, HostRestarts, HostStops, Vanish, LineDrops, LineRises
    <2> QED BY <2>1 DEF Clocked
  <1>4. CASE HostClocksStart
    BY <1>4 DEF HostClocksStart, Clocked
  <1>5. CASE HostRise
    BY <1>1, <1>5 DEF HostRise, Clocked
  <1>6. CASE HostData \/ HostFall \/ HostCloses \/ HostCloseRise
    <2>1. /\ script' = script /\ wire' = wire /\ phase' # "high"
          /\ phase \in {"low", "set", "high", "closing", "closeSet", "closeHigh"}
      BY <1>6 DEF HostData, HostFall, HostCloses, HostCloseRise, historyVars
    <2> QED BY <1>1, <2>1 DEF Clocked
  <1> QED BY <1>2, <1>3, <1>4, <1>5, <1>6, Zenon DEF Act, Host

-----------------------------------------------------------------------------
(* What the slave has heard *)

\* It depends on what is collected and on what is on the wire.
LEMMA CarriesFrame ==
    ASSUME wire' = wire, s_rx' = s_rx
    PROVE  /\ Carries(s_rx) => Carries(s_rx)'
           /\ eng' = eng /\ NextCarries => NextCarries'
  <1>1. Carries(s_rx) => Carries(s_rx)'
    BY Zenon DEF Carries, Valid, ChecksumMatches, Announced
  <1>2. ASSUME eng' = eng, NextCarries PROVE NextCarries'
    <2>1. ASSUME NEW r, Carries(r) PROVE Carries(r)'
      BY <2>1, Zenon DEF Carries
    <2>2. PacketFits' <=> PacketFits
      BY Zenon DEF PacketFits
    <2>3. SUFFICES ASSUME eng.state = "rx", eng.bits = 7, PacketFits, NEW x \in {0, 1}
                   PROVE  Carries(Append(s_rx, (2 * eng.shift + x) % 256))'
      BY <1>2, <2>2, Zenon DEF NextCarries
    <2>4. Carries(Append(s_rx, (2 * eng.shift + x) % 256))
      BY <1>2, <2>3, Zenon DEF NextCarries
    <2> QED BY <1>2, <2>1, <2>4, Zenon DEF Carries
  <1> QED BY <1>1, <1>2, Zenon

\* While the slave follows a transfer, what it has collected is no packet but
\* the message on the wire.
LEMMA HeardCarries ==
    IInv /\ Directions /\ Content /\ phase \in {"low", "set", "high"} =>
        (Written => Transfer.to = DDCCI_I2C_ADDRESS /\ Carries(s_rx))
  <1> SUFFICES ASSUME IInv, Directions, Content, phase \in {"low", "set", "high"}, Written
               PROVE  Transfer.to = DDCCI_I2C_ADDRESS /\ Carries(s_rx)
    OBVIOUS
  <1>1. Playing
    BY DEF Playing
  <1>2. ScriptInv /\ PacketTypeOK
    BY Zenon DEF IInv, BusTypeOK
  <1>3. IsTransfer(Transfer)
    BY <1>1, <1>2, SlotFacts, Zenon DEF ScriptInv
  <1> QED BY <1>2, <1>3, ContentCarries, Zenon

\* A message on the wire is the message of the transfer.
LEMMA PrefixFrame ==
    ASSUME Prefix, script' = script, s_rx' = s_rx, wire' \in {wire, WholeMessage}
    PROVE  Prefix'
  <1>1. WholeMessage' = WholeMessage /\ Transfer' = Transfer
    BY SameMessage, Zenon
  <1> QED BY <1>1, Zenon DEF Prefix

\* The address byte tells whom the transfer is for.
LEMMA FirstByte ==
    ASSUME ScriptInv, Playing
    PROVE  /\ IsTransfer(Transfer)
           /\ Transfer.bytes[1] \in Byte
           /\ Transfer.bytes[1] \div 2 = Transfer.to
           /\ Len(Transfer.bytes) \in Nat /\ 1 <= Len(Transfer.bytes)
  <1>1. script # << >>
    BY Zenon DEF ScriptInv
  <1>2. IsTransfer(Transfer) /\ Len(Transfer.bytes) \in Nat \ {0} /\ Transfer.bytes \in Seq(Byte)
    BY <1>1, SlotFacts, Zenon
  <1>3. 1 \in 1..Len(Transfer.bytes)
    BY <1>2, SMT
  <1>4. Transfer.bytes[1] \in Byte
    BY <1>2, <1>3, ElementTyped, Zenon
  <1>5. Transfer.bytes[1] \div 2 = Transfer.to
    <2>1. PICK a \in 0..127 : a = Transfer.to
      BY <1>2, TransferFacts, Zenon
    <2>2. Transfer.bytes[1] = 2 * Transfer.to + (IF Transfer.reads > 0 THEN 1 ELSE 0)
      BY <1>2, TransferFacts, Zenon
    <2>3. PICK r \in {0, 1} : r = IF Transfer.reads > 0 THEN 1 ELSE 0
      OBVIOUS
    <2>4. (2 * a + r) \div 2 = a
      BY SMT
    <2> QED BY <2>1, <2>2, <2>3, <2>4, Zenon
  <1>6. 1 <= Len(Transfer.bytes)
    BY <1>2, SMT
  <1> QED BY <1>2, <1>4, <1>5, <1>6, Zenon

\* A byte that is whole but for its last bit completes no packet that is not
\* the message of the transfer.
LEMMA NextIsWhole ==
    ASSUME IInv, Directions, Content, phase \in {"low", "set", "high"}, ~Reading,
           Written, eng.state = "rx", eng.bits = 7, PacketFits,
           NEW x \in {0, 1}, Valid(Append(s_rx, (2 * eng.shift + x) % 256))
    PROVE  /\ WholeMessage \in Messages /\ WholeMessage.flaw = "none"
           /\ Append(s_rx, (2 * eng.shift + x) % 256) = Packet(WholeMessage)
           /\ ByteOf(slot) = Len(Transfer.bytes)
  <1> DEFINE b == Transfer.bytes[ByteOf(slot)]
             y == (2 * eng.shift + x) % 256
             rx == Append(s_rx, y)
  <1>1. Playing /\ ScriptInv /\ s_rx \in Seq(Byte)
    BY DEF Playing, IInv, BusTypeOK, PacketTypeOK
  <1>2. IsTransfer(Transfer) /\ Transfer.to = DDCCI_I2C_ADDRESS
    BY <1>1, HeardCarries, FirstByte, Zenon
  <1>3. /\ ByteOf(slot) \in Nat /\ ByteOf(slot) <= Len(Transfer.bytes) /\ b \in Byte
    BY <1>1, WriteSlots, Zenon
  <1>4. /\ Prefix /\ Len(s_rx) + 2 = ByteOf(slot) /\ eng.shift = High(b, 7)
    BY Zenon DEF Content, Collecting
  <1>5. y \in Byte /\ y \div 2 = b \div 2
    <2>1. y = (2 * High(b, 7) + x) % 256
      BY <1>4, Zenon
    <2>2. b \in Byte
      BY <1>3, Zenon
    <2> HIDE DEF b, y
    <2>3. /\ (2 * High(b, 7) + x) % 256 \in Byte
          /\ ((2 * High(b, 7) + x) % 256) \div 2 = b \div 2
      BY <2>2, BitsOf
    <2> QED BY <2>1, <2>3, Zenon
  <1> HIDE DEF b, y
  <1>6. PICK n \in Nat : n = Len(s_rx)
    BY <1>1, LenProperties, Zenon
  <1>7. /\ rx \in Seq(Byte) /\ Len(rx) = n + 1
        /\ \A i \in 1..n : rx[i] = s_rx[i]
        /\ rx[n + 1] = y
    BY <1>1, <1>5, <1>6, SMT
  <1>8. (n + 1) + 1 = n + 2 /\ (n + 1) - 1 = n /\ n + 1 > 0
    BY SMT
  <1>9. Len(rx) <= DDCCI_RX_MAX
    <2>1. n < DDCCI_RX_MAX
      BY <1>6, Zenon DEF PacketFits
    <2> QED BY <1>7, <2>1, ConstantTypes, SMT
  <1>10. Len(rx) + 1 <= Len(Transfer.bytes)
    BY <1>3, <1>4, <1>6, <1>7, <1>8, Zenon
  <1>11. \A i \in 1..Len(rx) - 1 : rx[i] = Transfer.bytes[i + 1]
    <2>1. \A i \in 1..n : s_rx[i] = Transfer.bytes[i + 1]
      BY <1>4, <1>6, Zenon DEF Prefix
    <2> QED BY <1>7, <1>8, <2>1, Zenon
  <1>12. rx[Len(rx)] \div 2 = Transfer.bytes[Len(rx) + 1] \div 2
    <2>1. Transfer.bytes[Len(rx) + 1] = b
      BY <1>4, <1>6, <1>7, <1>8, Zenon DEF b
    <2> QED BY <1>5, <1>7, <2>1, Zenon
  <1>13. Valid(rx)
    BY Zenon DEF y
  <1> HIDE DEF rx
  <1>14. /\ WholeMessage \in Messages /\ WholeMessage.flaw = "none"
         /\ rx = Packet(WholeMessage) /\ Len(rx) + 1 = Len(Transfer.bytes)
    BY <1>2, <1>7, <1>9, <1>10, <1>11, <1>12, <1>13, TakesOnlyWhole, Zenon
  <1>15. ByteOf(slot) = Len(Transfer.bytes)
    BY <1>4, <1>6, <1>7, <1>8, <1>14, Zenon
  <1> QED BY <1>14, <1>15, Zenon DEF rx, y

\* A step of the master that stays in its slot changes nothing of that.
LEMMA ContentFrame ==
    ASSUME Content, UNCHANGED << script, slot, eng, s_rx >>, wire' \in {wire, WholeMessage}
    PROVE  Content'
  <1>1. Transfer' = Transfer
    BY Zenon DEF Transfer
  <1>2. Written' <=> Written
    BY Zenon DEF Written
  <1>3. /\ (eng.state = "address" => eng.shift = High(Transfer.bytes[1], eng.bits))'
        /\ (eng.state # "address" => eng.active = find_device(Transfer.to))'
    BY <1>1, Zenon DEF Content, High, find_device
  <1>4. Collecting => Collecting'
    BY <1>1, Zenon DEF Collecting, High, ByteOf
  <1>5. Prefix => Prefix'
    BY PrefixFrame, Zenon
  <1> QED BY <1>2, <1>3, <1>4, <1>5, Zenon DEF Content

\* From slot to slot: the slave has sampled the one that ends.
LEMMA ContentNextSlot ==
    ASSUME IInv, Content, phase = "high", Sampled(slot),
           UNCHANGED << script, eng, s_rx, wire >>, slot' = slot + 1
    PROVE  Content'
  <1>1. Transfer' = Transfer
    BY Zenon DEF Transfer
  <1>2. Written' <=> Written
    BY Zenon DEF Written
  <1>3. /\ (eng.state = "address" => eng.shift = High(Transfer.bytes[1], eng.bits))'
        /\ (eng.state # "address" => eng.active = find_device(Transfer.to))'
    BY <1>1, Zenon DEF Content, High, find_device
  <1>4. Prefix => Prefix'
    BY PrefixFrame, Zenon
  <1>5. slot \in Nat
    <2>1. Playing /\ ScriptInv
      BY DEF Playing, IInv
    <2> QED BY <2>1, SlotKinds, Zenon
  <1>6. ASSUME Collecting PROVE Collecting'
    <2>1. PICK n \in Nat : n = slot
      BY <1>5, Zenon
    <2>2. /\ n % 9 < 8 => ByteOf(n + 1) = ByteOf(n) /\ (n + 1) % 9 # 0
          /\ n % 9 = 8 => ByteOf(n + 1) = ByteOf(n) + 1 /\ (n + 1) % 9 = 0
      BY ByteSteps, Zenon
    <2>3. ASSUME eng.state = "rx"
          PROVE  ByteOf(slot)' = ByteOf(slot)
      <3>1. n % 9 < 8
        BY <2>1, <2>3, SMT DEF Sampled
      <3> QED BY <2>1, <2>2, <3>1, Zenon DEF ByteOf
    <2>4. ASSUME eng.state = "rx_ack", eng.rx_ack
          PROVE  Len(s_rx) + (IF (n + 1) % 9 = 0 THEN 2 ELSE 1) = ByteOf(n + 1)
      <3>0. n % 9 = 7 \/ n % 9 = 8
        BY <2>1, <2>4 DEF Sampled
      <3>1. (n % 9 = 7 \/ n % 9 = 8) /\ n % 9 # 0
        BY <3>0, SMT
      <3>2. Len(s_rx) + 1 = ByteOf(n)
        BY <1>6, <2>1, <2>4, <3>1, Zenon DEF Collecting
      <3>3. Len(s_rx) \in Nat
        <4>1. s_rx \in Seq(Byte)
          BY Zenon DEF IInv, BusTypeOK, PacketTypeOK
        <4> QED BY <4>1, LenProperties, Zenon
      <3> QED BY <2>2, <3>1, <3>2, <3>3, SMT
    <2>5. ByteOf(slot)' = ByteOf(n + 1) /\ slot' = n + 1
      BY <2>1, Zenon DEF ByteOf
    <2> QED BY <1>1, <1>6, <2>3, <2>4, <2>5, Zenon DEF Collecting, High
  <1> QED BY <1>2, <1>3, <1>4, <1>6, Zenon DEF Content

\* As the first clock falls, the slave waits for the first bit.
LEMMA HeardStart ==
    ASSUME IInv, Following, Directions, HostClocksStart, pc = "poll"
    PROVE  Content' /\ ~Written'
  <1>0. /\ LinesInv /\ InStep /\ ScriptInv /\ EngineTypeOK
        /\ DDCCI_I2C_ADDRESS # NoDevice
    BY SlaveParts, AddressFacts, SMT DEF Following, IInv
  <1>1. /\ phase = "started" /\ MasterMoves /\ Drive(0, 0) /\ script' = script
    BY Zenon DEF HostClocksStart
  <1>2. previous[1] = 0 /\ eng' = eng
    <2>1. previous[1] = Sda /\ eng' = eng
      BY <1>1, MovesInPoll, DriveFrame, Zenon
    <2>2. sda = 0
      BY <1>0, <1>1, Zenon DEF LinesInv
    <2> QED BY <1>0, <2>1, <2>2, WireFacts, Zenon
  <1>3. Listening(0)
    <2>1. Begun
      BY <1>0, <1>1, Zenon DEF InStep
    <2>2. << 1, 1 >>[1] = 1 /\ 0 # 1
      OBVIOUS
    <2> QED BY <1>2, <2>1, <2>2, Zenon DEF Begun
  <1>4. eng.state = "address" /\ eng.bits = 0
    BY <1>3, SMT DEF Listening
  <1>5. eng.shift = 0 /\ eng.active = NoDevice
    BY <1>4, Zenon DEF Directions
  <1>6. Transfer.bytes[1] \in Byte /\ Transfer' = Transfer
    BY <1>0, <1>1, FirstByte, Zenon DEF Playing, Transfer
  <1>7. High(Transfer.bytes[1], 0) = 0
    BY <1>6, BitsOf, Zenon
  <1>8. eng'.shift = High(Transfer.bytes[1], eng.bits)'
    BY <1>2, <1>4, <1>5, <1>6, <1>7, Zenon DEF High
  <1>9. ~Written'
    BY <1>0, <1>2, <1>5, Zenon DEF Written
  <1> QED BY <1>2, <1>4, <1>8, <1>9, Zenon DEF Content

\* A laptop that vanishes leaves a message on the wire if the slave may still
\* take it.
LEMMA HeardVanish ==
    ASSUME IInv, Following, Directions, Clocked, Hears, Vanish, pc = "poll"
    PROVE  /\ (Written => Carries(s_rx))'
           /\ (Written /\ RisePossible => NextCarries)'
  <1>0. /\ LinesInv /\ InStep /\ ScriptInv /\ EngineTypeOK /\ slot \in Nat
        /\ phase \in Phases
    BY SlaveParts, SlotKinds, Zenon DEF Following, IInv, BusTypeOK, Vanish
  <1>1. /\ Playing /\ CaughtUp
        /\ wire' = IF slot >= Slots - 3 THEN WholeMessage ELSE wire
        /\ eng' = eng /\ s_rx' = s_rx
    BY Zenon DEF Vanish, engineVars, deviceVars, ddcVars, packetVars
  <1>2. Lines = previous /\ previous[1] = Sda /\ previous[2] = scl
    <2>1. Lines = previous
      BY <1>1, Zenon DEF CaughtUp
    <2> QED BY <1>0, <2>1, WireFacts, Zenon
  <1>3. (Written' <=> Written) /\ (PacketFits' <=> PacketFits)
    BY <1>1, Zenon DEF Written, PacketFits
  <1>4. phase \in {"started", "low", "set", "high", "closing", "closeSet", "closeHigh"}
    BY <1>0, <1>1 DEF Playing, Phases
  <1>5. phase = "started" => ~(slot >= Slots - 3)
    <2>1. Slots >= 9 /\ Slots \in Nat
      BY <1>0, <1>1, SlotFacts, Zenon DEF ScriptInv
    <2>2. phase = "started" => slot = 0
      BY <1>0, Zenon DEF LinesInv
    <2> QED BY <2>1, <2>2, SMT
  <1>6. ASSUME Written PROVE Carries(s_rx)'
    <2>1. Carries(s_rx)
      BY <1>6, Zenon DEF Hears
    <2>2. CASE wire' = wire
      BY <1>1, <2>1, <2>2, CarriesFrame, Zenon
    <2>3. CASE wire' # wire
      <3>1. slot >= Slots - 3 /\ wire' = WholeMessage
        BY <1>1, <2>3, Zenon
      <3>2. wire \in {Nothing, WholeMessage}
        BY <1>4, <1>5, <3>1 DEF Clocked
      <3>3. wire = Nothing
        BY <2>3, <3>1, <3>2
      <3>4. ~Valid(s_rx)
        BY <2>1, <3>3, NothingFacts, Zenon DEF Carries
      <3> QED BY <1>1, <3>4, Zenon DEF Carries
    <2> QED BY <2>2, <2>3
  <1>7. ASSUME Written, eng.state = "rx", eng.bits = 7, PacketFits, NEW x \in {0, 1},
               Valid(Append(s_rx, (2 * eng.shift + x) % 256))
        PROVE  /\ wire' \in Messages /\ wire'.flaw = "none"
               /\ Append(s_rx, (2 * eng.shift + x) % 256) = Packet(wire')
    <2>1. phase # "started"
      <3>1. ASSUME phase = "started" PROVE FALSE
        <4>1. sda = 0 /\ Begun
          BY <1>0, <1>4, <3>1 DEF LinesInv, InStep
        <4>2. previous[1] = 0
          BY <1>0, <1>2, <4>1, WireFacts, Zenon
        <4>3. << 1, 1 >>[1] = 1 /\ 0 # 1
          OBVIOUS
        <4>4. Listening(0)
          BY <4>1, <4>2, <4>3, Zenon DEF Begun
        <4>5. ~(0 >= 9)
          BY SMT
        <4> QED BY <1>7, <4>4, <4>5 DEF Listening
      <3> QED BY <3>1
    <2>2. phase \notin {"closing", "closeSet"}
      <3>1. ASSUME phase \in {"closing", "closeSet"} PROVE FALSE
        <4>1. scl = 0 /\ Ending
          BY <1>0, <3>1 DEF LinesInv, InStep
        <4>2. Closed
          BY <1>2, <4>1 DEF Ending
        <4> QED BY <1>7, <4>2 DEF Closed
      <3> QED BY <3>1
    <2>3. phase # "closeHigh"
      <3>1. phase = "closeHigh" => eng.bits <= 1
        BY <1>7, Zenon DEF Hears
      <3> QED BY <1>7, <3>1, SMT
    <2>4. phase \in {"low", "set", "high"}
      BY <1>4, <2>1, <2>2, <2>3
    <2>5. ~Reading /\ (slot % 9 = 7 \/ slot % 9 = 6)
      <3>1. CASE phase \in {"low", "set"}
        <4>1. scl = 0 /\ Before
          BY <1>0, <3>1 DEF LinesInv, InStep
        <4>2. Listening(slot)
          BY <1>2, <4>1 DEF Before
        <4> QED BY <1>7, <4>2 DEF Listening
      <3>2. CASE phase = "high"
        <4>1. scl = 1 /\ During
          BY <1>0, <3>2 DEF LinesInv, InStep
        <4>2. Sampled(slot)
          BY <1>2, <4>1 DEF During
        <4>3. ~Reading /\ slot % 9 < 7 /\ eng.bits = (slot % 9) + 1
          BY <1>7, <4>2 DEF Sampled
        <4> QED BY <1>0, <1>7, <4>3, SMT
      <3> QED BY <2>4, <3>1, <3>2
    <2>6. /\ WholeMessage \in Messages /\ WholeMessage.flaw = "none"
          /\ Append(s_rx, (2 * eng.shift + x) % 256) = Packet(WholeMessage)
          /\ ByteOf(slot) = Len(Transfer.bytes)
      <3>1. Content
        BY <2>4, Zenon DEF Hears
      <3> QED BY <1>7, <2>4, <2>5, <3>1, NextIsWhole, Zenon
    <2>7. slot >= Slots - 3
      <3>1. slot % 9 >= 6
        BY <2>5, SMT
      <3> QED BY <1>0, <1>1, <2>5, <2>6, <3>1, WriteSlots, Zenon
    <2> QED BY <1>1, <2>6, <2>7, Zenon
  <1>8. ASSUME Written PROVE NextCarries'
    <2> SUFFICES ASSUME eng'.state = "rx", eng'.bits = 7, PacketFits', NEW x \in {0, 1},
                        Valid(Append(s_rx', (2 * eng'.shift + x) % 256))
                 PROVE  /\ wire' \in Messages /\ wire'.flaw = "none"
                        /\ Append(s_rx', (2 * eng'.shift + x) % 256) = Packet(wire')
      BY Zenon DEF NextCarries, Carries
    <2> QED BY <1>1, <1>3, <1>7, <1>8, Zenon
  <1> QED BY <1>3, <1>6, <1>8, Zenon

\* No step of the master makes it otherwise.
LEMMA HearsHost ==
    ASSUME IInv, Following, Directions, Clocked, Hears, Host
    PROVE  Hears'
  <1>0. /\ LinesInv /\ InStep /\ ScriptInv /\ EngineTypeOK
        /\ eng' = eng /\ pc' = pc /\ previous' = previous /\ s_rx' = s_rx
        /\ Written' <=> Written
    <2>1. eng' = eng /\ pc' = pc /\ previous' = previous /\ s_rx' = s_rx
      BY HostFrame, Zenon
    <2> QED BY <2>1, SlaveParts, Zenon DEF Following, IInv, Written
  <1> SUFFICES ASSUME pc = "poll" PROVE Hears'
    BY <1>0, Zenon DEF Hears
  <1>1. /\ phase \in {"low", "set", "high"} => Content
        /\ Written => Carries(s_rx)
        /\ phase = "closeHigh" /\ eng.state = "rx" => eng.bits <= 1
        /\ ~Playing /\ Written /\ RisePossible => NextCarries
        /\ phase = "gone" /\ scl = 1 => previous[2] = 1
    BY Zenon DEF Hears
  <1>2. wire' = wire => /\ (Written => Carries(s_rx))'
                        /\ NextCarries => NextCarries'
    BY <1>0, <1>1, CarriesFrame, Zenon
  <1>3. MasterMoves => previous[2] = scl
    BY MovesInPoll, Zenon
  <1>4. (IInv /\ Directions /\ Content /\ phase \in {"low", "set", "high"} =>
            (Written => Transfer.to = DDCCI_I2C_ADDRESS /\ Carries(s_rx)))'
    BY HeardCarries, PTL
  <1>5. IInv' /\ Directions'
    BY NextTyped, DirectionsKept, Zenon DEF Act
  <1>6. ASSUME phase' \in {"low", "set", "high"}, Content' PROVE Hears'
    <2>1. (Written => Carries(s_rx))'
      BY <1>4, <1>5, <1>6, Zenon
    <2>2. Playing' /\ phase' # "closeHigh" /\ phase' # "gone"
      BY <1>6 DEF Playing
    <2> QED BY <1>6, <2>1, <2>2, Zenon DEF Hears
  <1>7. CASE HostStarts \/ HostGoesOn \/ HostRestarts
    <2>1. phase' = "started" /\ wire' = wire
      BY <1>7, Zenon DEF HostStarts, HostGoesOn, HostRestarts
    <2> QED BY <1>2, <2>1 DEF Hears, Playing
  <1>8. CASE HostClocksStart
    <2>1. Content' /\ phase' \in {"low", "set", "high"}
      BY <1>8, HeardStart DEF HostClocksStart
    <2> QED BY <1>6, <2>1
  <1>9. CASE HostData \/ HostRise
    <2>1. /\ UNCHANGED << script, slot >> /\ wire' \in {wire, WholeMessage}
          /\ phase \in {"low", "set", "high"} /\ phase' \in {"low", "set", "high"}
      BY <1>9 DEF HostData, HostRise, historyVars
    <2>2. Content'
      BY <1>0, <1>1, <2>1, ContentFrame, Zenon
    <2> QED BY <1>6, <2>1, <2>2
  <1>10. CASE HostFall
    <2>0. phase = "high" /\ MasterMoves /\ UNCHANGED << script, wire >>
      BY <1>10, Zenon DEF HostFall
    <2>1. CASE nack \/ slot = Slots - 1
      <3>1. phase' = "closing"
        BY <1>10, <2>1, Zenon DEF HostFall
      <3> QED BY <1>2, <2>0, <3>1 DEF Hears, Playing
    <2>2. CASE ~(nack \/ slot = Slots - 1)
      <3>1. phase' = "low" /\ slot' = slot + 1
        BY <1>10, <2>2, Zenon DEF HostFall
      <3>2. Sampled(slot)
        <4>1. During /\ scl = 1
          BY <1>0, <2>0 DEF InStep, LinesInv
        <4> QED BY <1>3, <2>0, <4>1 DEF During
      <3>3. Content'
        BY <1>0, <1>1, <2>0, <3>1, <3>2, ContentNextSlot
      <3> QED BY <1>6, <3>1, <3>3
    <2> QED BY <2>1, <2>2
  <1>11. CASE HostCloses
    <2>1. phase' = "closeSet" /\ wire' = wire
      BY <1>11, Zenon DEF HostCloses, historyVars
    <2> QED BY <1>2, <2>1 DEF Hears, Playing
  <1>12. CASE HostCloseRise
    <2>1. phase = "closeSet" /\ phase' = "closeHigh" /\ wire' = wire /\ MasterMoves
      BY <1>12, Zenon DEF HostCloseRise, historyVars
    <2>2. Ending /\ scl = 0
      BY <1>0, <2>1 DEF InStep, LinesInv
    <2>3. Closed
      BY <1>3, <2>1, <2>2 DEF Ending
    <2>4. eng'.state = "rx" => eng'.bits <= 1
      <3>1. eng.state = "rx" => eng.bits = 0
        BY <2>3, Zenon DEF Closed
      <3>2. 0 <= 1
        BY SMT
      <3> QED BY <1>0, <3>1, <3>2, Zenon
    <2> QED BY <1>2, <2>1, <2>4 DEF Hears, Playing
  <1>13. CASE HostStops
    <2>1. phase = "closeHigh" /\ MasterMoves /\ scl' = 1 /\ wire' = wire
      BY <1>13, DriveFrame, Zenon DEF HostStops, historyVars
    <2>2. phase' = "between" \/ phase' = "free"
      BY <1>13, Zenon DEF HostStops
    <2>3. previous'[2] = 1
      BY <1>0, <1>3, <2>1, Zenon DEF LinesInv
    <2>4. ~RisePossible'
      BY <2>1, <2>2, <2>3 DEF RisePossible
    <2> QED BY <1>2, <2>1, <2>2, <2>4 DEF Hears, Playing
  <1>14. CASE Vanish
    <2>1. /\ (Written => Carries(s_rx))'
          /\ (Written /\ RisePossible => NextCarries)'
      BY <1>14, HeardVanish, Zenon
    <2>2. phase' \in {"free", "gone"} /\ scl' = scl /\ Playing /\ CaughtUp
      BY <1>14 DEF Vanish
    <2>3. previous[2] = scl
      BY <1>0, <2>2, WireFacts DEF CaughtUp
    <2> QED BY <1>0, <2>1, <2>2, <2>3 DEF Hears
  <1>15. CASE LineDrops
    <2>1. /\ phase = "gone" /\ phase' = "gone" /\ wire' = wire
          /\ scl' = scl \/ scl' = 0
      BY <1>15, DriveFrame, Zenon DEF LineDrops, historyVars
    <2>2. RisePossible /\ ~Playing
      BY <2>1 DEF RisePossible, Playing
    <2>3. (Written => NextCarries)'
      BY <1>0, <1>1, <1>2, <2>1, <2>2, Zenon
    <2> QED BY <1>0, <1>1, <1>2, <2>1, <2>3 DEF Hears
  <1>16. CASE LineRises
    <2>1. /\ phase \in {"gone", "return"} /\ phase' \in {"free", "return"} /\ wire' = wire
          /\ scl' = scl \/ scl' = 1
      <3>1. /\ phase \in {"gone", "return"} /\ wire' = wire
            /\ phase' = "free" \/ phase' = "return"
            /\ scl' = scl \/ scl' = 1
        BY <1>16, DriveFrame, Zenon DEF LineRises, historyVars
      <3> QED BY <3>1
    <2>2. RisePossible' => RisePossible
      BY <1>0, <2>1 DEF RisePossible
    <2>3. ~Playing
      BY <2>1 DEF Playing
    <2>4. (Written /\ RisePossible => NextCarries)'
      BY <1>0, <1>1, <1>2, <2>1, <2>2, <2>3, Zenon
    <2> QED BY <1>2, <2>1, <2>4 DEF Hears
  <1> QED BY <1>7, <1>8, <1>9, <1>10, <1>11, <1>12, <1>13, <1>14, <1>15, <1>16, Zenon DEF Host

\* A falling clock in a transfer: the next byte begins.
LEMMA HeardFall ==
    ASSUME IInv, Following, Content, SeesFall, phase \in {"low", "set"},
           UNCHANGED << script, slot, wire >>
    PROVE  Content'
  <1>0. /\ InStep /\ ScriptInv /\ Playing /\ eng \in Locals /\ slot \in Nat
        /\ s_rx \in Seq(Byte)
    <2>1. Playing
      BY DEF Playing
    <2>2. ScriptInv /\ InStep /\ s_rx \in Seq(Byte)
      BY Zenon DEF Following, IInv, BusTypeOK, PacketTypeOK
    <2> QED BY <2>1, <2>2, SlotKinds, SlaveParts, Zenon
  <1>1. pc = "poll" /\ previous[2] = 1 /\ Fall /\ s_rx' = s_rx
    BY Zenon DEF SeesFall, Sees, WasScl, deviceVars, ddcVars, packetVars
  <1>2. CASE eng' = eng
    BY <1>1, <1>2, ContentFrame, Zenon
  <1>3. CASE eng' # eng
    <2>0. /\ eng.state \notin {"address", "rx", "ignore"}
          /\ eng'.active = eng.active /\ eng'.read = eng.read /\ eng'.rx_ack = eng.rx_ack
      BY <1>0, <1>1, <1>3, FallFields, FallMore, Zenon
    <2>1. /\ Transfer' = Transfer /\ ByteOf(slot)' = ByteOf(slot)
          /\ Written' <=> Written
          /\ Prefix => Prefix'
      BY <1>1, <2>0, PrefixFrame, Zenon DEF Transfer, ByteOf, Written
    <2>2. \/ eng'.state = eng.state /\ eng.state \in {"address_ack", "rx_ack"}
          \/ eng'.state \in {"tx", "tx_master_ack", "ignore"}
          \/ /\ eng'.state = "rx" /\ eng'.bits = 0 /\ eng'.shift = 0
             /\ eng.ack_phase = 2
             /\ \/ eng.state = "address_ack" /\ ~eng.read
                \/ eng.state = "rx_ack" /\ eng.rx_ack
      BY <1>0, <1>1, <1>3, FallMore, Zenon
    <2>3. eng'.state # "address"
      BY <2>2
    <2>4. eng'.active = find_device(Transfer.to)'
      BY <2>0, <2>1, Zenon DEF Content, find_device
    <2>5. ASSUME Collecting PROVE Collecting'
      <3>1. CASE eng'.state = eng.state /\ eng.state \in {"address_ack", "rx_ack"}
        BY <1>1, <2>0, <2>1, <2>5, <3>1 DEF Collecting
      <3>2. CASE eng'.state \in {"tx", "tx_master_ack", "ignore"}
        BY <3>2 DEF Collecting
      <3>3. CASE /\ eng'.state = "rx" /\ eng'.bits = 0 /\ eng'.shift = 0
                 /\ eng.ack_phase = 2
                 /\ \/ eng.state = "address_ack" /\ ~eng.read
                    \/ eng.state = "rx_ack" /\ eng.rx_ack
        <4>1. slot > 0 /\ Sampled(slot - 1)
          <5>1. Before
            BY <1>0, <1>1 DEF InStep
          <5>2. ~(slot > 0) => Listening(slot)
            BY <5>1, Zenon DEF Before
          <5>3. Listening(slot) => eng.ack_phase # 2
            BY <3>3 DEF Listening
          <5> QED BY <1>1, <3>3, <5>1, <5>2, <5>3, Zenon DEF Before
        <4>2. PICK n \in Nat : slot = n + 1 /\ slot - 1 = n
          BY <1>0, <4>1, SMT
        <4>3. /\ ~Reading
              /\ Len(s_rx) + 2 = ByteOf(slot)
          <5>0. n % 9 = 8 => ByteOf(n + 1) = ByteOf(n) + 1 /\ (n + 1) % 9 = 0
            BY ByteSteps, Zenon
          <5>1. CASE eng.state = "address_ack" /\ ~eng.read
            <6>1. n = 8 /\ eng.read = Reading
              BY <3>3, <4>1, <4>2, <5>1 DEF Sampled
            <6>2. s_rx = << >>
              BY <2>5, <5>1, Zenon DEF Collecting
            <6>3. ByteOf(slot) = 2
              BY <4>2, <6>1, SMT DEF ByteOf
            <6> QED BY <5>1, <6>1, <6>2, <6>3
          <5>2. CASE eng.state = "rx_ack" /\ eng.rx_ack
            <6>1. n % 9 = 8 /\ ~Reading
              BY <3>3, <4>1, <4>2, <5>2 DEF Sampled
            <6>2. slot % 9 = 0
              BY <4>2, <5>0, <6>1, Zenon
            <6> QED BY <2>5, <5>2, <6>1, <6>2, Zenon DEF Collecting
          <5> QED BY <3>3, <5>1, <5>2
        <4>4. Transfer.bytes[ByteOf(slot)] \in Byte
          BY <1>0, <4>3, WriteSlots, Zenon
        <4>5. High(Transfer.bytes[ByteOf(slot)], 0) = 0
          BY <4>4, BitsOf, Zenon
        <4> QED BY <1>1, <2>1, <3>3, <4>3, <4>5 DEF Collecting, High
      <3> QED BY <2>2, <3>1, <3>2, <3>3, Zenon
    <2> QED BY <2>1, <2>3, <2>4, <2>5, Zenon DEF Content
  <1> QED BY <1>2, <1>3

\* A rising clock in a transfer: the slave samples what the master drives.
LEMMA HeardRise ==
    ASSUME IInv, Following, Directions, Clocked, Content, SeesRise, phase = "high",
           UNCHANGED << script, slot, wire >>
    PROVE  Content'
  <1>0. /\ InStep /\ LinesInv /\ ScriptInv /\ Playing /\ eng \in Locals /\ BitsInv
        /\ slot \in Nat /\ s_rx \in Seq(Byte) /\ EngineTypeOK /\ Sda \in {0, 1}
    <2>1. Playing
      BY DEF Playing
    <2>2. ScriptInv /\ InStep /\ LinesInv /\ s_rx \in Seq(Byte)
      BY Zenon DEF Following, IInv, BusTypeOK, PacketTypeOK
    <2> QED BY <2>1, <2>2, SlotKinds, SlaveParts, Zenon
  <1>1. pc = "poll" /\ previous[2] = 0 /\ Rise(Sda)
    BY Zenon DEF SeesRise, Sees, WasScl
  <1>2. Listening(slot)
    <2>1. During
      BY <1>0, <1>1 DEF InStep
    <2> QED BY <1>1, <2>1 DEF During
  <1>3. /\ Transfer' = Transfer /\ ByteOf(slot)' = ByteOf(slot)
        /\ Transfer.bytes[1] \in Byte /\ Transfer.bytes[1] \div 2 = Transfer.to
        /\ Len(Transfer.bytes) \in Nat /\ 1 <= Len(Transfer.bytes)
    BY <1>0, FirstByte, Zenon DEF Transfer, ByteOf
  <1>x. DDCCI_I2C_ADDRESS # NoDevice /\ DDCCI_I2C_ADDRESS # EDID_EEPROM_I2C_ADDRESS
    BY AddressFacts, SMT
  <1>4. ASSUME latch = 1, ~IsRead(slot), ~IsAck(slot)
        PROVE  Sda = Bit(Transfer.bytes[ByteOf(slot)], 7 - (slot % 9))
    <2>1. Sda = sda
      BY <1>0, <1>4, WireFacts, Zenon
    <2>2. sda = MasterBit(slot)
      BY <1>0 DEF LinesInv
    <2> QED BY <1>4, <2>1, <2>2, Zenon DEF MasterBit
  <1>5. CASE eng.state = "address"
    <2>1. slot < 8 /\ eng.bits = slot /\ latch = 1
      BY <1>2, <1>5 DEF Listening
    <2>2. ByteOf(slot) = 1 /\ slot % 9 = slot /\ slot % 9 # 8 /\ slot < 9 /\ slot \in 0..7
      BY <1>0, <2>1, SMT DEF ByteOf
    <2>3. ~IsRead(slot) /\ ~IsAck(slot)
      BY <1>0, <2>2, SlotKinds, Zenon DEF IsAck
    <2> DEFINE b == Transfer.bytes[1]
               y == (2 * eng.shift + Sda) % 256
    <2>4. y = High(b, slot + 1)
      <3>1. Sda = Bit(b, 7 - slot) /\ eng.shift = High(b, slot)
        BY <1>4, <1>5, <2>1, <2>2, <2>3, Zenon DEF Content
      <3>2. b \in Byte
        BY <1>3, Zenon
      <3>3. y = (2 * High(b, slot) + Bit(b, 7 - slot)) % 256
        BY <3>1, Zenon
      <3> HIDE DEF b, y
      <3>4. (2 * High(b, slot) + Bit(b, 7 - slot)) % 256 = High(b, slot + 1)
        BY <2>2, <3>2, NextBit
      <3> QED BY <3>3, <3>4, Zenon
    <2>5. CASE eng.bits < 7
      <3>1. /\ eng'.state = "address" /\ eng'.shift = y /\ eng'.bits = eng.bits + 1
            /\ eng'.active = eng.active
        BY <1>0, <1>1, <1>5, <2>5, RiseOfAddress, Zenon
      <3>2. ~Written'
        BY <1>5, <1>x, <3>1, Zenon DEF Directions, Written
      <3> QED BY <1>3, <2>1, <2>4, <3>1, <3>2, Zenon DEF Content, High
    <2>6. CASE ~(eng.bits < 7)
      <3>1. /\ eng.bits = 7 /\ eng'.state = "address_ack"
            /\ eng'.active = find_device(y \div 2)
            /\ begin(eng'.active, eng'.read)
        BY <1>0, <1>1, <1>5, <2>6, RiseOfAddress, Zenon
      <3>2. y = b
        <4>1. slot + 1 = 8
          BY <2>1, <3>1, SMT
        <4>2. b \in Byte
          BY <1>3, Zenon
        <4> HIDE DEF b, y
        <4> QED BY <2>4, <4>1, <4>2, BitsOf, Zenon
      <3>3. eng'.active = find_device(Transfer.to)'
        BY <1>3, <3>1, <3>2, Zenon DEF find_device
      <3>4. ASSUME Written' PROVE s_rx' = << >>
        <4>1. eng'.active = DDCCI_I2C_ADDRESS /\ ~eng'.read
          BY <3>4, Zenon DEF Written
        <4> QED BY <1>x, <3>1, <4>1, Zenon DEF begin, DdcIs, EepromIs, NobodyIs, ddcci_begin
      <3>5. ASSUME Written' PROVE Prefix' /\ Collecting'
        <4>1. s_rx' = << >> /\ Len(s_rx') = 0
          BY <3>4, <3>5
        <4>2. 0 + 1 <= Len(Transfer.bytes)
          BY <1>3, SMT
        <4>3. ~(0 > 0) /\ 1..0 = {}
          BY SMT
        <4>4. Prefix'
          BY <1>3, <4>1, <4>2, <4>3 DEF Prefix
        <4> QED BY <3>1, <4>1, <4>4 DEF Collecting
      <3> QED BY <3>1, <3>3, <3>5 DEF Content
    <2> QED BY <2>5, <2>6
  <1>6. CASE eng.state = "rx"
    <2>1. slot >= 9 /\ ~Reading /\ slot % 9 < 8 /\ eng.bits = slot % 9 /\ latch = 1
      BY <1>2, <1>6 DEF Listening
    <2>2. slot % 9 # 8 /\ slot % 9 \in 0..7 /\ slot % 9 \in Nat
      BY <1>0, <2>1, SMT
    <2>3. /\ ~IsRead(slot) /\ ~IsAck(slot)
          /\ ByteOf(slot) \in Nat /\ ByteOf(slot) <= Len(Transfer.bytes)
          /\ Transfer.bytes[ByteOf(slot)] \in Byte
          /\ ByteOf(slot) = Len(Transfer.bytes) /\ slot % 9 = 7 => slot = Slots - 2
      BY <1>0, <2>1, <2>2, WriteSlots, Zenon DEF IsAck
    <2> DEFINE b == Transfer.bytes[ByteOf(slot)]
               y == (2 * eng.shift + Sda) % 256
    <2>4. eng'.active = eng.active /\ eng'.read = eng.read /\ (Written' <=> Written)
      <3>1. eng'.active = eng.active /\ eng'.read = eng.read
        BY <1>0, <1>1, <1>6, RiseOfByte, Zenon
      <3> QED BY <3>1, Zenon DEF Written
    <2>5. eng'.active = find_device(Transfer.to)'
      BY <1>3, <1>6, <2>4 DEF Content, find_device
    <2>6. Collecting => y = High(b, (slot % 9) + 1)
      <3> SUFFICES ASSUME Collecting PROVE y = High(b, (slot % 9) + 1)
        OBVIOUS
      <3>1. PICK k \in 0..7 : k = slot % 9
        BY <2>2, Zenon
      <3>2. Sda = Bit(b, 7 - k) /\ eng.shift = High(b, k)
        BY <1>4, <1>6, <2>1, <2>3, <3>1, Zenon DEF Collecting
      <3>3. y = (2 * High(b, k) + Bit(b, 7 - k)) % 256 /\ b \in Byte
        BY <2>3, <3>2, Zenon
      <3> HIDE DEF b, y
      <3>4. (2 * High(b, k) + Bit(b, 7 - k)) % 256 = High(b, k + 1)
        BY <3>3, NextBit
      <3> QED BY <3>1, <3>3, <3>4, Zenon
    <2>7. CASE eng.bits < 7
      <3>1. /\ eng'.state = "rx" /\ eng'.shift = y /\ eng'.bits = eng.bits + 1
            /\ UNCHANGED deviceVars
        BY <1>0, <1>1, <1>6, <2>7, RiseOfByte, Zenon
      <3>2. s_rx' = s_rx
        BY <3>1, Zenon DEF deviceVars, ddcVars, packetVars
      <3>3. ASSUME Prefix, Collecting PROVE Prefix' /\ Collecting'
        <4>1. Prefix'
          BY <3>2, <3>3, PrefixFrame, Zenon
        <4>2. Len(s_rx) + 2 = ByteOf(slot)
          BY <1>6, <3>3, Zenon DEF Collecting
        <4>3. eng'.shift = High(Transfer.bytes[ByteOf(slot)], eng'.bits)
          BY <2>1, <2>6, <3>1, <3>3, Zenon
        <4> QED BY <1>3, <3>1, <3>2, <4>1, <4>2, <4>3 DEF Collecting, High
      <3> QED BY <2>4, <2>5, <3>1, <3>3 DEF Content
    <2>8. CASE ~(eng.bits < 7)
      <3>1. /\ eng.bits = 7 /\ eng'.state = "rx_ack"
            /\ eng'.rx_ack = Acknowledges(eng.active)
            /\ write_byte(eng.active, y)
        BY <1>0, <1>1, <1>6, <2>8, RiseOfByte, Zenon
      <3>2. slot % 9 = 7 /\ slot % 9 # 0
        BY <2>1, <3>1, SMT
      <3>3. ASSUME Written, Prefix, Collecting PROVE Prefix' /\ Collecting'
        <4>1. eng.active = DDCCI_I2C_ADDRESS
          BY <3>3, Zenon DEF Written
        <4>2. /\ s_rx' = IF PacketFits THEN Append(s_rx, y) ELSE s_rx
              /\ eng'.rx_ack => PacketFits
          BY <1>x, <3>1, <4>1, Zenon
             DEF write_byte, DdcIs, EepromIs, ddcci_write_byte, Acknowledges
        <4>3. y = b /\ b \in Byte
          <5>1. 7 + 1 = 8
            BY SMT
          <5>2. b \in Byte /\ y = High(b, 7 + 1)
            BY <2>3, <2>6, <3>2, <3>3, Zenon
          <5> HIDE DEF b, y
          <5> QED BY <5>1, <5>2, BitsOf, Zenon
        <4>4. PICK n \in Nat : n = Len(s_rx)
          BY <1>0, LenProperties, Zenon
        <4>5. n + 2 = ByteOf(slot)
          BY <1>6, <3>3, <4>4, Zenon DEF Collecting
        <4>6. CASE ~PacketFits
          <5>1. s_rx' = s_rx /\ ~eng'.rx_ack
            BY <4>2, <4>6, Zenon
          <5> QED BY <3>1, <3>3, <5>1, PrefixFrame DEF Collecting
        <4>7. CASE PacketFits
          <5>1. s_rx' = Append(s_rx, b)
            BY <4>2, <4>3, <4>7, Zenon
          <5> HIDE DEF b, y
          <5>2. /\ Len(s_rx') = n + 1
                /\ \A i \in 1..n : s_rx'[i] = s_rx[i]
                /\ s_rx'[n + 1] = b
            BY <1>0, <4>3, <4>4, <5>1, SMT
          <5>3. (n + 1) + 1 = n + 2 /\ \A i \in 1..n + 1 : i \in 1..n \/ i = n + 1
            BY SMT
          <5>4. Len(s_rx') + 1 = ByteOf(slot)
            BY <4>5, <5>2, <5>3, Zenon
          <5>5. \A i \in 1..Len(s_rx') : s_rx'[i] = Transfer.bytes[i + 1]
            <6>1. Transfer.bytes[(n + 1) + 1] = b
              BY <4>5, <5>3, Zenon DEF b
            <6>2. \A i \in 1..n : s_rx'[i] = Transfer.bytes[i + 1]
              BY <3>3, <4>4, <5>2, Zenon DEF Prefix
            <6> QED BY <5>2, <5>3, <6>1, <6>2, Zenon
          <5>6. Len(s_rx') + 1 = Len(Transfer.bytes) => wire = WholeMessage
            BY <2>3, <3>2, <5>4, Zenon DEF Clocked
          <5>7. WholeMessage' = WholeMessage
            BY SameMessage, Zenon
          <5>8. Prefix'
            BY <1>3, <2>3, <5>4, <5>5, <5>6, <5>7, Zenon DEF Prefix
          <5>9. Collecting'
            BY <1>3, <3>1, <3>2, <5>4 DEF Collecting
          <5> QED BY <5>8, <5>9, Zenon
        <4> QED BY <4>6, <4>7
      <3> QED BY <2>4, <2>5, <3>1, <3>3 DEF Content
    <2> QED BY <2>7, <2>8
  <1>7. CASE eng.state \notin {"address", "rx"}
    <2>1. /\ eng'.active = eng.active /\ eng'.read = eng.read /\ eng'.rx_ack = eng.rx_ack
          /\ eng'.state \in {eng.state, "tx_master_ack"} /\ s_rx' = s_rx
      BY <1>0, <1>1, <1>7, RiseOther, Zenon
    <2>2. /\ Written' <=> Written
          /\ Prefix => Prefix'
          /\ eng'.active = find_device(Transfer.to)'
      BY <1>3, <1>7, <2>1, PrefixFrame DEF Written, Content, find_device
    <2>3. Collecting => Collecting'
      BY <1>3, <1>7, <2>1 DEF Collecting
    <2> QED BY <1>7, <2>1, <2>2, <2>3 DEF Content
  <1> QED BY <1>5, <1>6, <1>7

\* A rising clock outside a transfer that the slave still follows: a byte may
\* be completed, but only to the message on the wire.
LEMMA HeardOutside ==
    ASSUME IInv, Directions, Hears, SeesRise, ~Playing, wire' = wire
    PROVE  (Written => Carries(s_rx))'
  <1>0. /\ eng \in Locals /\ BitsInv /\ Sda \in {0, 1} /\ s_rx \in Seq(Byte)
        /\ DDCCI_I2C_ADDRESS # NoDevice /\ DDCCI_I2C_ADDRESS # EDID_EEPROM_I2C_ADDRESS
    <2>1. s_rx \in Seq(Byte)
      BY Zenon DEF IInv, BusTypeOK, PacketTypeOK
    <2>2. DDCCI_I2C_ADDRESS # NoDevice /\ DDCCI_I2C_ADDRESS # EDID_EEPROM_I2C_ADDRESS
      BY AddressFacts, SMT
    <2> QED BY <2>1, <2>2, SlaveParts, Zenon
  <1>1. pc = "poll" /\ previous[2] = 0 /\ Rise(Sda) /\ RisePossible
    BY Zenon DEF SeesRise, Sees, WasScl, RisePossible
  <1>2. Written => Carries(s_rx) /\ NextCarries
    BY <1>1, Zenon DEF Hears
  <1>3. ASSUME s_rx' = s_rx, eng'.active = eng.active, eng'.read = eng.read
        PROVE  (Written => Carries(s_rx))'
    <2>1. Written' <=> Written
      BY <1>3, Zenon DEF Written
    <2> QED BY <1>2, <1>3, <2>1, CarriesFrame, Zenon
  <1>4. UNCHANGED deviceVars => s_rx' = s_rx
    BY Zenon DEF deviceVars, ddcVars, packetVars
  <1>5. CASE eng.state = "address"
    <2>1. CASE eng.bits < 7
      <3>1. eng'.active = eng.active /\ eng'.read = eng.read /\ UNCHANGED deviceVars
        BY <1>0, <1>1, <1>5, <2>1, RiseOfAddress, Zenon
      <3> QED BY <1>3, <1>4, <3>1, Zenon
    <2>2. CASE ~(eng.bits < 7)
      <3>1. begin(eng'.active, eng'.read)
        BY <1>0, <1>1, <1>5, <2>2, RiseOfAddress, Zenon
      <3>2. Written' => s_rx' = << >>
        BY <1>0, <3>1, Zenon DEF Written, begin, DdcIs, EepromIs, NobodyIs, ddcci_begin
      <3>3. ~Valid(<< >>)
        <4>1. Len(<< >>) = 0 /\ ~(0 >= 4)
          BY SMT
        <4> QED BY <4>1, Zenon DEF Valid
      <3> QED BY <3>2, <3>3, Zenon DEF Carries
    <2> QED BY <2>1, <2>2
  <1>6. CASE eng.state = "rx"
    <2> DEFINE y == (2 * eng.shift + Sda) % 256
    <2>1. /\ eng'.active = eng.active /\ eng'.read = eng.read
          /\ eng.bits < 7 => UNCHANGED deviceVars
          /\ ~(eng.bits < 7) => eng.bits = 7 /\ write_byte(eng.active, y)
      BY <1>0, <1>1, <1>6, RiseOfByte, Zenon
    <2>2. CASE eng.bits < 7
      BY <1>3, <1>4, <2>1, <2>2, Zenon
    <2>3. CASE ~(eng.bits < 7)
      <3>1. SUFFICES ASSUME Written PROVE Carries(s_rx)'
        BY <2>1, Zenon DEF Written
      <3>2. s_rx' = IF PacketFits THEN Append(s_rx, y) ELSE s_rx
        BY <1>0, <2>1, <2>3, <3>1, Zenon
           DEF Written, write_byte, DdcIs, EepromIs, ddcci_write_byte
      <3>3. CASE PacketFits
        <4>1. Carries(Append(s_rx, y))
          BY <1>0, <1>2, <1>6, <2>1, <2>3, <3>1, <3>3, Zenon DEF NextCarries
        <4> HIDE DEF y
        <4> QED BY <3>2, <3>3, <4>1, Zenon DEF Carries
      <3>4. CASE ~PacketFits
        BY <1>2, <3>1, <3>2, <3>4, CarriesFrame, Zenon
      <3> QED BY <3>3, <3>4
    <2> QED BY <2>2, <2>3
  <1>7. CASE eng.state \notin {"address", "rx"}
    <2>1. eng'.active = eng.active /\ eng'.read = eng.read /\ s_rx' = s_rx
      BY <1>0, <1>1, <1>7, RiseOther, Zenon
    <2> QED BY <1>3, <2>1, Zenon
  <1> QED BY <1>5, <1>6, <1>7

\* No step of the slave makes it otherwise.
LEMMA HearsSlave ==
    ASSUME IInv, Following, Directions, Clocked, Hears, Slave
    PROVE  Hears'
  <1>0. /\ LinesInv /\ InStep /\ Afresh /\ Resting /\ ScriptInv /\ EngineTypeOK
        /\ UNCHANGED << script, slot, nack, phase >> /\ scl' = scl /\ wire' = wire
        /\ (Playing' <=> Playing) /\ DDCCI_I2C_ADDRESS # NoDevice
        /\ eng \in Locals /\ BitsInv /\ Sda \in {0, 1} /\ scl \in {0, 1} /\ Lines[2] = scl
        /\ previous[2] \in {0, 1}
    <2>1. wire' = wire
      BY Zenon DEF Slave, Unnoticed, SlaveGivesUp, historyVars
    <2>2. DDCCI_I2C_ADDRESS # NoDevice
      BY AddressFacts, SMT
    <2>3. previous[2] \in {0, 1}
      BY SlaveParts
    <2> QED BY <2>1, <2>2, <2>3, SlaveFrame, SlaveParts, WireFacts, Zenon
            DEF Following, IInv, Playing
  <1>1. (IInv /\ Directions /\ Content /\ phase \in {"low", "set", "high"} =>
            (Written => Transfer.to = DDCCI_I2C_ADDRESS /\ Carries(s_rx)))'
    BY HeardCarries, PTL
  <1>2. IInv' /\ Directions'
    BY NextTyped, DirectionsKept, Zenon DEF Act
  <1>3. ASSUME phase \in {"low", "set", "high"}, Content' PROVE Hears'
    <2>1. (Written => Carries(s_rx))'
      BY <1>0, <1>1, <1>2, <1>3, Zenon
    <2>2. Playing' /\ phase' # "closeHigh" /\ phase' # "gone"
      BY <1>0, <1>3 DEF Playing
    <2> QED BY <1>3, <2>1, <2>2, Zenon DEF Hears
  <1>4. pc' # "poll" => Hears'
    BY Zenon DEF Hears
  <1>5. UNCHANGED deviceVars => s_rx' = s_rx
    BY Zenon DEF deviceVars, ddcVars, packetVars
  <1>6. ASSUME eng.state = "address", eng.bits = 0, eng' = eng, previous' = Lines PROVE Hears'
    <2>1. eng.active = NoDevice /\ eng.shift = 0
      BY <1>6, Zenon DEF Directions
    <2>2. ~Written'
      BY <1>0, <1>6, <2>1, Zenon DEF Written
    <2>3. phase \in {"low", "set", "high"} => Content'
      <3>1. SUFFICES ASSUME phase \in {"low", "set", "high"} PROVE Content'
        OBVIOUS
      <3>2. Playing
        BY <3>1 DEF Playing
      <3>3. Transfer.bytes[1] \in Byte /\ Transfer' = Transfer
        BY <1>0, <3>2, FirstByte, Zenon DEF Transfer
      <3>4. High(Transfer.bytes[1], 0) = 0
        BY <3>3, BitsOf, Zenon
      <3>5. (eng.shift = High(Transfer.bytes[1], eng.bits))'
        BY <1>6, <2>1, <3>3, <3>4, Zenon DEF High
      <3> QED BY <1>6, <2>2, <3>5, Zenon DEF Content
    <2>4. (phase = "gone" /\ scl = 1 => previous[2] = 1)'
      BY <1>0, <1>6, Zenon
    <2>5. eng'.state # "rx"
      BY <1>6
    <2> QED BY <1>0, <2>2, <2>3, <2>4, <2>5, Zenon DEF Hears
  <1>7. CASE Start
    <2>1. CASE Lines = << 0, 1 >>
      <3>1. pc = "idle" /\ eng' = eng /\ previous' = Lines
        BY <1>7, <2>1, Zenon DEF Start
      <3>2. eng = FreshLocals
        BY <1>0, <3>1, Zenon DEF Resting
      <3>3. eng.state = "address" /\ eng.bits = 0
        BY <3>2 DEF FreshLocals
      <3> QED BY <1>6, <3>1, <3>3, Zenon
    <2>2. CASE Lines # << 0, 1 >>
      <3>1. pc' # "poll"
        BY <1>7, <2>2 DEF Start
      <3> QED BY <1>4, <3>1
    <2> QED BY <2>1, <2>2
  <1>8. CASE Resample
    <2>1. pc = "resample" /\ eng' = eng /\ previous' = Lines /\ s_rx' = s_rx
      BY <1>5, <1>8, Zenon DEF Resample
    <2>2. eng.state = "address"
      BY <2>1, Zenon DEF Directions
    <2>3. CASE Playing
      <3>1. Listening(0)
        BY <1>0, <2>1, <2>3, Zenon DEF Afresh
      <3>2. eng.bits = 0
        BY <2>2, <3>1, SMT DEF Listening
      <3> QED BY <1>6, <2>1, <2>2, <3>2, Zenon
    <2>4. CASE ~Playing
      <3>1. ~Written'
        BY <1>0, <2>1, <2>2, Zenon DEF Written, Directions
      <3>2. phase' \notin {"low", "set", "high"} /\ phase' # "closeHigh"
        BY <1>0, <2>4 DEF Playing
      <3>3. (phase = "gone" /\ scl = 1 => previous[2] = 1)'
        BY <1>0, <2>1, Zenon
      <3> QED BY <3>1, <3>2, <3>3, Zenon DEF Hears
    <2> QED BY <2>3, <2>4
  <1>9. CASE SeesRepeatedStart \/ SeesStop \/ SlaveGivesUp \/ Finish
    <2>1. pc' # "poll"
      BY <1>9 DEF SeesRepeatedStart, SeesStop, SlaveGivesUp, Timeout, Finish
    <2> QED BY <1>4, <2>1
  <1>10. CASE SeesData
    <2>1. /\ pc = "poll" /\ previous[2] = 0 /\ scl = 0 /\ eng' = eng /\ s_rx' = s_rx
      BY <1>5, <1>10, Zenon DEF SeesData, Sees, WasScl
    <2>2. Content => Content'
      BY <1>0, <2>1, ContentFrame, Zenon
    <2>3. Written' <=> Written
      BY <2>1, Zenon DEF Written
    <2>4. (Written => Carries(s_rx))' /\ (NextCarries => NextCarries')
      BY <1>0, <2>1, <2>3, CarriesFrame, Zenon DEF Hears
    <2>5. RisePossible /\ scl' # 1
      BY <1>0, <2>1 DEF RisePossible
    <2> QED BY <1>0, <2>1, <2>2, <2>3, <2>4, <2>5, Zenon DEF Hears
  <1>11. CASE SeesFall
    <2>1. /\ pc = "poll" /\ previous[2] = 1 /\ scl = 0 /\ Fall /\ s_rx' = s_rx
      BY <1>5, <1>11, Zenon DEF SeesFall, Sees, WasScl
    <2>2. /\ eng'.active = eng.active /\ eng'.read = eng.read
          /\ eng' = eng \/ eng'.state # "rx" \/ eng'.bits = 0
      <3>1. /\ eng'.active = eng.active /\ eng'.read = eng.read
            /\ \/ eng' = eng
               \/ eng'.state = eng.state /\ eng.state \in {"address_ack", "rx_ack"}
               \/ eng'.state \in {"tx", "tx_master_ack", "ignore"}
               \/ eng'.bits = 0
        BY <1>0, <2>1, FallMore, Zenon
      <3> QED BY <3>1
    <2>3. Written' <=> Written
      BY <2>2, Zenon DEF Written
    <2>4. (Written => Carries(s_rx))'
      BY <1>0, <2>1, <2>3, CarriesFrame, Zenon DEF Hears
    <2>5. CASE phase \in {"low", "set", "high"}
      <3>1. phase \in {"low", "set"} /\ Content
        BY <1>0, <2>1, <2>5 DEF LinesInv, Hears
      <3>2. Content'
        BY <1>0, <1>11, <3>1, HeardFall, Zenon
      <3> QED BY <1>3, <2>5, <3>2
    <2>6. CASE phase \notin {"low", "set", "high"}
      <3>1. phase' # "closeHigh" /\ scl' # 1
        BY <1>0, <2>1 DEF LinesInv
      <3>2. (~Playing /\ Written /\ RisePossible => NextCarries)'
        <4>1. SUFFICES ASSUME ~Playing, Written PROVE NextCarries'
          BY <1>0, <2>3, Zenon
        <4>2. NextCarries
          BY <2>1, <4>1 DEF Hears, RisePossible
        <4>3. CASE eng' = eng
          BY <1>0, <2>1, <4>2, <4>3, CarriesFrame, Zenon
        <4>4. CASE eng' # eng
          <5>1. eng'.state # "rx" \/ eng'.bits # 7
            BY <2>2, <4>4
          <5> QED BY <5>1, Zenon DEF NextCarries
        <4> QED BY <4>3, <4>4
      <3> QED BY <1>0, <2>4, <2>6, <3>1, <3>2, Zenon DEF Hears
    <2> QED BY <2>5, <2>6
  <1>12. CASE SeesRise
    <2>1. /\ pc = "poll" /\ previous[2] = 0 /\ scl = 1 /\ Rise(Sda) /\ previous' = Lines
      BY <1>12, Zenon DEF SeesRise, Sees, WasScl
    <2>2. previous'[2] = 1 /\ scl' = 1
      BY <1>0, <2>1, Zenon
    <2>3. CASE phase \in {"low", "set", "high"}
      <3>1. phase = "high" /\ Content
        BY <1>0, <2>1, <2>3 DEF LinesInv, Hears
      <3>2. Content'
        BY <1>0, <1>12, <3>1, HeardRise, Zenon
      <3> QED BY <1>3, <2>3, <3>2
    <2>4. CASE phase = "closeHigh"
      <3>1. Closed
        <4>1. Ended
          BY <1>0, <2>1, <2>4 DEF InStep
        <4> QED BY <2>1, <4>1 DEF Ended
      <3>2. /\ eng'.active = eng.active /\ eng'.read = eng.read /\ s_rx' = s_rx
            /\ eng'.state = "rx" => eng'.bits <= 1
        <4>1. CASE eng.state = "rx"
          <5>1. eng.bits = 0 /\ eng.bits < 7 /\ 0 + 1 <= 1
            <6>1. eng.bits = 0
              BY <3>1, <4>1, Zenon DEF Closed
            <6> QED BY <6>1, SMT
          <5>2. /\ eng'.active = eng.active /\ eng'.read = eng.read
                /\ eng'.bits = eng.bits + 1 /\ UNCHANGED deviceVars
            BY <1>0, <2>1, <4>1, <5>1, RiseOfByte, Zenon
          <5> QED BY <1>5, <5>1, <5>2, Zenon
        <4>2. CASE eng.state = "ignore"
          <5>1. eng.state \notin {"address", "rx"}
            BY <4>2
          <5>2. /\ eng'.active = eng.active /\ eng'.read = eng.read /\ s_rx' = s_rx
                /\ eng'.state \in {eng.state, "tx_master_ack"}
            BY <1>0, <2>1, <5>1, RiseOther, Zenon
          <5> QED BY <4>2, <5>2
        <4> QED BY <3>1, <4>1, <4>2 DEF Closed, Over
      <3>3. (Written => Carries(s_rx))'
        <4>1. Written' <=> Written
          BY <3>2, Zenon DEF Written
        <4> QED BY <1>0, <2>1, <3>2, <4>1, CarriesFrame, Zenon DEF Hears
      <3>4. Playing' /\ phase' \notin {"low", "set", "high"} /\ phase' # "gone"
        BY <1>0, <2>4 DEF Playing
      <3> QED BY <3>2, <3>3, <3>4, Zenon DEF Hears
    <2>5. CASE ~Playing
      <3>1. (Written => Carries(s_rx))'
        BY <1>0, <1>12, <2>5, HeardOutside, Zenon
      <3>2. ~RisePossible'
        <4>1. phase # "gone"
          BY <2>1 DEF Hears
        <4> QED BY <1>0, <2>2, <4>1 DEF RisePossible
      <3>3. phase' \notin {"low", "set", "high"} /\ phase' # "closeHigh"
        BY <1>0, <2>5 DEF Playing
      <3> QED BY <2>2, <3>1, <3>2, <3>3, Zenon DEF Hears
    <2>6. CASE phase \in {"started", "closing", "closeSet"}
      <3>1. phase = "started"
        BY <1>0, <2>1, <2>6 DEF LinesInv
      <3>2. Begun
        BY <1>0, <2>1, <3>1 DEF InStep
      <3>3. << 1, 1 >>[2] = 1 /\ << 0, 1 >>[2] = 1
        OBVIOUS
      <3> QED BY <2>1, <3>2, <3>3 DEF Begun
    <2>7. phase \in Phases
      BY Zenon DEF IInv, BusTypeOK
    <2> QED BY <2>3, <2>4, <2>5, <2>6, <2>7 DEF Playing, Phases
  <1> QED BY <1>7, <1>8, <1>9, <1>10, <1>11, <1>12, Zenon DEF Slave, Iteration

-----------------------------------------------------------------------------
(* The refinement *)

\* At first nothing is heard.
LEMMA HeardInit == Init => HInv
  <1> SUFFICES ASSUME Init PROVE HInv
    OBVIOUS
  <1>1. /\ phase = "free" /\ pc = "idle" /\ eng = FreshLocals
    BY Zenon DEF Init, EngineInit
  <1>2. eng.state = "address" /\ eng.shift = 0 /\ eng.active = NoDevice
    BY <1>1 DEF FreshLocals
  <1>3. DDCCI_I2C_ADDRESS # NoDevice
    BY AddressFacts, SMT
  <1>4. Directions
    BY <1>1, <1>2, <1>3 DEF Directions
  <1> QED BY <1>1, <1>4 DEF HInv, Hears, Clocked

\* What is heard is heard in every step.
LEMMA HeardKept ==
    ASSUME IInv, Following, HInv, [Act]_busVars
    PROVE  HInv'
  <1>0. Directions /\ Hears /\ Clocked
    BY Zenon DEF HInv
  <1>1. CASE Act
    <2>1. Directions' /\ Clocked'
      BY <1>0, <1>1, DirectionsKept, ClockedKept, Zenon
    <2>2. Hears'
      BY <1>0, <1>1, HearsHost, HearsSlave, Zenon DEF Act
    <2> QED BY <2>1, <2>2, Zenon DEF HInv
  <1>2. CASE UNCHANGED busVars
    <2>1. /\ UNCHANGED << script, slot, phase, eng, pc, previous, scl, wire >>
          /\ UNCHANGED << s_rx, s_read_direction >>
      BY <1>2, Zenon DEF busVars, hostVars, engineVars, historyVars, deviceVars, ddcVars, packetVars
    <2>2. (Written' <=> Written) /\ WholeMessage' = WholeMessage /\ Slots' = Slots
      BY <2>1, SameMessage, Zenon DEF Written
    <2>3. Directions' /\ Clocked'
      BY <1>0, <2>1, <2>2 DEF Directions, Clocked
    <2>4. Content => Content'
      BY <2>1, ContentFrame, Zenon
    <2>5. (Carries(s_rx) => Carries(s_rx)') /\ (NextCarries => NextCarries')
      BY <2>1, CarriesFrame, Zenon
    <2>6. (RisePossible' <=> RisePossible) /\ (Playing' <=> Playing)
      BY <2>1, Zenon DEF RisePossible, Playing
    <2>7. Hears'
      BY <1>0, <2>1, <2>2, <2>4, <2>5, <2>6, Zenon DEF Hears
    <2> QED BY <2>3, <2>7, Zenon DEF HInv
  <1> QED BY <1>1, <1>2

\* A valid packet is the sound message on the wire.
LEMMA PacketOnWire ==
    ASSUME PacketTypeOK, Carries(s_rx), request_packet_valid
    PROVE  /\ wire \in Messages /\ wire # Nothing
           /\ wire.code \in Byte /\ wire.value \in Word
           /\ GetVcp => wire.op = "get" /\ s_rx[4] = wire.code /\ ~SetVcp
           /\ SetVcp => /\ wire.op = "set" /\ s_rx[4] = wire.code /\ ~GetVcp
                        /\ 256 * s_rx[5] + s_rx[6] = wire.value
  <1>1. Valid(s_rx)
    BY Zenon DEF Valid, request_packet_valid, Announced
  <1>2. wire \in Messages /\ wire.flaw = "none" /\ s_rx = Packet(wire)
    BY <1>1, Zenon DEF Carries
  <1>3. wire # Nothing
    BY <1>2, NothingFacts, Zenon
  <1> DEFINE m == wire
  <1>4. /\ m.op \in {"get", "set"} /\ m.code \in Byte /\ m.value \in Word
        /\ m.op = "get" => Len(s_rx) = 5 /\ s_rx[3] = DDCCI_CMD_GET_VCP /\ s_rx[4] = m.code
        /\ m.op = "set" => /\ Len(s_rx) = 7 /\ s_rx[3] = DDCCI_CMD_SET_VCP
                           /\ s_rx[4] = m.code /\ s_rx[5] = m.value \div 256
                           /\ s_rx[6] = m.value % 256
    BY <1>2, SoundFields, Zenon
  <1>5. DDCCI_CMD_GET_VCP # DDCCI_CMD_SET_VCP
    BY SMT DEF DDCCI_CMD_GET_VCP, DDCCI_CMD_SET_VCP
  <1>6. 256 * (m.value \div 256) + (m.value % 256) = m.value
    BY <1>4, WordOf, Zenon
  <1>7. ASSUME GetVcp PROVE wire.op = "get" /\ s_rx[4] = wire.code /\ ~SetVcp
    <2>1. s_rx[3] = DDCCI_CMD_GET_VCP
      BY <1>7, Zenon DEF GetVcp
    <2>2. m.op = "get"
      BY <1>4, <1>5, <2>1
    <2> QED BY <1>4, <1>5, <2>1, <2>2, Zenon DEF SetVcp
  <1>8. ASSUME SetVcp
        PROVE  /\ wire.op = "set" /\ s_rx[4] = wire.code /\ ~GetVcp
               /\ 256 * s_rx[5] + s_rx[6] = wire.value
    <2>1. s_rx[3] = DDCCI_CMD_SET_VCP
      BY <1>8, Zenon DEF SetVcp
    <2>2. m.op = "set"
      BY <1>4, <1>5, <2>1
    <2> QED BY <1>4, <1>5, <1>6, <2>1, <2>2, Zenon DEF GetVcp
  <1> QED BY <1>2, <1>3, <1>4, <1>7, <1>8, Zenon

\* What a reply holds.
LEMMA HeldReply ==
    ASSUME MailboxTypeOK, s_response_ready'
    PROVE  /\ s_tx' = NullResponse => ReplyHeld' = Null
           /\ s_tx' = VcpResponse(DDCCI_VCP_BRIGHTNESS, DDCCI_BRIGHTNESS_MAX, s_brightness)
              => ReplyHeld' = [ code |-> DDCCI_VCP_BRIGHTNESS,
                                max |-> DDCCI_BRIGHTNESS_MAX, current |-> s_brightness ]
           /\ s_tx' = VcpResponse(DDCCI_VCP_POWER_MODE, DDCCI_POWER_OFF_WRITE, s_power_mode)
              => ReplyHeld' = [ code |-> DDCCI_VCP_POWER_MODE,
                                max |-> DDCCI_POWER_OFF_WRITE, current |-> s_power_mode ]
  <1>1. s_brightness \in Word /\ DDCCI_BRIGHTNESS_MAX \in Word
    BY BrightnessMaxAssumption, SMT DEF MailboxTypeOK, Percent, Word
  <1>2. s_power_mode \in Word /\ DDCCI_POWER_OFF_WRITE \in Word
    BY SMT DEF MailboxTypeOK, PowerModes, DDCCI_POWER_ON, DDCCI_POWER_OFF_WRITE, Word
  <1>3. ReplyHeld' = IF Len(s_tx') = 3 THEN Null
                     ELSE [ code |-> s_tx'[5], max |-> 256 * s_tx'[7] + s_tx'[8],
                            current |-> 256 * s_tx'[9] + s_tx'[10] ]
    BY Zenon DEF ReplyHeld
  <1>4. ASSUME NEW vcp \in Byte, NEW max \in Word, NEW cur \in Word,
               s_tx' = VcpResponse(vcp, max, cur)
        PROVE  ReplyHeld' = [ code |-> vcp, max |-> max, current |-> cur ]
    <2> DEFINE r == VcpResponse(vcp, max, cur)
    <2>0. Len(r) = 11 /\ r[5] = vcp /\ 256 * r[7] + r[8] = max /\ 256 * r[9] + r[10] = cur
      BY ValueFields
    <2>3. s_tx' = r
      BY <1>4
    <2> HIDE DEF r
    <2>1. /\ Len(s_tx') = 11 /\ s_tx'[5] = vcp
          /\ 256 * s_tx'[7] + s_tx'[8] = max
          /\ 256 * s_tx'[9] + s_tx'[10] = cur
      BY <2>0, <2>3, Zenon
    <2>2. 11 # 3
      BY SMT
    <2> QED BY <1>3, <2>1, <2>2, Zenon
  <1>5. s_tx' = NullResponse => ReplyHeld' = Null
    BY <1>3, NullTyped, Zenon
  <1> QED BY <1>1, <1>2, <1>4, <1>5, CodesTyped, Zenon

\* A reply that is not touched is the same reply.
LEMMA SameReply ==
    ASSUME UNCHANGED << mailboxVars, s_tx, s_response_ready >>
    PROVE  /\ ReplyHeld' = ReplyHeld
           /\ UNCHANGED << mailboxVars, ReplyHeld >>
  <1>1. ReplyHeld' = ReplyHeld
    BY Zenon DEF ReplyHeld
  <1> QED BY <1>1, Zenon

\* A host that reads without a request is told nothing.
LEMMA BeginRefines ==
    ASSUME NEW d, NEW read \in BOOLEAN, begin(d, read), wire' = wire
    PROVE  [Device!Next]_<< mailboxVars, wire, ReplyHeld >>
  <1>1. CASE UNCHANGED << mailboxVars, s_tx, s_response_ready >>
    BY <1>1, SameReply, Zenon
  <1>2. CASE ~UNCHANGED << mailboxVars, s_tx, s_response_ready >>
    <2>1. ddcci_begin(read)
      BY <1>2, Zenon DEF begin, EepromIs, NobodyIs, DdcIs, deviceVars, ddcVars, packetVars
    <2>2. read /\ Respond(NullResponse) /\ UNCHANGED mailboxVars
      BY <1>2, <2>1, Zenon DEF ddcci_begin
    <2>3. ReplyHeld' = Null
      BY <2>2, NullTyped, Zenon DEF Respond, ReplyHeld
    <2>4. Device!NothingToSay
      BY <2>2, <2>3 DEF Device!NothingToSay, Device!mailboxVars, mailboxVars
    <2> QED BY <2>4, Zenon DEF Device!Next
  <1> QED BY <1>1, <1>2

\* The end of a transfer, at a STOP, at a repeated START or after a silence:
\* the message on the wire is carried out, or no setting changes.
LEMMA EndRefines ==
    ASSUME IInv, HInv, pc = "poll", end_device(eng.active), wire' = wire
    PROVE  [Device!Next]_<< mailboxVars, wire, ReplyHeld >>
  <1>0. /\ MailboxTypeOK /\ PacketTypeOK /\ s_rx \in Seq(Byte)
        /\ DDCCI_I2C_ADDRESS # NoDevice
    BY AddressFacts, SMT DEF IInv, BusTypeOK, PacketTypeOK
  <1>1. CASE UNCHANGED << mailboxVars, s_tx, s_response_ready >>
    BY <1>1, SameReply, Zenon
  <1> SUFFICES ASSUME ~UNCHANGED << mailboxVars, s_tx, s_response_ready >>
               PROVE  [Device!Next]_<< mailboxVars, wire, ReplyHeld >>
    BY <1>1
  <1>2. eng.active = DDCCI_I2C_ADDRESS /\ ddcci_end
    BY Zenon DEF end_device, EepromIs, NobodyIs, DdcIs, deviceVars, ddcVars, packetVars
  <1>3. CASE s_read_direction
    <2>1. s_response_ready' = FALSE /\ UNCHANGED mailboxVars
      BY <1>2, <1>3, Zenon DEF ddcci_end, ReplyAfterRead
    <2>2. ReplyHeld' = Nothing
      BY <2>1 DEF ReplyHeld
    <2>3. Device!Taken
      BY <2>1, <2>2 DEF Device!Taken, Device!mailboxVars, mailboxVars
    <2> QED BY <2>3, Zenon DEF Device!Next
  <1>4. CASE ~s_read_direction
    <2>1. process_write_packet
      BY <1>2, <1>4, Zenon DEF ddcci_end
    <2>2. Carries(s_rx)
      <3>1. Written
        BY <1>2, <1>4 DEF Written, HInv, Directions
      <3> QED BY <3>1, Zenon DEF HInv, Hears
    <2>3. /\ s_tx' = Answer /\ s_response_ready'
          /\ \/ /\ SetVcp /\ s_rx[4] = DDCCI_VCP_BRIGHTNESS
                /\ SetVcpBrightness(256 * s_rx[5] + s_rx[6])
             \/ /\ SetVcp /\ s_rx[4] = DDCCI_VCP_POWER_MODE
                /\ SetVcpPowerMode(256 * s_rx[5] + s_rx[6])
             \/ /\ ~(SetVcp /\ s_rx[4] \in {DDCCI_VCP_BRIGHTNESS, DDCCI_VCP_POWER_MODE})
                /\ UNCHANGED mailboxVars
      BY <2>1, Zenon DEF process_write_packet, Respond
    <2>4. CASE SetVcp
      <3>1. request_packet_valid
        BY <2>4, Zenon DEF SetVcp
      <3>2. /\ wire # Nothing /\ wire.op = "set" /\ s_rx[4] = wire.code /\ ~GetVcp
            /\ 256 * s_rx[5] + s_rx[6] = wire.value
        BY <1>0, <2>2, <2>4, <3>1, PacketOnWire, Zenon
      <3>3. ReplyHeld' = Null
        <4>1. s_tx' = NullResponse
          BY <2>3, <3>2, Zenon DEF Answer
        <4> QED BY <1>0, <2>3, <4>1, HeldReply, Zenon
      <3>4. Device!Set(wire.code, wire.value)
        <4>1. \/ wire.code = DDCCI_VCP_BRIGHTNESS /\ SetVcpBrightness(wire.value)
              \/ wire.code = DDCCI_VCP_POWER_MODE /\ SetVcpPowerMode(wire.value)
              \/ /\ wire.code \notin {DDCCI_VCP_BRIGHTNESS, DDCCI_VCP_POWER_MODE}
                 /\ UNCHANGED mailboxVars
          BY <2>3, <2>4, <3>2, Zenon
        <4> QED BY <4>1 DEF Device!Set, Device!SetVcpBrightness, Device!SetVcpPowerMode,
               SetVcpBrightness, SetVcpPowerMode, Device!mailboxVars, mailboxVars,
               Device!ClampPercent, ClampPercent, Device!PowerModes, PowerModes,
               Device!DDCCI_POWER_ON, Device!DDCCI_POWER_OFF_WRITE,
               DDCCI_POWER_ON, DDCCI_POWER_OFF_WRITE
      <3>5. Device!CarryOutSet
        BY <3>2, <3>3, <3>4, Zenon DEF Device!CarryOutSet
      <3> QED BY <3>5, Zenon DEF Device!Next
    <2>5. CASE GetVcp
      <3>1. request_packet_valid
        BY <2>5, Zenon DEF GetVcp
      <3>2. /\ wire # Nothing /\ wire.op = "get" /\ s_rx[4] = wire.code /\ ~SetVcp
        BY <1>0, <2>2, <2>5, <3>1, PacketOnWire, Zenon
      <3>3. UNCHANGED mailboxVars
        BY <2>3, <3>2, Zenon
      <3>4. ReplyHeld' = Device!AnswerTo(wire.code)
        <4>0. DDCCI_VCP_BRIGHTNESS # DDCCI_VCP_POWER_MODE
          BY SMT DEF DDCCI_VCP_BRIGHTNESS, DDCCI_VCP_POWER_MODE
        <4>1. CASE wire.code = DDCCI_VCP_BRIGHTNESS
          <5>1. s_tx' = VcpResponse(DDCCI_VCP_BRIGHTNESS, DDCCI_BRIGHTNESS_MAX, s_brightness)
            BY <2>3, <2>5, <3>2, <4>1, Zenon DEF Answer
          <5>2. ReplyHeld' = [ code |-> DDCCI_VCP_BRIGHTNESS,
                               max |-> DDCCI_BRIGHTNESS_MAX, current |-> s_brightness ]
            BY <1>0, <2>3, <5>1, HeldReply, Zenon
          <5> QED BY <4>0, <4>1, <5>2 DEF Device!AnswerTo, Device!Value
        <4>2. CASE wire.code = DDCCI_VCP_POWER_MODE
          <5>1. s_tx' = VcpResponse(DDCCI_VCP_POWER_MODE, DDCCI_POWER_OFF_WRITE, s_power_mode)
            BY <2>3, <2>5, <3>2, <4>0, <4>2, Zenon DEF Answer
          <5>2. ReplyHeld' = [ code |-> DDCCI_VCP_POWER_MODE,
                               max |-> DDCCI_POWER_OFF_WRITE, current |-> s_power_mode ]
            BY <1>0, <2>3, <5>1, HeldReply, Zenon
          <5> QED BY <4>0, <4>2, <5>2 DEF Device!AnswerTo, Device!Value,
                 Device!DDCCI_POWER_OFF_WRITE, DDCCI_POWER_OFF_WRITE
        <4>3. CASE wire.code # DDCCI_VCP_BRIGHTNESS /\ wire.code # DDCCI_VCP_POWER_MODE
          <5>1. s_tx' = NullResponse
            BY <2>3, <3>2, <4>3, Zenon DEF Answer
          <5>2. ReplyHeld' = Null
            BY <1>0, <2>3, <5>1, HeldReply, Zenon
          <5> QED BY <4>3, <5>2 DEF Device!AnswerTo
        <4> QED BY <4>1, <4>2, <4>3
      <3>5. Device!CarryOutGet
        BY <3>2, <3>3, <3>4 DEF Device!CarryOutGet, Device!mailboxVars, mailboxVars
      <3> QED BY <3>5, Zenon DEF Device!Next
    <2>6. CASE ~SetVcp /\ ~GetVcp
      <3>1. s_tx' = NullResponse /\ UNCHANGED mailboxVars
        BY <2>3, <2>6, Zenon DEF Answer
      <3>2. ReplyHeld' = Null
        BY <1>0, <2>3, <3>1, HeldReply, Zenon
      <3>3. Device!NothingToSay
        BY <3>1, <3>2 DEF Device!NothingToSay, Device!mailboxVars, mailboxVars
      <3> QED BY <3>3, Zenon DEF Device!Next
    <2> QED BY <2>4, <2>5, <2>6
  <1> QED BY <1>3, <1>4

\* A step of the slave that decides nothing, or ends a transfer.
LEMMA SlaveRefines ==
    ASSUME IInv, HInv, Slave
    PROVE  [Device!Next]_<< mailboxVars, wire, ReplyHeld >>
  <1>0. /\ eng \in Locals /\ BitsInv /\ Sda \in {0, 1} /\ wire' = wire
    <2>1. wire' = wire
      BY Zenon DEF Slave, Unnoticed, SlaveGivesUp, historyVars
    <2> QED BY <2>1, SlaveParts, Zenon
  <1>1. ASSUME UNCHANGED << mailboxVars, s_tx, s_response_ready >>
        PROVE  [Device!Next]_<< mailboxVars, wire, ReplyHeld >>
    BY <1>0, <1>1, SameReply, Zenon
  <1>2. UNCHANGED deviceVars => UNCHANGED << mailboxVars, s_tx, s_response_ready >>
    BY Zenon DEF deviceVars, ddcVars, packetVars
  <1>3. CASE Start \/ Resample \/ SeesFall \/ SeesData \/ Finish
    <2>1. UNCHANGED deviceVars
      BY <1>3, Zenon DEF Start, Resample, SeesFall, SeesData, Finish
    <2> QED BY <1>1, <1>2, <2>1, Zenon
  <1>4. CASE SeesRepeatedStart \/ SeesStop \/ SlaveGivesUp
    <2>1. pc = "poll" /\ end_device(eng.active)
      BY <1>4, Zenon DEF SeesRepeatedStart, SeesStop, SlaveGivesUp, Timeout, LinesStill, Sees, EndsTransfer
    <2> QED BY <1>0, <2>1, EndRefines, Zenon
  <1>5. CASE SeesRise
    <2>0. Rise(Sda)
      BY <1>5, Zenon DEF SeesRise
    <2>1. CASE eng.state = "address"
      <3>1. \/ UNCHANGED deviceVars
            \/ eng'.read \in BOOLEAN /\ begin(eng'.active, eng'.read)
        BY <1>0, <2>0, <2>1, RiseOfAddress, Zenon
      <3>2. CASE eng'.read \in BOOLEAN /\ begin(eng'.active, eng'.read)
        <4>1. PICK d : d = eng'.active
          OBVIOUS
        <4>2. PICK read \in BOOLEAN : read = eng'.read
          BY <3>2, Zenon
        <4>3. begin(d, read)
          BY <3>2, <4>1, <4>2, Zenon
             DEF begin, DdcIs, EepromIs, NobodyIs, ddcci_begin, eeprom_begin
        <4> QED BY <1>0, <4>3, BeginRefines, Zenon
      <3> QED BY <1>1, <1>2, <3>1, <3>2, Zenon
    <2>2. CASE eng.state = "rx"
      <3>1. UNCHANGED deviceVars \/ \E byte : write_byte(eng.active, byte)
        BY <1>0, <2>0, <2>2, RiseOfByte, Zenon
      <3>2. \A byte : write_byte(eng.active, byte) =>
                UNCHANGED << mailboxVars, s_tx, s_response_ready >>
        BY Zenon DEF write_byte, DdcIs, EepromIs, ddcci_write_byte, ddcVars, packetVars
      <3> QED BY <1>1, <1>2, <3>1, <3>2, Zenon
    <2>3. CASE eng.state \notin {"address", "rx"}
      <3>1. UNCHANGED << mailboxVars, s_tx, s_response_ready >>
        BY <1>0, <2>0, <2>3, RiseOther, Zenon
      <3> QED BY <1>1, <3>1, Zenon
    <2> QED BY <2>1, <2>2, <2>3
  <1> QED BY <1>3, <1>4, <1>5, Zenon DEF Slave, Iteration

\* Every step of the bus is a step of the device.
LEMMA StepRefines ==
    ASSUME IInv, HInv, [Act]_busVars
    PROVE  [Device!Next]_<< mailboxVars, wire, ReplyHeld >>
  <1>1. CASE Host
    <2>1. ReplyHeld' = ReplyHeld /\ UNCHANGED mailboxVars
      BY <1>1, HostFrame, SameReply, Zenon
    <2>2. wire' # wire => Device!Clock
      BY <2>1 DEF Device!Clock, Device!mailboxVars, mailboxVars
    <2> QED BY <2>1, <2>2, Zenon DEF Device!Next
  <1>2. CASE Slave
    BY <1>2, SlaveRefines, Zenon
  <1>3. CASE UNCHANGED busVars
    <2>1. UNCHANGED << mailboxVars, s_tx, s_response_ready >> /\ wire' = wire
      BY <1>3, Zenon DEF busVars, deviceVars, ddcVars, packetVars, historyVars
    <2> QED BY <2>1, SameReply, Zenon
  <1> QED BY <1>1, <1>2, <1>3, Zenon DEF Act

\* The device starts as the abstract device does.
LEMMA InitRefines == Init => Device!Init
  <1> SUFFICES ASSUME Init PROVE Device!Init
    OBVIOUS
  <1>1. ddcci_init(INITIAL_BRIGHTNESS) /\ wire = Nothing /\ s_response_ready = FALSE
    BY Zenon DEF Init, PacketInit
  <1>2. ReplyHeld = Nothing
    BY <1>1 DEF ReplyHeld
  <1> QED BY <1>1, <1>2 DEF Device!Init, Device!ddcci_init, ddcci_init, Device!ClampPercent,
         ClampPercent, Device!DDCCI_POWER_ON, DDCCI_POWER_ON

\* The bus implements the device of VcpDevice, as long as only one thing goes
\* wrong if an edge may come before the handler is ready for it: no packet
\* that is cut, flawed, overlong or misheard ever changes a setting, and one
\* that is whole is carried out in one step (ddcci_end, process_write_packet,
\* request_packet_valid).
THEOREM Implements ==
    ASSUME EarlyAlone
    PROVE  Spec => ImplementsVcpDevice
  <1>1. Init => IInv /\ Following /\ HInv
    BY InitTyped, FollowingInit, HeardInit, Zenon
  <1>2. IInv /\ Following /\ IInv' /\ Following' /\ HInv /\ [Act]_busVars => HInv'
    BY HeardKept, Zenon
  <1>3. IInv /\ HInv /\ [Act]_busVars => [Device!Next]_<< mailboxVars, wire, ReplyHeld >>
    BY StepRefines, Zenon
  <1>4. Spec => [](IInv /\ Following)
    BY InStepAlways, Zenon
  <1>5. UNCHANGED << mailboxVars, wire, ReplyHeld >>
            => UNCHANGED << Device!mailboxVars, wire, ReplyHeld >>
    BY Zenon DEF Device!mailboxVars, mailboxVars
  <1>6. [Device!Next]_<< mailboxVars, wire, ReplyHeld >>
            => [Device!Next]_<< Device!mailboxVars, wire, ReplyHeld >>
    BY <1>5, Zenon
  <1> QED BY Waiting, <1>1, <1>2, <1>3, <1>4, <1>6, InitRefines, PTL
          DEF Spec, ImplementsVcpDevice, Device!Spec

-----------------------------------------------------------------------------
=============================================================================
