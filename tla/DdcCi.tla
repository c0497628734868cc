-------------------------------- MODULE DdcCi --------------------------------
(***************************************************************************)
(* The DDC/CI device at I2C address 0x37 (ESP32/main/ddcci.c), byte by     *)
(* byte: a write transfer collects a packet, its end decodes the packet    *)
(* into the mailbox of DdcMailbox and prepares a reply, a read transfer    *)
(* sends the reply.  The operators are the callbacks of its                *)
(* soft_i2c_device_t; SoftI2c calls them.  s_rx_len and s_tx_len are the   *)
(* lengths of the sequences s_rx and s_tx.                                 *)
(***************************************************************************)
EXTENDS DdcMailbox, Sequences, SequencesExt, FiniteSets

CONSTANT DDCCI_RX_MAX      \* 32: bytes a packet may have

ASSUME RxMaxAssumption == DDCCI_RX_MAX \in Nat \ {0}

VARIABLES
    s_rx,                  \* the packet being written, without the address
    s_tx,                  \* the reply
    s_tx_index,            \* bytes of it already read
    s_response_ready,      \* a reply is waiting to be read
    s_read_direction       \* of the current transfer

packetVars == << s_rx, s_tx, s_tx_index, s_response_ready, s_read_direction >>
ddcVars    == << mailboxVars, packetVars >>

DDCCI_I2C_ADDRESS           == \h37
DDCCI_VCP_BRIGHTNESS        == \h10
DDCCI_VCP_POWER_MODE        == \hD6
DDCCI_HOST_SOURCE           == \h51
DDCCI_DISPLAY_SOURCE        == \h6E
DDCCI_REQUEST_CHECKSUM_SEED == \h6E
DDCCI_REPLY_CHECKSUM_SEED   == \h50
DDCCI_CMD_GET_VCP           == 1
DDCCI_CMD_GET_VCP_REPLY     == 2
DDCCI_CMD_SET_VCP           == 3

Byte == 0..2^8 - 1
Word == 0..2^16 - 1

Bit(byte, place) == (byte \div 2^place) % 2

\* Exclusive or, bit by bit: a bit is set when an odd number of bytes set it.
xor_checksum(seed, data) ==
    LET ones(place) == Cardinality({i \in DOMAIN data : Bit(data[i], place) = 1})
        odd(place)  == (Bit(seed, place) + ones(place)) % 2
    IN  odd(0) + 2 * odd(1) + 4 * odd(2) + 8 * odd(3)
            + 16 * odd(4) + 32 * odd(5) + 64 * odd(6) + 128 * odd(7)

Sealed(seed, data) == Append(data, xor_checksum(seed, data))

-----------------------------------------------------------------------------
(* Packets *)

\* Mutant: the checksum is not looked at.
ChecksumIgnored(rx) == TRUE

ChecksumMatches(rx) ==
    Last(rx) = xor_checksum(DDCCI_REQUEST_CHECKSUM_SEED, Front(rx))

\* Source, length and checksum.
request_packet_valid ==
    /\ Len(s_rx) >= 4
    /\ s_rx[1] = DDCCI_HOST_SOURCE
    /\ s_rx[2] >= 128
    /\ Len(s_rx) = (s_rx[2] % 128) + 3
    /\ ChecksumMatches(s_rx)

NullResponse ==
    Sealed(DDCCI_REPLY_CHECKSUM_SEED, << DDCCI_DISPLAY_SOURCE, 128 >>)

VcpResponse(vcp, max, cur) ==
    Sealed(DDCCI_REPLY_CHECKSUM_SEED,
           << DDCCI_DISPLAY_SOURCE, 128 + 8, DDCCI_CMD_GET_VCP_REPLY, 0, vcp, 0,
              max \div 256, max % 256, cur \div 256, cur % 256 >>)

\* build_null_response and build_vcp_response.
Respond(reply) ==
    /\ s_tx' = reply
    /\ s_tx_index' = 0
    /\ s_response_ready' = TRUE

GetVcp ==
    request_packet_valid /\ s_rx[3] = DDCCI_CMD_GET_VCP /\ Len(s_rx) = 5

SetVcp ==
    request_packet_valid /\ s_rx[3] = DDCCI_CMD_SET_VCP /\ Len(s_rx) = 7

\* The answer to the packet: a value only for a Get VCP of a known code.
Answer ==
    IF GetVcp /\ s_rx[4] = DDCCI_VCP_BRIGHTNESS
    THEN VcpResponse(DDCCI_VCP_BRIGHTNESS, DDCCI_BRIGHTNESS_MAX, s_brightness)
    ELSE IF GetVcp /\ s_rx[4] = DDCCI_VCP_POWER_MODE
    THEN VcpResponse(DDCCI_VCP_POWER_MODE, DDCCI_POWER_OFF_WRITE, s_power_mode)
    ELSE NullResponse

process_write_packet ==
    /\ Respond(Answer)
    /\ \/ /\ SetVcp /\ s_rx[4] = DDCCI_VCP_BRIGHTNESS
          /\ SetVcpBrightness(256 * s_rx[5] + s_rx[6])
       \/ /\ SetVcp /\ s_rx[4] = DDCCI_VCP_POWER_MODE
          /\ SetVcpPowerMode(256 * s_rx[5] + s_rx[6])
       \/ /\ ~(SetVcp /\ s_rx[4] \in {DDCCI_VCP_BRIGHTNESS, DDCCI_VCP_POWER_MODE})
          /\ UNCHANGED mailboxVars

-----------------------------------------------------------------------------
(* Callbacks *)

\* A read finds the reply of the last packet, or the null response.
ddcci_begin(read_direction) ==
    /\ s_read_direction' = read_direction
    /\ UNCHANGED mailboxVars
    /\ IF ~read_direction
       THEN /\ s_rx' = << >>
            /\ UNCHANGED << s_tx, s_tx_index, s_response_ready >>
       ELSE /\ IF s_response_ready
               THEN s_tx_index' = 0 /\ UNCHANGED << s_tx, s_response_ready >>
               ELSE Respond(NullResponse)
            /\ UNCHANGED s_rx

\* Mutant: the buffer has no end.
AlwaysFits == TRUE

\* write_byte returns this: the byte is acknowledged.
PacketFits == Len(s_rx) < DDCCI_RX_MAX

ddcci_write_byte(byte) ==
    /\ s_rx' = IF PacketFits THEN Append(s_rx, byte) ELSE s_rx
    /\ UNCHANGED << mailboxVars, s_tx, s_tx_index, s_response_ready,
                    s_read_direction >>

ddcci_read_byte == IF s_tx_index < Len(s_tx) THEN s_tx[s_tx_index + 1] ELSE 0

ddcci_read_advance ==
    /\ s_tx_index' = IF s_tx_index < Len(s_tx) THEN s_tx_index + 1 ELSE s_tx_index
    /\ UNCHANGED << mailboxVars, s_rx, s_tx, s_response_ready, s_read_direction >>

\* Mutant: a reply can be read again and again.
ReplyKept == s_response_ready

ReplyAfterRead == FALSE

\* A read consumes the reply; a write of at least one byte is a packet.
ddcci_end ==
    IF s_read_direction
    THEN /\ s_response_ready' = ReplyAfterRead
         /\ s_tx_index' = 0
         /\ UNCHANGED << mailboxVars, s_rx, s_tx, s_read_direction >>
    ELSE /\ IF Len(s_rx) > 0
            THEN process_write_packet
            ELSE UNCHANGED << mailboxVars, s_tx, s_tx_index, s_response_ready >>
         /\ UNCHANGED << s_rx, s_read_direction >>

\* ddcci_init, after ddcci_init of the mailbox.
PacketInit ==
    /\ s_rx = << >>
    /\ s_tx = << >>
    /\ s_tx_index = 0
    /\ s_response_ready = FALSE
    /\ s_read_direction = FALSE

PacketTypeOK ==
    /\ s_rx \in Seq(Byte) /\ Len(s_rx) <= DDCCI_RX_MAX
    /\ s_tx \in Seq(Byte) /\ Len(s_tx) \in {0, 3, 11}
    /\ s_tx_index \in 0..Len(s_tx)
    /\ s_response_ready \in BOOLEAN
    /\ s_read_direction \in BOOLEAN
=============================================================================
