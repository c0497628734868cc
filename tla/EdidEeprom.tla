----------------------------- MODULE EdidEeprom -----------------------------
(***************************************************************************)
(* The EDID EEPROM at I2C address 0x50 (ESP32/main/edid_eeprom.c): a byte  *)
(* pointer over a read-only table.  The operators are the callbacks of its *)
(* soft_i2c_device_t; SoftI2c calls them.  eeprom_end is empty.            *)
(***************************************************************************)
EXTENDS Naturals

CONSTANT s_edid            \* the table: 256 bytes

ASSUME EdidAssumption == s_edid \in [0..255 -> 0..255]

VARIABLES
    s_pointer,
    s_expect_pointer       \* the next byte written is a pointer

eepromVars == << s_pointer, s_expect_pointer >>

EDID_EEPROM_I2C_ADDRESS == \h50

edid_eeprom_init ==
    /\ s_pointer = 0
    /\ s_expect_pointer = TRUE

eeprom_begin(read_direction) ==
    /\ s_expect_pointer' = (s_expect_pointer \/ ~read_direction)
    /\ UNCHANGED s_pointer

\* Always acknowledged; data after the pointer only moves it on.
eeprom_write_byte(byte) ==
    /\ s_pointer' = IF s_expect_pointer THEN byte ELSE (s_pointer + 1) % 256
    /\ s_expect_pointer' = FALSE

eeprom_read_byte == s_edid[s_pointer]

eeprom_read_advance ==
    /\ s_pointer' = (s_pointer + 1) % 256
    /\ UNCHANGED s_expect_pointer

EepromTypeOK ==
    /\ s_pointer \in 0..255
    /\ s_expect_pointer \in BOOLEAN
=============================================================================
