------------------------------ MODULE MCDdcBus ------------------------------
(* The DDC master with the transfers a graphics driver makes, and some it  *)
(* makes only when something has gone wrong.                               *)
EXTENDS DdcBus

\* The first bytes of the table in edid_eeprom.c, and its last one.
SomeEdid == [p \in 0..255 |-> CASE p \in 1..6 -> \hFF [] p = 8 -> 6
                                [] p = 9 -> \hAF [] p = 255 -> \hF6 [] OTHER -> 0]

Ddc == DDCCI_I2C_ADDRESS
Eeprom == EDID_EEPROM_I2C_ADDRESS

\* 300 is more than the maximum, 0x104 has a low byte that is a mode, and 80 is
\* the EEPROM's address too, for a slave that is out of step to answer.
SetLevel(flaw) == Message("set", DDCCI_VCP_BRIGHTNESS, 300, flaw)
SetEighty      == Message("set", DDCCI_VCP_BRIGHTNESS, 80, "none")
SetPower       == Message("set", DDCCI_VCP_POWER_MODE, 260, "none")
GetLevel       == Message("get", DDCCI_VCP_BRIGHTNESS, 0, "none")
GetPower       == Message("get", DDCCI_VCP_POWER_MODE, 0, "none")

SomeScripts == {
    << Send(SetLevel("none"), "restart"), Read(Eeprom, 1, "stop"),
       Send(SetPower, "stop") >>,
    << Send(SetLevel("checksum"), "restart"), Send(SetLevel("cut"), "stop"),
       Read(Ddc, 3, "stop"), Send(SetLevel("overlong"), "stop") >>,
    << Send(GetLevel, "stop"), Write(Ddc, << >>, "stop"), Read(Ddc, 12, "stop"),
       Read(Ddc, 3, "stop") >>,
    << Send(SetLevel("none"), "stop"), Send(SetEighty, "stop") >>,
    << Send(GetPower, "restart"), Read(Ddc, 6, "stop") >>,
    << Write(Eeprom, << 255 >>, "restart"), Read(Eeprom, 2, "stop"),
       Write(Eeprom, << 7, 0 >>, "stop"), Write(\h3A, << 1 >>, "stop") >> }
=============================================================================
