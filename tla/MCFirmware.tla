----------------------------- MODULE MCFirmware -----------------------------
(* The control loop on a small ladder: 0, 1, 2, 4 percent.                 *)
EXTENDS Firmware

\* The interrupt may fall before any piece of the loop.
Anywhere == Labels

\* The interrupt falls anywhere but between the loop's read of a mailbox value
\* and the write that ends its use, the windows run "firmware_lost" opens.
OutsideTheWindows == Labels \ {"clearBrightness", "clearPower", "downSet", "upSet"}

\* 0 is the host's display-off; 5 is beyond the maximum and clamps.
SomeBrightness == {0, 1, 5}

\* On, suspend, off-write, 0x101 (a low byte of 1) and 6 (refused).
AllPower == {1, 3, 5, 6, 257}
SomePower == {1, 4}

\* Brightness is only written while D6 is off.
WritesWhileOff ==
    Init /\ [][Loop \/ HostSetsPower \/ (~s_ddcci_power_on /\ HostSetsBrightness)]_vars
=============================================================================
