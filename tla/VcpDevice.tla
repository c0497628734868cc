------------------------------ MODULE VcpDevice ------------------------------
(***************************************************************************)
(* What the DDC/CI device promises, without bytes, bits or edges: a        *)
(* message that is wholly on the wire is carried out at once or not at     *)
(* all, anything less changes no setting, and a reply always answers the   *)
(* message carried out last.  This is the device the module Firmware       *)
(* assumes: every transaction is one step.                                 *)
(***************************************************************************)
EXTENDS DdcMailbox

CONSTANTS
    Brightness, Power,     \* the two VCP codes
    Nothing,               \* no message is wholly on the wire
    NoReply,               \* no reply is waiting
    Null,                  \* the reply that carries no value
    Initial

VARIABLES
    wire,                  \* the message the host has clocked out completely
    reply

Value(code, max, current) == [code |-> code, max |-> max, current |-> current]

Set(code, value) ==
    \/ code = Brightness /\ SetVcpBrightness(value)
    \/ code = Power /\ SetVcpPowerMode(value)
    \/ code \notin {Brightness, Power} /\ UNCHANGED mailboxVars

AnswerTo(code) ==
    CASE code = Brightness -> Value(code, DDCCI_BRIGHTNESS_MAX, s_brightness)
      [] code = Power -> Value(code, DDCCI_POWER_OFF_WRITE, s_power_mode)
      [] OTHER -> Null

\* The host clocks: a message becomes complete, or its trace is gone.
Clock ==
    /\ wire' # wire
    /\ UNCHANGED << mailboxVars, reply >>

CarryOutSet ==
    /\ wire # Nothing /\ wire.op = "set"
    /\ Set(wire.code, wire.value)
    /\ reply' = Null
    /\ UNCHANGED wire

CarryOutGet ==
    /\ wire # Nothing /\ wire.op = "get"
    /\ reply' = AnswerTo(wire.code)
    /\ UNCHANGED << mailboxVars, wire >>

\* A packet that is cut short or flawed; a read with no reply waiting.
NothingToSay ==
    /\ reply' = Null
    /\ UNCHANGED << mailboxVars, wire >>

\* A read transfer takes the reply away, whether or not it was read whole.
Taken ==
    /\ reply' = NoReply
    /\ UNCHANGED << mailboxVars, wire >>

Init ==
    /\ ddcci_init(Initial)
    /\ wire = Nothing
    /\ reply = NoReply

Next == Clock \/ CarryOutSet \/ CarryOutGet \/ NothingToSay \/ Taken

Spec == Init /\ [][Next]_<< mailboxVars, wire, reply >>
=============================================================================
