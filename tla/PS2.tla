-------------------------------- MODULE PS2 ---------------------------------
(***************************************************************************)
(* KeyboardDriver::Activate and MouseDriver::Activate (src/src/drivers)    *)
(* and the 8042 controller between the ports and the two devices.          *)
(*                                                                         *)
(* A byte is the set of its bits.  The controller hands over what it and   *)
(* the devices answer one byte at a time, each when it gets to it; the     *)
(* drivers read the data port without asking whether there is a byte.      *)
(***************************************************************************)
EXTENDS Integers, Sequences

CONSTANT KeysAtBoot   \* keys pressed meanwhile, at most

VARIABLES
  ops,         \* the accesses of Activate that are still to come
  status,      \* of Activate: what it read, changed
  controlByte, \* of the controller
  reporting,   \* the devices that have been told to report
  expects,     \* whom the next byte written to the data port is for
  answering,   \* who has an answer that has not got to the data port
  output,      \* the data port: whose byte it holds, and which
  unread,      \* it has not been read yet
  keys,        \* keys still to be pressed
  mistaken     \* a driver read a byte that was not the answer it wanted (history)

ps2Vars == <<ops, status, controlByte, reporting, expects, answering, output, unread, keys, mistaken>>

KeyboardInterrupt == 0
MouseInterrupt == 1
KeyboardOff == 4
MouseOff == 5

Acknowledgment == {1, 3, 4, 5, 6, 7}   \* 0xFA
ScanCode == {1, 2, 3, 4}

Ps2Init ==
  /\ ops = <<>> /\ status = {} /\ mistaken = FALSE
  /\ controlByte \in {{2, 6}, {KeyboardOff, MouseOff, 2}} /\ reporting = {}
  /\ expects = "keyboard" /\ answering = {} /\ keys = KeysAtBoot
  /\ output = [of |-> "nobody", byte |-> {}] /\ unread = FALSE

Ps2Forgotten ==
  /\ ops' = <<>> /\ status' = {} /\ mistaken' = FALSE /\ controlByte' = {} /\ reporting' = {}
  /\ expects' = "keyboard" /\ answering' = {} /\ keys' = 0
  /\ output' = [of |-> "nobody", byte |-> {}] /\ unread' = FALSE

-----------------------------------------------------------------------------
(* The controller and the devices (external) *)

AnswerOf(source) ==
  CASE source = "controller"            -> controlByte
    [] source \in {"keyboard", "mouse"} -> Acknowledgment
    [] source = "key"                   -> ScanCode

Deliver(source) ==
  /\ source \in answering /\ ~unread
  /\ output' = [of |-> source, byte |-> AnswerOf(source)] /\ unread' = TRUE
  /\ answering' = answering \ {source}
  /\ UNCHANGED <<ops, status, controlByte, reporting, expects, keys, mistaken>>

PressKey ==
  /\ keys > 0 /\ keys' = keys - 1
  /\ answering' = answering \cup {"key"}
  /\ UNCHANGED <<ops, status, controlByte, reporting, expects, output, unread, mistaken>>

ControllerCommand(code) ==
  /\ controlByte' = CASE code = "enable keyboard" -> controlByte \ {KeyboardOff}
                      [] code = "enable mouse"    -> controlByte \ {MouseOff}
                      [] OTHER                    -> controlByte
  /\ expects' = CASE code = "write control byte" -> "controller"
                  [] code = "write to mouse"     -> "mouse"
                  [] OTHER                       -> "keyboard"
  /\ answering' = IF code = "read control byte" THEN answering \cup {"controller"} ELSE answering
  /\ UNCHANGED <<status, reporting, output, unread, mistaken>>

EnableReporting == {2, 4, 5, 6, 7}   \* 0xF4

Data(byte) ==
  /\ controlByte' = IF expects = "controller" THEN byte ELSE controlByte
  /\ reporting' = IF expects # "controller" /\ byte = EnableReporting
                    THEN reporting \cup {expects} ELSE reporting
  /\ answering' = IF expects = "controller" THEN answering ELSE answering \cup {expects}
  /\ expects' = "keyboard"
  /\ UNCHANGED <<status, output, unread, mistaken>>

-----------------------------------------------------------------------------
(* The drivers *)

Do(code) == [port |-> "command", code |-> code]

KeyboardActivate ==
  <<[port |-> "drain"], Do("enable keyboard"), Do("read control byte"),
    [port |-> "read", of |-> "controller", set |-> {KeyboardInterrupt}, clear |-> {KeyboardOff}],
    Do("write control byte"), [port |-> "write status"], [port |-> "write"]>>

MouseActivateAlone ==
  <<Do("enable mouse"), Do("read control byte"),
    [port |-> "read", of |-> "controller", set |-> {MouseInterrupt}, clear |-> 0..7],
    Do("write control byte"), [port |-> "write status"],
    Do("write to mouse"), [port |-> "write"],
    [port |-> "read", of |-> "mouse", set |-> {}, clear |-> {}]>>

MouseActivateUnaddressed ==
  <<Do("enable mouse"), Do("read control byte"),
    [port |-> "read", of |-> "controller", set |-> {MouseInterrupt}, clear |-> {}],
    Do("write control byte"), [port |-> "write status"], [port |-> "write"],
    [port |-> "read", of |-> "keyboard", set |-> {}, clear |-> {}]>>

MouseActivate ==
  <<Do("enable mouse"), Do("read control byte"),
    [port |-> "read", of |-> "controller", set |-> {MouseInterrupt}, clear |-> {}],
    Do("write control byte"), [port |-> "write status"],
    Do("write to mouse"), [port |-> "write"],
    [port |-> "read", of |-> "mouse", set |-> {}, clear |-> {}]>>

(* The loop that empties the data port before the keyboard is used. *)
Drain ==
  /\ Head(ops).port = "drain"
  /\ ops' = IF unread THEN ops ELSE Tail(ops)
  /\ unread' = FALSE
  /\ UNCHANGED <<status, controlByte, reporting, expects, answering, output, mistaken>>

ReadData ==
  /\ Head(ops).port = "read"
  /\ status' = (output.byte \ Head(ops).clear) \cup Head(ops).set
  /\ unread' = FALSE
  /\ mistaken' = (mistaken \/ ~unread \/ output.of # Head(ops).of)
  /\ UNCHANGED <<controlByte, reporting, expects, answering, output>>

Port ==
  /\ ops # <<>>
  /\ \/ Drain
     \/ /\ ops' = Tail(ops)
        /\ \/ Head(ops).port = "command" /\ ControllerCommand(Head(ops).code)
           \/ Head(ops).port = "write" /\ Data(EnableReporting)
           \/ Head(ops).port = "write status" /\ Data(status)
           \/ ReadData
  /\ UNCHANGED keys

Controller == PressKey \/ \E source \in {"controller", "keyboard", "mouse", "key"} : Deliver(source)

-----------------------------------------------------------------------------
(* What both drivers have set up: each turns its own device on, tells it   *)
(* to report, and leaves what the other one has done.                      *)
BothOn ==
  /\ {KeyboardInterrupt, MouseInterrupt} \subseteq controlByte
  /\ {KeyboardOff, MouseOff} \cap controlByte = {}
  /\ {"keyboard", "mouse"} \subseteq reporting

=============================================================================
