---------------------------- MODULE MouseDriver ----------------------------
(***************************************************************************)
(* The mouse driver (src/src/drivers/mouse.cpp).  The mouse reports in     *)
(* packets of three bytes: the buttons it holds, and how far it has moved. *)
(* Every byte is an interrupt; the one that completes a packet calls the   *)
(* driver's handler, with interrupts off.  The calls are the events here,  *)
(* and who handles them is left to the modules that extend this one.       *)
(***************************************************************************)
EXTENDS Integers, Sequences, SequencesExt

CONSTANT Reports   \* what the mouse may report: the bytes of a packet

ASSUME ReportsAssumption == \A report \in Reports : report \in [1..3 -> 0..255]

VARIABLES
  coming,     \* the bytes of the packet that the driver has not read
  buffer,     \* buffer[0..offset-1]: what is behind is written before it is read
  buttons     \* as the driver knows them

driver == <<coming, buffer, buttons>>

offset == Len(buffer)

DriverInit == coming = <<>> /\ buffer = <<>> /\ buttons = 0

Int8(byte) == IF byte >= 128 THEN byte - 256 ELSE byte

Holds(byte, button) == (byte \div 2^(button - 1)) % 2 = 1

Moves(packet) ==
  IF packet[2] = 0 /\ packet[3] = 0 THEN <<>>
  ELSE <<[call |-> "OnMouseMove", x |-> Int8(packet[2]), y |-> -Int8(packet[3])]>>

Click(old, new, b) ==
  IF Holds(old, b) = Holds(new, b) THEN <<>>
  ELSE <<[call |-> IF Holds(old, b) THEN "OnMouseUp" ELSE "OnMouseDown", button |-> b]>>

(* The buttons whose state differs, in order. *)
Clicks(old, new) == Click(old, new, 1) \o Click(old, new, 2) \o Click(old, new, 3)

(* A packet that both moves and presses moves first. *)
Events(old, packet) == Moves(packet) \o Clicks(old, packet[1])

Full == 3

(* The calls that the interrupt for the next byte makes. *)
Calls ==
  IF offset + 1 = Full THEN Events(buttons, Append(buffer, Head(coming))) ELSE <<>>

(* HandleInterrupt, but for the calls. *)
ReadByte ==
  LET read == Append(buffer, Head(coming)) IN
  /\ coming # <<>>
  /\ coming' = Tail(coming)
  /\ IF offset + 1 = Full
       THEN buffer' = <<>> /\ buttons' = read[1]
       ELSE buffer' = read /\ UNCHANGED buttons

(* The mouse (external) reports again when its last packet is read. *)
Report ==
  /\ coming = <<>>
  /\ coming' \in Reports
  /\ UNCHANGED <<buffer, buttons>>

=============================================================================
