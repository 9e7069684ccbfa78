-------------------------------- MODULE PIC --------------------------------
(***************************************************************************)
(* The two cascaded 8259 interrupt controllers, as the interrupt manager   *)
(* programs and acknowledges them (src/src/hardwarecommunication/          *)
(* interrupts.cpp, lines 121-135 and 198-203).  The controllers are        *)
(* hardware: lines 0-7 enter the master, lines 8-15 the slave, whose       *)
(* output is the master's line 2, and a lower number is served first.      *)
(***************************************************************************)
EXTENDS Naturals, FiniteSetsExt

CONSTANT
  Lines     \* the interrupt lines in use, a subset of 0..15 without 2

VARIABLES
  irr,      \* the lines that ask for service
  master,   \* the master's lines in service
  slave     \* the slave's lines in service

picVars == <<irr, master, slave>>

Cascade == 2

MasterLine(q) == IF q >= 8 THEN Cascade ELSE q

PicInit == irr = {} /\ master = {} /\ slave = {}

(* A device asks for service; a line that already asks does so once. *)
Raise(q) ==
  /\ q \notin irr
  /\ irr' = irr \cup {q}
  /\ UNCHANGED <<master, slave>>

(* The master presents line q: nothing of the same or a higher priority is *)
(* in service, and no line with a higher priority asks.                    *)
Presented(q) ==
  /\ q \in irr
  /\ \A m \in master : MasterLine(q) < m
  /\ q >= 8 => \A s \in slave : q < s
  /\ \A r \in irr :
       \/ MasterLine(q) < MasterLine(r)
       \/ MasterLine(q) = MasterLine(r) /\ q <= r

(* The processor takes the interrupt of line q. *)
Accept(q) ==
  /\ irr' = irr \ {q}
  /\ master' = master \cup {MasterLine(q)}
  /\ slave' = IF q >= 8 THEN slave \cup {q} ELSE slave

(* An end of interrupt command (0x20) clears the line that is served. *)
Ended(served) == IF served = {} THEN {} ELSE served \ {Min(served)}

=============================================================================
