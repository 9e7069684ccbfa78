------------------------------- MODULE Input -------------------------------
(***************************************************************************)
(* What the user sees and touches, as kernel.cpp composes it: the mouse    *)
(* driver with the desktop behind it when the kernel is built with         *)
(* GRAPHICSMODE, and with the text screen behind it, next to the keyboard, *)
(* when it is not.                                                         *)
(***************************************************************************)
EXTENDS Desktop, Console

CONSTANT TextReports   \* those of Reports that the mouse sends to the text screen

ASSUME TextReportsAssumption == TextReports \subseteq Reports

VARIABLE graphics   \* GRAPHICSMODE is defined

vars == <<graphics, driver, desktopVars, consoleVars>>

Init == graphics \in BOOLEAN /\ DriverInit /\ DesktopInit /\ ConsoleInit

MouseReports ==
  /\ Report /\ (graphics \/ coming' \in TextReports)
  /\ UNCHANGED <<graphics, desktopVars, consoleVars>>

MouseInterrupt ==
  /\ ReadByte
  /\ IF graphics THEN DesktopHandles(Calls) /\ UNCHANGED consoleVars
                 ELSE ConsoleHandles(Calls) /\ UNCHANGED desktopVars
  /\ UNCHANGED graphics

(* No window ever has the focus, so keys do nothing on the desktop. *)
TextScreen ==
  /\ ~graphics /\ (Key \/ Data \/ Printf)
  /\ UNCHANGED <<graphics, driver, desktopVars>>

Next == MouseReports \/ MouseInterrupt \/ TextScreen

Spec == Init /\ [][Next]_vars

(* The pointer is on the screen, and the driver and the mouse agree where  *)
(* a packet starts.                                                        *)
TypeOK ==
  /\ buffer \in Seq(0..255) /\ buttons \in 0..255
  /\ offset + Len(coming) \in {0, Full}
  /\ screen.x \in 0..(W - 1) /\ screen.y \in 0..(H - 1)
  /\ screen.at \in [Window -> Int \X Int] /\ screen.Dragging \in [Window -> BOOLEAN]
  /\ pointer.x \in 0..(Columns - 1) /\ pointer.y \in 0..(Rows - 1)
  /\ swapped \subseteq 0..Cell(Columns, Rows)

=============================================================================
