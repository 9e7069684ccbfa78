--------------------------- MODULE KeyboardDriver ---------------------------
(***************************************************************************)
(* The keyboard driver (src/src/drivers/keyboard.cpp): what the interrupt  *)
(* for a scan code puts on the console, by way of OnKeyDown or with printf *)
(* when the driver does not know the key.                                  *)
(***************************************************************************)
EXTENDS Integers, Sequences

CONSTANT UnknownKeyText   \* the characters of "KEYBOARD 0x" and a number (13)

(* The scan codes that stand for a character: the row of digits, the three *)
(* rows of letters, and the blank.                                         *)
Characters == (2..11) \cup (16..25) \cup (30..38) \cup (44..53) \cup {57}

Enter == 28

(* A key that goes up prints nothing. *)
Printed(key) ==
  CASE key >= 128         -> <<>>
    [] key \in Characters -> <<"character">>
    [] key = Enter        -> <<"newline">>
    [] OTHER              -> [i \in 1..UnknownKeyText |-> "character"]

=============================================================================
