------------------------------ MODULE Console ------------------------------
(***************************************************************************)
(* The text screen of kernel.cpp: printf, and the pointer that             *)
(* MouseToConsole shows by swapping the colours of a cell.                 *)
(*                                                                         *)
(* kernelMain prints with interrupts on, one statement after the other.    *)
(* The interrupt handler prints keys and received data and moves the       *)
(* pointer, from its start to its end with interrupts off.  All of them    *)
(* use one cursor, the static variables of printf, which are also the      *)
(* variables of its loops.                                                 *)
(*                                                                         *)
(* Of a cell counts whether its colours are swapped; characters are only   *)
(* placed, and those up to 0x7F keep the colours.                          *)
(***************************************************************************)
EXTENDS KeyboardDriver, SequencesExt

CONSTANTS
  Columns, Rows,   \* the screen (80 x 25)
  CharRange,       \* int8_t counts from -CharRange to CharRange - 1 (128)
  Texts,           \* what kernelMain prints
  Received,        \* what the handlers of UDP and TCP print
  Keys             \* the scan codes of the keyboard

ASSUME ConsoleAssumption ==
  /\ {Columns, Rows, CharRange} \subseteq Nat \ {0}
  /\ Keys \subseteq Nat /\ UnknownKeyText \in Nat
  /\ Texts \cup Received \subseteq Seq({"character", "newline"})

VARIABLES
  x, y,      \* the cursor
  swapped,   \* the cells whose colours are swapped
  pointer,   \* where MouseToConsole is: x and y
  main,      \* the printf kernelMain is in: its place, text and registers
  strayed,   \* a cell was written that is more than a row behind the screen (history)
  smeared    \* kernelMain was interrupted between reading a cell and writing one

consoleVars == <<x, y, swapped, pointer, main, strayed, smeared>>

Cell(col, row) == Columns * row + col

Stray(cell) == cell > Cell(Columns, Rows)

ConsoleInit ==
  /\ x = 0 /\ y = 0
  /\ pointer = [x |-> Columns \div 2, y |-> Rows \div 2]
  /\ swapped = {Cell(Columns \div 2, Rows \div 2)}
  /\ main = [at |-> "idle", text |-> <<>>, after |-> "wrap",
             cell |-> 0, colours |-> FALSE, register |-> 0]
  /\ strayed = FALSE /\ smeared = FALSE

-----------------------------------------------------------------------------
(* printf in the interrupt handler *)

(* Past the last column, and past the last row, where the screen is        *)
(* cleared; clearing keeps the colours.                                    *)
Advanced(c) ==
  LET d == IF c.x >= Columns THEN [c EXCEPT !.x = 0, !.y = c.y + 1] ELSE c
  IN  IF d.y >= Rows THEN [d EXCEPT !.x = 0, !.y = 0] ELSE d

(* One round of the loop. *)
Put(c, character) ==
  IF character = "newline"
    THEN Advanced([c EXCEPT !.x = 0, !.y = c.y + 1])
    ELSE Advanced([c EXCEPT !.x = c.x + 1, !.strayed = @ \/ Stray(Cell(c.x, c.y))])

Interrupted == smeared' = (smeared \/ main.at = "store")

Prints(text) ==
  LET c == FoldLeft(Put, [x |-> x, y |-> y, strayed |-> strayed], text) IN
  /\ text # <<>>
  /\ x' = c.x /\ y' = c.y /\ strayed' = c.strayed
  /\ Interrupted
  /\ UNCHANGED <<swapped, pointer, main>>

Key == \E key \in Keys : Prints(Printed(key))

Data == \E text \in Received : Prints(text)

-----------------------------------------------------------------------------
(* MouseToConsole::OnMouseMove *)

Int8Sum(n, by) == ((n + by + CharRange) % (2 * CharRange)) - CharRange

Clamp(n, size) == IF n >= size THEN size - 1 ELSE IF n < 0 THEN 0 ELSE n

Swap(cells, cell) == IF cell \in cells THEN cells \ {cell} ELSE cells \cup {cell}

MovePointerWithoutOld(s, event) ==
  LET p == [x |-> Clamp(Int8Sum(s.pointer.x, event.x), Columns),
            y |-> Clamp(Int8Sum(s.pointer.y, event.y), Rows)]
  IN  [pointer |-> p, swapped |-> Swap(s.swapped, Cell(p.x, p.y))]

MovePointer(s, event) ==
  LET left == Swap(s.swapped, Cell(s.pointer.x, s.pointer.y))
      p    == [x |-> Clamp(Int8Sum(s.pointer.x, event.x), Columns),
               y |-> Clamp(Int8Sum(s.pointer.y, event.y), Rows)]
  IN  [pointer |-> p, swapped |-> Swap(left, Cell(p.x, p.y))]

(* It has nothing to do with buttons. *)
ToConsole(s, event) == IF event.call = "OnMouseMove" THEN MovePointer(s, event) ELSE s

ConsoleHandles(calls) ==
  LET s == FoldLeft(ToConsole, [pointer |-> pointer, swapped |-> swapped], calls) IN
  /\ pointer' = s.pointer /\ swapped' = s.swapped
  /\ IF \E k \in DOMAIN calls : calls[k].call = "OnMouseMove" THEN Interrupted
     ELSE UNCHANGED smeared
  /\ UNCHANGED <<x, y, main, strayed>>

-----------------------------------------------------------------------------
(* printf in kernelMain *)

At(where) == main.at = where

GoTo(where) == main' = [main EXCEPT !.at = where]

Keep == UNCHANGED <<pointer, smeared>>

KeepScreen == UNCHANGED <<swapped, strayed>> /\ Keep

(* Behind a smear kernelMain prints no more: the model follows it no       *)
(* further.                                                                *)
Begin(text) ==
  /\ At("idle") /\ ~smeared
  /\ main' = [main EXCEPT !.at = "character", !.text = text]
  /\ UNCHANGED <<x, y>> /\ KeepScreen

Character ==
  /\ At("character")
  /\ main' = IF main.text = <<>> THEN [main EXCEPT !.at = "idle"]
             ELSE [main EXCEPT !.after = "wrap",
                               !.at = IF Head(main.text) = "newline" THEN "row" ELSE "load"]
  /\ x' = IF main.text # <<>> /\ Head(main.text) = "newline" THEN 0 ELSE x
  /\ UNCHANGED y /\ KeepScreen

(* The colours of the cell at the cursor are read... *)
Load ==
  /\ At("load")
  /\ main' = [main EXCEPT !.at = "store", !.cell = Cell(x, y),
                          !.colours = Cell(x, y) \in swapped]
  /\ UNCHANGED <<x, y>> /\ KeepScreen

(* ... and written with the character, at the address computed before the  *)
(* read or after it: the language leaves that open.                        *)
Store ==
  /\ At("store")
  /\ \E cell \in {main.cell, Cell(x, y)} :
       /\ swapped' = IF main.colours THEN swapped \cup {cell} ELSE swapped \ {cell}
       /\ strayed' = (strayed \/ Stray(cell))
  /\ main' = [main EXCEPT !.at = "column", !.cell = 0, !.colours = FALSE]
  /\ UNCHANGED <<x, y>> /\ Keep

(* x++ and y++ are a read and a write. *)
Counted == main' = [main EXCEPT !.at = main.after, !.register = 0]

ReadColumn ==
  /\ At("column")
  /\ main' = [main EXCEPT !.at = "nextColumn", !.register = x]
  /\ UNCHANGED <<x, y>> /\ KeepScreen

WriteColumn ==
  /\ At("nextColumn")
  /\ x' = main.register + 1 /\ Counted
  /\ UNCHANGED y /\ KeepScreen

ReadRow ==
  /\ At("row")
  /\ main' = [main EXCEPT !.at = "nextRow", !.register = y]
  /\ UNCHANGED <<x, y>> /\ KeepScreen

WriteRow ==
  /\ At("nextRow")
  /\ y' = main.register + 1 /\ Counted
  /\ UNCHANGED x /\ KeepScreen

Wrap ==
  /\ At("wrap")
  /\ IF x >= Columns
       THEN x' = 0 /\ main' = [main EXCEPT !.at = "row", !.after = "full"]
       ELSE GoTo("full") /\ UNCHANGED x
  /\ UNCHANGED y /\ KeepScreen

NextCharacter == main' = [main EXCEPT !.at = "character", !.text = Tail(@)]

FullScreen ==
  /\ At("full")
  /\ IF y >= Rows THEN y' = 0 /\ GoTo("rows") ELSE NextCharacter /\ UNCHANGED y
  /\ UNCHANGED x /\ KeepScreen

(* The loops that clear the screen count with the cursor. *)
ClearRows ==
  /\ At("rows")
  /\ x' = 0 /\ GoTo(IF y < Rows THEN "columns" ELSE "home")
  /\ UNCHANGED y /\ KeepScreen

ClearColumns ==
  /\ At("columns")
  /\ main' = IF x < Columns THEN [main EXCEPT !.at = "load", !.after = "columns"]
             ELSE [main EXCEPT !.at = "row", !.after = "rows"]
  /\ UNCHANGED <<x, y>> /\ KeepScreen

HomeNowhere == At("home") /\ NextCharacter /\ UNCHANGED <<x, y>> /\ KeepScreen

Home == At("home") /\ y' = 0 /\ NextCharacter /\ UNCHANGED x /\ KeepScreen

Printf ==
  \/ \E text \in Texts : Begin(text)
  \/ Character \/ Load \/ Store \/ ReadColumn \/ WriteColumn \/ ReadRow \/ WriteRow
  \/ Wrap \/ FullScreen \/ ClearRows \/ ClearColumns \/ Home

-----------------------------------------------------------------------------
(* Properties *)

(* Whoever interrupts whom, printf leaves the cursor on the screen, and on *)
(* the way nobody writes more than a row (and a cell) behind it.           *)
CursorComesBack ==
  /\ main.at = "idle" => x \in 0..(Columns - 1) /\ y \in 0..(Rows - 1)
  /\ ~strayed

(* The one cell with swapped colours is the pointer's, wherever the mouse  *)
(* goes and whatever is printed over it, unless kernelMain was interrupted *)
(* between reading a cell and writing it.                                  *)
OnePointer == ~smeared => swapped = {Cell(pointer.x, pointer.y)}

=============================================================================
