------------------------- MODULE VideoGraphicsArray --------------------------
(***************************************************************************)
(* The graphics mode (WriteRegisters, SetMode and GetFrameBufferSegment of *)
(* src/src/drivers/vga.cpp) and the card's registers: a long list of       *)
(* accesses to ports, one after the other.                                 *)
(***************************************************************************)
EXTENDS Integers, Sequences

VARIABLES
  writing,  \* of WriteRegisters: the part, its register and the access to come
  vga       \* the card: registers, the index of each group, two latches

vgaVars == <<writing, vga>>

(* g_320x200x256 *)
Mode ==
  [sequencer |-> <<3, 1, 15, 0, 14>>,
   crtc      |-> <<95, 79, 80, 130, 84, 128, 191, 31, 0, 65, 0, 0, 0, 0, 0, 0,
                   156, 14, 143, 40, 64, 150, 185, 163, 255>>,
   graphics  |-> <<0, 0, 0, 0, 0, 64, 5, 15, 255>>,
   attribute |-> <<0, 1, 2, 3, 4, 5, 6, 7, 8, 9, 10, 11, 12, 13, 14, 15, 65, 0, 15, 0, 0>>]

Misc == 99

SetBit7(n) == IF n >= 128 THEN n ELSE n + 128

ClearBit7(n) == IF n >= 128 THEN n - 128 ELSE n

(* What WriteRegisters makes of the table: index 3 and 17 keep the lock    *)
(* open.                                                                   *)
Registers ==
  [Mode EXCEPT !.crtc[4] = SetBit7(@), !.crtc[18] = ClearBit7(@)]

-----------------------------------------------------------------------------
(* The card (external) *)

Unknown == -1

Card(locked, odd) ==
  [misc |-> Unknown,
   registers |-> [group \in DOMAIN Mode |-> [i \in DOMAIN Mode[group] |-> Unknown]],
   index |-> [group \in DOMAIN Mode |-> 0],
   locked |-> locked,      \* the first eight of crtc cannot be written
   odd |-> odd,            \* the attribute port takes a value next, not an index
   shown |-> FALSE]

Begin == [part |-> "misc", register |-> 1, access |-> 1]

VgaInit == writing = Begin /\ vga = Card(FALSE, FALSE)

(* In whatever state the loader has left it. *)
VgaFound == writing' = Begin /\ vga' \in {Card(locked, odd) : locked, odd \in BOOLEAN}

VgaForgotten == writing' = Begin /\ vga' = Card(FALSE, FALSE)

Index(v, group, value) ==
  IF group # "attribute" THEN [v EXCEPT !.index[group] = value]
  ELSE [v EXCEPT !.index[group] = value % 32, !.odd = TRUE, !.shown = (value >= 32)]

Locks(v, group, value) ==
  IF group = "crtc" /\ v.index[group] = 17 THEN value >= 128 ELSE v.locked

Value(v, group, value) ==
  IF group = "crtc" /\ v.index[group] < 8 /\ v.locked THEN v
  ELSE [v EXCEPT !.registers[group][v.index[group] + 1] = value,
                 !.locked = Locks(v, group, value)]

(* The one port of the attribute controller takes index and value in turn. *)
AttributePort(v, value) ==
  IF v.odd THEN [Value(v, "attribute", value) EXCEPT !.odd = FALSE]
           ELSE Index(v, "attribute", value)

Accessed(v, access) ==
  CASE access.port = "misc"  -> [v EXCEPT !.misc = access.value]
    [] access.port = "reset" -> [v EXCEPT !.odd = FALSE]
    [] access.port = "attribute" -> AttributePort(v, access.value)
    [] access.port = "index" -> Index(v, access.group, access.value)
    [] access.port = "data"  -> Value(v, access.group, access.value)
    [] access.port = "unlock" -> [v EXCEPT !.locked = FALSE]

-----------------------------------------------------------------------------
(* The driver *)

(* What WriteRegisters goes through, one part after the other. *)
Behind ==
  [misc |-> "sequencer", sequencer |-> "unlock", unlock |-> "crtc", crtc |-> "graphics",
   graphics |-> "attribute", attribute |-> "show", show |-> "done"]

Count(part) == IF part \in DOMAIN Mode THEN Len(Mode[part]) ELSE 1

UnlockIndexOnly == <<[port |-> "index", group |-> "crtc", value |-> 17]>>

(* Index 3 is read and written back with bit 7, index 17 without it: only  *)
(* the second one matters here, and it can always be written.              *)
Unlock == <<[port |-> "index", group |-> "crtc", value |-> 17], [port |-> "unlock"]>>

(* The accesses for one register. *)
Accesses(part, i) ==
  CASE part = "misc"   -> <<[port |-> "misc", value |-> Misc]>>
    [] part = "unlock" -> Unlock
    [] part = "show"   -> <<[port |-> "reset"], [port |-> "attribute", value |-> 32]>>
    [] part = "attribute" ->
         <<[port |-> "reset"],
           [port |-> "attribute", value |-> i - 1],
           [port |-> "attribute", value |-> Registers[part][i]]>>
    [] part \in {"sequencer", "crtc", "graphics"} ->
         <<[port |-> "index", group |-> part, value |-> i - 1],
           [port |-> "data", group |-> part, value |-> Registers[part][i]]>>

Onward(w) ==
  IF w.access < Len(Accesses(w.part, w.register)) THEN [w EXCEPT !.access = @ + 1]
  ELSE IF w.register < Count(w.part) THEN [w EXCEPT !.register = @ + 1, !.access = 1]
  ELSE [part |-> Behind[w.part], register |-> 1, access |-> 1]

ModeSet == writing.part = "done"

Access ==
  /\ ~ModeSet
  /\ vga' = Accessed(vga, Accesses(writing.part, writing.register)[writing.access])
  /\ writing' = Onward(writing)

(* PutPixel asks the card where its memory is. *)
GetFrameBufferSegment(v) ==
  LET select == (v.registers.graphics[7] \div 4) % 4
  IN  <<"0x00000", "0xA0000", "0xB0000", "0xB8000">>[select + 1]

-----------------------------------------------------------------------------
(* Once the accesses are done, every register holds what the table says,   *)
(* whatever state the card was left in, the screen shows them, and pixels  *)
(* go where the mode has its memory.                                       *)
DisplayProgrammed(v) ==
  /\ v.misc = Misc /\ v.registers = Registers
  /\ v.shown /\ GetFrameBufferSegment(v) = "0xA0000"

=============================================================================
