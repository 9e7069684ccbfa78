----------------------- MODULE GlobalDescriptorTable ------------------------
(***************************************************************************)
(* The segments (src/src/gdt.cpp): how a base and a limit are packed into  *)
(* the eight bytes of a descriptor, and read out of them again.            *)
(***************************************************************************)
EXTENDS Integers

CONSTANT Segments  \* what descriptors are made for: base, limit and type

(* An uint32_t. *)
IsWord(n) == n \in Nat /\ n \div 65536 < 65536

ASSUME SegmentsAssumption == \A s \in Segments : IsWord(s.base) /\ IsWord(s.limit)

VARIABLE gdt  \* a descriptor for each of Segments, once they are made

GdtInit == gdt = <<>>

(* Byte 0, 1, 2 or 3 of a number of 32 bits.                               *)
Byte(n, i) ==
  (IF i = 0 THEN n ELSE IF i = 1 THEN n \div 256
   ELSE IF i = 2 THEN n \div 65536 ELSE n \div 16777216) % 256

(* Above 65536 the limit counts pages, and loses its low bits: they are    *)
(* all ones when the processor reads it.                                   *)
Granular(limit) == limit > 65536

PagesRoundedUp(limit) == limit \div 4096

Pages(limit) ==
  IF limit % 4096 # 4095 THEN (limit \div 4096) - 1 ELSE limit \div 4096

Packed(limit) == IF Granular(limit) THEN Pages(limit) ELSE limit

SegmentDescriptor(base, limit, type) ==
  LET flags == IF Granular(limit) THEN 192 ELSE 64
  IN  [i \in 0..7 |->
         IF i < 2 THEN Byte(Packed(limit), i)
         ELSE IF i < 5 THEN Byte(base, i - 2)
         ELSE IF i = 5 THEN type
         ELSE IF i = 6 THEN flags + (Byte(Packed(limit), 2) % 16)
         ELSE Byte(base, 3)]

Base(target) == target[7] * 16777216 + target[4] * 65536 + target[3] * 256 + target[2]

Limit(target) ==
  LET packed == (target[6] % 16) * 65536 + target[1] * 256 + target[0]
  IN  IF target[6] \div 64 = 3 THEN packed * 4096 + 4095 ELSE packed

MakeDescriptors == gdt' = [s \in Segments |-> SegmentDescriptor(s.base, s.limit, s.type)]

(* A descriptor gives back its base, and a limit that is not above the one *)
(* asked for and at most 4095 bytes below it.                              *)
Describes(target, base, limit) ==
  /\ Base(target) = base
  /\ limit - 4095 <= Limit(target) /\ Limit(target) <= limit

=============================================================================
