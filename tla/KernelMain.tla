----------------------------- MODULE KernelMain -----------------------------
(***************************************************************************)
(* kernelMain (src/src/kernel.cpp) from its first line to line 350, where  *)
(* it takes the network card: segments, heap, drivers, search of the buses,*)
(* activation, graphics mode, disk.  One thread with interrupts off; what  *)
(* is open is what hardware the machine has and when it answers.  What     *)
(* kernelMain does with the card is in the modules of the protocols.       *)
(*                                                                         *)
(* The parts follow each other and share nothing but the list of drivers.  *)
(* So the model finds out what hardware a part meets when the part begins, *)
(* and when it ends forgets what no later part looks at.                   *)
(***************************************************************************)
EXTENDS FiniteSetsExt, GlobalDescriptorTable, PeripheralComponentInterconnect, PS2, VideoGraphicsArray,
        FileAllocationTable

CONSTANTS
  MemUppers,    \* KiB of memory above the first MiB
  DiskCalls,    \* calls of the disk driver beside those of the partition table
  MaxDiskCalls  \* bound on them

(* Counts are unsigned. *)
ASSUME DiskCallsAssumption ==
  \A call \in DiskCalls :
    \/ call.op \in {"Identify", "Flush"}
    \/ call.op \in {"Read28", "Write28"} /\ call.count \in Nat

(* What 32 bits address. *)
AddressSpaceKiB == 4194304

ASSUME MemoryAssumption == MemUppers \subseteq 0..AddressSpaceKiB

VARIABLES
  place,     \* where kernelMain is
  memupper,  \* from the loader
  active,    \* how many drivers have been activated
  eth0,      \* drivers[2], taken for the network card
  calls,     \* disk calls so far
  first      \* the first card, if there is one and memory for it (history)

mainVars == <<memupper, active, eth0, calls, first>>

vars == <<place, gdt, mainVars, pciVars, ps2Vars, vgaVars, fatVars>>

(* The heap begins at 10 MiB and leaves out the last 10 KiB, in a size_t.  *)
(* The first block, with the headers, takes less than two.                 *)
HeapKiB(upper) == (upper - 10 * 1024 - 10) % AddressSpaceKiB

Left(upper) == IF HeapKiB(upper) < 2 THEN 0 ELSE HeapKiB(upper) - 2

Ample == memupper >= 10 * 1024 + 10 + 2 + CardKiB

At(where) == place = where

Go(where) == place' = where

Init ==
  /\ place = "segments" /\ active = 0 /\ eth0 = NoDriver /\ calls = 0 /\ first = NoDriver
  /\ memupper \in MemUppers
  /\ free = Left(memupper)
  /\ GdtInit /\ PciInit /\ Ps2Init /\ VgaInit /\ AtaInit /\ FatInit

(* The table of segments.                                                  *)
LoadSegments ==
  /\ At("segments") /\ Go("start") /\ MakeDescriptors
  /\ UNCHANGED <<mainVars, pciVars, ps2Vars, vgaVars, fatVars>>

(* The drivers of keyboard and mouse.                                      *)
AddDrivers ==
  /\ At("start") /\ Go("search") /\ gdt' = <<>>
  /\ drivers' = <<[driver |-> "keyboard", portBase |-> 0], [driver |-> "mouse", portBase |-> 0]>>
  /\ handlers' = [handlers EXCEPT ![33] = "keyboard", ![44] = "mouse"]
  /\ UNCHANGED <<mainVars, answers, search, free, ps2Vars, vgaVars, fatVars>>

SelectDrivers ==
  /\ At("search")
  /\ IF ~Searched THEN SelectDriver /\ UNCHANGED <<place, memupper, first>>
     ELSE /\ Go("activate") /\ SearchForgotten
          /\ first' = IF Cards = {} \/ ~Ample THEN NoDriver ELSE FirstCard
          /\ memupper' = 0
  /\ UNCHANGED <<gdt, active, eth0, calls, ps2Vars, vgaVars, fatVars>>

(* ActivateAll.  A card is initialised and started with four writes. *)
Activate ==
  /\ At("activate") /\ ops = <<>> /\ active < Len(drivers)
  /\ active' = active + 1
  /\ ops' = CASE drivers[active + 1].driver = "keyboard" -> KeyboardActivate
              [] drivers[active + 1].driver = "mouse"    -> MouseActivate
              [] OTHER                                   -> <<>>
  /\ UNCHANGED <<place, gdt, memupper, eth0, calls, first, pciVars, status, controlByte,
                 reporting, expects, answering, output, unread, keys, mistaken, vgaVars, fatVars>>

ActivateDevice ==
  /\ At("activate") /\ Port
  /\ UNCHANGED <<place, gdt, mainVars, pciVars, vgaVars, fatVars>>

(* Behind it is the graphics mode, or not, as GRAPHICSMODE is defined.  Of *)
(* the drivers the model keeps those that are asked for once more.         *)
AllActive ==
  /\ At("activate") /\ ops = <<>> /\ active = Len(drivers)
  /\ Ps2Forgotten
  /\ \/ Go("mode") /\ VgaFound /\ UNCHANGED ataVars
     \/ Go("disk") /\ DrivesFound /\ UNCHANGED vgaVars
  /\ drivers' = SubSeq(drivers, 1, Min({3, active})) /\ active' = Len(drivers')
  /\ UNCHANGED <<gdt, memupper, eth0, calls, first, answers, search, handlers, free, fat>>

SetMode ==
  /\ At("mode")
  /\ IF ~ModeSet THEN Access /\ UNCHANGED <<place, ataVars>>
                 ELSE VgaForgotten /\ Go("disk") /\ DrivesFound
  /\ UNCHANGED <<gdt, mainVars, pciVars, ps2Vars, fat>>

(* The partitions are read.  The calls next to it are commented out, as is *)
(* the declaration of the disk; the model makes them as well.              *)
CallDisk(call) ==
  CASE call.op = "Identify" -> Identify(call.master)
    [] call.op = "Read28"   -> Read28(call.master, call.sector, call.count)
    [] call.op = "Write28"  -> Write28(call.master, call.sector, call.count)
    [] call.op = "Flush"    -> Flush(call.master)

UseDisk ==
  /\ At("disk") /\ calls < MaxDiskCalls /\ fat.at = "start"
  /\ \E call \in DiskCalls : CallDisk(call)
  /\ calls' = calls + 1
  /\ UNCHANGED <<place, gdt, memupper, active, eth0, first, pciVars, ps2Vars, vgaVars, fat>>

ReadPartitions ==
  /\ At("disk")
  /\ (AtaStep /\ UNCHANGED fat) \/ ReadPartition(FALSE) \/ FatStep
  /\ UNCHANGED <<place, gdt, mainVars, pciVars, ps2Vars, vgaVars>>

(* drivers[2] is whatever was put there, if anything was. *)
TakeCard ==
  /\ At("disk") /\ FatAt("done")
  /\ IF Len(drivers) > 2 THEN eth0' = drivers[3].driver /\ Go("taken")
                         ELSE UNCHANGED eth0 /\ Go("lost")
  /\ UNCHANGED <<gdt, memupper, active, calls, first, pciVars, ps2Vars, vgaVars, fatVars>>

Kernel ==
  \/ LoadSegments \/ AddDrivers \/ SelectDrivers \/ Activate \/ ActivateDevice \/ AllActive \/ SetMode
  \/ UseDisk \/ ReadPartitions \/ TakeCard

ControllerStep ==
  At("activate") /\ Controller /\ UNCHANGED <<place, gdt, mainVars, pciVars, vgaVars, fatVars>>

DiskStep ==
  At("disk") /\ DiskReady /\ UNCHANGED <<place, gdt, mainVars, pciVars, ps2Vars, vgaVars, fat>>

Next == Kernel \/ ControllerStep \/ DiskStep

(* kernelMain runs, and a disk that works gets ready. *)
Spec == Init /\ [][Next]_vars /\ WF_vars(Kernel) /\ WF_vars(DiskStep)

-----------------------------------------------------------------------------
(* Properties *)

(* Each descriptor says what it was made for.                              *)
DescriptorsDescribe ==
  At("start") => \A s \in Segments : Describes(gdt[s], s.base, s.limit)

(* Given the memory for it, drivers[2] is the first network card the       *)
(* machine has, wherever it is on the buses, and it has been activated.    *)
Eth0IsFirstCard ==
  first # NoDriver /\ place \in {"taken", "lost"} => eth0 = first /\ active > 2

(* A card's driver talks to a port of that card, and is called for the     *)
(* card's interrupts unless another card has the same line.                *)
CardIsWired ==
  Searched => \A i \in 3..Len(drivers) :
    LET card == drivers[i].driver
        dev  == answers[card]
        shared == \E other \in Cards \ {card} :
                    InterruptNumber(answers[other]) = InterruptNumber(dev)
    IN  At("search") =>
          /\ card \in Cards
          /\ \E bar \in DOMAIN dev.bars :
               /\ dev.bars[bar] = [type |-> "InputOutput", address |-> drivers[i].portBase]
          /\ shared \/ handlers[InterruptNumber(dev)] = card

(* Once both are active, keyboard and mouse have been told to report and   *)
(* may interrupt: each driver reaches its own device, and leaves what the  *)
(* other has set.  The drivers do not wait for answers; this is for when   *)
(* they come in time and in order.                                         *)
KeyboardAndMouseOn ==
  At("activate") /\ ops = <<>> /\ active >= 2 /\ ~mistaken => BothOn

(* In graphics mode no register keeps what the loader left in it. *)
DisplayIsProgrammed == At("mode") /\ ModeSet => DisplayProgrammed(vga)

(* kernelMain gets to where it takes the card, whatever the disk answers   *)
(* and whatever memory holds, unless a file in empty clusters is read for  *)
(* ever.  Nothing is said of what comes then: BroadcastMACAddress (line    *)
(* 391) may wait for ever.                                                 *)
BootReachesCard == <>(place \in {"taken", "lost"} \/ Endless)

=============================================================================
