------------------- MODULE PeripheralComponentInterconnect -------------------
(***************************************************************************)
(* The PCI controller and the driver manager (src/src/hardwarecommunication*)
(* /pci.cpp, src/src/drivers/driver.cpp): the buses are searched once, and *)
(* every network card found gets a driver.                                 *)
(*                                                                         *)
(* A function answers with the record of its configuration space, or with  *)
(* Nobody.  A driver is named by its place in the search, and the card's   *)
(* by the address of the function.                                         *)
(***************************************************************************)
EXTENDS Integers, Sequences

CONSTANTS
  Buses, Devices, Functions,  \* how many of each are searched (8, 32, 8)
  DeviceKinds,   \* what a device may answer: a configuration per function
  Nobody,        \* no device: all bits are one
  Ports,         \* the ports of I/O base address registers
  CardKiB,       \* what the driver of a card takes of the heap
  NoDriver

(* A device that answers at all answers at its first function (external). *)
ASSUME PciAssumption ==
  /\ {Buses, Devices, Functions} \subseteq Nat \ {0} /\ CardKiB \in Nat
  /\ \A kind \in DeviceKinds :
       kind[0] = Nobody => \A function \in 0..(Functions - 1) : kind[function] = Nobody

Address == (0..(Buses - 1)) \X (0..(Devices - 1)) \X (0..(Functions - 1))

Vector == 0..255

VARIABLES
  answers,    \* what answers at each address
  search,     \* the address searched next
  drivers,    \* of DriverManager: the driver and its portBase
  handlers,   \* of InterruptManager: the driver for each vector
  free        \* KiB of the heap that are left

pciVars == <<answers, search, drivers, handlers, free>>

PciInit ==
  /\ \E kind \in [(0..(Buses - 1)) \X (0..(Devices - 1)) -> DeviceKinds] :
       answers = [a \in Address |-> kind[<<a[1], a[2]>>][a[3]]]
  /\ search = <<0, 0, 0>>
  /\ drivers = <<>>
  /\ handlers = [v \in Vector |-> NoDriver]

AddDriver(driver, port) == drivers' = Append(drivers, [driver |-> driver, portBase |-> port])

-----------------------------------------------------------------------------
(* What Nobody answers has the bit set, too. *)
DeviceHasFunctions(bus, device) ==
  LET first == answers[<<bus, device, 0>>] IN first = Nobody \/ first.functions

(* The results of a register that the header does not have are what was in *)
(* memory: every value.                                                    *)
GetBaseAddressRegister(dev, bar) ==
  IF bar >= 6 - 4 * dev.headertype
    THEN [type : {"InputOutput", "MemoryMapping"}, address : Ports \cup {0}]
    ELSE IF dev.bars[bar].type = "InputOutput" THEN {dev.bars[bar]}
    ELSE [type : {"MemoryMapping"}, address : Ports \cup {0}]

(* The values of a register that set portBase; of any other it may keep    *)
(* what it is.                                                             *)
SettingAnyType(dev, bar) == {r \in GetBaseAddressRegister(dev, bar) : r.address # 0}

Setting(dev, bar) ==
  {r \in GetBaseAddressRegister(dev, bar) : r.address # 0 /\ r.type = "InputOutput"}

MayPass(dev, bar) == GetBaseAddressRegister(dev, bar) \ Setting(dev, bar) # {}

(* The last I/O register with an address sets portBase, which is not       *)
(* initialised before.                                                     *)
PortBases(dev) ==
  LET PassedAfter(bar) == \A later \in (bar + 1)..5 : MayPass(dev, later)
  IN  UNION {{r.address : r \in Setting(dev, bar)} : bar \in {b \in 0..5 : PassedAfter(b)}}
        \cup {port \in Ports : PassedAfter(-1)}

(* HardwareInterruptOffset is added to all four bytes of the register, and *)
(* the constructor of InterruptHandler takes the low one of the sum.       *)
InterruptNumber(dev) == (dev.interrupt + 32) % 256

(* GetDriver, the constructor of the driver, and AddDriver. *)
GetDriver(address, dev) ==
  IF dev.vendor = "AMD am79c973" /\ free >= CardKiB
    THEN /\ \E port \in PortBases(dev) : AddDriver(address, port)
         /\ handlers' = [handlers EXCEPT ![InterruptNumber(dev)] = address]
         /\ free' = free - CardKiB
    ELSE UNCHANGED <<drivers, handlers, free>>

NumFunctionsOne(bus, device) == 1

NumFunctions(bus, device) == IF DeviceHasFunctions(bus, device) THEN Functions ELSE 1

Searched == search[1] = Buses

(* What the search has left behind but for the drivers' order. *)
SearchForgotten ==
  /\ answers' = [a \in Address |-> Nobody] /\ handlers' = [v \in Vector |-> NoDriver]
  /\ free' = 0 /\ UNCHANGED search
  /\ drivers' = [i \in DOMAIN drivers |-> [drivers[i] EXCEPT !.portBase = 0]]

NextAddress(a) ==
  IF a[3] + 1 < NumFunctions(a[1], a[2]) THEN <<a[1], a[2], a[3] + 1>>
  ELSE IF a[2] + 1 < Devices THEN <<a[1], a[2] + 1, 0>>
  ELSE <<a[1] + 1, 0, 0>>

(* One round of SelectDrivers. *)
SelectDriver ==
  /\ ~Searched
  /\ IF answers[search] = Nobody THEN UNCHANGED <<drivers, handlers, free>>
                                 ELSE GetDriver(search, answers[search])
  /\ search' = NextAddress(search)
  /\ UNCHANGED answers

-----------------------------------------------------------------------------
(* What the machine has, said without the search: a device that does not   *)
(* claim functions has the first only, whatever it answers at the others.  *)

Cards ==
  {a \in Address :
     /\ answers[a] # Nobody /\ answers[a].vendor = "AMD am79c973"
     /\ a[3] = 0 \/ (answers[<<a[1], a[2], 0>>] # Nobody /\ answers[<<a[1], a[2], 0>>].functions)}

Before(a, b) ==
  \/ a[1] < b[1]
  \/ a[1] = b[1] /\ a[2] < b[2]
  \/ a[1] = b[1] /\ a[2] = b[2] /\ a[3] < b[3]

FirstCard == CHOOSE a \in Cards : \A b \in Cards \ {a} : Before(a, b)

=============================================================================
