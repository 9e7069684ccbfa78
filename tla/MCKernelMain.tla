---------------------------- MODULE MCKernelMain -----------------------------
(***************************************************************************)
(* Two devices of two functions, some of them network cards; a disk with   *)
(* sectors of four words; two partitions of two entries.                   *)
(***************************************************************************)
EXTENDS KernelMain

(* Those of kernelMain, and limits about the points where the packing      *)
(* changes.                                                                *)
SomeSegments ==
  [base : {0, 16909060, 2130706432}, type : {154},
   limit : {0, 67108864} \cup (65530..65540) \cup (69625..69640) \cup (73720..73740)]

Io(port) == [type |-> "InputOutput", address |-> port]

Memory == [type |-> "MemoryMapping", address |-> 0]

Bars(a, b) == [bar \in 0..5 |-> CASE bar = 0 -> a [] bar = 1 -> b [] OTHER -> Memory]

Other(headertype, functions) ==
  [vendor |-> "other", headertype |-> headertype, functions |-> functions, interrupt |-> 0,
   bars |-> Bars(Io(3), Memory)]

NetworkCard(functions, port, interrupt) ==
  [vendor |-> "AMD am79c973", headertype |-> 0, functions |-> functions, interrupt |-> interrupt,
   bars |-> Bars(Io(port), Io(0))]

(* Nothing; a bridge; a card, which answers at every function; cards at    *)
(* the second function and at both, on lines of their own or on one.       *)
Kinds ==
  {<<Nobody, Nobody>>,
   <<Other(1, FALSE), Nobody>>,
   <<NetworkCard(FALSE, 1, 256 + 11), NetworkCard(FALSE, 1, 256 + 11)>>,
   <<Other(0, TRUE), NetworkCard(TRUE, 2, 512 + 10)>>,
   <<NetworkCard(TRUE, 1, 256 + 9), NetworkCard(TRUE, 2, 256 + 9)>>}

SomeKinds == {[function \in 0..1 |-> kind[function + 1]] : kind \in Kinds}

SomeBlocks ==
  {[sectorsPerCluster |-> clusters, reservedSectors |-> 1, tableSize |-> 2, fatCopies |-> 2,
    rootCluster |-> 2] : clusters \in {0, 1, 2}}

SomeCalls ==
  {[op |-> "Identify", master |-> TRUE], [op |-> "Identify", master |-> FALSE],
   [op |-> "Write28", master |-> FALSE, sector |-> 0, count |-> 3],
   [op |-> "Flush", master |-> FALSE],
   [op |-> "Read28", master |-> FALSE, sector |-> 3, count |-> 3]}

=============================================================================
