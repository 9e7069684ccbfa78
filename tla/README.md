# A model of wyoOS

TLA+ modules for the kernel in `src/`: a 32-bit educational operating system
with a heap, a round-robin scheduler, drivers for keyboard, mouse, graphics,
disk and the AMD am79c973 network card, a network stack from ethernet to TCP,
and a small desktop. Everything runs in ring 0, on one processor and in one
address space, in C++ objects that `kernelMain` (`src/src/kernel.cpp`) creates
and connects by pointers.

The modules were written from the code. Section 5 lists where a comment says
something else than the code does: for three of these a run is expected to end
in a violation, the others are told apart by what a property of a passing run
says instead. Paths below are relative to the repository; file names without a
path are those of `src/src/` and its subdirectories.

## 1. Inventory

| part | state | operations | correct if |
|---|---|---|---|
| Heap (`memorymanagement.cpp`) | list of chunk headers, `activeMemoryManager` | constructor, `malloc`, `free`, `new`, `delete` | the list tiles the heap; no two blocks overlap; freeing everything gives everything back |
| Scheduler (`multitasking.cpp`) | `tasks`, `numTasks`, `currentTask`, each task's saved state | `AddTask`, `Schedule` | the state saved is that of the task that ran; every task gets its turn |
| Interrupts (`interrupts.cpp`, `interruptstubs.s`) | descriptor table, `ActiveInterruptManager`, the stacks, both 8259 controllers | stubs, `DoHandleInterrupt`, `Activate`, `Deactivate` | what was interrupted goes on unchanged; no interrupt stays unacknowledged |
| System calls (`syscalls.cpp`) | none | `SyscallHandler` | the caller goes on unchanged |
| Network card (`amd_am79c973.cpp`) | two rings of eight descriptors, shared with the card; two indices; status bits | `Send`, `Receive`, `HandleInterrupt`, `Activate`, `Reset` | driver and card agree whose turn a buffer is; bytes arrive and leave intact |
| Ethernet (`etherframe.cpp`) | `handlers` | `OnRawDataReceived`, `Send` | only frames for us go up; an answer goes back to who asked |
| Address resolution (`arp.cpp`) | `IPcache`, `MACcache`, `numCacheEntries` | `OnEtherFrameReceived`, `Request...`, `Broadcast...`, `Resolve` | the first answer for an address is kept, whoever gave it; answers go to who asked; `Resolve` returns |
| IPv4 (`ipv4.cpp`), ICMP (`icmp.cpp`) | `handlers`, mask, gateway | reception, `Send`, `Checksum`, echo | payloads lie within the frame; echoes go back; sums are internet checksums |
| UDP (`udp.cpp`) | `sockets`, `freePort` | `Listen`, `Connect`, `Bind`, `Send`, `Disconnect`, reception | a datagram goes to the socket of its sender |
| TCP (`tcp.cpp`) | `sockets` with states and numbers, `freePort` | the same | data is delivered once, in order, without gaps; connections end |
| Mouse (`mouse.cpp`), keyboard (`keyboard.cpp`) | `buffer`, `offset`, `buttons`; none | `HandleInterrupt`, `Activate` | driver and mouse agree where a packet starts; each `Activate` keeps what the other set |
| Desktop, widgets, windows (`gui/`) | pointer, child positions, `Dragging` | mouse events, drawing | a window moves with the pointer while it is dragged, and only then; a click goes to what is seen |
| Console (`kernel.cpp`: `printf`, `MouseToConsole`) | the cursor in static variables, the pointer, the cells | `printf` in two contexts, mouse moves | the cursor stays on the screen; one cell shows the pointer |
| Graphics (`vga.cpp`) | the card's registers | `SetMode`, `PutPixel`, `FillRectangle` | every register is programmed, whatever the loader left |
| Disk (`ata.cpp`) | the drive's registers | `Identify`, `Read28`, `Write28`, `Flush` | whole sectors are moved, of the number asked for |
| Partition table, FAT (`filesystem/`) | locals only | `ReadPartition`, `ReadBiosBlock` | the sectors of a file come in its order; the walk ends |
| PCI and driver manager (`pci.cpp`, `driver.cpp`) | `drivers`, `numDrivers` | `SelectDrivers`, `GetDriver`, `AddDriver`, `ActivateAll` | the card's driver has its port and its interrupt, and `drivers[2]` is the card |
| Segments (`gdt.cpp`) | the table | constructor, `Base`, `Limit` | a descriptor says what it was made for |
| `kernelMain` | all of these | boot, in one order | every part is ready before it is used; boot reaches the network card |
| Ports, loader | | | single instructions, not modelled (section 8) |

How they interact. A device raises a line at a controller; the stub saves the
registers on the stack of whatever ran; `HandleInterrupt` calls the driver. The
card's driver calls the ethernet layer, which calls ARP or IPv4, which calls
ICMP, UDP or TCP, which calls the application's handler: one call chain with
interrupts off. An answer is sent from the bottom of that chain: by returning
true, which makes each layer turn its addresses round in the same buffer, or by
calling `Send`, which comes down through `Resolve`, `malloc` and the card's
`Send`. The mouse's driver calls the desktop or `MouseToConsole`; keys and
received data are printed. Meanwhile `kernelMain` may stand in the middle of the
same functions. After the first clock tick with a task in the list it never runs
again.

What is hard here:

* the handler interrupts `kernelMain` between any two accesses to memory, and
  both use the send ring, the sockets, the address cache, the heap and the
  cursor of `printf`;
* two loops wait for another interrupt (`Resolve`, and `Send` of TCP): in
  `kernelMain` they may wait, inside the handler they cannot;
* the card fills and empties rings at its own pace, and the keyboard controller
  and the disk answer when they get to it, while drivers read without asking;
* segments are lost, repeated and reordered, and the code keeps no timers;
* stacks are switched by one assignment to `esp`, with a frame layout that
  assembler, processor and a C++ struct have to agree on;
* limits and widths: 128 cache entries, 256 tasks, 8 descriptors, 65535 sockets,
  numbers that wrap round, signed bytes, unsigned coordinates.

`PROJECT.json` lists each hazard at its line with the properties that cover it.

## 2. Modules

| module | models | extends |
|---|---|---|
| `AbstractHeap` | what the heap promises: blocks, none overlapping, refused only if there is no room | |
| `MemoryManager` | the chunk list; constructor, `malloc`, `free` | refines `AbstractHeap` |
| `HeapPreempted` | `malloc` and `free` statement by statement, with the handler's calls in between | extends `MemoryManager` |
| `TaskManager` | scheduler | |
| `PIC` | the two interrupt controllers (external) | |
| `Interrupts` | stubs, stacks, handler, system calls, activation; composes the two above | `TaskManager`, `PIC` |
| `amd_am79c973` | the network card driver, and the card | |
| `AddressResolutionProtocol` | cache and protocol, with the other machines | |
| `InternetProtocol` | ethernet, IPv4 with its checksum, and ICMP as operators on one frame | |
| `UserDatagramProtocol` | UDP sockets over those layers | `InternetProtocol` |
| `TransmissionControlProtocol` | TCP sockets, `PrintfTCPHandler`, remotes and the wire | |
| `MouseDriver` | packets of the mouse, byte by byte | |
| `Desktop` | desktop, composite widget, windows, what is drawn | `MouseDriver` |
| `KeyboardDriver`, `Console` | what keys print; `printf` in two contexts, `MouseToConsole` | |
| `Input` | the mouse driver with the desktop or the console behind it | `Desktop`, `Console` |
| `GlobalDescriptorTable` | the eight bytes of a segment descriptor | |
| `PeripheralComponentInterconnect` | the search of the buses, `AddDriver` | |
| `PS2` | both `Activate`s against the keyboard controller | |
| `VideoGraphicsArray` | `SetMode` against the card's registers | |
| `AdvancedTechnologyAttachment` | the disk driver against a bus with two drives | |
| `FileAllocationTable` | partitions, root directory, files | `AdvancedTechnologyAttachment` |
| `KernelMain` | boot; composes the six above | all six |
| `MC...` | the values of constants for the runs | the module they name |
| `...Proofs` | theorems (section 7) | the module they name, TLAPS; `HeapProofs` extends `HeapPreempted` |

Names are those of the code (`chunks` is `MemoryChunk` by address, `Schedule` is
`TaskManager::Schedule`, `IF1` the processor's interrupt flag, and so on).
Definitions next to an operator of the code whose names end in something like
`...WithoutNext` or `...OneMore` are that operator with a plausible slip; they
are used by nothing and serve to try the properties out. `TypeOK` of a module
says what its variables hold.

**Heap.** A header is a record in a function from addresses, so a pointer is an
address and `0` is null. `Construct`, `Malloc` and `Free` of `MemoryManager` are
whole calls: the heap as one context sees it. `Free` takes a pointer that was
returned and not freed yet: the code does no check, so another call is an error
of the caller. `HeapPreempted` takes `kernelMain`'s calls apart (`Look` at a
chunk, `Cut`, `Relink`, `Shrink`, `Link`, `MarkAllocated`; `Unmark`, `TestPrev`
and so on to `NextBack`), and lets the interrupt handler take and give back the
buffers of an answer between any two statements; its own calls work on the lists
of `MemoryManager`, since it runs with interrupts off. The history variable
`exposed` says that the handler was given a chunk `kernelMain` was in the middle
of changing: behind that the code promises nothing, and the properties say
exactly where it is. A statement whose pointers (`Follows`) do not lead to
headers is not taken any further; `PointersLead` says that there is none as long
as nothing was exposed.

**Interrupts.** A stack is a sequence of words that name what was pushed. `Enter`
is what the processor pushes and what the stub pushes until it calls
`HandleInterrupt`; that call is one step (interrupt gates keep interrupts off);
`Return` is the popping, with whatever `esp` the handler gave back. A context
`Execute`s numbered instructions, and pushes a local word with every other one,
so that a stack of the wrong height or with the wrong frame is noticed.
`kernelMain` adds tasks, then calls `Activate`, whose call of `Deactivate` and
whose own two statements are separate steps; a second call of `Activate`, which
nothing in the code makes and nothing in it forbids, is allowed.

**Network card.** `Send` is split at each access to shared memory (`take`,
`load`, `store`, `copy`, `own`), and so is the handler: read the status, take a
frame, hand it up, give the buffer back, acknowledge. The card transmits and
receives between any two. `Address` and `Overlap` follow the declaration
`[2*1024+15][8]`, by which neighbouring buffers are eight bytes apart.

**ARP.** `Resolve` is a call, a `Request`, then a loop of `Look`s, in both
contexts. The peers answer, ask, announce themselves unasked and are replaced
by a machine with another hardware address. Nothing makes them tell the truth:
any machine may ask or answer in the name of any peer and with any hardware
address of the network, before or behind the peer's own answer, and the code
stores what comes first ("vulnerable to ARP spoofing", `arp.cpp:49`). Only the
broadcast address is never told as somebody's own; in the cache it would stand
for "not found". `told` records what messages to our address said. `Lose` loses
a frame. One handler runs at a time, and `kernelMain` stands still while the
handler runs.

**IPv4, ICMP, UDP.** A frame is a record of what the layers look at. Sizes are
calculated as the code does: `totalLength` keeps its bytes in network order, the
driver passes at least 60 bytes, the IP layer takes the smaller of both. Whether
a header's sum is right is a Boolean of the frame; `Checksum` itself is modelled
on short texts, with the signed last byte and the folding of the carries.
Sending back follows the three layers that swap addresses.

**TCP.** `Receive` is `OnInternetProtocolReceived` with the handler in
it, one action per case of its switch. `Answer` is `PrintfTCPHandler`, which
answers a GET with one `Send` and `Disconnect`. `kernelMain`'s `Send` and
`Disconnect` are split where a segment may come in between (`wait`, `fill`,
`count`, `transmit`, `bump`). `delivered` records what handlers were given.
Remotes open, push, close and (if the wire is not reliable) abort. What a remote
says is a stream of chunks; of a chunk counts where in the stream it ends and
how many of its own bytes are in front of the zeros it ends in, which is what
the code acknowledges. A wire that keeps order is a queue, one that loses,
repeats and reorders a set. A setting, chosen in the initial state, says what
the remotes send, what `kernelMain` calls and which of the two the wire is.

**Input.** A packet is three bytes, read one per interrupt. Moving passes the
event to the child under the old and the one under the new position, as
`CompositeWidget::OnMouseMove` does, and the second test is made after the
first call has moved something. `Seen` draws the children from the last to the
first with the unsigned comparisons of `FillRectangle`. On the text screen a
cell is whether its colours are swapped; `printf` of `kernelMain` is split at
every access to the cursor and the screen, that of the handlers is one step.

**Boot.** One place after the other, as in `kernelMain`. Each part finds its
hardware when it begins and forgets it when it ends, since the parts share
nothing but the list of drivers. The buses hold any small set of devices; the
keyboard controller hands over one answer at a time, in any order and at any
time, keys that are pressed among them, and `reporting` records which device
was given the byte 0xF4 that makes it report; the graphics card starts locked or not,
with its attribute port in either phase; a disk is there or not, busy for any
time, failing at any call. `Read28` gives nothing back, so the records that
partition table and FAT look at are whatever was in memory: any value. `chain`
records the clusters of a file, so that the sector numbers the disk is given can
be compared with those of the file. The module ends where `kernelMain` takes the
card's driver (`kernel.cpp:350`); behind it are the steps of the network modules,
`BroadcastMACAddress` first (line 391), which may wait in `Resolve` for ever.

## 3. Runs

All twelve finish within five minutes with two workers.

| run | states | what it shows |
|---|---|---|
| `MemoryManager` | 13 853 | every order of `malloc` and `free` keeps the list and implements `AbstractHeap` |
| `HeapPreempted` | 17 623 | the heap survives frames answered in the middle of a `malloc` or `free`, as long as they stay clear of the chunks being changed: no pointer dangles, no two blocks overlap, the list is in order behind it, and `malloc` overlooks no room |
| `Interrupts` | 309 024 | contexts survive every switch, every interrupt is acknowledged, every task runs again and again |
| `NetworkCard` | 425 595 | rings stay in step, frames leave and arrive in order and intact, under the conditions the properties state |
| `ARP` | 483 158 | the first answer for an address is kept whoever gave it and whatever comes later, answers go to who asked, and `Resolve` returns |
| `TCP` | 325 359 | on a wire that loses, repeats and reorders: delivery in order and once, one socket for a connection; on one that keeps order: acknowledgement follows delivery, connections end |
| `Datagrams` | 42 348 | datagrams find their socket, payloads lie in the frame unless their length is read as less than a header, echoes go back, sums are right |
| `Input` | 1 237 534 | dragging follows the pointer, clicks go to what is seen, the cursor comes back, one cell is the pointer |
| `Boot` | 689 053 | over every small machine: the card is found, wired and activated, keyboard and mouse stay on and are told to report, the mode is programmed, sectors are moved whole, those of a file in its order, and `kernelMain` reaches the card |
| `InterruptsDivide`, `NetworkCardParallel`, `DiskSector` | until violated | section 5 |

Bounds, and why the interesting cases happen within them:

* `MemoryManager`: 14 bytes, headers of 2, requests of 0, 1, 3 and 5. Up to four
  chunks fit, so a chunk is split with and without one behind it, a rest is one
  byte too small, and `free` merges with none, one or both neighbours. Larger
  heaps are what the theorems are for.
* `HeapPreempted`: 18 bytes, headers of 2, requests of 1 and 4 by `kernelMain`
  and of 1, 2 and 4 by the handler, which holds two buffers at a time: the
  message and the copy the layer below makes of it.
* `Interrupts`: two tasks and `kernelMain`, the clock, one line of each
  controller, an exception with error code, the system call; up to two calls of
  `Activate`. Three entries fit (`MaxTasks`) and a task may be added again, so
  `AddTask` meets a full array. Instructions count modulo 2.
* `NetworkCard`: rings of two, so that both wrap and overflow; up to three
  frames out (one by `kernelMain`, two answers), four in. `RxBurst` 3 lets one
  frame more arrive than the ring holds; `TxBurst` 2 keeps the frames that wait
  to the size of the ring, behind which `Send` overwrites (section 6).
  `NetworkCardParallel` has eight.
* `ARP`: two peers, three hardware addresses, so a peer can be replaced by one
  with a new or with the other's address; a cache of two, which duplicates fill;
  one announcement, false message or replacement; one frame to us at a time.
* `TCP`: two clients on the port that listens, a server we connect to, two
  sockets, sequence numbers modulo 16 that start at 13 and 14 and wrap round
  within the connection. In the setting `Lossy` one client asks twice, so that
  the handler's answer meets a socket it has closed, the text of the other ends
  in zeros, the server pushes only the
  end of what it says, and `kernelMain` sends and disconnects; in `Ordered`
  listening and connecting go on at once. The wire is at most what each remote
  and socket have sent, since a repeated segment is one that stays on the wire.
  Both settings satisfy the hypotheses of the theorems (`MCAssumption`).
* `Datagrams`: one remote in our network, one behind the gateway, one port below
  and three from `FirstPort` on; datagrams of 32 bytes (padding), 256 (read as 1,
  less than a header), 513 (read as 258, less than the datagram) and 1285 (the
  same number either way round); headers
  without and with an option. Texts of up to six bytes out of 0, 1, 127, 128 and
  255: odd and even, with and without a sign, up to sums that fold twice.
* `Input`: a desktop of 4 x 2, two windows of 2 x 2 that overlap once one is
  dragged, movements that fall short of a pixel, cross an edge, or press and
  move at once, with buttons 1 and 2; `UintRange` 64, far above the screen. A
  text screen of 2 x 2, so that two characters reach its end, texts of two
  characters, and `CharRange` 8, so that the sum of position and movement
  overflows.
* `Boot`: two devices of two functions, which are nothing, a bridge, a card that
  answers at every function, a card at the second function, and two cards on
  one line; memory without room for a heap, for the card, and with; limits of
  segments about the points where the packing changes; both drives there or not,
  two calls of the disk beside those of the file system; two partitions of two
  files, clusters of 0, 1 and 2 sectors; one key pressed meanwhile.

`Input`, `Datagrams`, `MemoryManager` and `Interrupts` check for deadlock. The
others may come to a stop: once the bounded traffic is over, or `kernelMain`
has the card, nothing is left to happen.

## 4. Fairness

Weak fairness everywhere, and only of steps whose cause persists.

* `Interrupts`: the timer ticks for ever, an interrupt that is presented and
  allowed is taken, and code that runs goes on. Nothing is assumed of devices,
  nor that a task ever makes a system call.
* `amd_am79c973`: code that has started goes on, a pending interrupt is taken
  and the card serves its ring. No frame has to arrive.
* `AddressResolutionProtocol`: the loop of `Resolve` runs, frames that arrived
  are handled, peers answer requests. `ResolveReturns` exempts `trouble`: a lost
  frame, a full cache, or a call from a receive handler, which the code does not
  survive (section 6).
* `TransmissionControlProtocol`, on the wire that keeps segments only (`Kept`):
  `kernelMain` gets from `Listen` or `Connect` to `Bind`, segments are handled,
  remotes go on with what they began. Fairness of `Receive` is of "some segment
  of this remote", so the first one is handled in the end. On the other wire
  nothing is fair, and `ConnectionsEnd` claims nothing.
* `KernelMain`: `kernelMain` runs on, and a disk that works gets ready. The
  keyboard controller owes nothing: the drivers do not wait for it. The disk may
  answer with an error at any time.

The other modules have no liveness properties and no fairness.

## 5. Where code and comments differ

Three have a run that ends in the violation of one property.

* `InterruptsDivide`, `FrameIsCPUState`: `HandleException` pushes nothing in
  place of the error code that the processor leaves out for, say, a division by
  zero; the frame is one word short of a `CPUState`, and `iret` takes `cs` for
  `eip`.
* `NetworkCardParallel`, `SendersApart`: `Send` is said to move to the next
  buffer "so to send data from different tasks in parallel", but an answer sent
  from the handler can take the buffer of the `Send` it interrupted.
* `DiskSector`, `SectorAddressed`: `Read28` and `Write28` are said to split "the
  sector number and puts it into the three ports"; they write two of the three,
  one of them twice, so the disk is asked for another sector.

The others have no run of their own; the properties named here are stated so
that they say what the code does.

* `tcp.cpp:217` says "if we do not reset, we ack the data received". Lines 220-224
  acknowledge up to the last byte that is not zero, so data that ends in zeros is
  handed up whole and not acknowledged to its end.
  `AcknowledgementFollowsDelivery` has the number without those zeros. The run
  `TCP` has such data (`Padded`).
* `fat.cpp:78` says "if the file is greater than a cluster we break the loop". The
  break comes one sector late (line 89), behind a read and a print of the sector
  behind the cluster. `SectorsFollowFile` has that read in it.
* `udp.cpp:102` says "we chop off the header and pass only the payload to the
  socket". A datagram of 256 bytes is read as one of 1 (`ipv4.cpp:65`), the size
  wraps round, and the handler is given more than the frame. `PayloadInFrame`
  excepts the lengths that are read as less than the IP header, and only these.
* `kernel.cpp:135` says "if we move the mouse on the rigth we want it to stay
  there". The sum of position and movement is a signed byte, so a long movement
  takes the pointer to the left edge. `Int8Sum` has it so, and `OnePointer` says
  of it only that one cell shows the pointer there too.

## 6. Other observations

Made while modelling. Properties above are stated so that they hold beside
these; the modules do what the code does.

* The repository does not build at this commit: the stubs use names mangled for
  three different spellings of the namespace, and `kernel.cpp:331` calls
  `ReadPartitions(&ata0s)` where the class declares `ReadPartition` and `ata0s`
  is commented out. The Makefile gives no optimisation level; loops that wait
  for a plain variable (`arp.cpp:124`, `tcp.cpp:44`) are read as they stand.
* Heap: the result of `malloc` is tested by nobody; the size of the heap wraps
  round on a machine with less than 10 MiB (`kernel.cpp:241`). A `malloc` of the
  handler inside that of `kernelMain` can be given the block that was just
  chosen: both then own it.
* Interrupts: what stands behind `Activate` in `kernelMain` runs only as long as
  no tick finds a task. An interrupt between the statements of `Deactivate` is
  never acknowledged; `kernelMain` calls `Activate` once, with no manager active,
  so `Deactivate` is not called in this code.
* Card: `Send` does not look at the owner bit, so the ninth waiting frame
  overwrites the first; neighbouring buffers share all but eight bytes; status
  bits are cleared at the end of the handler, after frames may have set them
  again.
* ARP: answers are stored unchecked and unasked (`arp.cpp:49` says so itself), and
  the first one for an address stays: a false answer that comes first is used
  for ever, a true one that comes later is stored behind it and never found, and
  a peer that is replaced keeps its old address. `FirstAnswerIsKept` is about
  which answer is used, not about whether it is true; that would be false.
* ARP: `Resolve` inside a handler waits with interrupts off for an entry that
  only a handler can add.
* IPv4: `totalLength` is not turned round; an odd last byte is sign-extended in
  `Checksum`, which makes the sum wrong from 0x80 on; the handler arrays are one
  entry short (`ipv4.cpp:43`, `etherframe.cpp:45`). ICMP makes its checksum over
  eight bytes only.
* UDP: `Disconnect` has a loop with no first round; a socket that listens on port
  1024 or above takes the answers to one that is connected; padding is handed up;
  `Send` on a socket that still listens sends to whatever memory `remoteIP` had.
* TCP: data that ends in zero bytes is delivered whole but not acknowledged whole
  (section 5); a FIN is
  accepted whatever its number; a closed socket is never removed
  (`tcp.cpp:260`); a reset is sent and the socket kept; data that comes with the
  ACK that moves the state is dropped; data before `Bind` is answered with a
  reset; `sockets[numSockets++] = ...` counts before it stores. A payload of
  zeros takes the acknowledgement number back by the length of the header.
* TCP: a socket in `SYN_SENT` has the acknowledgement number that was in its
  memory, and the default case looks at no state. A pushed segment of the server
  that overtakes the SYN/ACK and happens to have that number is handed up; the
  SYN/ACK then sets the number to its proper value, and the same segment, sent
  again, is handed up again. `DeliveredInOrder` is stated for settings in which
  no segment can be taken so (`NotMisled`); in one where a server pushes a chunk
  with that number TLC finds the two deliveries.
* Mouse: nothing in a packet lets the driver find its start again.
* Windows: a window that is dragged behind another one does not hear that the
  button went up and goes on being dragged (`window.cpp:29`); one that begins
  left of the screen or above it takes clicks and is not drawn (`vga.cpp:170`).
  No window ever gets the focus: `Window::OnMouseDown` sets `Dragging` without
  asking for it, so keys reach no window.
* Console: characters from 0x80 on overwrite the colours of a cell;
  `kernelMain` interrupted between reading a cell and writing it leaves the
  colours of the wrong cell swapped; the loop that clears the screen uses the
  cursor as its counter, so a handler that prints starts it again, and the
  cursor may be one row behind the screen meanwhile.
* Keyboard and mouse: neither waits for the controller. The keyboard's 0xFA may
  be read by the mouse's `Activate` and written back as the control byte.
* Disk: `Read28` returns nothing, so partition table, BIOS parameter block and
  directory entries are read from uninitialised memory. `Flush` and `Write28` do
  not wait until the drive is ready. FAT does not count the sector
  behind a cluster that it reads (section 5), and never ends with empty clusters.
* PCI: of two cards on one line only the last one's driver is called; without a
  card `drivers[2]` is whatever the array held.

## 7. Proofs

Eight modules hold theorems. Each result is for every value of the constants
that satisfies the assumptions of its module.

| module | theorem | says |
|---|---|---|
| `HeapProofs` | `Invariance` | `Spec => []Inv`, where `Inv` is `TypeOK /\ ListConsistent /\ Coalesced /\ OwnersKnown` |
| | `Typed`, `ListStaysConsistent`, `StaysCoalesced`, `OwnersStayKnown` | its parts |
| | `HeapComesBack` | `WholeAgain` |
| | `Refinement` | `Spec => ImplementsAbstractHeap` |
| | `ListSurvivesFrames` | `RestConsistent` |
| | `PointersStayLive` | `PointersLead` |
| | `BlocksStayApart` | `BlocksApart` |
| | `RefusesOnlyWhenFull` | `RefusedOnlyWhenFull` |
| `InterruptsProofs` | `KernelIsNeverResumed` | `KernelNeverResumed` |
| | `ContextsArePreserved` | `ContextPreserved` |
| | `InterruptsAreAcknowledged` | `Acknowledged` |
| `amd_am79c973Proofs` | `FramesAreReceivedInOrder` | `ReceivedInOrder` |
| | `FramesAreTransmittedInOrder` | `TransmittedInOrder`, if `TxBurst <= N` |
| `AddressResolutionProtocolProofs` | `FirstAnswersAreKept` | `FirstAnswerIsKept` |
| | `AnswersReachAskers` | `AnswersGoToAskers` |
| `UserDatagramProtocolProofs` | `SocketsArePaired` | `SocketsPaired` |
| | `EchoesGoBack` | `EchoGoesBack` |
| | `PayloadsInFrame` | `PayloadInFrame`: nothing of lengths that are read as less than the IP header |
| | `ChecksumsAreInternetChecksums` | `ChecksumIsInternetChecksum` |
| | `SumsFit` | the sum of a text whose length is a `uint16_t` fits into 32 bits |
| `TransmissionControlProtocolProofs` | `AlwaysKnown` | `Spec => []Known`, the types and connections the others rest on |
| | `OneConnection` | `OneSocketPerConnection` |
| | `EstablishedMutually` | `EstablishedIsMutual` |
| | `SpinsBehindOwnClose` | `SpinsOnlyBehindOwnClose`, if `NotMisled` |
| | `DeliversInOrder` | `DeliveredInOrder`, if `NoBlanks` and `NotMisled` |
| | `AcknowledgesDelivered` | `AcknowledgementFollowsDelivery`, if `NoBlanks` and `NotMisled`; its part about the end is for `NothingPadded` and `AllTaken` |
| `KernelMainProofs` | `DescriptorDescribes` | the eight bytes say the base exactly, and a limit at most a page below the one asked for, for all 32-bit words |
| | `TableDescribes` | `DescriptorsDescribe` |
| | `Eth0IsTheFirstCard` | `Eth0IsFirstCard`: nothing unless memory is `Ample` |
| | `CardsAreWired` | `CardIsWired`, if `CardsArePorted` |
| | `KeyboardAndMouseAreOn` | `KeyboardAndMouseOn`: nothing behind a read that got another byte than its answer |
| | `ModeIsProgrammed` | `DisplayIsProgrammed` |
| | `SectorsMoveWhole` | `SectorsTransferredWhole`, if `ReadsWithinSector` |
| | `FilesAreFollowed` | `SectorsFollowFile`: nothing of blocks with empty clusters |
| `InputProofs` | `InputTypes` | `TypeOK` |
| | `DragFollows` | `DragFollowsPointer` |
| | `DrawnClicked` | `DrawnWhereClicked` |
| | `CursorReturns` | `CursorComesBack` |
| | `PointerShows` | `OnePointer` |

`MinIsLeast`, that `Min` of the community modules is a least member, is proved
where it is needed, from the library's well-founded induction: the first cache
entry, the socket and the connection that a packet finds are least indices, and
there is a least round in which a loop goes wrong.

**Heap**, from `HeapAssumption` (the heap does not start at address 0, headers
are not empty, requests are natural numbers). No part of `Inv` is inductive
alone. `free` follows `prev` and `next` of a chunk it computes from a pointer, so
tiling needs to know that the pointer's chunk is in the list (`OwnersKnown`), and
`OwnersKnown` needs the tiling, or a merge could swallow a chunk in use. That
two free chunks are never neighbours needs both directions of the list.

The argument. `IsList` and `WellFormed` are stated of any list, so the list
operations have lemmas of their own: `MarkFacts`; `SplitFields` (what the four
headers near the cut hold) and `SplitWellFormed`; `AbsorbFields`,
`AbsorbWellFormed`, `AbsorbKeepsAllocated` and `AbsorbCoalesced` (merging mends
one pair of free neighbours and makes no new one). `FreedFacts` puts two merges
together: after marking, free neighbours can only be at the freed chunk; after
merging to the left only at the chunk it merged into; after merging to the
right nowhere. `GivenFacts` does the same for `malloc`. `InvConstruct`,
`InvMalloc` and `InvFree` then are one lemma per action. `HeapComesBack`: with
no owners no chunk is allocated, a free chunk has no free one behind it, so the
first is the last and fills the heap. `Refinement` needs one more thing: when
no chunk fits, no vacant range fits either, because a vacant range lies within
one free chunk (`RefuseStep`), which is where `Coalesced` is needed again.

**Heap in two contexts**, from `HeapAssumption` and `PreemptedAssumption` (the
heap holds at least one header, the handler's sizes are natural numbers). There
is no bound on the heap, the sizes or the buffers that the handler holds
(`MaxHeld` need not even be a number).
In the middle of a call memory is no list that `IsList` or `WellFormed` hold of,
so `PreemptedInv` says that there is one *behind* it: unless something was
exposed, there are a `list` and an address `B` with `Sound(list, B)`, which is

* `Books(list)`: it tiles the heap, its allocated chunks are exactly those of
  `kernelMain` (`Kernel`) and of the handler (`Handed`), each large enough;
* `CoalescedAt(list, Excused(B))`: a free chunk has a free one behind it only if
  that one is the chunk `kernelMain` has unmarked and not merged yet, or begins
  at `B`. That is the rest `malloc` has cut off a chunk it has not marked yet, or
  the free chunk behind the freed one. It is an address with no block of
  `kernelMain` before it (`Clear`) and not the next of a chunk, because the
  handler may be given one of the two, cut it, and merge them when it gives it
  back;
* `Place(list, B)`: how memory differs from `list` at the next statement. It is
  equal to it (most statements), or has one more header inside a free chunk and
  the fields of that chunk turned as far as the call has come (`Torn`, for the
  cut of `malloc` and both merges of `free`), or has the header of a chunk that
  is merged already (`AtToPrev`), or one link back that is still to be turned
  (`AtNextBack`).

A step of `kernelMain` is one lemma per statement (`Preempted...`): most turn
one field, which is another case of `Place` for the same list; the statement
that completes a cut or a merge makes the next list. A step of the handler is a
step on the list that leaves alone what is different in memory (`HandlerStep`,
`MallocStepOnList`, `FreeStepOnList`), because what differs is next to blocks of
`kernelMain` only: the chunk that is cut or merged has nothing before it or such
a block (`Anchored`), so no `free` of the handler merges it into another, and
behind it, with one free chunk between at most, is such a block or the end. Here
it matters that the handler gives back what it took before it returns: what is
marked when `kernelMain` goes on is `kernelMain`'s. `Agree` and `Kept` carry it through the operations of `MemoryManager` (`AgreeSplit`,
`AgreeAbsorb`, `AgreeFreed`), and `TornKept`, `ToPrevKept` and `NextBackKept`
say that the difference stays the same one.

`ListSurvivesFrames`, `PointersStayLive` and `BlocksStayApart` follow from
`PreemptedInv`. `RefusesOnlyWhenFull` needs to know what the search of `malloc`
has seen, though the chunks it passed may be cut and merged again behind it:
`Searched` says, instead, that wherever there would be room in the part of the
heap that was passed, a block of `kernelMain` is in the way, and those the
handler neither takes nor moves (`HandlerKeepsKernel`). A free chunk the loop
leaves behind is too small and lies behind such a block (`LookSearches`).

**Interrupts**, from `InterruptsAssumption` (lines and exceptions have the
numbers the hardware gives them, `kernelMain` is no task). Three invariants, each
resting on the one before.

* `Ownership`: who owns the processor, the current context or, inside the stub,
  the context the returned `esp` points into. It is the task the scheduler takes
  for the current one, and every pointer the scheduler keeps belongs to its own
  task. It is inductive without a word about what the stacks hold, and since no
  pointer of the scheduler is `kernelMain`'s, `KernelIsNeverResumed` follows.
* `Stacks`: the owner is either running on a stack that holds its local words
  only, or suspended, with one frame of five words on top of these; every other
  task is suspended at the height its saved pointer says. `Suspended` leaves open
  which word stands for the error code, but there has to be one: the theorem
  assumes `Exceptions \subseteq WithErrorCode`, and this is exactly what
  `InterruptsDivide` shows to fail. `FramePushed` and `FrameOnTop` are facts of
  sequences: what pushing five words leaves where, and what popping finds.
* `Served`: while nothing is handled no line is in service, and while an
  interrupt of a line is handled its own line and, for the slave, the cascade
  line are the only ones. So the end-of-interrupt commands clear the right one
  (`EndedLast`). That someone gives them needs `ManagerReady`: interrupts are on
  only when there is a manager, also those that `iret` turns on again. A second
  `Activate` breaks it, between the two statements of `Deactivate`, hence the
  condition in `Acknowledged`.

**Card**, from `NICAssumption` (the ring and a frame are not empty, the bounds
are natural numbers). Distances are counted round the ring from the driver's
index. `UnreadBetween`: the descriptors that wait for the driver are exactly
those between its index and the card's, so an index can pass the other neither
when the ring is full nor when it is empty, the two cases in which the indices
are equal. `Numbered` and `Counted`: the good ones among them have the numbers
behind those that were given back, without a gap, as cardinalities. `BytesOwn`:
the bytes belong to the frame as long as no two frames waited at once, which is
what the property of the bytes assumes (the eight buffers share bytes, see `amd_am79c973` in
section 2).
One lemma per step that moves an index: `FillKeeps` the card's, `GiveBackKeeps`
the driver's, `HandUpKeeps` the call in between; `Untouched` covers the rest.
The send ring has the same shape with the roles exchanged. `InStep(k)`: k frames
wait for the card, from its index on, with the numbers behind those that left,
and the `Send` that goes on, one at most (`Alone`), has the place behind them.
That there is such a place is a matter of counting: `Roomy` adds to the frames
that wait the answers the handler still owes (`ToAnswer`), and this sum never
exceeds `TxBurst`, because a request is let in, and `kernelMain` begins a `Send`,
only below it. Hence the condition `TxBurst <= N`; without it the code overwrites
a frame that waits (section 6). `Alone` fails once the handler answers in the
middle of a `Send` of `kernelMain`, which is what `NetworkCardParallel` shows.

**ARP.** The invariant says of every entry of the cache that an answer to our
address told its pair of addresses, of every message of ours that a message to
our address did (`told` only grows), and of every result that the cache has it
for the address asked for. `CacheHit`: what the search returns is an entry for
that address. `HitOfLonger`: an entry behind the last hides none, so what was
found once is found again, whatever is stored later. Nothing is assumed of who
tells what.

**UDP.** The invariant has what each socket heard, and the order of sockets with
one port: connected ones before a connected one have other remotes and none
before it listens (`EarlierTaken`). `FoundIsFirst` gives a datagram to the first
socket that matches, so one that still listens becomes connected only if nobody
before it has the remote. Ports `Connect` gives out are below `freePort`
(`LocalsGivenOut`). `PayloadInFrame` is about one frame but
needs the whole chain of sizes, from `SizesAssumption` (behind the header there is
at least that of a message, and the length of a datagram fits into 16 bits): the
padding of a short frame, `totalLength` read with its bytes swapped, options in
the header, and the eight bytes UDP takes off, any of which might leave a size
below zero or reach beyond the frame. That a length of less than the datagram
but not less than the header leaves the eight bytes is the test of
`LargeEnough`; a length of less than the header passes that test, because the
difference is unsigned, and is the exception. `EchoGoesBack` is an invariant on its own, by one case per
layer that turns the frame round.

Checksums, from `TextsAssumption` (texts are bytes, their length is a `uint16_t`,
as it is at every call). `RoundsExist` shows that a loop has a value in each
round, so the recursive definitions of the code's sum and of the reference mean
what they say. `WordsLeave`: after each word the reference has what the code's sum
leaves modulo 65535, because two shifts by a byte multiply by 65536, which
leaves 1 (`WordAdded`). `FoldedKeeps`: folding the carries changes nothing modulo
65535 and ends within 16 bits, since each round makes the number smaller. So what
is stored completes the sum (`ChecksumIs`). The model keeps the sum as a number
without a width; `SumsFit` is why the code's `uint32_t` is one.

**TCP**, from `TCPAssumption` (the port that is listened on is none that `Connect`
gives out, numbers are smaller than the space they wrap in, and of every stream
the chunks lie one behind the other and fit into that space). There is no bound
on the remotes, the sockets, the segments on the wire or the length of a stream,
and both wires are covered at once. The invariants build on each other.

* `Known`: a remote has one socket and keeps it (`OnePerRemote`); of the sockets
  with one port those that listen come last (`ListenersLast`), so the search
  finds a connection before it finds a listener that would start a second one;
  a remote is in a connection exactly if it has a socket (`PeersKnown`); and what
  is on the wire was sent by the remote it comes from, with the number its chunk
  has in the stream (`Sent`). One lemma per case of the switch, per step of
  `kernelMain` and per step of a remote preserves it (`...Known`).
  `OneSocketPerConnection` follows. `Mutual` needs one thing more, that a remote
  sends an ACK only once it has opened its end, which is in `Sent`.
* From there on a step is described by what it does to one socket (`Remains`,
  `Appears`, `Disconnected`, `Hears`, `Begins`) and to one remote (`Goes`):
  `StepsMove` and `ReceiveMoves` derive these from the actions once, and the
  later invariants use nothing else.
* `Told` and `HandshakeFirst`: a socket in `SYN_SENT` was given nothing, and one
  that waits behind its own FIN has a reason. On a wire that keeps order nothing
  comes before the SYN/ACK. On the other wire data might (section 6), hence
  `NotMisled`. `SpinsOnlyBehindOwnClose` follows.
* `InSequence`: the handler was given the first d chunks, and the acknowledgement
  number is that of the byte behind those of chunk d that were acknowledged.
  What has this number lies within one chunk's length of it and starts a chunk:
  it is chunk d + 1, because a stream is shorter than the space (`Fits`,
  `PlusInjective`). A chunk of zeros would take the number back to an earlier
  chunk, hence `NoBlanks`. `DeliveredInOrder` follows on both wires.
* `Lined`: on the wire that keeps order, the queue of a remote holds exactly what
  its socket was not given, in order, and the FIN behind it (`InLine`). So a FIN
  finds the stream delivered. Data that is not pushed, that comes before `Bind`
  or ends in zeros would break the line (the code drops the first, refuses the
  second and acknowledges less of the third), hence `AllTaken` and
  `NothingPadded`. The number in `AcknowledgementFollowsDelivery` is that of
  `InSequence`, on both wires; what it says of the end is `Lined`.

**Boot.** One place follows the other, so each part has an invariant of its own,
and the steps of the other parts leave it alone.

* Segments. `DescriptorDescribes` follows the bytes: a number below 2^32 is the
  sum of its bytes, and the limit is split into the case of bytes and the two
  cases of pages. `TableDescribes` carries it to the specification.
* Buses, from `PciAssumption` (there are buses, devices and functions to search;
  a device that does not answer at its first function answers at none, which the
  hardware sees to) and `MemoryAssumption` (memory lies within 32
  bits). `Eth0Inv`: up to `search` either no card was found and no memory taken,
  or `drivers[2]` is the first card of all that the search meets (`FoundSoFar`).
  That the search meets the cards in their order, and that the jump over the
  functions of a device that has one only skips none, is `NoCardSkipped`.
  `WiredInv`: each driver behind the first two has a port of its card
  (`PortIsOfCard`), and its card's interrupt goes to it or to a card with the
  same one (`Served`); the next card found changes neither (`StaysWired`). A
  card without an ordinary header, an interrupt or a port would get whatever was
  on the stack (section 6), hence `CardsArePorted`.
* Keyboard and mouse. `Phase` follows the two lists of accesses one by one: for
  every k it says what the controller holds when k accesses are done
  (`InKeyboard`, `InMouse`). Its core is that an answer of the controller is
  outstanding from the command that asks for it to the read behind it and at no
  other time (`OneAsked`, `NoneAsked`), whatever acknowledgements and keys arrive
  meanwhile. A driver that reads too early, or someone else's answer, sets
  `mistaken`, and nothing is claimed behind it. `reporting` needs to know whom
  the next byte is for: the mouse is given its 0xF4 only if the command 0xD4
  stands right before it. The second activation starts from
  the control byte the first one left; that is where one could undo the other.
* Graphics. `Programmed`: each register behind which `WriteRegisters` has come
  holds the value of the table, and crtc is open from `Unlock` on, also behind
  the write of index 17, whose bit would lock it again. `Between`: in the middle
  of a register the index is the register's, and the attribute port takes what
  comes next for what it is meant to be. Neither asks how the loader left the card.
* Disk, from `AtaAssumption` and `DiskCallsAssumption`. `DiskInv` relates the words
  the drive still has or wants to the bytes the driver has still to move, before
  the drive is ready (`Asked`), while it gives (`Offers`) and while it takes
  (`Takes`); otherwise it has none (`Quiet`). `Read28` does not look at its count,
  hence `ReadsWithinSector`, and a drive that was not ready when it was written
  to counts words of its own, hence `hurried` in the property.
* Files, from `FatAssumption` (sizes are integers, clusters have a natural number
  of sectors). `FileFollowed` says what `SIZE` is in the loop over sectors, and
  behind it, where the sector that was read too much is not counted
  (`SectorMore`, `ClusterMore`): the clusters of `chain` but the last, and the
  sectors of the last up to the offset. `AsksFor` carries the number the disk was
  given, which is that of the sector before the offset; so the two together say
  which sector of the file a read is for, and that it is in its turn.

**Input**, from `ReportsAssumption` (a report is three bytes), `DesktopAssumption`
(where a window is placed, and where a move across the desktop can take it, its
far edge stays below the range of an unsigned coordinate, as it does for the two
windows of `kernelMain`) and `ConsoleAssumption` (the screen is not empty, texts
consist of characters and newlines). There is no bound on the windows, on how
they overlap, or on the length of a text.

The code loops over calls, over windows and over characters, and the modules fold
over them. `FoldTable` shows that the recursion behind the community modules'
fold has a solution, `Prefix` that it is the last of the rounds h[0], ..., h[n]
of the loop, each made from the one before; the lemmas `...Fold` say so of the
four loops. Library induction is not usable (it takes an operator as its
parameter), so what holds in each round is shown by `UpTo`: there is no first
round in which it fails, since a set of numbers has a least member.

* `DriverInv`: what the driver has read and what is coming make one packet, so
  the driver never takes the middle of a packet for its start. `CallsFor` says
  what a packet calls: at most one move, before the clicks, and clicks that lead
  from the old buttons to the new ones.
* `DesktopInv` contains `Follows`, which says more than the property: the dragged
  window is the *first* child under the pointer. Without it a window that is not
  under the pointer could be dragged and miss the release of the button, which is
  what happens behind another window (section 6), hence `covered`. `ChildIs` is
  the first child that contains a point; `MoveDrags` and `ButtonDrags` say that a
  move and a click keep `Follows`, and `PacketHandled` that all calls of a packet
  do.
* `FilledIs`: with signed coordinates cut into unsigned ones a rectangle that
  begins on the screen covers what it should, which is where the assumption on
  sizes is needed. `SeenIs`: the last window that is drawn over a pixel is the
  first that contains it, because drawing runs through the children from the
  back. Together they are `ScreensDrawn`, for every place of the windows.
* `CursorInv`: `CursorAt` is a table of where cursor and registers are at each
  statement of `printf`. It is needed for every statement, because handlers print
  between any two of them. What makes it hold is that a handler leaves the
  cursor on the screen, wherever it found it (`PrintsReturns`), so it can only
  take it back to where the interrupted statement allows.
* `PointerInv`: one cell has its colours swapped, and what `printf` has read of
  the colours of a cell is still what they are when it writes them, until the
  mouse or a handler comes in between (`smeared`).

Only model-checked, not proved: `EveryTaskRuns`, `SentFramesLeave`,
`ResolveReturns`, `ConnectionsEnd` and `BootReachesCard`, since liveness is beyond the
prover as installed. Every invariant and every action property of the
passing runs is proved.

## 8. Not modelled

* Ports and loader: reading or writing a port is one step of the driver that does
  it; the loader calls `kernelMain` once.
* The register writes of the card's constructor, `Activate` and `Reset`: a fixed
  list of accesses that ends with the card running, which is where the module
  begins.
* What is printed: the digits of `printfHex`, the colours and letters on the
  screen, the text of the web page. `Console` places characters and does not tell
  them apart.
* Keyboard focus of widgets: no window ever gets it. Windows have no children.
* The append `sockets[numSockets++] = socket` is one step: interrupted in between
  the handler follows an uninitialised pointer, whose outcomes no state of the
  model tells apart. So are the writes of callers of `malloc` to address 0.
* `FileAllocationTable` chooses what memory holds; it does not model a disk's
  contents, since no sector reaches the code that looks at it.

## 9. Plan

Done: the heap with its proofs, whole and under preemption; the parts that run
concurrently, from the processor up to TCP, with proofs of interrupts, the
card's two rings, ARP, UDP and TCP; input and output for the user, and
boot with disk, graphics, buses and segments, with proofs of all their
invariants.
Open, in this order:

1. ARP, UDP and TCP over one card: the network modules end at the frame, and the
   loss that a full ring causes is `Lose` in one and the wire in the other.
2. The card's start: the register writes in order, and its initialisation block.
