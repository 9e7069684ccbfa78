--------------------------- MODULE HeapPreempted ---------------------------
(***************************************************************************)
(* The heap in two contexts.  kernelMain calls malloc and free with        *)
(* interrupts on (src/src/memorymanagement.cpp), here one statement after  *)
(* the other; the interrupt handler answers frames with buffers it takes   *)
(* and gives back before it returns: the message of ICMP, TCP or UDP, and  *)
(* within it the copy the layer below makes (src/src/net/ipv4.cpp,         *)
(* etherframe.cpp).  The handler runs to its end with interrupts off, so   *)
(* each of its calls is one step, on the lists of MemoryManager.           *)
(*                                                                         *)
(* Nothing keeps the handler out of a chunk that kernelMain is cutting or  *)
(* merging; exposed records that it was given one.  The model follows such *)
(* a call to its end and kernelMain makes no other.  Headers that other    *)
(* bytes have been written over are gone, and a statement that follows a   *)
(* pointer to one is not taken any further.                                *)
(*                                                                         *)
(* The heap is there from the start: active is TRUE, and what malloc       *)
(* returns is in owned and held instead of ret.                            *)
(***************************************************************************)
EXTENDS MemoryManager, Sequences, SequencesExt

CONSTANTS
  HandlerSizes,   \* the sizes of the handler's buffers; kernelMain's are Sizes
  MaxHeld         \* bound on the buffers the handler holds at a time

(* kernelMain gives the heap all memory from 10 MiB on. *)
ASSUME PreemptedAssumption == HeapSize >= ChunkHeader /\ HandlerSizes \subseteq Nat

VARIABLES
  held,     \* the blocks of the handler, each with pointer and size
  main,     \* the call kernelMain is in: its next statement, chunk and size
  exposed   \* the handler was given a chunk kernelMain was changing (history)

preemptedVars == <<vars, held, main, exposed>>

Idle == [at |-> "idle", chunk |-> 0, size |-> 0]

PreemptedInit ==
  /\ active = TRUE /\ ret = 0
  /\ chunks = [a \in {HeapStart} |-> [next |-> 0, prev |-> 0, allocated |-> FALSE,
                                      size |-> HeapSize - ChunkHeader]]
  /\ owned = [p \in {} |-> 0]
  /\ held = <<>>
  /\ main = Idle
  /\ exposed = FALSE

-----------------------------------------------------------------------------
(* What kernelMain's statement reads and changes *)

current == main.chunk

(* The chunk that malloc cuts off. *)
Temp == current + ChunkHeader + main.size

NextOf(a) == {chunks[b].next : b \in DOMAIN chunks \cap {a}}
PrevOf(a) == {chunks[b].prev : b \in DOMAIN chunks \cap {a}}

(* The pointers that the next statement of kernelMain follows. *)
Follows ==
  CASE main.at = "look" -> {current} \ {0}
    [] main.at = "relink" -> {Temp} \cup (NextOf(Temp) \ {0})
    [] main.at = "testPrev" -> {current} \cup (PrevOf(current) \ {0})
    [] main.at \in {"prevNext", "prevSize"} -> {current} \cup PrevOf(current)
    [] main.at \in {"prevBack", "testNext", "nextBack"} -> {current} \cup (NextOf(current) \ {0})
    [] main.at \in {"nextSize", "nextNext"} -> {current} \cup NextOf(current)
    [] OTHER -> {current}

(* The chunks that statements of kernelMain's call have begun to change    *)
(* and have not finished.  malloc: the chunk that is cut, until its rest   *)
(* is linked.  free: the freed chunk and a free one before it until they   *)
(* are one, with the chunk behind while its links are turned; and then the *)
(* same for a free one behind.                                             *)
Changing ==
  CASE main.at \in {"relink", "shrink", "link", "nextNext"} -> {current}
    [] main.at \in {"testPrev", "prevNext"} -> {current} \cup PrevOf(current)
    [] main.at \in {"prevSize", "prevBack"} -> PrevOf(current) \cup NextOf(current)
    [] main.at = "toPrev"   -> PrevOf(current)
    [] main.at = "nextSize" -> {current} \cup NextOf(current)
    [] OTHER -> {}

-----------------------------------------------------------------------------
(* The interrupt handler *)

(* The loop of malloc ends at chunk c, with these chunks behind it.        *)
Passes(passed, c, size) ==
  /\ \A a \in passed : a \notin Fits(size) /\ chunks[a].next \in passed \cup {c}
  /\ \A a \in passed \cup {c} : a = HeapStart \/ \E b \in passed : chunks[b].next = a

Finds(c, size) ==
  c \in Fits(size) /\ \E passed \in SUBSET DOMAIN chunks : Passes(passed, c, size)

(* The headers that lie in the bytes [lo, hi). *)
Within(h, lo, hi) == {a \in DOMAIN h : a < hi /\ lo < a + ChunkHeader}

(* What malloc makes of the headers when it gives out chunk c and the      *)
(* caller fills its block.                                                 *)
Granted(c, size) ==
  LET h    == Mark(IF Splits(c, size) THEN Split(chunks, c, size) ELSE chunks, c, TRUE)
      rest == h[c].next
      gone == Within(h, c, IF Splits(c, size) THEN rest + ChunkHeader ELSE c + ChunkHeader + size)
              \ {c, rest}
  IN  [a \in DOMAIN h \ gone |-> h[a]]

(* A handler that gets no buffer writes to address 0, outside this module. *)
HandlerMalloc(size) ==
  /\ Len(held) < MaxHeld
  /\ \E c \in DOMAIN chunks :
       /\ Finds(c, size)
       /\ Splits(c, size) => chunks[c].next \in DOMAIN chunks \cup {0}
       /\ chunks' = Granted(c, size)
       /\ held' = Append(held, [pointer |-> c + ChunkHeader, size |-> size])
       /\ exposed' = (exposed \/ c \in Changing)
  /\ UNCHANGED <<active, owned, ret, main>>

Live(pointers) == pointers \subseteq DOMAIN chunks

(* The headers that free follows from chunk c are headers, and c is where  *)
(* they say.                                                               *)
Linked(c) ==
  /\ Live({c}) /\ Live({chunks[c].prev, chunks[c].next} \ {0})
  /\ chunks[c].prev # 0 => chunks[chunks[c].prev].next = c
  /\ chunks[c].next # 0 =>
       chunks[c].next > c /\ Live({chunks[chunks[c].next].next} \ {0})

HandlerFree ==
  /\ held # <<>>
  /\ Linked(Last(held).pointer - ChunkHeader)
  /\ chunks' = Freed(chunks, Last(held).pointer - ChunkHeader)
  /\ held' = Front(held)
  /\ UNCHANGED <<active, owned, ret, main, exposed>>

-----------------------------------------------------------------------------
(* kernelMain *)

At(where) == main.at = where /\ held = <<>> /\ Live(Follows)

GoTo(where) == main' = [at |-> where, chunk |-> current, size |-> main.size]

Keep == UNCHANGED <<active, owned, ret, held, exposed>>

SetNext(a, b) == chunks' = [chunks EXCEPT ![a].next = b]
SetPrev(a, b) == chunks' = [chunks EXCEPT ![a].prev = b]
SetSize(a, n) == chunks' = [chunks EXCEPT ![a].size = n]

(* The assignment that is made only behind a test of its pointer. *)
SetPrevUnlessNull(a, b) == IF a # 0 THEN SetPrev(a, b) ELSE UNCHANGED chunks

CallMalloc(size) ==
  /\ ~exposed /\ main.at = "idle" /\ held = <<>>
  /\ main' = [at |-> "look", chunk |-> HeapStart, size |-> size]
  /\ UNCHANGED chunks /\ Keep

LookOnlyOnce ==
  /\ At("look")
  /\ IF current # 0 /\ chunks[current].size > main.size /\ ~chunks[current].allocated
       THEN GoTo("cut") ELSE main' = Idle
  /\ UNCHANGED chunks /\ Keep

(* The loop, one chunk at a time; behind the last one malloc returns 0. *)
Look ==
  /\ At("look")
  /\ IF current = 0 THEN main' = Idle
     ELSE IF chunks[current].size > main.size /\ ~chunks[current].allocated THEN GoTo("cut")
     ELSE main' = [at |-> "look", chunk |-> chunks[current].next, size |-> main.size]
  /\ UNCHANGED chunks /\ Keep

(* The four fields of temp are written where nobody reads them yet. *)
Cut ==
  /\ At("cut")
  /\ IF Splits(current, main.size)
       THEN /\ chunks' = [a \in DOMAIN chunks \cup {Temp} |->
                            IF a = Temp
                              THEN [next |-> chunks[current].next, prev |-> current, allocated |-> FALSE,
                                    size |-> chunks[current].size - main.size - ChunkHeader]
                              ELSE chunks[a]]
            /\ GoTo("relink")
       ELSE UNCHANGED chunks /\ GoTo("mark")
  /\ Keep

RelinkNothing == At("relink") /\ GoTo("shrink") /\ UNCHANGED chunks /\ Keep

Relink == At("relink") /\ SetPrevUnlessNull(chunks[Temp].next, Temp) /\ GoTo("shrink") /\ Keep

Shrink == At("shrink") /\ SetSize(current, main.size) /\ GoTo("link") /\ Keep

Link == At("link") /\ SetNext(current, Temp) /\ GoTo("mark") /\ Keep

MarkAllocated ==
  /\ At("mark")
  /\ chunks' = Mark(chunks, current, TRUE)
  /\ owned' = [q \in DOMAIN owned \cup {current + ChunkHeader} |->
                 IF q = current + ChunkHeader THEN main.size ELSE owned[q]]
  /\ main' = Idle
  /\ UNCHANGED <<active, ret, held, exposed>>

CallFree(p) ==
  /\ ~exposed /\ main.at = "idle" /\ held = <<>>
  /\ main' = [at |-> "unmark", chunk |-> p - ChunkHeader, size |-> 0]
  /\ owned' = [q \in DOMAIN owned \ {p} |-> owned[q]]
  /\ UNCHANGED <<active, chunks, ret, held, exposed>>

Unmark == At("unmark") /\ chunks' = Mark(chunks, current, FALSE) /\ GoTo("testPrev") /\ Keep

TestPrev ==
  /\ At("testPrev")
  /\ GoTo(IF FreeNeighbour(chunks, chunks[current].prev) THEN "prevNext" ELSE "testNext")
  /\ UNCHANGED chunks /\ Keep

PrevNext ==
  At("prevNext") /\ SetNext(chunks[current].prev, chunks[current].next) /\ GoTo("prevSize") /\ Keep

PrevSize ==
  /\ At("prevSize")
  /\ SetSize(chunks[current].prev, chunks[chunks[current].prev].size + chunks[current].size + ChunkHeader)
  /\ GoTo("prevBack") /\ Keep

PrevBack ==
  At("prevBack") /\ SetPrevUnlessNull(chunks[current].next, chunks[current].prev) /\ GoTo("toPrev") /\ Keep

(* No pointer leads to the header of a merged chunk any more. *)
ToPrev ==
  /\ At("toPrev")
  /\ chunks' = [b \in DOMAIN chunks \ {current} |-> chunks[b]]
  /\ main' = [at |-> "testNext", chunk |-> chunks[current].prev, size |-> main.size]
  /\ Keep

TestNext ==
  /\ At("testNext")
  /\ IF FreeNeighbour(chunks, chunks[current].next) THEN GoTo("nextSize") ELSE main' = Idle
  /\ UNCHANGED chunks /\ Keep

NextSize ==
  /\ At("nextSize")
  /\ SetSize(current, chunks[current].size + chunks[chunks[current].next].size + ChunkHeader)
  /\ GoTo("nextNext") /\ Keep

NextNext ==
  /\ At("nextNext")
  /\ LET gone == chunks[current].next IN
       chunks' = [b \in DOMAIN chunks \ {gone} |->
                    IF b = current THEN [chunks[b] EXCEPT !.next = chunks[gone].next] ELSE chunks[b]]
  /\ GoTo("nextBack") /\ Keep

NextBack == At("nextBack") /\ SetPrevUnlessNull(chunks[current].next, current) /\ main' = Idle /\ Keep

MallocStep == Look \/ Cut \/ Relink \/ Shrink \/ Link \/ MarkAllocated

FreeStep ==
  \/ Unmark \/ TestPrev \/ PrevNext \/ PrevSize \/ PrevBack \/ ToPrev
  \/ TestNext \/ NextSize \/ NextNext \/ NextBack

-----------------------------------------------------------------------------
PreemptedNext ==
  \/ \E size \in Sizes : CallMalloc(size)
  \/ \E p \in DOMAIN owned : CallFree(p)
  \/ MallocStep \/ FreeStep
  \/ \E size \in HandlerSizes : HandlerMalloc(size)
  \/ HandlerFree

PreemptedSpec == PreemptedInit /\ [][PreemptedNext]_preemptedVars

-----------------------------------------------------------------------------
(* Properties *)

(* Wherever in malloc and free kernelMain is interrupted, and however the  *)
(* frames that arrive there take and give back their buffers: if none of   *)
(* them was one of the chunks that were changing, the list is in order     *)
(* once both are done, with no chunk lost, split up or marked for nobody.  *)
RestConsistent ==
  main.at = "idle" /\ held = <<>> /\ ~exposed =>
    ListConsistent /\ Coalesced /\ OwnersKnown

(* Until then no pointer dangles, neither the one kernelMain has read      *)
(* before the interrupt and follows behind it, nor those that the          *)
(* handler's free finds in a list kernelMain is half through with.         *)
PointersLead ==
  ~exposed =>
    IF held = <<>> THEN main.at = "idle" \/ Live(Follows)
    ELSE Linked(Last(held).pointer - ChunkHeader)

Apart(p, m, q, n) == p + m <= q - ChunkHeader \/ q + n <= p - ChunkHeader

(* No buffer of the handler shares a byte with a block of kernelMain or    *)
(* with another buffer, also in the middle of a malloc or a free.          *)
BlocksApart ==
  ~exposed =>
    /\ \A p, q \in DOMAIN owned : p # q => Apart(p, owned[p], q, owned[q])
    /\ \A i, j \in DOMAIN held :
         i # j => Apart(held[i].pointer, held[i].size, held[j].pointer, held[j].size)
    /\ \A p \in DOMAIN owned : \A i \in DOMAIN held :
         Apart(p, owned[p], held[i].pointer, held[i].size)

(* A search that is interrupted still sees every chunk: malloc returns 0   *)
(* only when no chunk fits at that moment.                                 *)
RefusedOnlyWhenFull ==
  [][main.at = "look" /\ main'.at = "idle" /\ ~exposed => Fits(main.size) = {}]_preemptedVars

=============================================================================
