--------------------------- MODULE MemoryManager ---------------------------
(***************************************************************************)
(* The kernel heap: class MemoryManager and the operators new and delete   *)
(* (src/src/memorymanagement.cpp).                                         *)
(*                                                                         *)
(* The heap is a doubly linked list of chunks laid out one behind the      *)
(* other.  A chunk is named by the address of its header, and chunks[a] is *)
(* the header stored there; DOMAIN chunks are the headers the list still   *)
(* reaches.  malloc splits the first free chunk that is large enough, free *)
(* merges the chunk with free neighbours.                                  *)
(*                                                                         *)
(* Each operation is one step: this module is the heap as one context      *)
(* sees it, with no interrupt between two of its statements.               *)
(***************************************************************************)
EXTENDS Integers, FiniteSets

CONSTANTS
  HeapStart,    \* where the heap starts (10 MiB in kernelMain)
  HeapSize,     \* the size given to the constructor
  ChunkHeader,  \* sizeof(MemoryChunk)
  Sizes         \* the sizes asked for

(* Address 0 is the null pointer.  No sum below exceeds HeapStart +        *)
(* HeapSize, which fits the 32 bits of size_t.                             *)
ASSUME HeapAssumption ==
  /\ HeapStart \in Nat \ {0}
  /\ HeapSize \in Nat
  /\ ChunkHeader \in Nat \ {0}
  /\ Sizes \subseteq Nat

VARIABLES
  active,   \* activeMemoryManager # 0: the constructor has run
  chunks,   \* the chunk headers of the list, by address
  owned,    \* owned[p]: the size asked for when p was returned; the pointers
            \* that callers hold and have not freed
  ret       \* what the last malloc returned, 0 when it found no chunk

vars == <<active, chunks, owned, ret>>

HeapEnd == HeapStart + HeapSize

Chunk == [next : Nat, prev : Nat, allocated : BOOLEAN, size : Nat]

(* The first address behind the bytes of chunk c in the list h. *)
ChunkEnd(h, c) == c + ChunkHeader + h[c].size

-----------------------------------------------------------------------------
(* The list operations *)

FitsAllocated(size) == {c \in DOMAIN chunks : chunks[c].size > size}

Fits(size) == {c \in DOMAIN chunks : chunks[c].size > size /\ ~chunks[c].allocated}

(* The loop of malloc stops at the first chunk of the list that fits, and  *)
(* the list is ordered by address (ListConsistent).                        *)
FirstFit(c, size) == c \in Fits(size) /\ \A d \in Fits(size) : c <= d

(* Worth splitting: the rest holds a header and a byte. *)
Splits(c, size) == chunks[c].size >= size + ChunkHeader + 1

(* Cut chunk c down to size bytes and put the rest into a new free chunk. *)
Split(h, c, size) ==
  LET temp  == c + ChunkHeader + size
      after == h[c].next
  IN  [a \in DOMAIN h \cup {temp} |->
         IF a = c THEN [h[c] EXCEPT !.size = size, !.next = temp]
         ELSE IF a = temp
           THEN [next |-> after, prev |-> c, allocated |-> FALSE,
                 size |-> h[c].size - size - ChunkHeader]
         ELSE IF a = after THEN [h[a] EXCEPT !.prev = temp]
         ELSE h[a]]

(* Merge the chunk that follows c into c. *)
AbsorbLosingHeader(h, c) ==
  LET gone  == h[c].next
      after == h[gone].next
  IN  [a \in DOMAIN h \ {gone} |->
         IF a = c THEN [h[c] EXCEPT !.size = h[c].size + h[gone].size,
                                    !.next = after]
         ELSE IF a = after THEN [h[a] EXCEPT !.prev = c]
         ELSE h[a]]

AbsorbWithoutBackLink(h, c) ==
  LET gone  == h[c].next
      after == h[gone].next
  IN  [a \in DOMAIN h \ {gone} |->
         IF a = c
           THEN [h[c] EXCEPT !.size = h[c].size + h[gone].size + ChunkHeader,
                             !.next = after]
         ELSE h[a]]

Absorb(h, c) ==
  LET gone  == h[c].next
      after == h[gone].next
  IN  [a \in DOMAIN h \ {gone} |->
         IF a = c
           THEN [h[c] EXCEPT !.size = h[c].size + h[gone].size + ChunkHeader,
                             !.next = after]
         ELSE IF a = after THEN [h[a] EXCEPT !.prev = c]
         ELSE h[a]]

AnyNeighbour(h, n) == n # 0

(* The neighbour at address n exists and is free. *)
FreeNeighbour(h, n) == n # 0 /\ ~h[n].allocated

MergePrevNever(h, c) == h

MergePrev(h, c) == IF FreeNeighbour(h, h[c].prev) THEN Absorb(h, h[c].prev) ELSE h

MergeNext(h, c) == IF FreeNeighbour(h, h[c].next) THEN Absorb(h, c) ELSE h

Mark(h, c, b) == [h EXCEPT ![c] = [h[c] EXCEPT !.allocated = b]]

(* What free makes of the list h when it is given chunk c: the chunk is    *)
(* merged into a free one before it, and the result with a free one behind *)
(* it.                                                                     *)
Freed(h, c) ==
  LET h0 == Mark(h, c, FALSE)
      h1 == MergePrev(h0, c)
      c1 == IF FreeNeighbour(h0, h0[c].prev) THEN h0[c].prev ELSE c
  IN  MergeNext(h1, c1)

-----------------------------------------------------------------------------
(* The operations *)

Init ==
  /\ active = FALSE
  /\ chunks = [a \in {} |-> [next |-> 0, prev |-> 0, allocated |-> FALSE, size |-> 0]]
  /\ owned = [p \in {} |-> 0]
  /\ ret = 0

(* MemoryManager::MemoryManager.  A heap too small for one header gets no  *)
(* chunk at all (first = 0).                                               *)
Construct ==
  /\ ~active
  /\ active' = TRUE
  /\ chunks' = [a \in {x \in {HeapStart} : HeapSize >= ChunkHeader} |->
                  [next |-> 0, prev |-> 0, allocated |-> FALSE,
                   size |-> HeapSize - ChunkHeader]]
  /\ UNCHANGED <<owned, ret>>

(* malloc, or new before there is an active memory manager: the caller     *)
(* gets 0.                                                                 *)
MallocFails(size) ==
  /\ Fits(size) = {}
  /\ ret' = 0
  /\ UNCHANGED <<active, chunks, owned>>

MallocReturns(size) ==
  /\ active
  /\ \E c \in DOMAIN chunks :
       /\ FirstFit(c, size)
       /\ chunks' = Mark(IF Splits(c, size) THEN Split(chunks, c, size) ELSE chunks,
                         c, TRUE)
       /\ ret' = c + ChunkHeader
       /\ owned' = [q \in DOMAIN owned \cup {c + ChunkHeader} |->
                      IF q = c + ChunkHeader THEN size ELSE owned[q]]
  /\ UNCHANGED active

Malloc(size) == MallocFails(size) \/ MallocReturns(size)

(* free, or delete: the caller returns a pointer it holds. *)
Free(p) ==
  /\ chunks' = Freed(chunks, p - ChunkHeader)
  /\ owned' = [q \in DOMAIN owned \ {p} |-> owned[q]]
  /\ UNCHANGED <<active, ret>>

Next ==
  \/ Construct
  \/ \E size \in Sizes : Malloc(size)
  \/ \E p \in DOMAIN owned : Free(p)

Spec == Init /\ [][Next]_vars

-----------------------------------------------------------------------------
(* Properties *)

(* The headers are headers and callers hold pointers into the heap. *)
TypeOK ==
  /\ active \in BOOLEAN
  /\ DOMAIN chunks \subseteq HeapStart..HeapEnd
  /\ chunks \in [DOMAIN chunks -> Chunk]
  /\ DOMAIN owned \subseteq HeapStart..HeapEnd
  /\ owned \in [DOMAIN owned -> Nat]
  /\ ret \in Nat

(* Chunk c of list h is linked both ways with the chunk behind it, which   *)
(* starts where c ends; only the last chunk has no chunk behind it, and it *)
(* ends where the heap ends.                                               *)
LinkedForward(h, c) ==
  /\ ChunkEnd(h, c) <= HeapEnd
  /\ h[c].next = (IF ChunkEnd(h, c) = HeapEnd THEN 0 ELSE ChunkEnd(h, c))
  /\ h[c].next # 0 => h[c].next \in DOMAIN h /\ h[h[c].next].prev = c

LinkedBack(h, c) ==
  IF c = HeapStart
    THEN h[c].prev = 0
    ELSE h[c].prev \in DOMAIN h /\ h[h[c].prev].next = c

(* The chunks of list h follow each other in both directions, no two share *)
(* a byte, and every byte of the heap belongs to one.                      *)
WellFormed(h) ==
  /\ HeapStart \in DOMAIN h
  /\ \A c \in DOMAIN h : LinkedForward(h, c) /\ LinkedBack(h, c)
  /\ \A c, d \in DOMAIN h : c < d => ChunkEnd(h, c) <= d
  /\ \A b \in HeapStart..(HeapEnd - 1) :
       \E c \in DOMAIN h : c <= b /\ b < ChunkEnd(h, c)

(* The list tiles the heap: following next from the first chunk visits     *)
(* every chunk once, prev leads back, no two chunks share a byte and no    *)
(* byte of the heap is lost, whatever malloc splits and free merges.       *)
ListConsistent ==
  IF active /\ HeapSize >= ChunkHeader THEN WellFormed(chunks) ELSE DOMAIN chunks = {}

(* free merges in both directions, so two free chunks are never            *)
(* neighbours: a request is not refused for lack of a merge.               *)
Coalesced ==
  \A c \in DOMAIN chunks :
    ~chunks[c].allocated /\ chunks[c].next # 0 => chunks[chunks[c].next].allocated

(* The chunks marked allocated are those behind the pointers callers hold, *)
(* and each has the bytes its caller asked for.                            *)
OwnersKnown ==
  /\ \A c \in DOMAIN chunks : chunks[c].allocated => c + ChunkHeader \in DOMAIN owned
  /\ \A p \in DOMAIN owned :
       /\ p - ChunkHeader \in DOMAIN chunks
       /\ chunks[p - ChunkHeader].allocated
       /\ chunks[p - ChunkHeader].size >= owned[p]

(* Once every caller has freed what it got, the heap is the one free chunk *)
(* the constructor made: no order of calls leaks or fragments it.          *)
WholeAgain ==
  active /\ DOMAIN owned = {} /\ HeapSize >= ChunkHeader =>
    chunks = [a \in {HeapStart} |-> [next |-> 0, prev |-> 0, allocated |-> FALSE,
                                     size |-> HeapSize - ChunkHeader]]

(* malloc and free keep the promise of AbstractHeap. *)
Abstract == INSTANCE AbstractHeap
  WITH ready <- active,
       blocks <- [p \in DOMAIN owned |-> chunks[p - ChunkHeader].size]

ImplementsAbstractHeap == Abstract!Spec

=============================================================================
