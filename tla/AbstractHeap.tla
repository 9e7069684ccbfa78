---------------------------- MODULE AbstractHeap ----------------------------
(***************************************************************************)
(* What the kernel's allocator promises to its callers, without the chunk  *)
(* list it keeps to do so (src/include/memorymanagement.h).                *)
(*                                                                         *)
(* A block is known by the pointer its owner holds; it reserves a header   *)
(* in front of that pointer and at least the bytes asked for behind it.    *)
(* The promise: a new block lies in the heap and touches no other block,   *)
(* a block stays as it is until its owner gives it back, and a request is  *)
(* refused only while the heap has no room for it.                         *)
(***************************************************************************)
EXTENDS Integers

CONSTANTS
  HeapStart,    \* address of the first byte of the heap
  HeapSize,     \* bytes in the heap
  ChunkHeader,  \* sizeof(MemoryChunk), in bytes
  Sizes         \* the sizes callers ask for

VARIABLES
  ready,        \* the allocator has been constructed
  blocks,       \* blocks[p]: the bytes reserved behind the pointer p
  ret           \* what the last request returned (0 for a refusal)

vars == <<ready, blocks, ret>>

HeapEnd == HeapStart + HeapSize

(* The bytes [lo, hi) lie in the heap and belong to no block. *)
Vacant(lo, hi) ==
  /\ HeapStart <= lo
  /\ hi <= HeapEnd
  /\ \A p \in DOMAIN blocks : hi <= p - ChunkHeader \/ p + blocks[p] <= lo

(***************************************************************************)
(* A request has room when a header, the bytes asked for and one byte more *)
(* fit into vacant bytes that follow each other.                           *)
(***************************************************************************)
Room(size) ==
  \E lo \in HeapStart..HeapEnd : Vacant(lo, lo + ChunkHeader + size + 1)

Init ==
  /\ ready = FALSE
  /\ blocks = [p \in {} |-> 0]
  /\ ret = 0

Construct ==
  /\ ~ready
  /\ ready' = TRUE
  /\ UNCHANGED <<blocks, ret>>

Grant(size) ==
  /\ ready
  /\ \E p \in HeapStart..HeapEnd, len \in size..HeapSize :
       /\ Vacant(p - ChunkHeader, p + len)
       /\ blocks' = [q \in DOMAIN blocks \cup {p} |->
                       IF q = p THEN len ELSE blocks[q]]
       /\ ret' = p
  /\ UNCHANGED ready

Refuse(size) ==
  /\ ready => ~Room(size)
  /\ ret' = 0
  /\ UNCHANGED <<ready, blocks>>

Release(p) ==
  /\ blocks' = [q \in DOMAIN blocks \ {p} |-> blocks[q]]
  /\ UNCHANGED <<ready, ret>>

Next ==
  \/ Construct
  \/ \E size \in Sizes : Grant(size) \/ Refuse(size)
  \/ \E p \in DOMAIN blocks : Release(p)

Spec == Init /\ [][Next]_vars

=============================================================================
