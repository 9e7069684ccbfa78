----------------------------- MODULE HeapProofs -----------------------------
(***************************************************************************)
(* The allocator keeps its list consistent for every heap, header size and *)
(* set of request sizes, and it implements AbstractHeap.  The heap also    *)
(* survives the frames that arrive in the middle of malloc and free, and   *)
(* malloc overlooks no room because of them, however many buffers the      *)
(* handler holds.                                                          *)
(***************************************************************************)
EXTENDS HeapPreempted, SequenceTheorems, TLAPS

-----------------------------------------------------------------------------
(* MemoryManager: calls that nothing interrupts                            *)

(* A list is a function from header addresses to headers. *)
IsList(h) == DOMAIN h \subseteq HeapStart..HeapEnd /\ h \in [DOMAIN h -> Chunk]

(* The lists h and g have the same allocated chunks. *)
SameAllocated(h, g) ==
  /\ \A d \in DOMAIN h : h[d].allocated =>
       d \in DOMAIN g /\ g[d].allocated /\ g[d].size = h[d].size
  /\ \A d \in DOMAIN g : g[d].allocated => d \in DOMAIN h /\ h[d].allocated

(* No free chunk outside X is followed by a free chunk. *)
CoalescedBut(h, X) ==
  \A d \in DOMAIN h \ X :
    ~h[d].allocated /\ h[d].next # 0 => h[h[d].next].allocated

-----------------------------------------------------------------------------
(* A header of a list has the fields of a header. *)
LEMMA HeaderTypes ==
  ASSUME NEW h, IsList(h), NEW c \in DOMAIN h
  PROVE  /\ c \in Nat /\ c # 0 /\ HeapStart <= c /\ c <= HeapEnd
         /\ h[c] \in Chunk
         /\ h[c].next \in Nat /\ h[c].prev \in Nat /\ h[c].size \in Nat
         /\ h[c].allocated \in BOOLEAN
         /\ ChunkEnd(h, c) \in Nat
         /\ c < ChunkEnd(h, c)
<1>1. c \in Nat /\ c # 0 /\ HeapStart <= c /\ c <= HeapEnd
  BY HeapAssumption DEF IsList, HeapEnd
<1>2. /\ h[c] \in Chunk
      /\ h[c].next \in Nat /\ h[c].prev \in Nat /\ h[c].size \in Nat
      /\ h[c].allocated \in BOOLEAN
  BY DEF IsList, Chunk
<1> QED BY <1>1, <1>2, HeapAssumption DEF ChunkEnd

(* g is h with the allocated flag of chunk c set to b. *)
MarkedAs(g, h, c, b) ==
  /\ DOMAIN g = DOMAIN h
  /\ \A d \in DOMAIN h :
       /\ g[d].allocated = IF d = c THEN b ELSE h[d].allocated
       /\ g[d].next = h[d].next
       /\ g[d].prev = h[d].prev
       /\ g[d].size = h[d].size

(* Setting the allocated flag of a chunk leaves the list well formed. *)
LEMMA MarkFacts ==
  ASSUME NEW h, IsList(h), WellFormed(h), NEW c \in DOMAIN h, NEW b \in BOOLEAN
  PROVE  /\ MarkedAs(Mark(h, c, b), h, c, b)
         /\ IsList(Mark(h, c, b))
         /\ WellFormed(Mark(h, c, b))
<1> DEFINE g == Mark(h, c, b)
<1>1. DOMAIN g = DOMAIN h
  BY DEF Mark, IsList
<1>2. ASSUME NEW d \in DOMAIN h
      PROVE  /\ g[d] \in Chunk
             /\ g[d].allocated = IF d = c THEN b ELSE h[d].allocated
             /\ g[d].next = h[d].next
             /\ g[d].prev = h[d].prev
             /\ g[d].size = h[d].size
  <2>1. h[d] \in Chunk BY DEF IsList
  <2>2. CASE d = c
    BY <2>1, <2>2 DEF Mark, Chunk, IsList
  <2>3. CASE d # c
    BY <2>1, <2>3 DEF Mark, Chunk, IsList
  <2> QED BY <2>2, <2>3
<1>3. IsList(g)
  <2>1. g = [d \in DOMAIN h |-> g[d]]
    BY <1>1 DEF Mark
  <2> QED BY <1>1, <1>2, <2>1 DEF IsList
<1>4. WellFormed(g)
  <2> HIDE DEF g
  <2>1. \A d \in DOMAIN h : ChunkEnd(g, d) = ChunkEnd(h, d)
    BY <1>2 DEF ChunkEnd
  <2>2. \A d \in DOMAIN h : LinkedForward(g, d)
    BY <1>1, <1>2, <2>1 DEF LinkedForward, WellFormed
  <2>3. \A d \in DOMAIN h : LinkedBack(g, d)
    BY <1>1, <1>2, <2>1 DEF LinkedBack, WellFormed
  <2> QED BY <1>1, <2>1, <2>2, <2>3 DEF WellFormed
<1> HIDE DEF g
<1>5. MarkedAs(g, h, c, b) BY <1>1, <1>2 DEF MarkedAs
<1> QED BY <1>3, <1>4, <1>5 DEF g

-----------------------------------------------------------------------------
(* malloc: cutting a chunk that is larger than size bytes, a header and a  *)
(* byte.                                                                   *)
(* g is h with the chunk c cut down to size bytes and a new chunk at temp. *)
CutAt(g, h, c, size, temp) ==
  /\ temp \notin DOMAIN h
  /\ temp \in Nat \ {0}
  /\ DOMAIN g = DOMAIN h \cup {temp}
  /\ g[temp].next = h[c].next /\ g[temp].prev = c /\ ~g[temp].allocated
  /\ g[temp].size = h[c].size - size - ChunkHeader
  /\ g[c].size = size /\ g[c].next = temp
  /\ g[c].prev = h[c].prev /\ g[c].allocated = h[c].allocated
  /\ \A d \in DOMAIN h \ {c} :
       /\ g[d].size = h[d].size
       /\ g[d].next = h[d].next
       /\ g[d].allocated = h[d].allocated
       /\ g[d].prev = IF d = h[c].next THEN temp ELSE h[d].prev

(* The new chunk is new, and the headers change only as malloc assigns.    *)
LEMMA SplitFields ==
  ASSUME NEW h, IsList(h), WellFormed(h), NEW c \in DOMAIN h, NEW size \in Nat,
         h[c].size >= size + ChunkHeader + 1
  PROVE  /\ CutAt(Split(h, c, size), h, c, size, c + ChunkHeader + size)
         /\ IsList(Split(h, c, size))
<1> DEFINE temp == c + ChunkHeader + size
           g == Split(h, c, size)
<1>1. /\ c \in Nat /\ c # 0 /\ HeapStart <= c
      /\ h[c] \in Chunk /\ h[c].next \in Nat /\ h[c].prev \in Nat
      /\ h[c].size \in Nat /\ h[c].allocated \in BOOLEAN
      /\ HeapStart \in Nat \ {0} /\ ChunkHeader \in Nat \ {0} /\ HeapSize \in Nat
  BY HeaderTypes, HeapAssumption
<1>2. temp \in Nat \ {0} /\ c < temp /\ temp < ChunkEnd(h, c)
  BY <1>1 DEF ChunkEnd
<1>3. temp \notin DOMAIN h
  <2>1. ASSUME temp \in DOMAIN h PROVE ChunkEnd(h, c) <= temp
    BY <1>2, <2>1 DEF WellFormed
  <2>2. ChunkEnd(h, c) \in Nat BY <1>1 DEF ChunkEnd
  <2> HIDE DEF temp
  <2> QED BY <2>1, <2>2, <1>2
<1>4. temp \in HeapStart..HeapEnd
  <2>1. ChunkEnd(h, c) <= HeapEnd BY DEF WellFormed, LinkedForward
  <2> QED BY <1>1, <1>2, <2>1 DEF HeapEnd, ChunkEnd
<1>5. DOMAIN g = DOMAIN h \cup {temp}
  BY DEF Split
<1>6. g[temp] = [next |-> h[c].next, prev |-> c, allocated |-> FALSE,
                 size |-> h[c].size - size - ChunkHeader]
  BY <1>3 DEF Split
<1>7. g[temp] \in Chunk
  BY <1>6, <1>1 DEF Chunk
<1>8. g[c] = [h[c] EXCEPT !.size = size, !.next = temp]
  BY DEF Split
<1>9. /\ g[c].size = size /\ g[c].next = temp
      /\ g[c].prev = h[c].prev /\ g[c].allocated = h[c].allocated
      /\ g[c] \in Chunk
  <2> HIDE DEF g
  <2> QED BY <1>8, <1>1, <1>2, Zenon DEF Chunk
<1>10. ASSUME NEW d \in DOMAIN h \ {c}
       PROVE  /\ g[d] \in Chunk
              /\ g[d].size = h[d].size
              /\ g[d].next = h[d].next
              /\ g[d].allocated = h[d].allocated
              /\ g[d].prev = IF d = h[c].next THEN temp ELSE h[d].prev
  <2>1. h[d] \in Chunk BY DEF IsList
  <2>2. CASE d = h[c].next
    <3>1. g[d] = [h[d] EXCEPT !.prev = temp] BY <2>2, <1>3 DEF Split
    <3> HIDE DEF g
    <3> QED BY <3>1, <2>1, <2>2, <1>2 DEF Chunk
  <2>3. CASE d # h[c].next
    <3>1. g[d] = h[d] BY <2>3, <1>3 DEF Split
    <3> HIDE DEF g
    <3> QED BY <3>1, <2>1, <2>3
  <2> QED BY <2>2, <2>3
<1>11. IsList(g)
  <2>1. g = [d \in DOMAIN g |-> g[d]]
    BY <1>5 DEF Split
  <2>2. DOMAIN h \subseteq HeapStart..HeapEnd BY DEF IsList
  <2> HIDE DEF g, temp
  <2>3. \A d \in DOMAIN g : g[d] \in Chunk
    BY <1>5, <1>7, <1>9, <1>10
  <2> QED BY <2>1, <2>2, <2>3, <1>4, <1>5 DEF IsList
<1> HIDE DEF g, temp
<1>12. QED
  <2>1. CutAt(g, h, c, size, temp)
    BY <1>2, <1>3, <1>5, <1>6, <1>9, <1>10 DEF CutAt
  <2> QED BY <2>1, <1>11 DEF g, temp

(* The list stays well formed. *)
LEMMA SplitWellFormed ==
  ASSUME NEW h, IsList(h), WellFormed(h), NEW c \in DOMAIN h, NEW size \in Nat,
         h[c].size >= size + ChunkHeader + 1
  PROVE  WellFormed(Split(h, c, size))
<1> DEFINE temp == c + ChunkHeader + size
           g == Split(h, c, size)
           after == h[c].next
<1>1. /\ c \in Nat /\ c # 0 /\ HeapStart <= c
      /\ h[c].next \in Nat /\ h[c].size \in Nat
      /\ ChunkHeader \in Nat \ {0} /\ HeapStart \in Nat \ {0} /\ HeapSize \in Nat
      /\ HeapEnd \in Nat
  BY HeaderTypes, HeapAssumption DEF HeapEnd
<1>2. /\ temp \notin DOMAIN h
      /\ temp \in Nat \ {0}
      /\ DOMAIN g = DOMAIN h \cup {temp}
      /\ g[temp].next = after /\ g[temp].prev = c
      /\ g[temp].size = h[c].size - size - ChunkHeader
      /\ g[c].size = size /\ g[c].next = temp /\ g[c].prev = h[c].prev
  <2>1. CutAt(g, h, c, size, temp) BY SplitFields
  <2> HIDE DEF g, temp
  <2> QED BY <2>1 DEF CutAt
<1>3. \A d \in DOMAIN h \ {c} :
        /\ g[d].size = h[d].size
        /\ g[d].next = h[d].next
        /\ g[d].prev = IF d = after THEN temp ELSE h[d].prev
  <2>1. CutAt(g, h, c, size, temp) BY SplitFields
  <2> HIDE DEF g, temp
  <2> QED BY <2>1 DEF CutAt
<1>4. \A d \in DOMAIN h : /\ d \in Nat /\ d # 0 /\ ChunkEnd(h, d) \in Nat
                         /\ d < ChunkEnd(h, d)
                         /\ h[d].next \in Nat /\ h[d].prev \in Nat
  BY HeaderTypes
<1>5. /\ ChunkEnd(g, temp) = ChunkEnd(h, c)
      /\ ChunkEnd(g, c) = temp
      /\ c < temp /\ temp < ChunkEnd(h, c)
  <2> HIDE DEF g
  <2> QED BY <1>1, <1>2 DEF ChunkEnd
<1>6. \A d \in DOMAIN h \ {c} : ChunkEnd(g, d) = ChunkEnd(h, d)
  BY <1>3 DEF ChunkEnd
<1>7. \A d \in DOMAIN h : LinkedForward(h, d) /\ LinkedBack(h, d)
  BY DEF WellFormed
<1>8. \A d, e \in DOMAIN h : d < e => ChunkEnd(h, d) <= e
  BY DEF WellFormed
<1>9. /\ ChunkEnd(h, c) <= HeapEnd
      /\ after = (IF ChunkEnd(h, c) = HeapEnd THEN 0 ELSE ChunkEnd(h, c))
      /\ after # 0 => after \in DOMAIN h /\ h[after].prev = c
  BY <1>7 DEF LinkedForward
<1> HIDE DEF g, temp
<1>10. ASSUME NEW d \in DOMAIN g PROVE LinkedForward(g, d)
  <2>1. CASE d = temp
    <3>1. after # 0 => after \in DOMAIN g /\ g[after].prev = temp
      BY <1>2, <1>3, <1>4, <1>5, <1>9
    <3> QED BY <2>1, <3>1, <1>2, <1>5, <1>9 DEF LinkedForward
  <2>2. CASE d = c
    BY <2>2, <1>1, <1>2, <1>5, <1>9 DEF LinkedForward
  <2>3. CASE d \in DOMAIN h \ {c}
    <3>1. LinkedForward(h, d) BY <2>3, <1>7
    <3>2. h[d].next # after \/ h[d].next = 0
      BY <2>3, <3>1, <1>9 DEF LinkedForward
    <3>3. ASSUME h[d].next # 0
          PROVE  h[d].next \in DOMAIN g /\ g[h[d].next].prev = d
      <4>1. h[d].next \in DOMAIN h /\ h[h[d].next].prev = d
        BY <3>1, <3>3 DEF LinkedForward
      <4>2. CASE h[d].next = c
        BY <4>1, <4>2, <1>2
      <4>3. CASE h[d].next # c
        BY <4>1, <4>3, <3>2, <3>3, <1>2, <1>3
      <4> QED BY <4>2, <4>3
    <3> QED BY <2>3, <3>1, <3>3, <1>3, <1>6 DEF LinkedForward
  <2> QED BY <2>1, <2>2, <2>3, <1>2
<1>11. ASSUME NEW d \in DOMAIN g PROVE LinkedBack(g, d)
  <2>1. CASE d = temp
    BY <2>1, <1>1, <1>2, <1>5 DEF LinkedBack
  <2>2. CASE d = c
    <3>1. LinkedBack(h, c) BY <1>7
    <3>2. h[c].prev # c \/ c = HeapStart
      BY <3>1, <1>1, <1>4, <1>5, <1>9 DEF LinkedBack
    <3> QED BY <2>2, <3>1, <3>2, <1>2, <1>3 DEF LinkedBack
  <2>3. CASE d \in DOMAIN h \ {c}
    <3>1. LinkedBack(h, d) BY <2>3, <1>7
    <3>2. CASE d = after
      <4>1. d # HeapStart
        BY <2>3, <3>2, <1>1, <1>4, <1>5, <1>9
      <4> QED BY <4>1, <2>3, <3>2, <1>2, <1>3 DEF LinkedBack
    <3>3. CASE d # after
      <4>1. CASE d = HeapStart
        BY <4>1, <2>3, <3>1, <3>3, <1>3 DEF LinkedBack
      <4>2. CASE d # HeapStart
        <5>1. h[d].prev \in DOMAIN h /\ h[h[d].prev].next = d
          BY <3>1, <4>2 DEF LinkedBack
        <5>2. h[d].prev # c BY <5>1, <3>3
        <5> QED BY <5>1, <5>2, <4>2, <2>3, <3>3, <1>2, <1>3 DEF LinkedBack
      <4> QED BY <4>1, <4>2
    <3> QED BY <3>2, <3>3
  <2> QED BY <2>1, <2>2, <2>3, <1>2
<1>12. ASSUME NEW d \in DOMAIN g, NEW e \in DOMAIN g, d < e
       PROVE  ChunkEnd(g, d) <= e
  <2>1. CASE d = temp /\ e # temp
    BY <2>1, <1>12, <1>1, <1>2, <1>4, <1>5, <1>8
  <2>2. CASE d = c /\ e # temp
    BY <2>2, <1>12, <1>1, <1>2, <1>4, <1>5, <1>8
  <2>3. CASE d = c /\ e = temp
    BY <2>3, <1>2, <1>5
  <2>4. CASE d \in DOMAIN h \ {c} /\ e = temp
    BY <2>4, <1>12, <1>1, <1>2, <1>4, <1>5, <1>6, <1>8
  <2>5. CASE d \in DOMAIN h \ {c} /\ e # temp
    BY <2>5, <1>12, <1>2, <1>6, <1>8
  <2>6. d # e BY <1>12, <1>2, <1>4
  <2> QED BY <2>1, <2>2, <2>3, <2>4, <2>5, <2>6, <1>2
<1>13. ASSUME NEW b \in HeapStart..(HeapEnd - 1)
       PROVE  \E d \in DOMAIN g : d <= b /\ b < ChunkEnd(g, d)
  <2>1. PICK d \in DOMAIN h : d <= b /\ b < ChunkEnd(h, d)
    BY DEF WellFormed
  <2>2. CASE d # c
    BY <2>1, <2>2, <1>2, <1>6
  <2>3. CASE d = c /\ b < temp
    BY <2>1, <2>3, <1>2, <1>5
  <2>4. CASE d = c /\ temp <= b
    BY <2>1, <2>4, <1>2, <1>5
  <2> QED BY <2>2, <2>3, <2>4, <1>1, <1>2
<1>14. HeapStart \in DOMAIN g
  BY <1>2 DEF WellFormed
<1>15. WellFormed(g)
  BY <1>10, <1>11, <1>12, <1>13, <1>14 DEF WellFormed
<1> QED BY <1>15 DEF g

-----------------------------------------------------------------------------
(* free: merging a chunk with the chunk behind it.                         *)
(* g is h with the chunk behind c merged into c. *)
JoinedAt(g, h, c) ==
  LET gone == h[c].next IN
  /\ DOMAIN g = DOMAIN h \ {gone}
  /\ gone \in DOMAIN h /\ c # gone /\ h[gone].next # c
  /\ g[c].next = h[gone].next /\ g[c].prev = h[c].prev
  /\ g[c].size = h[c].size + h[gone].size + ChunkHeader
  /\ g[c].allocated = h[c].allocated
  /\ \A d \in DOMAIN h \ {c, gone} :
       /\ g[d].size = h[d].size
       /\ g[d].next = h[d].next
       /\ g[d].allocated = h[d].allocated
       /\ g[d].prev = IF d = h[gone].next THEN c ELSE h[d].prev

(* The headers change only as free assigns.                                *)
LEMMA AbsorbFields ==
  ASSUME NEW h, IsList(h), WellFormed(h), NEW c \in DOMAIN h, h[c].next # 0
  PROVE  /\ JoinedAt(Absorb(h, c), h, c)
         /\ IsList(Absorb(h, c))
<1> DEFINE gone == h[c].next
           after == h[gone].next
           g == Absorb(h, c)
<1>1. gone \in DOMAIN h /\ gone = ChunkEnd(h, c)
  BY DEF WellFormed, LinkedForward
<1>2. /\ c \in Nat /\ c < ChunkEnd(h, c) /\ ChunkEnd(h, c) \in Nat
      /\ h[c] \in Chunk /\ h[c].next \in Nat /\ h[c].prev \in Nat
      /\ h[c].size \in Nat /\ h[c].allocated \in BOOLEAN
      /\ ChunkHeader \in Nat \ {0}
  BY HeaderTypes, HeapAssumption
<1>3. /\ gone \in Nat /\ gone < ChunkEnd(h, gone) /\ ChunkEnd(h, gone) \in Nat
      /\ after \in Nat /\ h[gone].size \in Nat
  BY <1>1, HeaderTypes
<1>4. c # gone
  BY <1>1, <1>2
<1>5. after # c
  <2>1. after = 0 \/ after = ChunkEnd(h, gone)
    BY <1>1 DEF WellFormed, LinkedForward
  <2>2. c # 0 BY HeaderTypes
  <2> QED BY <2>1, <2>2, <1>1, <1>2, <1>3
<1>6. DOMAIN g = DOMAIN h \ {gone}
  BY DEF Absorb
<1>7. g[c] = [h[c] EXCEPT !.size = h[c].size + h[gone].size + ChunkHeader,
                          !.next = after]
  BY <1>4 DEF Absorb
<1>8. /\ g[c].next = after /\ g[c].prev = h[c].prev
      /\ g[c].size = h[c].size + h[gone].size + ChunkHeader
      /\ g[c].allocated = h[c].allocated
      /\ g[c] \in Chunk
  <2> DEFINE sum == h[c].size + h[gone].size + ChunkHeader
  <2>1. sum \in Nat BY <1>2, <1>3
  <2>2. g[c] = [h[c] EXCEPT !.size = sum, !.next = after] BY <1>7
  <2>3. after \in Nat BY <1>3
  <2> HIDE DEF g, after, sum
  <2>4. /\ g[c].next = after /\ g[c].prev = h[c].prev /\ g[c].size = sum
        /\ g[c].allocated = h[c].allocated /\ g[c] \in Chunk
    BY <2>1, <2>2, <2>3, <1>2, Zenon DEF Chunk
  <2> QED BY <2>4 DEF sum
<1>9. ASSUME NEW d \in DOMAIN h \ {c, gone}
      PROVE  /\ g[d] \in Chunk
             /\ g[d].size = h[d].size
             /\ g[d].next = h[d].next
             /\ g[d].allocated = h[d].allocated
             /\ g[d].prev = IF d = after THEN c ELSE h[d].prev
  <2>1. h[d] \in Chunk BY DEF IsList
  <2>2. CASE d = after
    <3>1. g[d] = [h[d] EXCEPT !.prev = c] BY <2>2 DEF Absorb
    <3> HIDE DEF g, after, gone
    <3> QED BY <3>1, <2>1, <2>2, <1>2 DEF Chunk
  <2>3. CASE d # after
    <3>1. g[d] = h[d] BY <2>3 DEF Absorb
    <3> HIDE DEF g, after, gone
    <3> QED BY <3>1, <2>1, <2>3
  <2> QED BY <2>2, <2>3
<1>10. g = [d \in DOMAIN g |-> g[d]]
  BY <1>6 DEF Absorb
<1>11. DOMAIN h \subseteq HeapStart..HeapEnd BY DEF IsList
<1> HIDE DEF g
<1>12. IsList(g)
  BY <1>6, <1>8, <1>9, <1>10, <1>11, <1>4 DEF IsList
<1>13. JoinedAt(g, h, c)
  BY <1>1, <1>4, <1>5, <1>6, <1>8, <1>9 DEF JoinedAt
<1> QED BY <1>12, <1>13 DEF g

(* The list stays well formed. *)
LEMMA AbsorbWellFormed ==
  ASSUME NEW h, IsList(h), WellFormed(h), NEW c \in DOMAIN h, h[c].next # 0
  PROVE  WellFormed(Absorb(h, c))
<1> DEFINE gone == h[c].next
           after == h[gone].next
           g == Absorb(h, c)
<1>1. JoinedAt(g, h, c)
  BY AbsorbFields
<1> HIDE DEF g
<1>2. /\ DOMAIN g = DOMAIN h \ {gone}
      /\ gone \in DOMAIN h /\ c # gone /\ after # c
      /\ g[c].next = after /\ g[c].prev = h[c].prev
      /\ g[c].size = h[c].size + h[gone].size + ChunkHeader
  BY <1>1 DEF JoinedAt
<1>3. \A d \in DOMAIN h \ {c, gone} :
        /\ g[d].size = h[d].size
        /\ g[d].next = h[d].next
        /\ g[d].prev = IF d = after THEN c ELSE h[d].prev
  BY <1>1 DEF JoinedAt
<1>4. \A d \in DOMAIN h : LinkedForward(h, d) /\ LinkedBack(h, d)
  BY DEF WellFormed
<1>5. \A d \in DOMAIN h : /\ d \in Nat /\ d # 0 /\ HeapStart <= d
                         /\ ChunkEnd(h, d) \in Nat /\ d < ChunkEnd(h, d)
                         /\ h[d].next \in Nat /\ h[d].prev \in Nat /\ h[d].size \in Nat
  BY HeaderTypes
<1>6. \A d, e \in DOMAIN h : d < e => ChunkEnd(h, d) <= e
  BY DEF WellFormed
<1>7. /\ HeapStart \in Nat \ {0} /\ ChunkHeader \in Nat \ {0} /\ HeapEnd \in Nat
  BY HeapAssumption DEF HeapEnd
<1>8. /\ gone = ChunkEnd(h, c) /\ h[gone].prev = c
      /\ ChunkEnd(h, gone) <= HeapEnd
      /\ after = (IF ChunkEnd(h, gone) = HeapEnd THEN 0 ELSE ChunkEnd(h, gone))
      /\ after # 0 => after \in DOMAIN h /\ h[after].prev = gone
  BY <1>2, <1>4 DEF LinkedForward
<1>9. ChunkEnd(g, c) = ChunkEnd(h, gone)
  BY <1>2, <1>5, <1>7, <1>8 DEF ChunkEnd
<1>10. \A d \in DOMAIN h \ {c, gone} : ChunkEnd(g, d) = ChunkEnd(h, d)
  BY <1>3 DEF ChunkEnd
<1>11. ASSUME NEW d \in DOMAIN g PROVE LinkedForward(g, d)
  <2>1. CASE d = c
    <3>1. after # 0 => after \in DOMAIN g /\ g[after].prev = c
      BY <1>2, <1>3, <1>5, <1>8
    <3> HIDE DEF after, gone
    <3> QED BY <2>1, <3>1, <1>2, <1>8, <1>9 DEF LinkedForward
  <2>2. CASE d # c
    <3>1. d \in DOMAIN h \ {c, gone} /\ LinkedForward(h, d)
      BY <2>2, <1>2, <1>4
    <3>2. ASSUME h[d].next # 0
          PROVE  h[d].next \in DOMAIN g /\ g[h[d].next].prev = d
      <4>1. h[d].next \in DOMAIN h /\ h[h[d].next].prev = d
        BY <3>1, <3>2 DEF LinkedForward
      <4>2. h[d].next # gone BY <4>1, <1>8, <2>2
      <4>3. h[d].next # after \/ after = 0
        BY <4>1, <3>1, <1>8
      <4>4. CASE h[d].next = c BY <4>1, <4>4, <1>2
      <4>5. CASE h[d].next # c BY <4>1, <4>2, <4>3, <4>5, <3>2, <1>2, <1>3
      <4> QED BY <4>4, <4>5
    <3> HIDE DEF after, gone
    <3> QED BY <3>1, <3>2, <1>3, <1>10 DEF LinkedForward
  <2> QED BY <2>1, <2>2
<1>12. ASSUME NEW d \in DOMAIN g PROVE LinkedBack(g, d)
  <2>1. d \in DOMAIN h /\ d # gone /\ LinkedBack(h, d)
    BY <1>2, <1>4
  <2>2. CASE d = c
    <3>1. c # HeapStart => h[c].prev # gone
      BY <2>1, <2>2, <1>2 DEF LinkedBack
    <3>2. c # HeapStart => h[c].prev \in DOMAIN h \ {c, gone}
      BY <2>1, <2>2, <3>1, <1>2 DEF LinkedBack
    <3> QED BY <2>1, <2>2, <3>2, <1>2, <1>3 DEF LinkedBack
  <2>3. CASE d = after /\ d # c
    <3>1. d # HeapStart BY <2>1, <2>3, <1>2, <1>5, <1>8
    <3>2. g[d].prev = c /\ c \in DOMAIN g /\ g[c].next = d
      BY <2>1, <2>3, <1>2, <1>3
    <3> QED BY <3>1, <3>2 DEF LinkedBack
  <2>4. CASE d # after /\ d # c
    <3>1. g[d].prev = h[d].prev BY <2>1, <2>4, <1>3
    <3>2. ASSUME d # HeapStart PROVE g[d].prev \in DOMAIN g /\ g[g[d].prev].next = d
      <4>1. h[d].prev \in DOMAIN h /\ h[h[d].prev].next = d
        BY <2>1, <3>2 DEF LinkedBack
      <4>2. h[d].prev # gone BY <4>1, <2>4
      <4>3. h[d].prev # c BY <4>1, <2>1
      <4> QED BY <3>1, <4>1, <4>2, <4>3, <1>2, <1>3
    <3>3. d = HeapStart => g[d].prev = 0
      BY <2>1, <3>1 DEF LinkedBack
    <3> QED BY <3>2, <3>3 DEF LinkedBack
  <2> QED BY <2>2, <2>3, <2>4
<1>13. ASSUME NEW d \in DOMAIN g, NEW e \in DOMAIN g, d < e
       PROVE  ChunkEnd(g, d) <= e
  <2>1. d \in DOMAIN h /\ d # gone /\ e \in DOMAIN h /\ e # gone
    BY <1>2
  <2>2. CASE d = c
    <3>1. gone <= e BY <2>1, <2>2, <1>13, <1>6, <1>8
    <3>2. gone < e BY <2>1, <3>1, <1>2, <1>5
    <3> QED BY <2>1, <2>2, <3>2, <1>2, <1>6, <1>9
  <2>3. CASE d # c
    BY <2>1, <2>3, <1>13, <1>6, <1>10
  <2> QED BY <2>2, <2>3
<1>14. ASSUME NEW b \in HeapStart..(HeapEnd - 1)
       PROVE  \E d \in DOMAIN g : d <= b /\ b < ChunkEnd(g, d)
  <2>1. PICK d \in DOMAIN h : d <= b /\ b < ChunkEnd(h, d)
    BY DEF WellFormed
  <2>2. CASE d \notin {c, gone}
    BY <2>1, <2>2, <1>2, <1>10
  <2>3. CASE d \in {c, gone}
    <3>1. c \in DOMAIN g BY <1>2
    <3>2. c <= b /\ b < ChunkEnd(g, c)
      BY <2>1, <2>3, <1>2, <1>5, <1>7, <1>8, <1>9
    <3> QED BY <3>1, <3>2
  <2> QED BY <2>2, <2>3
<1>15. HeapStart \in DOMAIN g
  <2>1. gone # HeapStart BY <1>2, <1>5, <1>8
  <2> QED BY <2>1, <1>2 DEF WellFormed
<1>16. WellFormed(g)
  BY <1>11, <1>12, <1>13, <1>14, <1>15 DEF WellFormed
<1> QED BY <1>16 DEF g

(* Merging two free chunks leaves the allocated ones as they are.          *)
LEMMA AbsorbKeepsAllocated ==
  ASSUME NEW h, IsList(h), WellFormed(h), NEW c \in DOMAIN h, h[c].next # 0,
         ~h[c].allocated, ~h[h[c].next].allocated
  PROVE  SameAllocated(h, Absorb(h, c))
<1> DEFINE g == Absorb(h, c)
<1>1. JoinedAt(g, h, c) BY AbsorbFields
<1> HIDE DEF g
<1>2. SameAllocated(h, g)
  BY <1>1 DEF JoinedAt, SameAllocated
<1> QED BY <1>2 DEF g

(* Merging a chunk with the one behind it removes one of two chunks that   *)
(* may have a free chunk behind them.                                      *)
LEMMA AbsorbCoalesced ==
  ASSUME NEW h, IsList(h), WellFormed(h), NEW c \in DOMAIN h, h[c].next # 0,
         CoalescedBut(h, {c, h[c].next})
  PROVE  CoalescedBut(Absorb(h, c), {c})
<1> DEFINE g == Absorb(h, c)
           gone == h[c].next
<1>1. JoinedAt(g, h, c) BY AbsorbFields
<1> HIDE DEF g
<1>2. SUFFICES ASSUME NEW d \in DOMAIN g \ {c}, ~g[d].allocated, g[d].next # 0
               PROVE  g[g[d].next].allocated
  BY DEF CoalescedBut, g
<1>3. /\ d \in DOMAIN h \ {c, gone} /\ g[d].next = h[d].next
      /\ ~h[d].allocated /\ h[gone].prev = c
  <2>1. gone \in DOMAIN h /\ h[gone].prev = c
    BY DEF WellFormed, LinkedForward
  <2> QED BY <1>1, <1>2, <2>1 DEF JoinedAt
<1>4. /\ h[d].next \in DOMAIN h /\ h[h[d].next].prev = d
      /\ h[h[d].next].allocated
  BY <1>2, <1>3 DEF WellFormed, LinkedForward, CoalescedBut
<1>5. h[d].next # gone
  BY <1>3, <1>4
<1> QED BY <1>1, <1>3, <1>4, <1>5 DEF JoinedAt

(* free returns a consistent, coalesced list with all the allocated chunks *)
(* but the one it was given.                                               *)
LEMMA FreedFacts ==
  ASSUME NEW h, IsList(h), WellFormed(h), CoalescedBut(h, {}), NEW c \in DOMAIN h
  PROVE  /\ IsList(Freed(h, c))
         /\ WellFormed(Freed(h, c))
         /\ CoalescedBut(Freed(h, c), {})
         /\ SameAllocated(Mark(h, c, FALSE), Freed(h, c))
<1> DEFINE h0 == Mark(h, c, FALSE)
           p == h0[c].prev
           h1 == MergePrev(h0, c)
           c1 == IF FreeNeighbour(h0, p) THEN p ELSE c
           n == h1[c1].next
           h2 == MergeNext(h1, c1)
<1>1. /\ DOMAIN h0 = DOMAIN h /\ IsList(h0) /\ WellFormed(h0)
      /\ \A d \in DOMAIN h : /\ h0[d].next = h[d].next
                             /\ h0[d].allocated = IF d = c THEN FALSE ELSE h[d].allocated
  <2>1. IsList(h0) /\ WellFormed(h0) /\ MarkedAs(h0, h, c, FALSE)
    BY MarkFacts, Zenon
  <2> HIDE DEF h0
  <2> QED BY <2>1, Zenon DEF MarkedAs
<1>2. CoalescedBut(h0, {c, p})
  <2> HIDE DEF h0
  <2> SUFFICES ASSUME NEW d \in DOMAIN h0 \ {c, p}, ~h0[d].allocated, h0[d].next # 0
               PROVE  h0[h0[d].next].allocated
    BY DEF CoalescedBut
  <2>1. h0[d].next \in DOMAIN h0 /\ h0[h0[d].next].prev = d
    BY <1>1 DEF WellFormed, LinkedForward
  <2>2. h0[d].next # c BY <2>1
  <2> QED BY <1>1, <2>1, <2>2, Zenon DEF CoalescedBut
<1>3. /\ IsList(h1) /\ WellFormed(h1) /\ CoalescedBut(h1, {c1})
      /\ c1 \in DOMAIN h1 /\ ~h1[c1].allocated
      /\ SameAllocated(h0, h1)
  <2> HIDE DEF h0
  <2>1. CASE FreeNeighbour(h0, p)
    <3>1. h1 = Absorb(h0, p) /\ c1 = p /\ p # 0 /\ ~h0[p].allocated
      BY <2>1 DEF MergePrev, FreeNeighbour
    <3>2. p \in DOMAIN h0 /\ h0[p].next = c
      BY <1>1, <3>1 DEF WellFormed, LinkedBack
    <3>3. c # 0 BY HeaderTypes
    <3>4. IsList(Absorb(h0, p)) /\ WellFormed(Absorb(h0, p)) /\ JoinedAt(Absorb(h0, p), h0, p)
      BY <1>1, <3>2, <3>3, AbsorbFields, AbsorbWellFormed
    <3>5. CoalescedBut(Absorb(h0, p), {p})
      BY <1>1, <1>2, <3>2, <3>3, AbsorbCoalesced
    <3>6. SameAllocated(h0, Absorb(h0, p))
      BY <1>1, <3>1, <3>2, <3>3, AbsorbKeepsAllocated, Zenon
    <3> QED BY <3>1, <3>2, <3>4, <3>5, <3>6, Zenon DEF JoinedAt
  <2>2. CASE ~FreeNeighbour(h0, p)
    <3>1. h1 = h0 /\ c1 = c
      BY <2>2 DEF MergePrev
    <3>2. CoalescedBut(h0, {c})
      <4>1. p = 0 \/ h0[p].allocated BY <2>2 DEF FreeNeighbour
      <4>2. 0 \notin DOMAIN h0 BY <1>1, HeaderTypes
      <4> QED BY <1>2, <4>1, <4>2 DEF CoalescedBut
    <3>3. SameAllocated(h0, h0) BY DEF SameAllocated
    <3> QED BY <1>1, <3>1, <3>2, <3>3, Zenon
  <2> QED BY <2>1, <2>2
<1>6. h2 = Freed(h, c)
  BY DEF Freed
<1> HIDE DEF h0, h1, c1
<1>4. /\ IsList(h2) /\ WellFormed(h2) /\ CoalescedBut(h2, {})
      /\ SameAllocated(h1, h2)
  <2>1. CASE FreeNeighbour(h1, n)
    <3>1. h2 = Absorb(h1, c1) /\ n # 0 /\ ~h1[n].allocated
      BY <2>1 DEF MergeNext, FreeNeighbour
    <3>2. /\ IsList(h2) /\ WellFormed(h2) /\ JoinedAt(h2, h1, c1)
          /\ SameAllocated(h1, h2)
      BY <1>3, <3>1, AbsorbFields, AbsorbWellFormed, AbsorbKeepsAllocated
    <3>3. CoalescedBut(h1, {c1, h1[c1].next})
      BY <1>3 DEF CoalescedBut
    <3>4. CoalescedBut(h2, {c1})
      BY <1>3, <3>1, <3>3, AbsorbCoalesced
    <3> HIDE DEF h2
    <3>5. n \in DOMAIN h1 \ {c1} BY <3>2 DEF JoinedAt
    <3>6. h1[n].next # 0 =>
            h1[n].next \in DOMAIN h1 \ {c1, n} /\ h1[h1[n].next].allocated
      <4> SUFFICES ASSUME h1[n].next # 0
                   PROVE  h1[n].next \in DOMAIN h1 \ {c1, n} /\ h1[h1[n].next].allocated
        OBVIOUS
      <4>1. h1[n].next \in DOMAIN h1
        BY <1>3, <3>5 DEF WellFormed, LinkedForward
      <4>2. h1[h1[n].next].allocated
        BY <1>3, <3>1, <3>5 DEF CoalescedBut
      <4> QED BY <4>1, <4>2, <1>3, <3>1
    <3>7. h2[c1].next # 0 => h2[h2[c1].next].allocated
      BY <3>2, <3>6 DEF JoinedAt
    <3> QED BY <3>2, <3>4, <3>7 DEF CoalescedBut
  <2>2. CASE ~FreeNeighbour(h1, n)
    <3>1. h2 = h1 BY <2>2 DEF MergeNext
    <3>2. CoalescedBut(h1, {})
      BY <1>3, <2>2 DEF CoalescedBut, FreeNeighbour
    <3>3. SameAllocated(h1, h1) BY DEF SameAllocated
    <3> QED BY <1>3, <3>1, <3>2, <3>3
  <2> QED BY <2>1, <2>2
<1>5. SameAllocated(h0, h2)
  BY <1>3, <1>4 DEF SameAllocated
<1>7. h0 = Mark(h, c, FALSE)
  BY DEF h0
<1> HIDE DEF h2
<1> QED BY <1>4, <1>5, <1>6, <1>7, Zenon

-----------------------------------------------------------------------------
(* The inductive invariant: none of its parts is inductive alone.  A list  *)
(* stays well formed only because callers free what they own, the owners   *)
(* are known only because a chunk keeps its place, and the header types    *)
(* hold only because sizes add up.                                         *)
Inv == TypeOK /\ ListConsistent /\ Coalesced /\ OwnersKnown

LEMMA InvInit == Init => Inv
<1> SUFFICES ASSUME Init PROVE Inv
  OBVIOUS
<1>1. /\ active = FALSE /\ ret = 0
      /\ DOMAIN chunks = {} /\ DOMAIN owned = {}
      /\ chunks \in [{} -> Chunk] /\ owned \in [{} -> Nat]
  BY DEF Init
<1>2. TypeOK
  BY <1>1, Zenon DEF TypeOK
<1>3. ListConsistent /\ Coalesced /\ OwnersKnown
  BY <1>1 DEF ListConsistent, Coalesced, OwnersKnown
<1> QED BY <1>2, <1>3 DEF Inv

(* A list with a chunk has been made by the constructor. *)
LEMMA ListThere ==
  ASSUME Inv, NEW c \in DOMAIN chunks
  PROVE  /\ active /\ HeapSize >= ChunkHeader
         /\ WellFormed(chunks) /\ IsList(chunks) /\ CoalescedBut(chunks, {})
BY DEF Inv, ListConsistent, TypeOK, IsList, Coalesced, CoalescedBut

LEMMA InvConstruct ==
  ASSUME Inv, Construct
  PROVE  Inv'
<1>1. /\ DOMAIN chunks = {} /\ DOMAIN owned = {} /\ active' = TRUE
      /\ owned' = owned /\ ret' = ret
  <2>1. DOMAIN chunks = {} BY DEF Inv, ListConsistent, Construct
  <2> QED BY <2>1, Zenon DEF Inv, OwnersKnown, Construct
<1>2. owned' \in [{} -> Nat] /\ ret' \in Nat /\ DOMAIN owned' = {}
  BY <1>1 DEF Inv, TypeOK
<1>3. CASE HeapSize < ChunkHeader
  <2>1. DOMAIN chunks' = {} /\ chunks' \in [{} -> Chunk]
    BY <1>3, HeapAssumption DEF Construct
  <2>2. ~(HeapSize >= ChunkHeader) BY <1>3, HeapAssumption
  <2> QED BY <1>1, <1>2, <2>1, <2>2
          DEF Inv, TypeOK, ListConsistent, Coalesced, OwnersKnown
<1>4. CASE HeapSize >= ChunkHeader
  <2> DEFINE only == [next |-> 0, prev |-> 0, allocated |-> FALSE,
                      size |-> HeapSize - ChunkHeader]
  <2>1. chunks' = [a \in {HeapStart} |-> only]
    BY <1>4 DEF Construct
  <2>2. HeapSize - ChunkHeader \in Nat BY <1>4, HeapAssumption
  <2>3. only \in Chunk BY <2>2 DEF Chunk
  <2>4. /\ only.next = 0 /\ only.prev = 0 /\ only.allocated = FALSE
        /\ only.size = HeapSize - ChunkHeader
    OBVIOUS
  <2> HIDE DEF only
  <2>5. /\ DOMAIN chunks' = {HeapStart} /\ chunks' \in [{HeapStart} -> Chunk]
        /\ chunks'[HeapStart] = only
    BY <2>1, <2>3
  <2>6. ChunkEnd(chunks', HeapStart) = HeapEnd
    BY <2>4, <2>5, HeapAssumption DEF ChunkEnd, HeapEnd
  <2>7. WellFormed(chunks')
    <3>1. LinkedForward(chunks', HeapStart) /\ LinkedBack(chunks', HeapStart)
      BY <2>4, <2>5, <2>6, HeapAssumption DEF LinkedForward, LinkedBack, HeapEnd
    <3>2. \A b \in HeapStart..(HeapEnd - 1) :
            HeapStart <= b /\ b < ChunkEnd(chunks', HeapStart)
      BY <2>6, HeapAssumption DEF HeapEnd
    <3> QED BY <2>5, <3>1, <3>2, HeapAssumption DEF WellFormed
  <2>8. HeapStart \in HeapStart..HeapEnd BY HeapAssumption DEF HeapEnd
  <2>9. TypeOK'
    BY <1>1, <1>2, <2>5, <2>8 DEF TypeOK
  <2>10. Coalesced' /\ OwnersKnown'
    BY <1>1, <2>4, <2>5 DEF Coalesced, OwnersKnown
  <2>11. ListConsistent'
    BY <1>1, <1>4, <2>7 DEF ListConsistent
  <2> QED BY <2>9, <2>10, <2>11 DEF Inv
<1> QED BY <1>3, <1>4, HeapAssumption

(* What malloc makes of chunk c when it serves size bytes from it. *)
Given(c, size) ==
  Mark(IF Splits(c, size) THEN Split(chunks, c, size) ELSE chunks, c, TRUE)

(* g is h with the free chunk c given away for size bytes. *)
GivenAway(g, h, c, size) ==
  /\ DOMAIN h \subseteq DOMAIN g
  /\ c \in DOMAIN h /\ ~h[c].allocated
  /\ g[c].allocated /\ size <= g[c].size /\ g[c].size <= h[c].size
  /\ \A d \in DOMAIN h \ {c} :
       g[d].size = h[d].size /\ (g[d].allocated <=> h[d].allocated)
  /\ \A d \in DOMAIN g \ {c} : g[d].allocated => d \in DOMAIN h

LEMMA GivenFacts ==
  ASSUME Inv, NEW size \in Nat, NEW c \in Fits(size)
  PROVE  /\ GivenAway(Given(c, size), chunks, c, size)
         /\ IsList(Given(c, size))
         /\ WellFormed(Given(c, size))
         /\ CoalescedBut(Given(c, size), {})
<1> DEFINE h == IF Splits(c, size) THEN Split(chunks, c, size) ELSE chunks
           g == Mark(h, c, TRUE)
           temp == c + ChunkHeader + size
<1>1. /\ c \in DOMAIN chunks /\ chunks[c].size > size /\ ~chunks[c].allocated
      /\ IsList(chunks) /\ WellFormed(chunks) /\ CoalescedBut(chunks, {})
  BY ListThere DEF Fits
<1>2. chunks[c].size \in Nat /\ c \in Nat
  BY <1>1, HeaderTypes
<1>3. /\ IsList(h) /\ WellFormed(h) /\ c \in DOMAIN h
      /\ DOMAIN chunks \subseteq DOMAIN h
      /\ size <= h[c].size /\ h[c].size <= chunks[c].size
      /\ \A d \in DOMAIN chunks \ {c} :
           h[d].size = chunks[d].size /\ (h[d].allocated <=> chunks[d].allocated)
      /\ \A d \in DOMAIN h \ {c} : h[d].allocated => d \in DOMAIN chunks
      /\ CoalescedBut(h, {c})
  <2>1. CASE Splits(c, size)
    <3>1. h = Split(chunks, c, size) BY <2>1
    <3>2. chunks[c].size >= size + ChunkHeader + 1 BY <2>1 DEF Splits
    <3>3. CutAt(h, chunks, c, size, temp) /\ IsList(h) /\ WellFormed(h)
      BY <1>1, <3>1, <3>2, SplitFields, SplitWellFormed
    <3> HIDE DEF h, temp
    <3>4. CoalescedBut(h, {c})
      <4> SUFFICES ASSUME NEW d \in DOMAIN h \ {c}, ~h[d].allocated, h[d].next # 0
                   PROVE  h[h[d].next].allocated
        BY DEF CoalescedBut
      <4>1. CASE d = temp
        <5>1. chunks[c].next # 0 BY <4>1, <3>3 DEF CutAt
        <5>2. chunks[c].next \in DOMAIN chunks /\ chunks[chunks[c].next].prev = c
          BY <1>1, <5>1 DEF WellFormed, LinkedForward
        <5>3. chunks[chunks[c].next].allocated
          BY <1>1, <5>1 DEF CoalescedBut
        <5> QED BY <1>1, <4>1, <5>2, <5>3, <3>3 DEF CutAt
      <4>2. CASE d # temp
        <5>1. d \in DOMAIN chunks \ {c} /\ ~chunks[d].allocated
              /\ h[d].next = chunks[d].next
          BY <4>2, <3>3 DEF CutAt
        <5>2. chunks[d].next \in DOMAIN chunks /\ chunks[chunks[d].next].allocated
          BY <1>1, <5>1 DEF WellFormed, LinkedForward, CoalescedBut
        <5> QED BY <1>1, <5>1, <5>2, <3>3 DEF CutAt
      <4> QED BY <4>1, <4>2
    <3> QED BY <1>1, <1>2, <3>2, <3>3, <3>4, HeapAssumption DEF CutAt
  <2>2. CASE ~Splits(c, size)
    <3>1. h = chunks BY <2>2
    <3> HIDE DEF h
    <3> QED BY <1>1, <1>2, <3>1 DEF CoalescedBut
  <2> QED BY <2>1, <2>2
<1> HIDE DEF h
<1>4. IsList(g) /\ WellFormed(g) /\ MarkedAs(g, h, c, TRUE)
  BY <1>3, MarkFacts, Zenon
<1> HIDE DEF g
<1>5. GivenAway(g, chunks, c, size)
  BY <1>1, <1>3, <1>4, Zenon DEF GivenAway, MarkedAs
<1>6. CoalescedBut(g, {})
  <2> SUFFICES ASSUME NEW d \in DOMAIN g, ~g[d].allocated, g[d].next # 0
               PROVE  g[g[d].next].allocated
    BY DEF CoalescedBut
  <2>1. d \in DOMAIN h \ {c} /\ ~h[d].allocated /\ g[d].next = h[d].next
    BY <1>4, Zenon DEF MarkedAs
  <2>2. h[d].next \in DOMAIN h /\ h[h[d].next].allocated
    BY <1>3, <2>1 DEF WellFormed, LinkedForward, CoalescedBut
  <2> QED BY <1>4, <2>1, <2>2, Zenon DEF MarkedAs
<1> QED BY <1>4, <1>5, <1>6, Zenon DEF g, h, Given

LEMMA InvMalloc ==
  ASSUME Inv, NEW size \in Sizes, Malloc(size)
  PROVE  Inv'
<1>1. CASE MallocFails(size)
  BY <1>1 DEF Inv, MallocFails, TypeOK, ListConsistent, Coalesced, OwnersKnown
<1>2. CASE MallocReturns(size)
  <2>1. PICK c \in Fits(size) :
          /\ chunks' = Given(c, size)
          /\ ret' = c + ChunkHeader
          /\ owned' = [q \in DOMAIN owned \cup {c + ChunkHeader} |->
                         IF q = c + ChunkHeader THEN size ELSE owned[q]]
    BY <1>2, Zenon DEF MallocReturns, FirstFit, Given
  <2>2. size \in Nat BY HeapAssumption
  <2>3. /\ GivenAway(chunks', chunks, c, size)
        /\ IsList(chunks') /\ WellFormed(chunks') /\ CoalescedBut(chunks', {})
    BY <2>1, <2>2, GivenFacts
  <2>4. c \in DOMAIN chunks BY DEF Fits
  <2>5. active /\ HeapSize >= ChunkHeader /\ IsList(chunks) /\ WellFormed(chunks)
    BY <2>4, ListThere
  <2>6. active' = active BY <1>2 DEF MallocReturns
  <2>7. /\ c \in Nat /\ HeapStart <= c /\ chunks[c].size \in Nat
        /\ ChunkEnd(chunks, c) <= HeapEnd
        /\ c + ChunkHeader \in HeapStart..HeapEnd
    <3>1. c \in Nat /\ HeapStart <= c /\ chunks[c].size \in Nat
      BY <2>4, <2>5, HeaderTypes
    <3>2. ChunkEnd(chunks, c) <= HeapEnd
      BY <2>4, <2>5 DEF WellFormed, LinkedForward
    <3> QED BY <3>1, <3>2, HeapAssumption DEF ChunkEnd, HeapEnd
  <2>8. TypeOK'
    <3>1. /\ DOMAIN owned' \subseteq HeapStart..HeapEnd
          /\ owned' \in [DOMAIN owned' -> Nat]
      <4>1. DOMAIN owned \subseteq HeapStart..HeapEnd /\ owned \in [DOMAIN owned -> Nat]
        BY DEF Inv, TypeOK
      <4> QED BY <2>1, <2>2, <2>7, <4>1
    <3>2. ret' \in Nat BY <2>1, <2>7, HeapAssumption
    <3>3. active' \in BOOLEAN BY <2>6 DEF Inv, TypeOK
    <3> QED BY <2>3, <3>1, <3>2, <3>3 DEF TypeOK, IsList
  <2>9. ListConsistent' /\ Coalesced'
    BY <2>3, <2>5, <2>6 DEF ListConsistent, Coalesced, CoalescedBut
  <2>10. OwnersKnown'
    <3>1. ASSUME NEW d \in DOMAIN chunks', chunks'[d].allocated
          PROVE  d + ChunkHeader \in DOMAIN owned'
      BY <3>1, <2>1, <2>3 DEF GivenAway, Inv, OwnersKnown
    <3>2. ASSUME NEW p \in DOMAIN owned'
          PROVE  /\ p - ChunkHeader \in DOMAIN chunks'
                 /\ chunks'[p - ChunkHeader].allocated
                 /\ chunks'[p - ChunkHeader].size >= owned'[p]
      <4>1. CASE p = c + ChunkHeader
        <5>1. p - ChunkHeader = c BY <4>1, <2>7, HeapAssumption
        <5>2. chunks'[c].size \in Nat
          BY <2>3, HeaderTypes DEF GivenAway
        <5> QED BY <4>1, <5>1, <5>2, <2>1, <2>2, <2>3 DEF GivenAway
      <4>2. CASE p # c + ChunkHeader
        <5>1. p \in DOMAIN owned /\ owned'[p] = owned[p]
          BY <4>2, <2>1
        <5>2. /\ p - ChunkHeader \in DOMAIN chunks
              /\ chunks[p - ChunkHeader].allocated
              /\ chunks[p - ChunkHeader].size >= owned[p]
          BY <5>1 DEF Inv, OwnersKnown
        <5>3. p - ChunkHeader # c
          BY <5>2, <2>3 DEF GivenAway
        <5> QED BY <5>1, <5>2, <5>3, <2>3 DEF GivenAway
      <4> QED BY <4>1, <4>2
    <3> QED BY <3>1, <3>2 DEF OwnersKnown
  <2> QED BY <2>8, <2>9, <2>10 DEF Inv
<1> QED BY <1>1, <1>2 DEF Malloc

(* The chunk behind a pointer that its owner frees. *)
LEMMA OwnedChunk ==
  ASSUME Inv, NEW p \in DOMAIN owned
  PROVE  /\ p - ChunkHeader \in DOMAIN chunks
         /\ chunks[p - ChunkHeader].allocated
         /\ chunks[p - ChunkHeader].size >= owned[p]
         /\ p \in Nat /\ owned[p] \in Nat
<1>1. p \in Nat /\ owned[p] \in Nat
  BY HeapAssumption DEF Inv, TypeOK, HeapEnd
<1> QED BY <1>1 DEF Inv, OwnersKnown

(* After free the allocated chunks are the others, each with its size. *)
LEMMA FreeFacts ==
  ASSUME Inv, NEW p \in DOMAIN owned, Free(p)
  PROVE  /\ IsList(chunks') /\ WellFormed(chunks') /\ CoalescedBut(chunks', {})
         /\ \A d \in DOMAIN chunks \ {p - ChunkHeader} : chunks[d].allocated =>
              /\ d \in DOMAIN chunks' /\ chunks'[d].allocated
              /\ chunks'[d].size = chunks[d].size
         /\ \A d \in DOMAIN chunks' : chunks'[d].allocated =>
              /\ d \in DOMAIN chunks \ {p - ChunkHeader} /\ chunks[d].allocated
<1> DEFINE c == p - ChunkHeader
           h0 == Mark(chunks, c, FALSE)
<1>1. c \in DOMAIN chunks /\ chunks' = Freed(chunks, c)
  BY OwnedChunk DEF Free
<1>2. IsList(chunks) /\ WellFormed(chunks) /\ CoalescedBut(chunks, {})
  BY <1>1, ListThere
<1> HIDE DEF c
<1>3. /\ IsList(chunks') /\ WellFormed(chunks') /\ CoalescedBut(chunks', {})
      /\ SameAllocated(h0, chunks')
  BY <1>1, <1>2, FreedFacts, Zenon
<1>4. MarkedAs(h0, chunks, c, FALSE)
  BY <1>1, <1>2, MarkFacts, Zenon
<1> HIDE DEF h0
<1> QED BY <1>3, <1>4, Zenon DEF SameAllocated, MarkedAs, c

LEMMA InvFree ==
  ASSUME Inv, NEW p \in DOMAIN owned, Free(p)
  PROVE  Inv'
<1> DEFINE c == p - ChunkHeader
<1>1. /\ IsList(chunks') /\ WellFormed(chunks') /\ CoalescedBut(chunks', {})
      /\ \A d \in DOMAIN chunks \ {c} : chunks[d].allocated =>
           /\ d \in DOMAIN chunks' /\ chunks'[d].allocated
           /\ chunks'[d].size = chunks[d].size
      /\ \A d \in DOMAIN chunks' : chunks'[d].allocated =>
           /\ d \in DOMAIN chunks \ {c} /\ chunks[d].allocated
  BY FreeFacts
<1>2. /\ owned' = [q \in DOMAIN owned \ {p} |-> owned[q]]
      /\ active' = active /\ ret' = ret
  BY DEF Free
<1>3. c \in DOMAIN chunks /\ active /\ HeapSize >= ChunkHeader
  BY OwnedChunk, ListThere
<1>4. /\ DOMAIN owned \subseteq HeapStart..HeapEnd /\ owned \in [DOMAIN owned -> Nat]
      /\ active \in BOOLEAN /\ ret \in Nat
  BY DEF Inv, TypeOK
<1>5. TypeOK'
  BY <1>1, <1>2, <1>4 DEF TypeOK, IsList
<1>6. ListConsistent' /\ Coalesced'
  BY <1>1, <1>2, <1>3 DEF ListConsistent, Coalesced, CoalescedBut
<1>7. ASSUME NEW d \in DOMAIN chunks', chunks'[d].allocated
      PROVE  d + ChunkHeader \in DOMAIN owned'
  <2>1. d \in DOMAIN chunks \ {c} /\ chunks[d].allocated BY <1>1, <1>7
  <2>2. d + ChunkHeader \in DOMAIN owned BY <2>1 DEF Inv, OwnersKnown
  <2>3. d \in Nat /\ p \in Nat /\ ChunkHeader \in Nat
    BY <2>1, <1>3, ListThere, HeaderTypes, OwnedChunk, HeapAssumption
  <2> QED BY <2>1, <2>2, <2>3, <1>2
<1>8. ASSUME NEW q \in DOMAIN owned'
      PROVE  /\ q - ChunkHeader \in DOMAIN chunks'
             /\ chunks'[q - ChunkHeader].allocated
             /\ chunks'[q - ChunkHeader].size >= owned'[q]
  <2>1. q \in DOMAIN owned /\ q # p /\ owned'[q] = owned[q] BY <1>2
  <2>2. /\ q - ChunkHeader \in DOMAIN chunks
        /\ chunks[q - ChunkHeader].allocated
        /\ chunks[q - ChunkHeader].size >= owned[q]
        /\ q \in Nat /\ p \in Nat /\ ChunkHeader \in Nat
    BY <2>1, OwnedChunk, HeapAssumption
  <2>3. q - ChunkHeader # c BY <2>1, <2>2
  <2> HIDE DEF c
  <2> QED BY <2>1, <2>2, <2>3, <1>1
<1>9. OwnersKnown'
  BY <1>7, <1>8 DEF OwnersKnown
<1> QED BY <1>5, <1>6, <1>9 DEF Inv

(* Every step keeps the inductive invariant. *)
LEMMA InvNext == Inv /\ [Next]_vars => Inv'
<1> SUFFICES ASSUME Inv, [Next]_vars PROVE Inv'
  OBVIOUS
<1>1. CASE Construct
  BY <1>1, InvConstruct
<1>2. ASSUME NEW size \in Sizes, Malloc(size) PROVE Inv'
  BY <1>2, InvMalloc
<1>3. ASSUME NEW p \in DOMAIN owned, Free(p) PROVE Inv'
  BY <1>3, InvFree
<1>4. CASE UNCHANGED vars
  BY <1>4 DEF Inv, vars, TypeOK, ListConsistent, Coalesced, OwnersKnown
<1> QED BY <1>1, <1>2, <1>3, <1>4 DEF Next

(* The inductive invariant holds of every behaviour. *)
THEOREM Invariance == Spec => []Inv
BY InvInit, InvNext, PTL DEF Spec

-----------------------------------------------------------------------------
(* The headers are headers, wherever the heap lies and whatever sizes are  *)
(* asked for (the fields MemoryManager's list is made of).                 *)
THEOREM Typed == Spec => []TypeOK
<1>1. Inv => TypeOK BY DEF Inv
<1> QED BY <1>1, Invariance, PTL

(* malloc and free keep the list a tiling of the heap, linked both ways.   *)
THEOREM ListStaysConsistent == Spec => []ListConsistent
<1>1. Inv => ListConsistent BY DEF Inv
<1> QED BY <1>1, Invariance, PTL

(* The two merges of free are enough: two free chunks are never            *)
(* neighbours.                                                             *)
THEOREM StaysCoalesced == Spec => []Coalesced
<1>1. Inv => Coalesced BY DEF Inv
<1> QED BY <1>1, Invariance, PTL

(* An allocated chunk belongs to exactly the caller malloc gave it to, and *)
(* keeps the bytes that caller asked for.                                  *)
THEOREM OwnersStayKnown == Spec => []OwnersKnown
<1>1. Inv => OwnersKnown BY DEF Inv
<1> QED BY <1>1, Invariance, PTL

(* Once everything is freed, the heap is one free chunk again.             *)
THEOREM HeapComesBack == Spec => []WholeAgain
<1>1. ASSUME Inv, active, DOMAIN owned = {}, HeapSize >= ChunkHeader
      PROVE  chunks = [a \in {HeapStart} |-> [next |-> 0, prev |-> 0, allocated |-> FALSE,
                                              size |-> HeapSize - ChunkHeader]]
  <2>1. /\ IsList(chunks) /\ WellFormed(chunks) /\ CoalescedBut(chunks, {})
        /\ \A c \in DOMAIN chunks : ~chunks[c].allocated
    BY <1>1 DEF Inv, ListConsistent, TypeOK, IsList, Coalesced, CoalescedBut, OwnersKnown
  <2>2. ASSUME NEW c \in DOMAIN chunks PROVE chunks[c].next = 0
    <3>1. chunks[c].next # 0 => chunks[c].next \in DOMAIN chunks
      BY <2>1 DEF WellFormed, LinkedForward
    <3> QED BY <2>1, <3>1 DEF CoalescedBut
  <2>3. HeapStart \in DOMAIN chunks BY <2>1 DEF WellFormed
  <2>4. ASSUME NEW c \in DOMAIN chunks PROVE c = HeapStart
    <3>1. c # HeapStart => /\ chunks[c].prev \in DOMAIN chunks
                           /\ chunks[chunks[c].prev].next = c
      BY <2>1 DEF WellFormed, LinkedBack
    <3>2. c # 0 BY <2>1, HeaderTypes
    <3> QED BY <2>2, <3>1, <3>2
  <2>5. DOMAIN chunks = {HeapStart} BY <2>3, <2>4
  <2>6. ChunkEnd(chunks, HeapStart) = HeapEnd /\ chunks[HeapStart].prev = 0
    <3>1. LinkedForward(chunks, HeapStart) /\ LinkedBack(chunks, HeapStart)
      BY <2>1, <2>3 DEF WellFormed
    <3>2. ChunkEnd(chunks, HeapStart) # 0
      BY <2>1, <2>3, HeaderTypes
    <3> QED BY <2>2, <2>3, <3>1, <3>2 DEF LinkedForward, LinkedBack
  <2>7. /\ chunks[HeapStart] \in Chunk /\ chunks[HeapStart].size \in Nat
    BY <2>1, <2>3, HeaderTypes
  <2>8. chunks[HeapStart].size = HeapSize - ChunkHeader
    BY <2>6, <2>7, HeapAssumption DEF ChunkEnd, HeapEnd
  <2>9. chunks[HeapStart] = [next |-> 0, prev |-> 0, allocated |-> FALSE,
                             size |-> HeapSize - ChunkHeader]
    BY <2>1, <2>2, <2>3, <2>6, <2>7, <2>8 DEF Chunk
  <2>10. chunks = [a \in {HeapStart} |-> chunks[HeapStart]]
    BY <2>1, <2>5 DEF IsList
  <2> QED BY <2>9, <2>10
<1>2. Inv => WholeAgain BY <1>1 DEF WholeAgain
<1> QED BY <1>2, Invariance, PTL

-----------------------------------------------------------------------------
(* The refinement of AbstractHeap.                                         *)
absBlocks == [p \in DOMAIN owned |-> chunks[p - ChunkHeader].size]

(* A step that fails to serve a request fails because the heap is full:    *)
(* the vacant bytes would lie in a free chunk, which does not fit, and the *)
(* chunk behind it is allocated.                                           *)
LEMMA RefuseStep ==
  ASSUME Inv, NEW size \in Sizes, MallocFails(size)
  PROVE  Abstract!Refuse(size)
<1> DEFINE hi(lo) == lo + ChunkHeader + size + 1
<1>1. ASSUME active, NEW lo \in HeapStart..HeapEnd, Abstract!Vacant(lo, hi(lo))
      PROVE  FALSE
  <2>1. /\ lo \in Nat /\ size \in Nat /\ HeapStart <= lo /\ hi(lo) <= HeapEnd
        /\ HeapStart \in Nat \ {0} /\ ChunkHeader \in Nat \ {0} /\ HeapSize \in Nat
        /\ HeapEnd \in Nat
    <3>1. hi(lo) <= HeapEnd
      BY <1>1 DEF Abstract!Vacant, Abstract!HeapEnd, HeapEnd
    <3> QED BY <3>1, HeapAssumption DEF HeapEnd
  <2>2. HeapSize >= ChunkHeader
    BY <2>1 DEF HeapEnd
  <2>3. IsList(chunks) /\ WellFormed(chunks) /\ CoalescedBut(chunks, {})
    BY <1>1, <2>2 DEF Inv, ListConsistent, TypeOK, IsList, Coalesced, CoalescedBut
  <2>4. PICK c \in DOMAIN chunks : c <= lo /\ lo < ChunkEnd(chunks, c)
    <3>1. lo \in HeapStart..(HeapEnd - 1) BY <2>1
    <3> QED BY <2>3, <3>1 DEF WellFormed
  <2>5. ASSUME NEW d \in DOMAIN chunks, chunks[d].allocated
        PROVE  hi(lo) <= d \/ ChunkEnd(chunks, d) <= lo
    <3>1. /\ d + ChunkHeader \in DOMAIN owned /\ d \in Nat
          /\ (d + ChunkHeader) - ChunkHeader = d
      <4>1. d \in Nat BY <2>3, HeaderTypes
      <4> QED BY <2>5, <4>1, <2>1 DEF Inv, OwnersKnown
    <3>2. /\ d + ChunkHeader \in DOMAIN absBlocks
          /\ absBlocks[d + ChunkHeader] = chunks[d].size
      BY <3>1 DEF absBlocks
    <3>3. \/ hi(lo) <= (d + ChunkHeader) - ChunkHeader
          \/ (d + ChunkHeader) + absBlocks[d + ChunkHeader] <= lo
      BY <1>1, <3>2 DEF Abstract!Vacant, absBlocks
    <3> QED BY <3>1, <3>2, <3>3 DEF ChunkEnd
  <2>6. c \in Nat /\ ChunkEnd(chunks, c) \in Nat /\ chunks[c].size \in Nat
    BY <2>3, HeaderTypes
  <2>7. ~chunks[c].allocated
    BY <2>1, <2>4, <2>5, <2>6
  <2>8. chunks[c].size <= size
    BY <2>1, <2>6, <2>7 DEF MallocFails, Fits
  <2>9. ChunkEnd(chunks, c) < hi(lo)
    BY <2>1, <2>4, <2>6, <2>8 DEF ChunkEnd
  <2>10. /\ chunks[c].next = ChunkEnd(chunks, c)
         /\ chunks[c].next \in DOMAIN chunks /\ chunks[c].next # 0
    BY <2>1, <2>3, <2>4, <2>6, <2>9 DEF WellFormed, LinkedForward
  <2>11. chunks[chunks[c].next].allocated
    BY <2>3, <2>7, <2>10 DEF CoalescedBut
  <2>12. \/ hi(lo) <= chunks[c].next
         \/ ChunkEnd(chunks, chunks[c].next) <= lo
    BY <2>5, <2>10, <2>11
  <2>13. /\ chunks[c].next < ChunkEnd(chunks, chunks[c].next)
         /\ ChunkEnd(chunks, chunks[c].next) \in Nat
    BY <2>3, <2>10, HeaderTypes
  <2> QED BY <2>1, <2>4, <2>6, <2>9, <2>10, <2>12, <2>13
<1>2. active => ~Abstract!Room(size)
  BY <1>1 DEF Abstract!Room, Abstract!HeapEnd, HeapEnd
<1>3. absBlocks' = absBlocks
  BY DEF MallocFails, absBlocks
<1> QED BY <1>2, <1>3 DEF Abstract!Refuse, MallocFails, absBlocks

(* A request that is served gets bytes of the heap no other caller has.    *)
LEMMA GrantStep ==
  ASSUME Inv, NEW size \in Sizes, MallocReturns(size)
  PROVE  Abstract!Grant(size)
<1>1. PICK c \in Fits(size) :
        /\ chunks' = Given(c, size)
        /\ ret' = c + ChunkHeader
        /\ owned' = [q \in DOMAIN owned \cup {c + ChunkHeader} |->
                       IF q = c + ChunkHeader THEN size ELSE owned[q]]
  BY Zenon DEF MallocReturns, FirstFit, Given
<1>2. /\ size \in Nat /\ ChunkHeader \in Nat \ {0} /\ HeapStart \in Nat \ {0}
      /\ HeapSize \in Nat
  BY HeapAssumption
<1>3. GivenAway(chunks', chunks, c, size) /\ IsList(chunks')
  BY <1>1, <1>2, GivenFacts
<1>4. c \in DOMAIN chunks BY DEF Fits
<1>5. active /\ IsList(chunks) /\ WellFormed(chunks)
  BY <1>4, ListThere
<1> DEFINE p == c + ChunkHeader
           len == chunks'[c].size
<1>6. /\ c \in Nat /\ HeapStart <= c /\ chunks[c].size \in Nat /\ len \in Nat
      /\ size <= len /\ len <= chunks[c].size
      /\ ChunkEnd(chunks, c) <= HeapEnd /\ p - ChunkHeader = c
  <2>1. c \in DOMAIN chunks' BY <1>3, <1>4 DEF GivenAway
  <2>2. len \in Nat BY <1>3, <2>1, HeaderTypes
  <2>3. c \in Nat /\ HeapStart <= c /\ chunks[c].size \in Nat
    BY <1>4, <1>5, HeaderTypes
  <2>4. ChunkEnd(chunks, c) <= HeapEnd
    BY <1>4, <1>5 DEF WellFormed, LinkedForward
  <2> QED BY <1>2, <1>3, <2>2, <2>3, <2>4 DEF GivenAway
<1>7. p \in HeapStart..HeapEnd /\ len \in size..HeapSize
  BY <1>2, <1>6 DEF ChunkEnd, HeapEnd
<1>8. ASSUME NEW q \in DOMAIN absBlocks
      PROVE  p + len <= q - ChunkHeader \/ q + absBlocks[q] <= p - ChunkHeader
  <2>1. q \in DOMAIN owned /\ absBlocks[q] = chunks[q - ChunkHeader].size
    BY DEF absBlocks
  <2>2. /\ q - ChunkHeader \in DOMAIN chunks /\ chunks[q - ChunkHeader].allocated
        /\ q \in Nat
    BY <2>1, OwnedChunk
  <2>3. q - ChunkHeader # c BY <2>2, <1>3 DEF GivenAway
  <2>4. /\ q - ChunkHeader \in Nat /\ chunks[q - ChunkHeader].size \in Nat
        /\ ChunkEnd(chunks, q - ChunkHeader) = q + absBlocks[q]
    BY <1>2, <1>5, <2>1, <2>2, HeaderTypes DEF ChunkEnd
  <2>5. CASE q - ChunkHeader < c
    BY <1>4, <1>5, <1>6, <2>2, <2>4, <2>5 DEF WellFormed
  <2>6. CASE c < q - ChunkHeader
    <3>1. ChunkEnd(chunks, c) <= q - ChunkHeader
      BY <1>4, <1>5, <2>2, <2>6 DEF WellFormed
    <3> QED BY <1>2, <1>6, <2>4, <3>1 DEF ChunkEnd
  <2> QED BY <1>6, <2>3, <2>4, <2>5, <2>6
<1>9. Abstract!Vacant(p - ChunkHeader, p + len)
  <2>1. p + len <= HeapEnd BY <1>2, <1>6 DEF ChunkEnd, HeapEnd
  <2> HIDE DEF p, len
  <2> QED BY <1>6, <1>8, <2>1 DEF Abstract!Vacant, Abstract!HeapEnd, HeapEnd, absBlocks
<1>10. absBlocks' = [q \in DOMAIN absBlocks \cup {p} |->
                       IF q = p THEN len ELSE absBlocks[q]]
  <2>1. DOMAIN owned' = DOMAIN owned \cup {p} BY <1>1
  <2>2. chunks'[p - ChunkHeader].size = len BY <1>6
  <2>3. ASSUME NEW q \in DOMAIN owned, q # p
        PROVE  chunks'[q - ChunkHeader].size = chunks[q - ChunkHeader].size
    <3>1. q - ChunkHeader \in DOMAIN chunks /\ chunks[q - ChunkHeader].allocated
      BY OwnedChunk
    <3> QED BY <3>1, <1>3 DEF GivenAway
  <2> HIDE DEF p, len
  <2> QED BY <2>1, <2>2, <2>3 DEF absBlocks
<1>11. active' = active BY DEF MallocReturns
<1> HIDE DEF p, len
<1>12. /\ Abstract!Vacant(p - ChunkHeader, p + len)
       /\ absBlocks' = [q \in DOMAIN absBlocks \cup {p} |->
                         IF q = p THEN len ELSE absBlocks[q]]
       /\ ret' = p
  BY <1>1, <1>9, <1>10 DEF p
<1> QED BY <1>5, <1>7, <1>11, <1>12, Zenon DEF Abstract!Grant, Abstract!HeapEnd, HeapEnd, absBlocks

(* free gives back one block and leaves every other one as it is.          *)
LEMMA ReleaseStep ==
  ASSUME Inv, NEW p \in DOMAIN owned, Free(p)
  PROVE  Abstract!Release(p) /\ p \in DOMAIN absBlocks
<1>1. DOMAIN owned' = DOMAIN owned \ {p} /\ active' = active /\ ret' = ret
  BY DEF Free
<1>2. ASSUME NEW q \in DOMAIN owned \ {p}
      PROVE  chunks'[q - ChunkHeader].size = chunks[q - ChunkHeader].size
  <2>1. /\ q - ChunkHeader \in DOMAIN chunks /\ chunks[q - ChunkHeader].allocated
        /\ q \in Nat /\ p \in Nat /\ ChunkHeader \in Nat
    BY OwnedChunk, HeapAssumption
  <2>2. q - ChunkHeader # p - ChunkHeader BY <2>1
  <2> QED BY <2>1, <2>2, FreeFacts
<1>3. absBlocks' = [q \in DOMAIN absBlocks \ {p} |-> absBlocks[q]]
  BY <1>1, <1>2 DEF absBlocks
<1> QED BY <1>1, <1>3 DEF Abstract!Release, absBlocks

LEMMA AbstractInit == Init => Abstract!Init
<1> SUFFICES ASSUME Init PROVE Abstract!Init
  OBVIOUS
<1>1. absBlocks = [p \in {} |-> 0] BY DEF Init, absBlocks
<1> QED BY <1>1 DEF Init, Abstract!Init, absBlocks

LEMMA AbstractNext == Inv /\ [Next]_vars => [Abstract!Next]_(Abstract!vars)
<1> SUFFICES ASSUME Inv, [Next]_vars PROVE [Abstract!Next]_(Abstract!vars)
  OBVIOUS
<1>1. CASE Construct
  <2>1. DOMAIN owned = {} /\ owned' = owned /\ active = FALSE /\ active' = TRUE /\ ret' = ret
    BY <1>1, Zenon DEF Inv, ListConsistent, OwnersKnown, Construct, TypeOK
  <2>2. absBlocks' = absBlocks BY <2>1 DEF absBlocks
  <2> QED BY <2>1, <2>2 DEF Abstract!Next, Abstract!Construct, absBlocks
<1>2. ASSUME NEW size \in Sizes, Malloc(size) PROVE Abstract!Next
  BY <1>2, RefuseStep, GrantStep DEF Malloc, Abstract!Next
<1>3. ASSUME NEW p \in DOMAIN owned, Free(p) PROVE Abstract!Next
  BY <1>3, ReleaseStep DEF Abstract!Next, absBlocks
<1>4. CASE UNCHANGED vars
  BY <1>4 DEF vars, Abstract!vars
<1> QED BY <1>1, <1>2, <1>3, <1>4 DEF Next

(* The allocator implements what AbstractHeap promises: blocks in the heap *)
(* that do not overlap, stay put and are refused only for lack of room.    *)
THEOREM Refinement == Spec => ImplementsAbstractHeap
BY Invariance, AbstractInit, AbstractNext, PTL
   DEF Spec, ImplementsAbstractHeap, Abstract!Spec

-----------------------------------------------------------------------------
(* Lists *)

(* A free chunk is followed by a free chunk only where one of the          *)
(* addresses E begins.                                                     *)
CoalescedAt(h, E) ==
  \A d \in DOMAIN h :
    ~h[d].allocated /\ h[d].next # 0 /\ h[d].next \notin E => h[h[d].next].allocated

(* What is behind the links of a chunk. *)
LEMMA Links ==
  ASSUME NEW h, IsList(h), WellFormed(h), NEW c \in DOMAIN h
  PROVE  /\ c \in Nat /\ c # 0 /\ HeapStart <= c
         /\ h[c].next \in Nat /\ h[c].prev \in Nat /\ h[c].size \in Nat
         /\ h[c].allocated \in BOOLEAN /\ h[c] \in Chunk
         /\ ChunkEnd(h, c) \in Nat /\ c < ChunkEnd(h, c) /\ ChunkEnd(h, c) <= HeapEnd
         /\ IF ChunkEnd(h, c) = HeapEnd THEN h[c].next = 0
            ELSE /\ h[c].next = ChunkEnd(h, c)
                 /\ h[c].next \in DOMAIN h /\ h[h[c].next].prev = c
         /\ IF c = HeapStart THEN h[c].prev = 0
            ELSE /\ h[c].prev \in DOMAIN h /\ h[h[c].prev].next = c
                 /\ h[c].prev < c /\ ChunkEnd(h, h[c].prev) = c
<1>1. /\ c \in Nat /\ c # 0 /\ HeapStart <= c
      /\ h[c].next \in Nat /\ h[c].prev \in Nat /\ h[c].size \in Nat
      /\ h[c].allocated \in BOOLEAN /\ h[c] \in Chunk
      /\ ChunkEnd(h, c) \in Nat /\ c < ChunkEnd(h, c)
  BY HeaderTypes
<1>2. /\ ChunkEnd(h, c) <= HeapEnd
      /\ IF ChunkEnd(h, c) = HeapEnd THEN h[c].next = 0
         ELSE /\ h[c].next = ChunkEnd(h, c)
              /\ h[c].next \in DOMAIN h /\ h[h[c].next].prev = c
  <2>1. LinkedForward(h, c) BY DEF WellFormed
  <2> QED BY <2>1, <1>1 DEF LinkedForward
<1>3. IF c = HeapStart THEN h[c].prev = 0
      ELSE h[c].prev \in DOMAIN h /\ h[h[c].prev].next = c
  BY DEF WellFormed, LinkedBack
<1>4. CASE c # HeapStart
  <2> DEFINE p == h[c].prev
  <2>1. p \in DOMAIN h /\ h[p].next = c BY <1>3, <1>4
  <2>2. LinkedForward(h, p) BY <2>1 DEF WellFormed
  <2>3. p \in Nat /\ p < ChunkEnd(h, p) BY <2>1, HeaderTypes
  <2>4. ChunkEnd(h, p) = c BY <2>1, <2>2, <1>1 DEF LinkedForward
  <2> QED BY <2>1, <2>3, <2>4, <1>1, <1>2, <1>3, <1>4
<1> QED BY <1>1, <1>2, <1>3, <1>4

(* Two chunks of a list share no byte. *)
LEMMA Disjoint ==
  ASSUME NEW h, IsList(h), WellFormed(h), NEW c \in DOMAIN h, NEW d \in DOMAIN h, c # d
  PROVE  ChunkEnd(h, c) <= d \/ ChunkEnd(h, d) <= c
<1>1. c \in Nat /\ d \in Nat BY HeaderTypes
<1>2. c < d \/ d < c BY <1>1
<1> QED BY <1>2 DEF WellFormed

(* What malloc makes of list h when it serves size bytes from chunk c. *)
Give(h, c, size) ==
  Mark(IF h[c].size >= size + ChunkHeader + 1 THEN Split(h, c, size) ELSE h, c, TRUE)

(* g is h with chunk c given away for size bytes; what is left of it is    *)
(* free.                                                                   *)
GivenTo(g, h, c, size) ==
  /\ DOMAIN h \subseteq DOMAIN g /\ DOMAIN g \subseteq DOMAIN h \cup {c + ChunkHeader + size}
  /\ g[c].allocated /\ g[c].prev = h[c].prev
  /\ size <= g[c].size /\ g[c].size <= h[c].size
  /\ \A d \in DOMAIN h \ {c} :
       /\ g[d].size = h[d].size /\ g[d].next = h[d].next
       /\ g[d].allocated = h[d].allocated
       /\ g[d].prev = h[d].prev \/ d = h[c].next
  /\ \A d \in DOMAIN g \ DOMAIN h : ~g[d].allocated

(* malloc keeps the list in order and leaves the other chunks alone. *)
LEMMA GiveFacts ==
  ASSUME NEW h, IsList(h), WellFormed(h), NEW E, CoalescedAt(h, E),
         NEW c \in DOMAIN h, ~h[c].allocated, NEW size \in Nat, h[c].size > size
  PROVE  /\ GivenTo(Give(h, c, size), h, c, size)
         /\ IsList(Give(h, c, size)) /\ WellFormed(Give(h, c, size))
         /\ CoalescedAt(Give(h, c, size), E)
<1> DEFINE temp == c + ChunkHeader + size
           f == IF h[c].size >= size + ChunkHeader + 1 THEN Split(h, c, size) ELSE h
           g == Mark(f, c, TRUE)
<1>1. /\ c \in Nat /\ h[c].size \in Nat /\ h[c].next \in Nat
      /\ h[c].next # 0 => h[c].next \in DOMAIN h /\ h[h[c].next].prev = c /\ h[c].next # c
  BY Links
<1>2. /\ IsList(f) /\ WellFormed(f) /\ c \in DOMAIN f
      /\ DOMAIN h \subseteq DOMAIN f /\ DOMAIN f \subseteq DOMAIN h \cup {temp}
      /\ f[c].prev = h[c].prev /\ size <= f[c].size /\ f[c].size <= h[c].size
      /\ \A d \in DOMAIN h \ {c} :
           /\ f[d].size = h[d].size /\ f[d].next = h[d].next
           /\ f[d].allocated = h[d].allocated
           /\ f[d].prev = h[d].prev \/ d = h[c].next
      /\ \A d \in DOMAIN f \ DOMAIN h : ~f[d].allocated /\ f[d].next = h[c].next
  <2>1. CASE h[c].size >= size + ChunkHeader + 1
    <3>1. f = Split(h, c, size) BY <2>1
    <3>2. CutAt(f, h, c, size, temp) /\ IsList(f) /\ WellFormed(f)
      BY <2>1, <3>1, SplitFields, SplitWellFormed
    <3> HIDE DEF f, temp
    <3> QED BY <1>1, <2>1, <3>2, HeapAssumption DEF CutAt
  <2>2. CASE ~(h[c].size >= size + ChunkHeader + 1)
    <3>1. f = h BY <2>2
    <3> HIDE DEF f
    <3> QED BY <1>1, <3>1
  <2> QED BY <2>1, <2>2
<1> HIDE DEF f
<1>3. IsList(g) /\ WellFormed(g) /\ MarkedAs(g, f, c, TRUE)
  BY <1>2, MarkFacts, Zenon
<1> HIDE DEF g
<1>4. GivenTo(g, h, c, size)
  <2>1. DOMAIN g = DOMAIN f /\ g[c].allocated /\ g[c].prev = f[c].prev /\ g[c].size = f[c].size
    BY <1>2, <1>3, Zenon DEF MarkedAs
  <2>2. \A d \in DOMAIN f \ {c} :
          /\ g[d].size = f[d].size /\ g[d].next = f[d].next
          /\ g[d].allocated = f[d].allocated /\ g[d].prev = f[d].prev
    BY <1>3, Zenon DEF MarkedAs
  <2> QED BY <1>2, <2>1, <2>2 DEF GivenTo
<1>5. CoalescedAt(g, E)
  <2> SUFFICES ASSUME NEW d \in DOMAIN g, ~g[d].allocated, g[d].next # 0, g[d].next \notin E
               PROVE  g[g[d].next].allocated
    BY DEF CoalescedAt
  <2>1. /\ d # c /\ d \in DOMAIN f /\ ~f[d].allocated /\ g[d].next = f[d].next
    BY <1>3, Zenon DEF MarkedAs
  <2>2. f[d].next \in DOMAIN h /\ (f[d].next # c => f[f[d].next].allocated)
    <3>1. CASE d \in DOMAIN h
      BY <3>1, <1>2, <2>1, Links DEF CoalescedAt
    <3>2. CASE d \notin DOMAIN h
      BY <3>2, <1>1, <1>2, <2>1 DEF CoalescedAt
    <3> QED BY <3>1, <3>2
  <2>3. g[f[d].next].allocated = IF f[d].next = c THEN TRUE ELSE f[f[d].next].allocated
    BY <1>2, <1>3, <2>2, Zenon DEF MarkedAs
  <2> QED BY <2>1, <2>2, <2>3, Zenon
<1> QED BY <1>3, <1>4, <1>5, Zenon DEF g, f, Give

(* Merging a free chunk with the free chunk behind it takes away the need  *)
(* to excuse that chunk.                                                   *)
LEMMA AbsorbFacts ==
  ASSUME NEW h, IsList(h), WellFormed(h), NEW c \in DOMAIN h, h[c].next # 0,
         ~h[c].allocated, ~h[h[c].next].allocated,
         NEW E, CoalescedAt(h, E \cup {h[c].next})
  PROVE  /\ JoinedAt(Absorb(h, c), h, c)
         /\ IsList(Absorb(h, c)) /\ WellFormed(Absorb(h, c))
         /\ CoalescedAt(Absorb(h, c), E)
<1> DEFINE g == Absorb(h, c)
           gone == h[c].next
<1>1. JoinedAt(g, h, c) /\ IsList(g) /\ WellFormed(g)
  BY AbsorbFields, AbsorbWellFormed
<1> HIDE DEF g
<1>2. /\ gone \in DOMAIN h /\ h[gone].prev = c /\ gone # c
      /\ h[gone].next # 0 => h[gone].next \in DOMAIN h /\ h[h[gone].next].prev = gone
      /\ h[gone].next # gone /\ h[gone].next # c
  <2>1. gone \in DOMAIN h /\ h[gone].prev = c /\ gone # c BY Links
  <2>2. h[gone].next # gone BY <2>1, Links
  <2> QED BY <1>1, <2>1, <2>2, Links DEF JoinedAt
<1>3. SUFFICES ASSUME NEW d \in DOMAIN g, ~g[d].allocated, g[d].next # 0, g[d].next \notin E
               PROVE  g[g[d].next].allocated
  BY <1>1 DEF CoalescedAt, g
<1>4. CASE d = c
  <2>1. g[c].next = h[gone].next BY <1>1 DEF JoinedAt
  <2>2. h[h[gone].next].allocated BY <1>2, <1>3, <1>4, <2>1 DEF CoalescedAt
  <2> QED BY <1>1, <1>2, <1>3, <1>4, <2>1, <2>2 DEF JoinedAt
<1>5. CASE d # c
  <2>1. d \in DOMAIN h /\ d # gone /\ ~h[d].allocated /\ g[d].next = h[d].next
    BY <1>1, <1>3, <1>5 DEF JoinedAt
  <2>2. h[d].next \in DOMAIN h /\ h[h[d].next].prev = d
    BY <1>3, <2>1, Links
  <2>3. h[d].next # gone BY <1>2, <1>5, <2>2
  <2>4. h[h[d].next].allocated BY <1>3, <2>1, <2>3 DEF CoalescedAt
  <2> QED BY <1>1, <2>1, <2>2, <2>3, <2>4 DEF JoinedAt
<1> QED BY <1>4, <1>5

(* g is h with chunk c freed; c1 is the free chunk it is part of then.     *)
FreedFrom(g, h, c, c1) ==
  /\ c1 = c \/ (c1 = h[c].prev /\ c1 \in DOMAIN h /\ ~h[c1].allocated)
  /\ DOMAIN g \subseteq DOMAIN h /\ c1 \in DOMAIN g /\ (c \in DOMAIN g => c1 = c)
  /\ ~g[c1].allocated /\ g[c1].prev = h[c1].prev /\ h[c1].size <= g[c1].size
  /\ \A d \in DOMAIN h \ DOMAIN g : d = c \/ (h[d].prev = c /\ ~h[d].allocated)
  /\ \A d \in DOMAIN g \ {c1} :
       /\ g[d].size = h[d].size /\ g[d].next = h[d].next
       /\ g[d].allocated = h[d].allocated
       /\ \/ g[d].prev = h[d].prev
          \/ g[d].prev = c1 /\ h[d].prev = c
          \/ /\ g[d].prev = c1 /\ h[d].prev \in DOMAIN h
             /\ ~h[h[d].prev].allocated /\ h[h[d].prev].prev = c

(* free keeps the list in order and leaves the other chunks alone, but for *)
(* the free ones next to its own.                                          *)
LEMMA FreedShape ==
  ASSUME NEW h, IsList(h), WellFormed(h), NEW E, CoalescedAt(h, E),
         NEW c \in DOMAIN h
  PROVE  /\ IsList(Freed(h, c)) /\ WellFormed(Freed(h, c))
         /\ CoalescedAt(Freed(h, c), E)
         /\ \E c1 : FreedFrom(Freed(h, c), h, c, c1)
<1> DEFINE h0 == Mark(h, c, FALSE)
           p == h[c].prev
           n == h[c].next
           pf == FreeNeighbour(h0, p)
           h1 == MergePrev(h0, c)
           c1 == IF pf THEN p ELSE c
           h2 == MergeNext(h1, c1)
<1>1. /\ IsList(h0) /\ WellFormed(h0) /\ DOMAIN h0 = DOMAIN h
      /\ \A d \in DOMAIN h :
           /\ h0[d].next = h[d].next /\ h0[d].prev = h[d].prev /\ h0[d].size = h[d].size
           /\ d # c => h0[d].allocated = h[d].allocated
      /\ ~h0[c].allocated
  <2>1. IsList(h0) /\ WellFormed(h0) /\ MarkedAs(h0, h, c, FALSE)
    BY MarkFacts, Zenon
  <2> HIDE DEF h0
  <2> QED BY <2>1, Zenon DEF MarkedAs
<1>2. /\ c \in Nat /\ 0 \notin DOMAIN h /\ h[c].size \in Nat
      /\ n # 0 => n \in DOMAIN h /\ h[n].prev = c /\ n # c /\ c < n
      /\ p # 0 => p \in DOMAIN h /\ h[p].next = c /\ p # c /\ p < c
  BY Links
<1>3. h2 = Freed(h, c) /\ p = h0[c].prev
  BY <1>1 DEF Freed
<1> HIDE DEF h0
<1>4. CoalescedAt(h0, (E \cup {n}) \cup {c})
  <2> SUFFICES ASSUME NEW d \in DOMAIN h0, ~h0[d].allocated, h0[d].next # 0,
                      h0[d].next \notin (E \cup {n}) \cup {c}
               PROVE  h0[h0[d].next].allocated
    BY DEF CoalescedAt
  <2>1. d # c /\ d \in DOMAIN h /\ ~h[d].allocated /\ h[d].next # 0 BY <1>1
  <2>2. h[d].next \in DOMAIN h /\ h[h[d].next].allocated
    BY <1>1, <2>1, Links DEF CoalescedAt
  <2> QED BY <1>1, <2>1, <2>2
<1>5. /\ IsList(h1) /\ WellFormed(h1) /\ CoalescedAt(h1, E \cup {n})
      /\ c1 = c \/ (c1 = p /\ c1 \in DOMAIN h /\ ~h[c1].allocated)
      /\ DOMAIN h1 \subseteq DOMAIN h /\ c1 \in DOMAIN h1 /\ (c \in DOMAIN h1 => c1 = c)
      /\ ~h1[c1].allocated /\ h1[c1].prev = h[c1].prev /\ h[c1].size <= h1[c1].size
      /\ h1[c1].next = n
      /\ \A d \in DOMAIN h \ DOMAIN h1 : d = c
      /\ \A d \in DOMAIN h1 \ {c1} :
           /\ h1[d].size = h[d].size /\ h1[d].next = h[d].next
           /\ h1[d].allocated = h[d].allocated
           /\ h1[d].prev = IF d = n THEN c1 ELSE h[d].prev
  <2>1. CASE pf
    <3>1. h1 = Absorb(h0, p) /\ c1 = p /\ p # 0 /\ ~h0[p].allocated
      BY <2>1, <1>3 DEF MergePrev, FreeNeighbour
    <3>2. p \in DOMAIN h0 /\ h0[p].next = c /\ ~h0[c].allocated
      BY <1>1, <1>2, <3>1
    <3>3. CoalescedAt(h0, (E \cup {n}) \cup {h0[p].next})
      BY <1>4, <3>2
    <3>4. JoinedAt(h1, h0, p) /\ IsList(h1) /\ WellFormed(h1) /\ CoalescedAt(h1, E \cup {n})
      <4>1. PICK q, F : q = p /\ F = E \cup {n} OBVIOUS
      <4>2. /\ IsList(h0) /\ WellFormed(h0) /\ q \in DOMAIN h0 /\ h0[q].next # 0
            /\ ~h0[q].allocated /\ ~h0[h0[q].next].allocated
            /\ CoalescedAt(h0, F \cup {h0[q].next})
        BY <1>1, <1>2, <3>1, <3>2, <3>3, <4>1
      <4>3. /\ JoinedAt(Absorb(h0, q), h0, q)
            /\ IsList(Absorb(h0, q)) /\ WellFormed(Absorb(h0, q)) /\ CoalescedAt(Absorb(h0, q), F)
        BY <4>2, AbsorbFacts
      <4> QED BY <3>1, <4>1, <4>3
    <3>5. h[p].size \in Nat /\ h[c].size \in Nat /\ ChunkHeader \in Nat
      BY <1>2, <3>1, HeaderTypes, HeapAssumption
    <3> HIDE DEF h1, c1, pf
    <3>6. /\ c1 = c \/ (c1 = p /\ c1 \in DOMAIN h /\ ~h[c1].allocated)
          /\ DOMAIN h1 \subseteq DOMAIN h /\ c1 \in DOMAIN h1 /\ (c \in DOMAIN h1 => c1 = c)
          /\ ~h1[c1].allocated /\ h1[c1].prev = h[c1].prev /\ h[c1].size <= h1[c1].size
          /\ h1[c1].next = n
          /\ \A d \in DOMAIN h \ DOMAIN h1 : d = c
      BY <1>1, <1>2, <3>1, <3>2, <3>4, <3>5 DEF JoinedAt
    <3>7. \A d \in DOMAIN h1 \ {c1} :
          /\ h1[d].size = h[d].size /\ h1[d].next = h[d].next
          /\ h1[d].allocated = h[d].allocated
          /\ h1[d].prev = IF d = n THEN c1 ELSE h[d].prev
      BY <1>1, <1>2, <3>1, <3>2, <3>4, <3>5 DEF JoinedAt
    <3> QED BY <3>4, <3>6, <3>7
  <2>2. CASE ~pf
    <3>1. h1 = h0 /\ c1 = c BY <2>2, <1>3 DEF MergePrev
    <3>2. p = 0 \/ h0[p].allocated BY <2>2 DEF FreeNeighbour
    <3>3. CoalescedAt(h0, E \cup {n})
      <4> SUFFICES ASSUME NEW d \in DOMAIN h0, ~h0[d].allocated, h0[d].next = c
                   PROVE  FALSE
        BY <1>4 DEF CoalescedAt
      <4>1. h0[c].prev = d BY <1>1, <1>2, Links
      <4>2. d # 0 BY <1>1, Links
      <4> QED BY <1>3, <3>2, <4>1, <4>2
    <3> HIDE DEF h1, c1, pf
    <3>4. /\ c1 = c \/ (c1 = p /\ c1 \in DOMAIN h /\ ~h[c1].allocated)
          /\ DOMAIN h1 \subseteq DOMAIN h /\ c1 \in DOMAIN h1 /\ (c \in DOMAIN h1 => c1 = c)
          /\ ~h1[c1].allocated /\ h1[c1].prev = h[c1].prev /\ h[c1].size <= h1[c1].size
          /\ h1[c1].next = n
          /\ \A d \in DOMAIN h \ DOMAIN h1 : d = c
      BY <1>1, <1>2, <3>1
    <3>5. \A d \in DOMAIN h1 \ {c1} :
          /\ h1[d].size = h[d].size /\ h1[d].next = h[d].next
          /\ h1[d].allocated = h[d].allocated
          /\ h1[d].prev = IF d = n THEN c1 ELSE h[d].prev
      BY <1>1, <1>2, <3>1
    <3> QED BY <1>1, <3>1, <3>3, <3>4, <3>5
  <2> QED BY <2>1, <2>2
<1> HIDE DEF h1, c1, pf
<1>6. IsList(h2) /\ WellFormed(h2) /\ CoalescedAt(h2, E) /\ FreedFrom(h2, h, c, c1)
  <2>1. CASE FreeNeighbour(h1, n)
    <3>1. h2 = Absorb(h1, c1) /\ n # 0 /\ ~h1[n].allocated
      BY <1>5, <2>1 DEF MergeNext, FreeNeighbour
    <3>2. JoinedAt(h2, h1, c1) /\ IsList(h2) /\ WellFormed(h2) /\ CoalescedAt(h2, E)
      <4>1. CoalescedAt(h1, E \cup {h1[c1].next}) /\ h1[c1].next # 0 /\ ~h1[h1[c1].next].allocated
        BY <1>5, <3>1
      <4>2. LET g == Absorb(h1, c1)
            IN  JoinedAt(g, h1, c1) /\ IsList(g) /\ WellFormed(g) /\ CoalescedAt(g, E)
        BY <1>5, <4>1, AbsorbFacts
      <4> HIDE DEF h2
      <4> QED BY <3>1, <4>2, Zenon
    <3>3. /\ n \in DOMAIN h1 /\ n # c1 /\ ~h[n].allocated /\ h[n].prev = c
          /\ h1[n].size \in Nat /\ h1[c1].size \in Nat /\ h[c1].size \in Nat
          /\ ChunkHeader \in Nat
      BY <1>2, <1>5, <3>1, <3>2, HeaderTypes, HeapAssumption DEF JoinedAt
    <3>4. \A d \in DOMAIN h : d = h[n].next /\ h[n].next # 0 => h[d].prev = n
      BY <1>2, <3>1, Links
    <3>5. 0 \notin DOMAIN h BY Links
    <3> HIDE DEF h2
    <3>6. /\ DOMAIN h2 = DOMAIN h1 \ {n} /\ h2[c1].prev = h1[c1].prev
          /\ h2[c1].size = h1[c1].size + h1[n].size + ChunkHeader
          /\ h2[c1].allocated = h1[c1].allocated
          /\ \A d \in DOMAIN h1 \ {c1, n} :
               /\ h2[d].size = h1[d].size /\ h2[d].next = h1[d].next
               /\ h2[d].allocated = h1[d].allocated
               /\ h2[d].prev = IF d = h1[n].next THEN c1 ELSE h1[d].prev
      BY <1>5, <3>2 DEF JoinedAt
    <3>7. h1[n].next = h[n].next BY <1>5, <3>3
    <3>8. h[c1].size <= h2[c1].size BY <1>5, <3>3, <3>6
    <3>9. ASSUME NEW d \in DOMAIN h2 \ {c1}
          PROVE  /\ h2[d].size = h[d].size /\ h2[d].next = h[d].next
                 /\ h2[d].allocated = h[d].allocated
                 /\ \/ h2[d].prev = h[d].prev
                    \/ /\ h2[d].prev = c1 /\ h[d].prev \in DOMAIN h
                       /\ ~h[h[d].prev].allocated /\ h[h[d].prev].prev = c
      BY <1>5, <3>3, <3>4, <3>5, <3>6, <3>7
    <3> QED BY <1>5, <3>2, <3>3, <3>6, <3>8, <3>9 DEF FreedFrom
  <2>2. CASE ~FreeNeighbour(h1, n)
    <3>1. h2 = h1 BY <1>5, <2>2 DEF MergeNext
    <3>2. n = 0 \/ h1[n].allocated BY <2>2 DEF FreeNeighbour
    <3>3. CoalescedAt(h1, E) BY <1>5, <3>2 DEF CoalescedAt
    <3>4. ASSUME NEW d \in DOMAIN h1 \ {c1}, d = n PROVE h[d].prev = c
      BY <1>2, <1>5, <3>4, Links
    <3> HIDE DEF h2
    <3> QED BY <1>5, <3>1, <3>3, <3>4 DEF FreedFrom
  <2> QED BY <2>1, <2>2
<1> HIDE DEF h2
<1> QED BY <1>3, <1>6, Zenon

-----------------------------------------------------------------------------
(* Memory and the list it stands for                                       *)
(* Memory h is list g but for the headers G, which are not in the list,    *)
(* and the chunks S, whose links or size differ.                           *)
Agree(h, g, S, G) ==
  /\ DOMAIN h = DOMAIN g \cup G /\ G \cap DOMAIN g = {}
  /\ \A d \in DOMAIN g \ S : h[d] = g[d]
  /\ \A d \in DOMAIN g : h[d].allocated = g[d].allocated

(* The chunks X of h are as they are in g.                                 *)
Kept(h, g, X) == \A d \in DOMAIN g \cap X : d \in DOMAIN h /\ h[d] = g[d]

(* A change of the list that stays clear of what is different makes the    *)
(* same change in memory.  Marking a chunk:                                *)
LEMMA AgreeMark ==
  ASSUME NEW h, NEW g, NEW S, NEW G, Agree(h, g, S, G),
         NEW c \in DOMAIN g \ S, NEW b \in BOOLEAN
  PROVE  /\ Agree(Mark(h, c, b), Mark(g, c, b), S, G)
         /\ Kept(Mark(h, c, b), h, S \cup G) /\ Kept(Mark(g, c, b), g, S)
<1> DEFINE h0 == Mark(h, c, b)
           g0 == Mark(g, c, b)
<1>1. DOMAIN h0 = DOMAIN h /\ DOMAIN g0 = DOMAIN g
  BY DEF Mark
<1>2. \A d \in DOMAIN h \ {c} : h0[d] = h[d]
  BY DEF Mark
<1>3. \A d \in DOMAIN g \ {c} : g0[d] = g[d]
  BY DEF Mark
<1>4. h0[c] = g0[c]
  BY DEF Mark, Agree
<1> HIDE DEF h0, g0
<1>5. c \notin S \cup G
  BY DEF Agree
<1>6. Agree(h0, g0, S, G) /\ Kept(h0, h, S \cup G) /\ Kept(g0, g, S)
  <2>1. \A d \in DOMAIN g0 : h0[d].allocated = g0[d].allocated
    BY <1>1, <1>2, <1>3, <1>4 DEF Agree
  <2>2. \A d \in DOMAIN g0 \ S : h0[d] = g0[d]
    BY <1>1, <1>2, <1>3, <1>4 DEF Agree
  <2> QED BY <1>1, <1>2, <1>3, <1>5, <2>1, <2>2 DEF Agree, Kept
<1> QED BY <1>6 DEF h0, g0

(* cutting one,                                                            *)
LEMMA AgreeSplit ==
  ASSUME NEW h, NEW g, NEW S, NEW G, Agree(h, g, S, G),
         NEW c \in DOMAIN g \ S, NEW size,
         g[c].next \notin S \cup G,
         c + ChunkHeader + size \notin DOMAIN g \cup G \cup S
  PROVE  /\ Agree(Split(h, c, size), Split(g, c, size), S, G)
         /\ Kept(Split(h, c, size), h, S \cup G) /\ Kept(Split(g, c, size), g, S)
<1> DEFINE temp == c + ChunkHeader + size
           h0 == Split(h, c, size)
           g0 == Split(g, c, size)
           after == g[c].next
<1>1. DOMAIN h0 = DOMAIN h \cup {temp} /\ DOMAIN g0 = DOMAIN g \cup {temp}
  BY DEF Split
<1>2. h[c] = g[c] /\ temp # c
  BY DEF Agree
<1>3. \A d \in DOMAIN h \ {c, after} : h0[d] = h[d]
  BY <1>2 DEF Split, Agree
<1>4. \A d \in DOMAIN g \ {c, after} : g0[d] = g[d]
  BY <1>2 DEF Split
<1>5. h0[c] = g0[c] /\ h0[temp] = g0[temp]
  BY <1>2 DEF Split, Agree
<1>6. after \in DOMAIN g => h0[after] = g0[after]
  <2>1. after \in DOMAIN g => h[after] = g[after] BY DEF Agree
  <2> QED BY <1>2, <2>1 DEF Split, Agree
<1>7. temp \notin DOMAIN h /\ temp \notin G /\ temp \notin S /\ c \notin S \cup G
  BY DEF Agree
<1> HIDE DEF h0, g0, temp, after
<1>8. after \notin S \cup G BY DEF after
<1>9. Agree(h0, g0, S, G) /\ Kept(h0, h, S \cup G) /\ Kept(g0, g, S)
  <2>1. \A d \in DOMAIN g0 : h0[d].allocated = g0[d].allocated
    BY <1>1, <1>3, <1>4, <1>5, <1>6 DEF Agree
  <2>2. \A d \in DOMAIN g0 \ S : h0[d] = g0[d]
    BY <1>1, <1>3, <1>4, <1>5, <1>6 DEF Agree
  <2> QED BY <1>1, <1>3, <1>4, <1>7, <1>8, <2>1, <2>2 DEF Agree, Kept
<1> QED BY <1>9 DEF h0, g0

(* merging two.                                                            *)
LEMMA AgreeAbsorb ==
  ASSUME NEW h, NEW g, NEW S, NEW G, Agree(h, g, S, G),
         NEW c \in DOMAIN g \ S, g[c].next \in DOMAIN g \ S, g[c].next # c,
         g[g[c].next].next \notin S \cup G
  PROVE  /\ Agree(Absorb(h, c), Absorb(g, c), S, G)
         /\ Kept(Absorb(h, c), h, S \cup G) /\ Kept(Absorb(g, c), g, S)
<1> DEFINE gone == g[c].next
           after == g[gone].next
           h0 == Absorb(h, c)
           g0 == Absorb(g, c)
<1>1. h[c] = g[c] /\ h[gone] = g[gone]
  BY DEF Agree
<1>2. DOMAIN h0 = DOMAIN h \ {gone} /\ DOMAIN g0 = DOMAIN g \ {gone}
  BY <1>1 DEF Absorb
<1>3. \A d \in DOMAIN h \ {c, gone, after} : h0[d] = h[d]
  BY <1>1 DEF Absorb
<1>4. \A d \in DOMAIN g \ {c, gone, after} : g0[d] = g[d]
  BY DEF Absorb
<1>5. h0[c] = g0[c]
  BY <1>1 DEF Absorb, Agree
<1>6. after \in DOMAIN g \ {gone} => h0[after] = g0[after]
  <2>1. after \in DOMAIN g => h[after] = g[after] /\ after \in DOMAIN h BY DEF Agree
  <2> QED BY <1>1, <2>1 DEF Absorb
<1>7. gone \notin S \cup G /\ c \notin S \cup G /\ gone \in DOMAIN g /\ c # gone
  BY DEF Agree
<1> HIDE DEF h0, g0, gone, after
<1>8. after \notin S \cup G BY DEF after, gone
<1>9. Agree(h0, g0, S, G) /\ Kept(h0, h, S \cup G) /\ Kept(g0, g, S)
  <2>1. \A d \in DOMAIN g0 : h0[d].allocated = g0[d].allocated
    BY <1>2, <1>3, <1>4, <1>5, <1>6, <1>7 DEF Agree
  <2>2. \A d \in DOMAIN g0 \ S : h0[d] = g0[d]
    BY <1>2, <1>3, <1>4, <1>5, <1>6, <1>7 DEF Agree
  <2> QED BY <1>2, <1>3, <1>4, <1>7, <1>8, <2>1, <2>2 DEF Agree, Kept
<1> QED BY <1>9 DEF h0, g0

LEMMA KeptTwice ==
  ASSUME NEW f, NEW g, NEW h, NEW X, Kept(g, h, X), Kept(f, g, X)
  PROVE  Kept(f, h, X)
BY DEF Kept

(* malloc: neither the chunk nor the one behind it may differ, and no      *)
(* forgotten header may lie in it.                                         *)
LEMMA AgreeGive ==
  ASSUME NEW h, NEW g, NEW S, NEW G, Agree(h, g, S, G), IsList(g), WellFormed(g),
         S \subseteq DOMAIN g,
         NEW c \in DOMAIN g \ S, NEW size \in Nat, g[c].size > size,
         g[c].next \notin S \cup G,
         \A a \in G : a < c \/ ChunkEnd(g, c) <= a
  PROVE  /\ Agree(Give(h, c, size), Give(g, c, size), S, G)
         /\ Kept(Give(h, c, size), h, S \cup G) /\ Kept(Give(g, c, size), g, S)
<1>1. h[c] = g[c] BY DEF Agree
<1>2. CASE g[c].size >= size + ChunkHeader + 1
  <2> DEFINE temp == c + ChunkHeader + size
             h0 == Split(h, c, size)
             g0 == Split(g, c, size)
  <2>1. CutAt(g0, g, c, size, temp) BY <1>2, SplitFields
  <2>2. temp \notin DOMAIN g /\ temp \notin S
    BY <2>1 DEF CutAt
  <2>3. temp \notin G
    <3>1. c \in Nat /\ g[c].size \in Nat /\ ChunkHeader \in Nat \ {0}
      BY HeaderTypes, HeapAssumption
    <3>2. c < temp /\ temp < ChunkEnd(g, c) BY <1>2, <3>1 DEF ChunkEnd
    <3>3. temp \in Nat /\ ChunkEnd(g, c) \in Nat BY <3>1 DEF ChunkEnd
    <3> HIDE DEF temp
    <3> QED BY <3>1, <3>2, <3>3
  <2>4. Agree(h0, g0, S, G) /\ Kept(h0, h, S \cup G) /\ Kept(g0, g, S)
    BY <2>2, <2>3, AgreeSplit
  <2>5. c \in DOMAIN g0 \ S BY DEF Split
  <2>6. Give(h, c, size) = Mark(h0, c, TRUE) /\ Give(g, c, size) = Mark(g0, c, TRUE)
    BY <1>1, <1>2 DEF Give
  <2> HIDE DEF h0, g0
  <2>7. /\ Agree(Mark(h0, c, TRUE), Mark(g0, c, TRUE), S, G)
        /\ Kept(Mark(h0, c, TRUE), h0, S \cup G) /\ Kept(Mark(g0, c, TRUE), g0, S)
    BY <2>4, <2>5, AgreeMark
  <2> QED BY <2>4, <2>6, <2>7, KeptTwice
<1>3. CASE ~(g[c].size >= size + ChunkHeader + 1)
  <2>1. Give(h, c, size) = Mark(h, c, TRUE) /\ Give(g, c, size) = Mark(g, c, TRUE)
    BY <1>1, <1>3 DEF Give
  <2>2. /\ Agree(Mark(h, c, TRUE), Mark(g, c, TRUE), S, G)
        /\ Kept(Mark(h, c, TRUE), h, S \cup G) /\ Kept(Mark(g, c, TRUE), g, S)
    BY AgreeMark
  <2> QED BY <2>1, <2>2
<1> QED BY <1>2, <1>3

(* free: the chunks it merges may not differ, nor the one behind them.     *)
LEMMA AgreeFreed ==
  ASSUME NEW h, NEW g, NEW S, NEW G, Agree(h, g, S, G), IsList(g), WellFormed(g),
         0 \notin S \cup G, NEW c \in DOMAIN g \ S,
         g[c].prev \in S => g[g[c].prev].allocated,
         g[c].next \in S =>
           g[g[c].next].allocated /\ (g[c].prev = 0 \/ g[g[c].prev].allocated),
         g[c].next # 0 /\ ~g[g[c].next].allocated => g[g[c].next].next \notin S
  PROVE  /\ Agree(Freed(h, c), Freed(g, c), S, G)
         /\ Kept(Freed(h, c), h, S \cup G) /\ Kept(Freed(g, c), g, S)
<1> DEFINE h0 == Mark(h, c, FALSE)
           g0 == Mark(g, c, FALSE)
           p == g[c].prev
           n == g[c].next
           h1 == MergePrev(h0, c)
           g1 == MergePrev(g0, c)
           c1 == IF FreeNeighbour(g0, p) THEN p ELSE c
<1>1. /\ IsList(g0) /\ WellFormed(g0) /\ DOMAIN g0 = DOMAIN g
      /\ \A d \in DOMAIN g :
           /\ g0[d].next = g[d].next /\ g0[d].prev = g[d].prev
           /\ d # c => g0[d].allocated = g[d].allocated
      /\ ~g0[c].allocated
  <2>1. IsList(g0) /\ WellFormed(g0) /\ MarkedAs(g0, g, c, FALSE)
    BY MarkFacts, Zenon
  <2> HIDE DEF g0
  <2> QED BY <2>1, Zenon DEF MarkedAs
<1>2. /\ Agree(h0, g0, S, G) /\ Kept(h0, h, S \cup G) /\ Kept(g0, g, S)
  BY AgreeMark
<1>3. /\ p = 0 \/ (p \in DOMAIN g /\ g[p].next = c /\ p # c)
      /\ n = 0 \/ (n \in DOMAIN g /\ g[n].prev = c /\ n # c /\ n # p)
      /\ 0 \notin DOMAIN g
  <2>1. p = 0 \/ (p \in DOMAIN g /\ g[p].next = c /\ p < c) BY Links
  <2>2. n = 0 \/ (n \in DOMAIN g /\ g[n].prev = c /\ c < n) BY Links
  <2>3. c \in Nat /\ (p \in DOMAIN g => p \in Nat) /\ (n \in DOMAIN g => n \in Nat) BY Links
  <2>4. 0 \notin DOMAIN g BY Links
  <2> QED BY <2>1, <2>2, <2>3, <2>4
<1>4. /\ n # 0 /\ ~g[n].allocated => g[n].next # n /\ g[n].next # c /\ g[n].next \notin G
  <2> SUFFICES ASSUME n # 0, ~g[n].allocated
               PROVE  g[n].next # n /\ g[n].next # c /\ g[n].next \notin G
    OBVIOUS
  <2>1. n \in DOMAIN g /\ c < n /\ n \in Nat /\ c \in Nat BY <1>3, Links
  <2>2. g[n].next = 0 \/ (g[n].next \in DOMAIN g /\ n < g[n].next /\ g[n].next \in Nat)
    BY <2>1, Links
  <2> QED BY <1>3, <2>1, <2>2 DEF Agree
<1>5. h0[c].prev = p /\ h0[c].next = n
  <2> HIDE DEF h0, g0
  <2>1. h0[c] = g0[c] BY <1>1, <1>2 DEF Agree
  <2> QED BY <1>1, <2>1
<1>6. /\ FreeNeighbour(h0, p) <=> FreeNeighbour(g0, p)
  BY <1>1, <1>2, <1>3, Zenon DEF Agree, FreeNeighbour
<1>7. /\ Agree(h1, g1, S, G) /\ Kept(h1, h0, S \cup G) /\ Kept(g1, g0, S)
      /\ IsList(g1) /\ WellFormed(g1) /\ c1 \in DOMAIN g1 \ S /\ g1[c1].next = n
      /\ n # 0 => /\ n \in DOMAIN g1 /\ g1[n].next = g[n].next
                  /\ g1[n].allocated = g[n].allocated /\ n # c1
  <2>1. CASE FreeNeighbour(g0, p)
    <3>1. h1 = Absorb(h0, p) /\ g1 = Absorb(g0, p) /\ c1 = p /\ p # 0 /\ ~g0[p].allocated
      BY <1>1, <1>5, <1>6, <2>1 DEF MergePrev, FreeNeighbour
    <3> HIDE DEF h0, g0, h1, g1, c1
    <3>2. p \in DOMAIN g0 \ S /\ g0[p].next = c /\ c \in DOMAIN g0 \ S /\ c # p
      BY <1>1, <1>3, <3>1
    <3>3. n \notin S \cup G
      BY <1>1, <1>3, <3>1, <3>2 DEF Agree
    <3>4. /\ Agree(h1, g1, S, G) /\ Kept(h1, h0, S \cup G) /\ Kept(g1, g0, S)
      BY <1>1, <1>2, <3>1, <3>2, <3>3, AgreeAbsorb
    <3>5. JoinedAt(g1, g0, p) /\ IsList(g1) /\ WellFormed(g1)
      BY <1>1, <1>3, <3>1, <3>2, AbsorbFields, AbsorbWellFormed
    <3> QED BY <1>1, <1>3, <3>1, <3>2, <3>4, <3>5 DEF JoinedAt
  <2>2. CASE ~FreeNeighbour(g0, p)
    <3>1. h1 = h0 /\ g1 = g0 /\ c1 = c
      BY <1>1, <1>5, <1>6, <2>2 DEF MergePrev
    <3> HIDE DEF h0, g0, h1, g1, c1
    <3> QED BY <1>1, <1>2, <1>3, <3>1 DEF Kept, Agree
  <2> QED BY <2>1, <2>2
<1>8. Freed(h, c) = MergeNext(h1, c1) /\ Freed(g, c) = MergeNext(g1, c1)
  BY <1>1, <1>5, <1>6 DEF Freed
<1> HIDE DEF h0, g0, h1, g1, c1
<1>9. h1[c1].next = n
  BY <1>7 DEF Agree
<1>10. FreeNeighbour(h1, n) <=> FreeNeighbour(g1, n)
  BY <1>7, Zenon DEF Agree, FreeNeighbour
<1> DEFINE h2 == MergeNext(h1, c1)
           g2 == MergeNext(g1, c1)
<1>11. /\ Agree(h2, g2, S, G) /\ Kept(h2, h1, S \cup G) /\ Kept(g2, g1, S)
  <2>1. CASE FreeNeighbour(g1, n)
    <3>1. h2 = Absorb(h1, c1) /\ g2 = Absorb(g1, c1) /\ n # 0 /\ ~g1[n].allocated
      BY <1>7, <1>9, <1>10, <2>1 DEF MergeNext, FreeNeighbour
    <3>2. n \in DOMAIN g1 \ S /\ g1[n].next \notin S \cup G /\ c1 # n
      BY <1>4, <1>7, <3>1
    <3> HIDE DEF h2, g2
    <3> QED BY <1>7, <3>1, <3>2, AgreeAbsorb
  <2>2. CASE ~FreeNeighbour(g1, n)
    <3>1. h2 = h1 /\ g2 = g1
      BY <1>7, <1>9, <1>10, <2>2 DEF MergeNext
    <3> HIDE DEF h2, g2
    <3> QED BY <1>7, <3>1 DEF Kept, Agree
  <2> QED BY <2>1, <2>2
<1> HIDE DEF h2, g2
<1>12. Kept(h2, h, S \cup G) /\ Kept(g2, g, S)
  BY <1>2, <1>7, <1>11, KeptTwice
<1> QED BY <1>8, <1>11, <1>12 DEF h2, g2

(* What malloc does to memory is Give, when no header lies in the block.   *)
LEMMA GrantedIsGive ==
  ASSUME NEW g, NEW S, NEW G, Agree(chunks, g, S, G), IsList(g), WellFormed(g),
         NEW c \in DOMAIN g, chunks[c] = g[c], NEW size \in Nat, g[c].size > size,
         \A a \in G : a \in Nat /\ (a + ChunkHeader <= c \/ ChunkEnd(g, c) <= a)
  PROVE  Granted(c, size) = Give(chunks, c, size)
<1> DEFINE temp == c + ChunkHeader + size
           f == IF Splits(c, size) THEN Split(chunks, c, size) ELSE chunks
           h == Mark(f, c, TRUE)
           rest == h[c].next
           hi == IF Splits(c, size) THEN rest + ChunkHeader ELSE c + ChunkHeader + size
           gone == Within(h, c, hi) \ {c, rest}
<1>1. /\ c \in Nat /\ g[c].size \in Nat /\ ChunkHeader \in Nat \ {0}
      /\ ChunkEnd(g, c) = c + ChunkHeader + g[c].size
  BY HeaderTypes, HeapAssumption DEF ChunkEnd
<1>2. /\ Splits(c, size) => rest = temp
      /\ DOMAIN h \subseteq DOMAIN chunks \cup (IF Splits(c, size) THEN {temp} ELSE {})
  <2>1. CASE Splits(c, size)
    <3>1. f = Split(chunks, c, size) BY <2>1
    <3>2. DOMAIN f = DOMAIN chunks \cup {temp} /\ c \in DOMAIN f
          /\ f[c] = [chunks[c] EXCEPT !.size = size, !.next = temp]
      BY <3>1 DEF Split, Agree
    <3>3. f[c].next = temp
      <4>1. chunks[c] \in Chunk BY HeaderTypes
      <4> HIDE DEF f, temp
      <4> QED BY <3>2, <4>1 DEF Chunk
    <3> HIDE DEF f
    <3> QED BY <2>1, <3>2, <3>3 DEF Mark
  <2>2. CASE ~Splits(c, size)
    BY <2>2 DEF Mark
  <2> QED BY <2>1, <2>2
<1>3. hi <= ChunkEnd(g, c) /\ hi \in Nat
  <2>1. CASE Splits(c, size)
    <3>1. hi = temp + ChunkHeader BY <1>2, <2>1
    <3>2. g[c].size >= size + ChunkHeader + 1 BY <2>1 DEF Splits
    <3> HIDE DEF hi
    <3> QED BY <1>1, <3>1, <3>2
  <2>2. CASE ~Splits(c, size)
    <3>1. hi = c + ChunkHeader + size BY <2>2
    <3> HIDE DEF hi
    <3> QED BY <1>1, <3>1
  <2> QED BY <2>1, <2>2
<1> HIDE DEF h, rest, hi, f
<1>4. gone = {}
  <2> SUFFICES ASSUME NEW a \in gone PROVE FALSE
    OBVIOUS
  <2>1. a \in DOMAIN h /\ a < hi /\ c < a + ChunkHeader /\ a # c /\ a # rest
    BY DEF Within
  <2>2. a \in DOMAIN chunks
    BY <1>2, <2>1
  <2>3. CASE a \in DOMAIN g
    <3>1. a \in Nat /\ ChunkEnd(g, a) = a + ChunkHeader + g[a].size /\ g[a].size \in Nat
      BY <2>3, HeaderTypes DEF ChunkEnd
    <3>2. ChunkEnd(g, c) <= a \/ ChunkEnd(g, a) <= c
      BY <2>1, <2>3, Disjoint
    <3> QED BY <1>1, <1>3, <2>1, <3>1, <3>2
  <2>4. CASE a \in G
    BY <1>1, <1>3, <2>1, <2>4
  <2> QED BY <2>2, <2>3, <2>4 DEF Agree
<1>5. h = [a \in DOMAIN h \ gone |-> h[a]]
  BY <1>4 DEF h, Mark
<1>6. Granted(c, size) = [a \in DOMAIN h \ gone |-> h[a]]
  BY DEF Granted, h, rest, hi, f
<1>7. h = Give(chunks, c, size)
  BY DEF h, f, Give, Splits
<1> QED BY <1>5, <1>6, <1>7

-----------------------------------------------------------------------------
(* The inductive invariant                                                 *)
(* The chunks kernelMain has, with the one its free has not unmarked yet,  *)
(* and those the handler has.                                              *)
Kernel ==
  {p - ChunkHeader : p \in DOMAIN owned} \cup (IF main.at = "unmark" THEN {current} ELSE {})

Handed == {held[i].pointer - ChunkHeader : i \in DOMAIN held}

(* List g tiles the heap, and its allocated chunks are those somebody has. *)
Books(g) ==
  /\ IsList(g) /\ WellFormed(g)
  /\ \A d \in DOMAIN g : g[d].allocated <=> d \in Kernel \cup Handed
  /\ Kernel \subseteq DOMAIN g /\ Handed \subseteq DOMAIN g /\ Kernel \cap Handed = {}
  /\ \A p \in DOMAIN owned :
       p \in Nat /\ owned[p] \in Nat /\ owned[p] <= g[p - ChunkHeader].size
  /\ held \in Seq([pointer : Nat, size : Nat])
  /\ \A i \in DOMAIN held : held[i].size <= g[held[i].pointer - ChunkHeader].size
  /\ \A i, j \in DOMAIN held : i # j => held[i].pointer # held[j].pointer

(* No free merges chunk c into the chunk before it: that is kernelMain's.  *)
Anchored(g, c) ==
  c \in DOMAIN g /\ c \notin Kernel /\ (c = HeapStart \/ g[c].prev \in Kernel)

(* B is no address, or one behind c with no chunk of kernelMain between.   *)
Clear(c, B) == B = 0 \/ (B \in Nat /\ c < B /\ \A k \in Kernel : ~(c < k /\ k < B))

(* Memory while two chunks become one or one becomes two: the list has the *)
(* whole chunk z, memory has the header at g in it.  The fields the        *)
(* statements turn one by one are the size s and next x of z and the prev  *)
(* v of the chunk behind.                                                  *)
Torn(list, z, g, s, x, v) ==
  LET y == list[z].next IN
  /\ Anchored(list, z) /\ ~list[z].allocated
  /\ g \in Nat /\ z < g /\ chunks[g] \in Chunk
  /\ g + ChunkHeader + chunks[g].size = ChunkEnd(list, z)
  /\ DOMAIN chunks = DOMAIN list \cup {g} /\ g \notin DOMAIN list
  /\ chunks[z] = [list[z] EXCEPT !.size = s, !.next = x]
  /\ y # 0 => chunks[y] = [list[y] EXCEPT !.prev = v]
  /\ \A d \in DOMAIN list \ {z, y} : chunks[d] = list[d]
  /\ chunks[g].next = y /\ chunks[g].prev = z /\ ~chunks[g].allocated
  /\ y \in Kernel \cup {0} \/ (~list[y].allocated /\ list[y].next \in Kernel \cup {0})

AtLook(list, B) ==
  chunks = list /\ B = 0 /\ (current \in Kernel \cup {0} \/ Anchored(list, current))

(* The chunk that was found cannot end before the bytes that are needed.   *)
AtCut(list, B) ==
  /\ chunks = list /\ B = 0 /\ Anchored(list, current)
  /\ Clear(current, Temp + 1) /\ Temp < HeapEnd

(* Here the rest that was cut off is free behind a chunk that is not       *)
(* marked yet: a buffer in the rest is merged into the chunk when it is    *)
(* freed, which only makes the chunk larger.                               *)
AtMark(list, B) ==
  /\ chunks = list /\ B \in {0, Temp} /\ Anchored(list, current)
  /\ Clear(current, Temp) /\ Temp <= HeapEnd

Cutting(list) ==
  list[current].next \in Kernel \cup {0} /\ list[current].size > main.size + ChunkHeader

AtRelink(list, B) ==
  /\ B = 0 /\ Cutting(list)
  /\ Torn(list, current, Temp, list[current].size, list[current].next, current)

AtShrink(list, B) ==
  /\ B = 0 /\ Cutting(list)
  /\ Torn(list, current, Temp, list[current].size, list[current].next, Temp)

AtLink(list, B) ==
  /\ B = 0 /\ Cutting(list)
  /\ Torn(list, current, Temp, main.size, list[current].next, Temp)

(* The pointer is nobody's any more.                                       *)
AtUnmark(list, B) == chunks = list /\ B = 0 /\ current + ChunkHeader \notin DOMAIN owned

AtTestPrev(list, B) ==
  /\ chunks = list /\ current \in DOMAIN list /\ ~list[current].allocated
  /\ list[current].prev \notin Handed /\ Clear(current, B)

AtPrevNext(list, B) ==
  /\ chunks = list /\ current \in DOMAIN list /\ ~list[current].allocated
  /\ list[current].prev # 0 /\ ~list[list[current].prev].allocated /\ Clear(current, B)

AtPrevSize(list, B) ==
  LET z == chunks[current].prev IN
  /\ B \in {0, list[z].next}
  /\ Torn(list, z, current, current - z - ChunkHeader, list[z].next, current)

AtPrevBack(list, B) ==
  LET z == chunks[current].prev IN
  /\ B \in {0, list[z].next}
  /\ Torn(list, z, current, list[z].size, list[z].next, current)

(* Only the header of the merged chunk is left in the other one.           *)
AtToPrev(list, B) ==
  LET z == chunks[current].prev IN
  /\ DOMAIN chunks = DOMAIN list \cup {current} /\ current \notin DOMAIN list
  /\ \A d \in DOMAIN list : chunks[d] = list[d]
  /\ Anchored(list, z) /\ ~list[z].allocated /\ chunks[current].next # current
  /\ current \in Nat /\ z < current /\ current + ChunkHeader <= ChunkEnd(list, z)
  /\ Clear(z, B)

AtTestNext(list, B) == chunks = list /\ Anchored(list, current) /\ Clear(current, B)

AtNextSize(list, B) ==
  /\ chunks = list /\ Anchored(list, current) /\ Clear(current, B)
  /\ ~list[current].allocated
  /\ list[current].next # 0 /\ ~list[list[current].next].allocated

AtNextNext(list, B) ==
  LET g == chunks[current].next IN
  /\ B = 0 /\ list[current].next \in Kernel \cup {0}
  /\ Torn(list, current, g, list[current].size, g, g)

(* Only the chunk behind may still point to the merged one; a malloc of    *)
(* the handler that cuts the chunk again sets that link, too.              *)
AtNextBack(list, B) ==
  /\ B = 0 /\ Anchored(list, current) /\ DOMAIN chunks = DOMAIN list
  /\ \A d \in DOMAIN list :
       \/ chunks[d] = list[d]
       \/ /\ d = list[current].next /\ d \in Kernel
          /\ \E v : chunks[d] = [list[d] EXCEPT !.prev = v]

Place(list, B) ==
  \/ main.at = "idle" /\ chunks = list /\ B = 0
  \/ main.at = "unmark" /\ AtUnmark(list, B)
  \/ main.at = "look" /\ AtLook(list, B)
  \/ main.at = "cut" /\ AtCut(list, B)
  \/ main.at = "mark" /\ AtMark(list, B)
  \/ main.at = "relink" /\ AtRelink(list, B)
  \/ main.at = "shrink" /\ AtShrink(list, B)
  \/ main.at = "link" /\ AtLink(list, B)
  \/ main.at = "testPrev" /\ AtTestPrev(list, B)
  \/ main.at = "prevNext" /\ AtPrevNext(list, B)
  \/ main.at = "prevSize" /\ AtPrevSize(list, B)
  \/ main.at = "prevBack" /\ AtPrevBack(list, B)
  \/ main.at = "toPrev" /\ AtToPrev(list, B)
  \/ main.at = "testNext" /\ AtTestNext(list, B)
  \/ main.at = "nextSize" /\ AtNextSize(list, B)
  \/ main.at = "nextNext" /\ AtNextNext(list, B)
  \/ main.at = "nextBack" /\ AtNextBack(list, B)

(* Where two free chunks may be neighbours: at B, and before the chunk     *)
(* that free has unmarked and not merged yet.                              *)
Excused(B) == {B} \cup (IF main.at \in {"testPrev", "prevNext"} THEN {current} ELSE {})

(* Behind memory there is a list in order, which is what kernelMain's call *)
(* makes of memory or has found there.                                     *)
Sound(list, B) ==
  main.size \in Nat /\ Books(list) /\ CoalescedAt(list, Excused(B)) /\ Place(list, B)

PreemptedInv == ~exposed => \E list, B : Sound(list, B)

-----------------------------------------------------------------------------
(* The handler                                                             *)
Buffer == [pointer : Nat, size : Nat]

LEMMA HeldAppended ==
  ASSUME held \in Seq(Buffer), NEW c \in Nat, NEW size \in Nat,
         held' = Append(held, [pointer |-> c + ChunkHeader, size |-> size])
  PROVE  /\ held' \in Seq(Buffer)
         /\ DOMAIN held' = 1..(Len(held) + 1) /\ DOMAIN held = 1..Len(held) /\ Len(held) \in Nat
         /\ \A i \in DOMAIN held : held'[i] = held[i]
         /\ held'[Len(held) + 1].pointer = c + ChunkHeader /\ held'[Len(held) + 1].size = size
         /\ Handed' = Handed \cup {c}
<1> DEFINE b == [pointer |-> c + ChunkHeader, size |-> size]
<1>1. b \in Buffer /\ b.pointer = c + ChunkHeader /\ b.size = size
  BY HeapAssumption DEF Buffer
<1>2. c + ChunkHeader - ChunkHeader = c BY HeapAssumption
<1>3. held' = Append(held, b) OBVIOUS
<1> HIDE DEF b
<1>4. DOMAIN held = 1..Len(held) /\ Len(held) \in Nat BY LenProperties
<1>5. /\ held' \in Seq(Buffer) /\ Len(held') = Len(held) + 1
      /\ \A i \in 1..Len(held) : held'[i] = held[i]
      /\ held'[Len(held) + 1] = b
  BY <1>1, <1>3, AppendProperties
<1>6. DOMAIN held' = 1..(Len(held) + 1) BY <1>5, LenProperties
<1>7. Handed' = Handed \cup {c}
  <2> DEFINE n == Len(held) + 1
  <2>1. /\ DOMAIN held' = DOMAIN held \cup {n} /\ n \in DOMAIN held'
        /\ \A i \in DOMAIN held : i \in DOMAIN held' /\ held'[i] = held[i]
    <3>1. n \in Nat /\ n = Len(held) + 1 BY <1>4
    <3>2. DOMAIN held = 1..Len(held) /\ DOMAIN held' = 1..n BY <1>4, <1>6
    <3> HIDE DEF n
    <3>3. 1..n = (1..Len(held)) \cup {n} BY <1>4, <3>1
    <3>4. DOMAIN held' = DOMAIN held \cup {n} BY <3>2, <3>3
    <3>5. \A i \in DOMAIN held : held'[i] = held[i] BY <1>5, <3>2
    <3> QED BY <3>4, <3>5
  <2>2. held'[n].pointer - ChunkHeader = c
    <3>1. held'[n] = b BY <1>5
    <3> HIDE DEF n
    <3>2. PICK q : q = held'[n].pointer OBVIOUS
    <3>3. q = c + ChunkHeader BY <1>1, <3>1, <3>2
    <3>4. q - ChunkHeader = c BY <3>3, HeapAssumption
    <3> QED BY <3>2, <3>4
  <2> HIDE DEF n
  <2>3. Handed' \subseteq Handed \cup {c} BY <2>1, <2>2 DEF Handed
  <2>4. Handed \subseteq Handed' BY <2>1 DEF Handed
  <2>5. c \in Handed' BY <2>1, <2>2 DEF Handed
  <2> QED BY <2>3, <2>4, <2>5
<1> QED BY <1>1, <1>4, <1>5, <1>6, <1>7

(* The chunk of a buffer. *)
LEMMA HandedChunk ==
  ASSUME NEW list, Books(list), NEW i \in DOMAIN held
  PROVE  /\ held[i].pointer \in Nat /\ held[i].size \in Nat
         /\ held[i].pointer - ChunkHeader \in DOMAIN list
         /\ held[i].pointer - ChunkHeader \in Handed
         /\ list[held[i].pointer - ChunkHeader].allocated
         /\ DOMAIN held = 1..Len(held) /\ Len(held) \in Nat
<1>1. held \in Seq(Buffer) BY DEF Books, Buffer
<1>2. held[i] \in Buffer /\ DOMAIN held = 1..Len(held) /\ Len(held) \in Nat
  BY <1>1, ElementOfSeq, LenProperties
<1> QED BY <1>2 DEF Books, Buffer, Handed

(* A buffer the handler gets keeps the books. *)
LEMMA HandlerGives ==
  ASSUME NEW list, Books(list), NEW E, CoalescedAt(list, E),
         NEW c \in DOMAIN list, ~list[c].allocated, NEW size \in Nat, list[c].size > size,
         held' = Append(held, [pointer |-> c + ChunkHeader, size |-> size]),
         owned' = owned, main' = main
  PROVE  /\ Books(Give(list, c, size))' /\ CoalescedAt(Give(list, c, size), E)
         /\ GivenTo(Give(list, c, size), list, c, size)
         /\ Kernel' = Kernel /\ Handed' = Handed \cup {c} /\ c \notin Kernel \cup Handed
<1> DEFINE g == Give(list, c, size)
<1>1. IsList(list) /\ WellFormed(list) /\ c \notin Kernel \cup Handed /\ c \in Nat
  BY HeaderTypes DEF Books
<1>2. GivenTo(g, list, c, size) /\ IsList(g) /\ WellFormed(g) /\ CoalescedAt(g, E)
  BY <1>1, GiveFacts
<1> HIDE DEF g
<1>3. Kernel' = Kernel BY DEF Kernel, current
<1>4. held \in Seq(Buffer) BY DEF Books, Buffer
<1>5. /\ held' \in Seq(Buffer)
      /\ DOMAIN held' = 1..(Len(held) + 1) /\ DOMAIN held = 1..Len(held) /\ Len(held) \in Nat
      /\ \A i \in DOMAIN held : held'[i] = held[i]
      /\ held'[Len(held) + 1].pointer = c + ChunkHeader /\ held'[Len(held) + 1].size = size
      /\ Handed' = Handed \cup {c}
  BY <1>1, <1>4, HeldAppended
<1>6. ASSUME NEW d \in DOMAIN g
      PROVE  g[d].allocated <=> d \in Kernel' \cup Handed'
  <2>1. CASE d = c
    BY <2>1, <1>2, <1>5 DEF GivenTo
  <2>2. CASE d \in DOMAIN list \ {c}
    <3>1. g[d].allocated = list[d].allocated BY <2>2, <1>2 DEF GivenTo
    <3> QED BY <2>2, <3>1, <1>3, <1>5, Zenon DEF Books
  <2>3. CASE d \notin DOMAIN list
    <3>1. ~g[d].allocated BY <2>3, <1>2 DEF GivenTo
    <3>2. d \notin Kernel \cup Handed /\ d # c BY <2>3 DEF Books
    <3> QED BY <3>1, <3>2, <1>3, <1>5
  <2> QED BY <2>1, <2>2, <2>3
<1>7. Kernel' \subseteq DOMAIN g /\ Handed' \subseteq DOMAIN g /\ Kernel' \cap Handed' = {}
  BY <1>1, <1>2, <1>3, <1>5 DEF GivenTo, Books
<1>8. ASSUME NEW p \in DOMAIN owned'
      PROVE  p \in Nat /\ owned'[p] \in Nat /\ owned'[p] <= g[p - ChunkHeader].size
  <2>1. p - ChunkHeader \in Kernel BY DEF Kernel
  <2>2. p - ChunkHeader \in DOMAIN list \ {c} BY <1>1, <2>1 DEF Books
  <2>3. g[p - ChunkHeader].size = list[p - ChunkHeader].size BY <2>2, <1>2 DEF GivenTo
  <2> QED BY <2>3 DEF Books
<1>9. ASSUME NEW i \in DOMAIN held'
      PROVE  held'[i].size <= g[held'[i].pointer - ChunkHeader].size
  <2>1. CASE i \in DOMAIN held
    <3>1. held[i].pointer - ChunkHeader \in DOMAIN list \ {c}
      BY <2>1, <1>1, HandedChunk
    <3>2. g[held[i].pointer - ChunkHeader].size = list[held[i].pointer - ChunkHeader].size
      BY <3>1, <1>2 DEF GivenTo
    <3> QED BY <2>1, <3>2, <1>5 DEF Books
  <2>2. CASE i = Len(held) + 1
    <3>1. held'[i].pointer - ChunkHeader = c
      BY <2>2, <1>1, <1>5, HeapAssumption
    <3> QED BY <2>2, <3>1, <1>2, <1>5 DEF GivenTo
  <2> QED BY <2>1, <2>2, <1>5
<1>10. ASSUME NEW i \in DOMAIN held', NEW j \in DOMAIN held', i # j
       PROVE  held'[i].pointer # held'[j].pointer
  <2>1. ASSUME NEW k \in DOMAIN held PROVE held[k].pointer # c + ChunkHeader
    <3>1. held[k].pointer - ChunkHeader # c BY <2>1, <1>1, HandedChunk
    <3>2. held[k].pointer \in Nat BY <2>1, HandedChunk
    <3> QED BY <3>1, <3>2, <1>1, HeapAssumption
  <2>2. CASE i \in DOMAIN held /\ j \in DOMAIN held
    BY <2>2, <1>5, <1>10 DEF Books
  <2>3. CASE i = Len(held) + 1 \/ j = Len(held) + 1
    BY <2>1, <2>3, <1>5, <1>10
  <2> QED BY <2>2, <2>3, <1>5
<1>11. Books(g)'
  BY <1>2, <1>5, <1>6, <1>7, <1>8, <1>9, <1>10 DEF Books, Buffer
<1> QED BY <1>1, <1>2, <1>3, <1>5, <1>11 DEF g

LEMMA HeldShortened ==
  ASSUME held \in Seq(Buffer), held # <<>>, held' = Front(held)
  PROVE  /\ held' \in Seq(Buffer)
         /\ DOMAIN held = 1..Len(held) /\ Len(held) \in Nat \ {0}
         /\ DOMAIN held' = 1..(Len(held) - 1)
         /\ \A i \in DOMAIN held' : held'[i] = held[i]
         /\ Last(held) = held[Len(held)]
<1>1. Len(held) \in Nat \ {0} /\ DOMAIN held = 1..Len(held)
  BY EmptySeq, LenProperties
<1>2. held' = SubSeq(held, 1, Len(held) - 1) BY DEF Front
<1>3. \A i \in 1..(Len(held) - 1) : held[i] \in Buffer
  BY <1>1, ElementOfSeq
<1>4. /\ held' \in Seq(Buffer) /\ Len(held') = Len(held) - 1
      /\ \A i \in 1..(Len(held) - 1) : held'[i] = held[i]
  <2> DEFINE n == Len(held) - 1
  <2>1. n \in Int /\ 1 \in Int /\ n - 1 + 1 = n /\ n >= 0 BY <1>1
  <2>2. \A i \in 1..n : held[i] \in Buffer BY <1>3
  <2>3. held' = SubSeq(held, 1, n) BY <1>2
  <2> HIDE DEF n
  <2>4. /\ SubSeq(held, 1, n) \in Seq(Buffer)
        /\ Len(SubSeq(held, 1, n)) = IF 1 <= n THEN n - 1 + 1 ELSE 0
        /\ \A i \in 1..n - 1 + 1 : SubSeq(held, 1, n)[i] = held[1 + i - 1]
    BY <2>1, <2>2, SubSeqProperties
  <2>5. Len(held') = n BY <2>1, <2>3, <2>4
  <2>6. \A i \in 1..n : held'[i] = held[i]
    <3> SUFFICES ASSUME NEW i \in 1..n PROVE held'[i] = held[i]
      OBVIOUS
    <3>1. 1 + i - 1 = i /\ i \in 1..n - 1 + 1 BY <2>1
    <3>2. SubSeq(held, 1, n)[i] = held[1 + i - 1] BY <2>4, <3>1
    <3> QED BY <2>3, <3>1, <3>2
  <2> QED BY <2>3, <2>4, <2>5, <2>6 DEF n
<1>5. DOMAIN held' = 1..(Len(held) - 1) BY <1>4, LenProperties
<1>6. Last(held) = held[Len(held)] BY DEF Last
<1> QED BY <1>1, <1>4, <1>5, <1>6

(* A buffer the handler gives back keeps them, too. *)
LEMMA HandlerFrees ==
  ASSUME NEW list, Books(list), NEW E, CoalescedAt(list, E),
         held # <<>>, NEW c, c = Last(held).pointer - ChunkHeader,
         held' = Front(held), owned' = owned, main' = main
  PROVE  /\ c \in DOMAIN list /\ c \in Handed /\ c \notin Kernel /\ list[c].allocated
         /\ Books(Freed(list, c))' /\ CoalescedAt(Freed(list, c), E)
         /\ \E c1 : FreedFrom(Freed(list, c), list, c, c1)
         /\ Kernel' = Kernel /\ Handed' = Handed \ {c}
<1> DEFINE g == Freed(list, c)
           n == Len(held)
<1>1. held \in Seq(Buffer) BY DEF Books, Buffer
<1>2. /\ held' \in Seq(Buffer) /\ DOMAIN held = 1..n /\ n \in Nat \ {0}
      /\ DOMAIN held' = 1..(n - 1) /\ \A i \in DOMAIN held' : held'[i] = held[i]
      /\ Last(held) = held[n]
  BY <1>1, HeldShortened
<1>3. /\ n \in DOMAIN held /\ c = held[n].pointer - ChunkHeader
      /\ DOMAIN held = DOMAIN held' \cup {n} /\ n \notin DOMAIN held'
  BY <1>2
<1>4. c \in DOMAIN list /\ c \in Handed /\ list[c].allocated
  BY <1>3, HandedChunk
<1>5. c \notin Kernel /\ IsList(list) /\ WellFormed(list) BY <1>4 DEF Books
<1>6. IsList(g) /\ WellFormed(g) /\ CoalescedAt(g, E)
  BY <1>4, <1>5, FreedShape
<1>7. PICK c1 : FreedFrom(g, list, c, c1)
  BY <1>4, <1>5, FreedShape
<1> HIDE DEF g, n
<1>8. Kernel' = Kernel BY DEF Kernel, current
<1>9. \A i \in DOMAIN held' : held[i].pointer - ChunkHeader # c
  <2> SUFFICES ASSUME NEW i \in DOMAIN held', held[i].pointer - ChunkHeader = c PROVE FALSE
    OBVIOUS
  <2>1. i \in DOMAIN held /\ i # n BY <1>3
  <2>2. held[i].pointer \in Nat /\ held[n].pointer \in Nat BY <1>3, <2>1, HandedChunk
  <2>3. held[i].pointer # held[n].pointer BY <1>3, <2>1 DEF Books
  <2> QED BY <1>3, <2>2, <2>3, HeapAssumption
<1>10. Handed' = Handed \ {c}
  BY <1>2, <1>3, <1>9 DEF Handed
<1>11. \A d \in DOMAIN list : list[d].allocated <=> d \in Kernel \cup Handed
  BY Zenon DEF Books
<1>12. c1 \notin Kernel \cup Handed'
  BY <1>5, <1>7, <1>10, <1>11 DEF FreedFrom
<1>13. ASSUME NEW d \in Kernel \cup Handed'
       PROVE  d \in DOMAIN g \ {c1} /\ g[d].size = list[d].size
  <2>1. d \in DOMAIN list /\ list[d].allocated /\ d # c
    BY <1>5, <1>10, <1>11 DEF Books
  <2>2. d \in DOMAIN g BY <1>7, <2>1 DEF FreedFrom
  <2> QED BY <1>7, <1>12, <2>2 DEF FreedFrom
<1>14. ASSUME NEW d \in DOMAIN g
       PROVE  g[d].allocated <=> d \in Kernel' \cup Handed'
  <2>1. CASE d = c1
    <3>1. ~g[c1].allocated BY <1>7 DEF FreedFrom
    <3> QED BY <2>1, <3>1, <1>8, <1>12
  <2>2. CASE d # c1
    <3>1. d \in DOMAIN list /\ d # c /\ g[d].allocated = list[d].allocated
      BY <1>7, <2>2 DEF FreedFrom
    <3> QED BY <3>1, <1>8, <1>10, <1>11, Zenon
  <2> QED BY <2>1, <2>2
<1>15. Kernel' \subseteq DOMAIN g /\ Handed' \subseteq DOMAIN g /\ Kernel' \cap Handed' = {}
  BY <1>8, <1>10, <1>13 DEF Books
<1>16. ASSUME NEW p \in DOMAIN owned'
       PROVE  p \in Nat /\ owned'[p] \in Nat /\ owned'[p] <= g[p - ChunkHeader].size
  <2>1. p - ChunkHeader \in Kernel BY DEF Kernel
  <2> QED BY <2>1, <1>13 DEF Books
<1>17. ASSUME NEW i \in DOMAIN held'
       PROVE  held'[i].size <= g[held'[i].pointer - ChunkHeader].size
  <2>1. i \in DOMAIN held /\ held'[i] = held[i] BY <1>2, <1>3
  <2>2. held'[i].pointer - ChunkHeader \in Handed' BY DEF Handed
  <2>3. g[held'[i].pointer - ChunkHeader].size = list[held'[i].pointer - ChunkHeader].size
    BY <2>2, <1>13
  <2> QED BY <2>1, <2>3 DEF Books
<1>18. ASSUME NEW i \in DOMAIN held', NEW j \in DOMAIN held', i # j
       PROVE  held'[i].pointer # held'[j].pointer
  <2>1. /\ i \in DOMAIN held /\ j \in DOMAIN held
        /\ held'[i] = held[i] /\ held'[j] = held[j]
    BY <1>2, <1>3
  <2> QED BY <1>18, <2>1 DEF Books
<1>19. Books(g)'
  BY <1>2, <1>6, <1>14, <1>15, <1>16, <1>17, <1>18 DEF Books, Buffer
<1> QED BY <1>4, <1>5, <1>6, <1>7, <1>8, <1>10, <1>19 DEF g

(* What kernelMain has found before the interrupt is still so behind it.   *)
LEMMA AnchoredGiven ==
  ASSUME NEW list, Books(list), NEW c \in DOMAIN list, ~list[c].allocated,
         NEW g, NEW size, GivenTo(g, list, c, size), Kernel' = Kernel,
         NEW a, Anchored(list, a)
  PROVE  Anchored(g, a)'
<1>1. /\ a \in DOMAIN g /\ a \in DOMAIN list /\ a \notin Kernel'
      /\ a = HeapStart \/ list[a].prev \in Kernel
  BY DEF Anchored, GivenTo
<1>2. c \notin Kernel /\ IsList(list) /\ WellFormed(list)
  BY DEF Books
<1>3. ASSUME a # HeapStart PROVE g[a].prev \in Kernel'
  <2>1. list[a].prev \in Kernel BY <1>1, <1>3
  <2>2. CASE a = c
    BY <2>1, <2>2 DEF GivenTo
  <2>3. CASE a # c
    <3>1. a # list[c].next
      <4>1. list[a].prev # c BY <1>2, <2>1
      <4>2. a # 0 BY <1>1, <1>2, Links
      <4> QED BY <1>2, <4>1, <4>2, Links
    <3> QED BY <1>1, <2>1, <2>3, <3>1 DEF GivenTo
  <2> QED BY <2>2, <2>3
<1> QED BY <1>1, <1>3 DEF Anchored

LEMMA AnchoredFreed ==
  ASSUME NEW list, Books(list), NEW c \in DOMAIN list, c \notin Kernel,
         NEW g, NEW c1, FreedFrom(g, list, c, c1), Kernel' = Kernel,
         NEW a, Anchored(list, a)
  PROVE  Anchored(g, a)'
<1>1. /\ a \in DOMAIN list /\ a \notin Kernel'
      /\ a = HeapStart \/ list[a].prev \in Kernel
  BY DEF Anchored
<1>2. /\ IsList(list) /\ WellFormed(list)
      /\ \A d \in Kernel : d \in DOMAIN list /\ list[d].allocated
  BY DEF Books
<1>3. /\ c # 0 /\ 0 \notin DOMAIN list
      /\ a = HeapStart => list[a].prev = 0
  BY <1>1, <1>2, Links
<1>4. a \in DOMAIN g
  <2>1. CASE a = c
    <3>1. c1 = c
      BY <1>1, <1>2, <1>3, <2>1 DEF FreedFrom
    <3> QED BY <2>1, <3>1 DEF FreedFrom
  <2>2. CASE a # c
    <3>1. list[a].prev # c BY <1>1, <1>3
    <3> QED BY <1>1, <2>2, <3>1 DEF FreedFrom
  <2> QED BY <2>1, <2>2
<1>5. ASSUME a # HeapStart PROVE g[a].prev \in Kernel'
  <2>1. list[a].prev \in Kernel BY <1>1, <1>5
  <2>2. CASE a = c1
    BY <2>1, <2>2 DEF FreedFrom
  <2>3. CASE a # c1
    <3>1. list[a].prev # c /\ list[list[a].prev].allocated BY <1>2, <2>1
    <3> QED BY <1>4, <2>1, <2>3, <3>1 DEF FreedFrom
  <2> QED BY <2>2, <2>3
<1> QED BY <1>1, <1>4, <1>5 DEF Anchored

(* A step of the handler that makes list g of the list behind memory, and  *)
(* leaves alone what is different in memory.                               *)
HandlerStep(list, g, S, G) ==
  /\ Books(g)' /\ Kernel' = Kernel /\ main' = main
  /\ Agree(chunks', g, S, G) /\ Kept(chunks', chunks, S \cup G) /\ Kept(g, list, S)
  /\ \A a : Anchored(list, a) => Anchored(g, a)'
  /\ chunks = list => chunks' = g

(* The handler's malloc as a step on the list. *)
LEMMA MallocStepOnList ==
  ASSUME NEW list, Books(list), NEW E, CoalescedAt(list, E),
         NEW S, NEW G, Agree(chunks, list, S, G), S \subseteq DOMAIN list,
         NEW c \in DOMAIN list \ S, NEW size \in Nat, c \in Fits(size),
         list[c].next \notin S \cup G,
         \A a \in G : a \in Nat /\ (a + ChunkHeader <= c \/ ChunkEnd(list, c) <= a),
         chunks' = Granted(c, size),
         held' = Append(held, [pointer |-> c + ChunkHeader, size |-> size]),
         owned' = owned, main' = main
  PROVE  /\ HandlerStep(list, Give(list, c, size), S, G)
         /\ CoalescedAt(Give(list, c, size), E)
         /\ GivenTo(Give(list, c, size), list, c, size)
         /\ Handed' = Handed \cup {c} /\ c \notin Kernel \cup Handed
<1> DEFINE g == Give(list, c, size)
<1>1. IsList(list) /\ WellFormed(list) BY DEF Books
<1>2. chunks[c] = list[c] /\ list[c].size > size /\ ~list[c].allocated
  BY DEF Agree, Fits
<1>3. chunks' = Give(chunks, c, size)
  BY <1>1, <1>2, GrantedIsGive
<1>4. \A a \in G : a < c \/ ChunkEnd(list, c) <= a
  BY <1>1, HeaderTypes, HeapAssumption
<1>5. /\ Agree(Give(chunks, c, size), g, S, G)
      /\ Kept(Give(chunks, c, size), chunks, S \cup G) /\ Kept(g, list, S)
  BY <1>1, <1>2, <1>4, AgreeGive
<1>6. /\ Books(g)' /\ CoalescedAt(g, E) /\ GivenTo(g, list, c, size)
      /\ Kernel' = Kernel /\ Handed' = Handed \cup {c} /\ c \notin Kernel \cup Handed
  BY <1>2, HandlerGives
<1>7. chunks = list => chunks' = g BY <1>3
<1> HIDE DEF g
<1>8. \A a : Anchored(list, a) => Anchored(g, a)'
  BY <1>2, <1>6, AnchoredGiven
<1>9. HandlerStep(list, g, S, G)
  BY <1>3, <1>5, <1>6, <1>7, <1>8 DEF HandlerStep
<1> QED BY <1>6, <1>9 DEF g

(* The handler's free as a step on the list. *)
LEMMA FreeStepOnList ==
  ASSUME NEW list, Books(list), NEW E, CoalescedAt(list, E),
         NEW S, NEW G, Agree(chunks, list, S, G), 0 \notin S \cup G,
         held # <<>>, NEW c, c = Last(held).pointer - ChunkHeader, c \notin S,
         list[c].prev \in S => list[list[c].prev].allocated,
         list[c].next \in S =>
           list[list[c].next].allocated /\ (list[c].prev = 0 \/ list[list[c].prev].allocated),
         list[c].next # 0 /\ ~list[list[c].next].allocated => list[list[c].next].next \notin S,
         chunks' = Freed(chunks, c), held' = Front(held), owned' = owned, main' = main
  PROVE  /\ HandlerStep(list, Freed(list, c), S, G)
         /\ CoalescedAt(Freed(list, c), E)
         /\ \E c1 : FreedFrom(Freed(list, c), list, c, c1)
         /\ c \in DOMAIN list /\ list[c].allocated
         /\ Handed' = Handed \ {c} /\ c \in Handed /\ c \notin Kernel
<1> DEFINE g == Freed(list, c)
<1>1. IsList(list) /\ WellFormed(list) BY DEF Books
<1>2. /\ c \in DOMAIN list /\ c \in Handed /\ c \notin Kernel /\ list[c].allocated
      /\ Books(g)' /\ CoalescedAt(g, E) /\ \E c1 : FreedFrom(g, list, c, c1)
      /\ Kernel' = Kernel /\ Handed' = Handed \ {c}
  BY HandlerFrees
<1>3. /\ Agree(Freed(chunks, c), g, S, G)
      /\ Kept(Freed(chunks, c), chunks, S \cup G) /\ Kept(g, list, S)
  BY <1>1, <1>2, AgreeFreed
<1>4. chunks = list => chunks' = g OBVIOUS
<1> HIDE DEF g
<1>5. \A a : Anchored(list, a) => Anchored(g, a)'
  BY <1>2, AnchoredFreed
<1>6. HandlerStep(list, g, S, G)
  BY <1>2, <1>3, <1>4, <1>5 DEF HandlerStep
<1> QED BY <1>2, <1>6 DEF g

-----------------------------------------------------------------------------
(* The handler while two chunks are torn                                   *)
TornIs(list, z, g, s, x, v) ==
  /\ IsList(list) /\ WellFormed(list) /\ 0 \notin DOMAIN list
  /\ z # 0 /\ g # 0 /\ z \in DOMAIN list /\ z \notin Kernel /\ z \notin Handed
  /\ g \notin DOMAIN list /\ z < g /\ g + ChunkHeader <= ChunkEnd(list, z)
  /\ g \in Nat /\ z \in Nat /\ list[z] \in Chunk /\ DOMAIN chunks = DOMAIN list \cup {g}
  /\ chunks[z].next = x /\ chunks[z].size = s
  /\ ~list[z].allocated /\ chunks[z].prev = list[z].prev
  /\ list[z].next # 0 =>
       /\ list[z].next \in DOMAIN list /\ list[list[z].next] \in Chunk
       /\ list[list[z].next].prev = z
       /\ list[z].next \notin Handed /\ list[z].next # z
       /\ chunks[list[z].next].next = list[list[z].next].next
       /\ chunks[list[z].next].prev = v

LEMMA TornFacts ==
  ASSUME NEW list, Books(list), NEW z, NEW g, NEW s, NEW x, NEW v,
         Torn(list, z, g, s, x, v)
  PROVE  TornIs(list, z, g, s, x, v)
<1> DEFINE y == list[z].next
<1>1. /\ IsList(list) /\ WellFormed(list) /\ z \in DOMAIN list /\ z \notin Kernel
      /\ ~list[z].allocated
      /\ \A d \in DOMAIN list : list[d].allocated <=> d \in Kernel \cup Handed
  BY DEF Books, Torn, Anchored
<1>2. /\ z # 0 /\ z \in Nat /\ 0 \notin DOMAIN list /\ list[z] \in Chunk
      /\ y # 0 => y \in DOMAIN list /\ list[y].prev = z /\ y # z /\ list[y] \in Chunk
  BY <1>1, Links
<1>3. z \notin Handed BY <1>1
<1>4. /\ g \notin DOMAIN list /\ z < g /\ g \in Nat /\ g # 0
      /\ g + ChunkHeader <= ChunkEnd(list, z)
  <2>1. chunks[g].size \in Nat BY DEF Torn, Chunk
  <2> QED BY <1>1, <1>2, <2>1, HeaderTypes, HeapAssumption DEF Torn
<1>5. /\ DOMAIN chunks = DOMAIN list \cup {g}
      /\ chunks[z] = [list[z] EXCEPT !.size = s, !.next = x]
      /\ y # 0 => chunks[y] = [list[y] EXCEPT !.prev = v]
      /\ \A d \in DOMAIN list \ {z, y} : chunks[d] = list[d]
  BY DEF Torn
<1>6. /\ chunks[z].next = x /\ chunks[z].size = s /\ chunks[z].allocated = list[z].allocated
      /\ chunks[z].prev = list[z].prev
  BY <1>2, <1>5 DEF Chunk
<1>7. y # 0 => /\ chunks[y].next = list[y].next /\ chunks[y].allocated = list[y].allocated
               /\ chunks[y].prev = v
  BY <1>2, <1>5 DEF Chunk
<1>8. y # 0 => y \notin Handed
  <2> SUFFICES ASSUME y # 0, y \in Handed PROVE FALSE
    OBVIOUS
  <2>1. y \notin Kernel /\ list[y].allocated BY <1>1, <1>2 DEF Books
  <2> QED BY <2>1 DEF Torn
<1> QED BY <1>1, <1>2, <1>3, <1>4, <1>5, <1>6, <1>7, <1>8 DEF TornIs

LEMMA TornAgree ==
  ASSUME NEW list, Books(list), NEW z, NEW g, NEW s, NEW x, NEW v,
         Torn(list, z, g, s, x, v)
  PROVE  /\ Agree(chunks, list, {z, list[z].next} \ {0}, {g})
         /\ {z, list[z].next} \ {0} \subseteq DOMAIN list
<1>1. PICK y : y = list[z].next OBVIOUS
<1>2. /\ z # 0 /\ z \in DOMAIN list /\ g \notin DOMAIN list /\ 0 \notin DOMAIN list
      /\ chunks[z].allocated = list[z].allocated /\ DOMAIN chunks = DOMAIN list \cup {g}
      /\ y # 0 => y \in DOMAIN list /\ chunks[y].allocated = list[y].allocated
  <2>1. TornIs(list, z, g, s, x, v) BY TornFacts
  <2>2. /\ z # 0 /\ z \in DOMAIN list /\ g \notin DOMAIN list /\ 0 \notin DOMAIN list
        /\ list[z] \in Chunk /\ DOMAIN chunks = DOMAIN list \cup {g}
        /\ y # 0 => y \in DOMAIN list /\ list[y] \in Chunk
    BY <1>1, <2>1 DEF TornIs
  <2>3. /\ chunks[z] = [list[z] EXCEPT !.size = s, !.next = x]
        /\ y # 0 => chunks[y] = [list[y] EXCEPT !.prev = v]
    BY <1>1 DEF Torn
  <2>4. chunks[z].allocated = list[z].allocated BY <2>2, <2>3 DEF Chunk
  <2>5. ASSUME y # 0 PROVE chunks[y].allocated = list[y].allocated
    BY <2>2, <2>3, <2>5 DEF Chunk
  <2> QED BY <2>2, <2>4, <2>5
<1>3. \A d \in DOMAIN list \ {z, y} : chunks[d] = list[d] BY <1>1 DEF Torn
<1>4. \A d \in DOMAIN list : chunks[d].allocated = list[d].allocated
  BY <1>2, <1>3
<1>5. \A d \in DOMAIN list \ ({z, y} \ {0}) : chunks[d] = list[d]
  BY <1>2, <1>3
<1>6. Agree(chunks, list, {z, y} \ {0}, {g})
  BY <1>2, <1>4, <1>5 DEF Agree
<1> QED BY <1>1, <1>2, <1>6

(* What a step of the handler leaves alone keeps two chunks torn.          *)
LEMMA TornKept ==
  ASSUME NEW list, Books(list), NEW z, NEW g, NEW s, NEW x, NEW v,
         Torn(list, z, g, s, x, v),
         NEW S, S = {z, list[z].next} \ {0}, NEW G, G = {g},
         NEW next, HandlerStep(list, next, S, G)
  PROVE  /\ Torn(next, z, g, s, x, v)'
         /\ next[z] = list[z] /\ chunks'[g] = chunks[g]
<1>1. PICK y : y = list[z].next OBVIOUS
<1>2. HandlerStep(list, next, {z, y} \ {0}, {g}) BY <1>1
<1>3. /\ z # 0 /\ z \in DOMAIN list /\ z \in DOMAIN chunks /\ g \in DOMAIN chunks
      /\ y # 0 => y \in DOMAIN list /\ y \in DOMAIN chunks
  <2>1. TornIs(list, z, g, s, x, v) BY TornFacts
  <2> QED BY <1>1, <2>1 DEF TornIs
<1>4. /\ z \in DOMAIN next /\ next[z] = list[z] /\ chunks'[z] = chunks[z]
      /\ g \in DOMAIN chunks' /\ chunks'[g] = chunks[g]
      /\ y # 0 => y \in DOMAIN next /\ next[y] = list[y] /\ chunks'[y] = chunks[y]
  BY <1>3, <1>2 DEF HandlerStep, Kept
<1>5. Anchored(next, z)' BY <1>2 DEF HandlerStep, Torn
<1>6. ChunkEnd(next, z) = ChunkEnd(list, z) BY <1>4 DEF ChunkEnd
<1>7. /\ DOMAIN chunks' = DOMAIN next \cup {g} /\ g \notin DOMAIN next
      /\ \A d \in DOMAIN next \ {z, y} : chunks'[d] = next[d]
      /\ Kernel' = Kernel
  BY <1>2 DEF HandlerStep, Agree
<1>8. next[z].next = y BY <1>4, <1>1
<1>9. /\ ~next[z].allocated
      /\ g \in Nat /\ z < g /\ chunks'[g] \in Chunk
      /\ g + ChunkHeader + chunks'[g].size = ChunkEnd(next, z)
      /\ chunks'[z] = [next[z] EXCEPT !.size = s, !.next = x]
      /\ y # 0 => chunks'[y] = [next[y] EXCEPT !.prev = v]
      /\ chunks'[g].next = y /\ chunks'[g].prev = z /\ ~chunks'[g].allocated
      /\ y \in Kernel' \cup {0} \/ (~next[y].allocated /\ next[y].next \in Kernel' \cup {0})
  BY <1>4, <1>6, <1>7, <1>1 DEF Torn
<1>10. Torn(next, z, g, s, x, v)'
  BY <1>5, <1>7, <1>8, <1>9 DEF Torn
<1> QED BY <1>4, <1>10

(* malloc does not find the header that is not in the list: no pointer     *)
(* leads there but that of the whole chunk, which fits when it does.       *)
LEMMA TornFinds ==
  ASSUME NEW list, Books(list), NEW z, NEW g, NEW s, NEW x, NEW v,
         Torn(list, z, g, s, x, v), x = list[z].next \/ (x = g /\ s = list[z].size),
         NEW size \in Nat, NEW c, Finds(c, size)
  PROVE  c \in DOMAIN list
<1> DEFINE y == list[z].next
<1>1. /\ Agree(chunks, list, {z, y} \ {0}, {g}) /\ z # 0 /\ g # 0 /\ z \in DOMAIN list
      /\ g \notin DOMAIN list /\ z < g /\ g + ChunkHeader <= ChunkEnd(list, z)
      /\ g \in Nat /\ chunks[z].next = x /\ chunks[z].size = s /\ ~list[z].allocated
      /\ y # 0 => y \in DOMAIN list /\ chunks[y].next = list[y].next
  <2>1. TornIs(list, z, g, s, x, v) BY TornFacts
  <2>2. /\ Agree(chunks, list, {z, list[z].next} \ {0}, {g})
        /\ {z, list[z].next} \ {0} \subseteq DOMAIN list
    BY TornAgree
  <2> QED BY <2>1, <2>2 DEF TornIs
<1>2. IsList(list) /\ WellFormed(list) BY DEF Books
<1>3. c \in DOMAIN list \cup {g} /\ c \in Fits(size)
  BY <1>1 DEF Finds, Agree, Fits
<1>4. SUFFICES ASSUME c = g PROVE FALSE
  BY <1>3
<1>5. PICK passed \in SUBSET DOMAIN chunks : Passes(passed, c, size)
  BY DEF Finds
<1>6. PICK b \in passed : chunks[b].next = g /\ b \notin Fits(size)
  <2>1. g # HeapStart BY <1>1, <1>2 DEF WellFormed
  <2> QED BY <1>4, <1>5, <2>1 DEF Passes
<1>7. b = z
  <2> SUFFICES ASSUME b # z PROVE FALSE
    OBVIOUS
  <2>1. b \in DOMAIN list \cup {g} BY <1>1, <1>5, <1>6 DEF Agree
  <2>2. CASE b = g
    BY <2>2, <1>1, <1>6 DEF Torn
  <2>3. CASE b \in DOMAIN list
    <3>1. chunks[b].next = list[b].next
      BY <1>1, <2>3 DEF Agree
    <3>2. list[b].next = 0 \/ list[b].next \in DOMAIN list
      BY <1>2, <2>3, Links
    <3> QED BY <1>1, <1>6, <3>1, <3>2
  <2> QED BY <2>1, <2>2, <2>3
<1>8. x = g BY <1>1, <1>6, <1>7
<1>9. s = list[z].size
  BY <1>1, <1>8
<1>10. chunks[g].size > size /\ ~chunks[g].allocated /\ z \in DOMAIN chunks
       /\ ~chunks[z].allocated
  BY <1>1, <1>3, <1>4 DEF Fits, Agree
<1>11. ~(chunks[z].size > size) BY <1>6, <1>7, <1>10 DEF Fits
<1>12. /\ chunks[g].size \in Nat /\ g + ChunkHeader + chunks[g].size = ChunkEnd(list, z)
  BY DEF Torn, Chunk
<1>13. z \in Nat /\ list[z].size \in Nat /\ ChunkHeader \in Nat
  BY <1>1, <1>2, HeaderTypes, HeapAssumption
<1> QED BY <1>1, <1>9, <1>10, <1>11, <1>12, <1>13 DEF ChunkEnd

(* malloc while two chunks are torn. *)
LEMMA TornMalloc ==
  ASSUME NEW list, Books(list), NEW E, CoalescedAt(list, E),
         NEW z, NEW g, NEW s, NEW x, NEW v,
         Torn(list, z, g, s, x, v), x = list[z].next \/ (x = g /\ s = list[z].size),
         NEW size \in Nat, NEW c, Finds(c, size), c # z, c # list[z].next,
         chunks' = Granted(c, size),
         held' = Append(held, [pointer |-> c + ChunkHeader, size |-> size]),
         owned' = owned, main' = main
  PROVE  \E next : /\ Books(next)' /\ CoalescedAt(next, E)
                   /\ Torn(next, z, g, s, x, v)' /\ next[z] = list[z]
                   /\ chunks'[g] = chunks[g] /\ Kernel' = Kernel
<1> DEFINE y == list[z].next
           S == {z, y} \ {0}
           G == {g}
           next == Give(list, c, size)
<1>1. /\ Agree(chunks, list, S, G) /\ S \subseteq DOMAIN list
      /\ z # 0 /\ g # 0 /\ z \in DOMAIN list /\ z \notin Kernel \cup Handed
      /\ g \notin DOMAIN list /\ z < g /\ g + ChunkHeader <= ChunkEnd(list, z)
      /\ g \in Nat
      /\ y # 0 => y \in DOMAIN list /\ list[y].prev = z
  <2>1. TornIs(list, z, g, s, x, v) BY TornFacts
  <2>2. /\ Agree(chunks, list, {z, list[z].next} \ {0}, {g})
        /\ {z, list[z].next} \ {0} \subseteq DOMAIN list
    BY TornAgree
  <2> QED BY <2>1, <2>2 DEF TornIs
<1>2. /\ c \in DOMAIN list /\ c \in Fits(size) BY TornFinds DEF Finds
<1>3. c \notin S BY <1>2
<1>4. /\ IsList(list) /\ WellFormed(list)
      /\ \A d \in Kernel : d \in DOMAIN list /\ list[d].allocated
  BY DEF Books
<1>5. ~list[c].allocated BY <1>1, <1>2, <1>3 DEF Fits, Agree
<1>6. list[c].next \notin S \cup G
  <2>1. list[c].next = 0 \/ (list[c].next \in DOMAIN list /\ list[list[c].next].prev = c)
    BY <1>2, <1>4, Links
  <2>2. list[c].next # z
    <3> SUFFICES ASSUME list[c].next = z PROVE FALSE
      OBVIOUS
    <3>1. list[z].prev = c BY <1>1, <2>1
    <3>2. z = HeapStart \/ list[z].prev \in Kernel BY DEF Torn, Anchored
    <3>3. z = HeapStart => list[z].prev = 0 BY <1>1, <1>4, Links
    <3>4. c # 0 BY <1>2, <1>4, Links
    <3> QED BY <1>4, <1>5, <3>1, <3>2, <3>3, <3>4
  <2>3. list[c].next # y \/ y = 0 BY <1>1, <2>1
  <2> QED BY <1>1, <2>1, <2>2, <2>3
<1>7. \A a \in G : a \in Nat /\ (a + ChunkHeader <= c \/ ChunkEnd(list, c) <= a)
  <2>1. /\ c \in Nat /\ z \in Nat /\ ChunkHeader \in Nat
        /\ ChunkEnd(list, c) \in Nat /\ ChunkEnd(list, z) \in Nat
    BY <1>1, <1>2, <1>4, HeaderTypes, HeapAssumption
  <2>2. ChunkEnd(list, c) <= z \/ ChunkEnd(list, z) <= c
    BY <1>1, <1>2, <1>4, Disjoint
  <2> QED BY <1>1, <2>1, <2>2
<1> HIDE DEF y, S, G, next
<1>8. HandlerStep(list, next, S, G) /\ CoalescedAt(next, E)
  BY <1>1, <1>2, <1>3, <1>6, <1>7, MallocStepOnList DEF next
<1>9. /\ Torn(next, z, g, s, x, v)' /\ next[z] = list[z] /\ chunks'[g] = chunks[g]
  <2>1. S = {z, list[z].next} \ {0} /\ G = {g} BY DEF S, G, y
  <2> QED BY <1>8, <2>1, TornKept
<1> QED BY <1>8, <1>9 DEF HandlerStep

(* A buffer of the handler is none of the torn chunks, and what its free   *)
(* follows and changes is in order.                                        *)
LEMMA TornApart ==
  ASSUME NEW list, Books(list), NEW z, NEW g, NEW s, NEW x, NEW v,
         Torn(list, z, g, s, x, v), NEW S, S = {z, list[z].next} \ {0}, NEW c \in Handed
  PROVE  /\ c \notin S
         /\ list[c].prev \in S => list[list[c].prev].allocated
         /\ list[c].next \notin S
         /\ list[c].next # 0 /\ ~list[list[c].next].allocated => list[list[c].next].next \notin S
         /\ Linked(c)
<1> DEFINE y == list[z].next
           p == list[c].prev
           n == list[c].next
<1>1. /\ Agree(chunks, list, S, {g}) /\ S \subseteq DOMAIN list
      /\ z # 0 /\ g # 0 /\ z \in DOMAIN list /\ z \notin Kernel \cup Handed
      /\ g \notin DOMAIN list
      /\ y # 0 => /\ y \in DOMAIN list /\ list[y].prev = z /\ y \notin Handed
                  /\ chunks[y].next = list[y].next
  <2>1. TornIs(list, z, g, s, x, v) BY TornFacts
  <2>2. /\ Agree(chunks, list, {z, list[z].next} \ {0}, {g})
        /\ {z, list[z].next} \ {0} \subseteq DOMAIN list
    BY TornAgree
  <2> QED BY <2>1, <2>2 DEF TornIs
<1>2. /\ IsList(list) /\ WellFormed(list) /\ c \in DOMAIN list /\ c \notin Kernel
      /\ \A d \in DOMAIN list : list[d].allocated <=> d \in Kernel \cup Handed
  BY DEF Books
<1>3. /\ 0 \notin DOMAIN list /\ c # 0 /\ c \in Nat
      /\ p # 0 => p \in DOMAIN list /\ list[p].next = c
      /\ n # 0 => n \in DOMAIN list /\ list[n].prev = c /\ c < n
  BY <1>2, Links
<1>4. c \notin S /\ c # z /\ c # y
  <2>1. c # z BY <1>1
  <2>2. c # y BY <1>1, <1>3
  <2> QED BY <2>1, <2>2
<1>5. (z = HeapStart /\ list[z].prev = 0) \/ list[z].prev \in Kernel
  BY <1>1, <1>2, Links DEF Torn, Anchored
<1>6. p # z BY <1>1, <1>3, <1>4
<1>7. p = y /\ y # 0 => list[y].allocated
  <2> SUFFICES ASSUME p = y, y # 0, ~list[y].allocated PROVE FALSE
    OBVIOUS
  <2>1. y \notin Kernel BY <1>1, <1>2
  <2>2. list[y].next \in Kernel \cup {0} BY <2>1 DEF Torn
  <2> QED BY <1>2, <1>3, <2>2
<1>8. n # z BY <1>1, <1>2, <1>3, <1>5
<1>9. n # y \/ n = 0 BY <1>1, <1>3, <1>4
<1>10. n \notin S BY <1>8, <1>9
<1>11. ASSUME n # 0, ~list[n].allocated PROVE list[n].next \notin S
  <2>1. n \in DOMAIN list /\ n \notin Kernel BY <1>2, <1>3, <1>11
  <2>2. list[n].next # 0 => list[list[n].next].prev = n BY <1>2, <2>1, Links
  <2>3. list[n].next # z BY <1>1, <1>5, <1>11, <2>1, <2>2
  <2>4. list[n].next # y \/ y = 0 BY <1>1, <1>8, <2>2
  <2> QED BY <2>3, <2>4
<1>12. Linked(c)
  <2>1. /\ c \in DOMAIN chunks /\ chunks[c] = list[c]
        /\ DOMAIN list \subseteq DOMAIN chunks
    BY <1>1, <1>2, <1>4 DEF Agree
  <2>2. p # 0 => p \in DOMAIN chunks /\ chunks[p].next = c
    <3> SUFFICES ASSUME p # 0 PROVE p \in DOMAIN chunks /\ chunks[p].next = c
      OBVIOUS
    <3>1. CASE p = y
      BY <3>1, <1>1, <1>3, <2>1
    <3>2. CASE p # y
      <4>1. p \notin S BY <3>2, <1>6
      <4> QED BY <4>1, <1>1, <1>3 DEF Agree
    <3> QED BY <3>1, <3>2
  <2>3. n # 0 => /\ n \in DOMAIN chunks /\ n > c
                 /\ chunks[n].next = 0 \/ chunks[n].next \in DOMAIN chunks
    <3> SUFFICES ASSUME n # 0
                 PROVE  /\ n \in DOMAIN chunks /\ n > c
                        /\ chunks[n].next = 0 \/ chunks[n].next \in DOMAIN chunks
      OBVIOUS
    <3>1. chunks[n] = list[n] /\ n \in Nat BY <1>1, <1>2, <1>3, <1>10, HeaderTypes DEF Agree
    <3>2. list[n].next = 0 \/ list[n].next \in DOMAIN list BY <1>2, <1>3, Links
    <3> QED BY <1>3, <2>1, <3>1, <3>2
  <2> QED BY <2>1, <2>2, <2>3 DEF Linked, Live
<1> HIDE DEF y
<1>13. S = {z, y} \ {0} BY DEF y
<1> QED BY <1>4, <1>6, <1>7, <1>10, <1>11, <1>12, <1>13

(* free while two chunks are torn. *)
LEMMA TornFree ==
  ASSUME NEW list, Books(list), NEW E, CoalescedAt(list, E),
         NEW z, NEW g, NEW s, NEW x, NEW v, Torn(list, z, g, s, x, v),
         held # <<>>, chunks' = Freed(chunks, Last(held).pointer - ChunkHeader),
         held' = Front(held), owned' = owned, main' = main
  PROVE  \E next : /\ Books(next)' /\ CoalescedAt(next, E)
                   /\ Torn(next, z, g, s, x, v)' /\ next[z] = list[z]
                   /\ chunks'[g] = chunks[g] /\ Kernel' = Kernel
<1> DEFINE S == {z, list[z].next} \ {0}
           G == {g}
<1>0. PICK c, next : c = Last(held).pointer - ChunkHeader /\ next = Freed(list, c)
  OBVIOUS
<1>1. Agree(chunks, list, S, G) /\ 0 \notin S \cup G
  <2>1. TornIs(list, z, g, s, x, v) BY TornFacts
  <2>2. /\ Agree(chunks, list, {z, list[z].next} \ {0}, {g})
        /\ {z, list[z].next} \ {0} \subseteq DOMAIN list
    BY TornAgree
  <2> QED BY <2>1, <2>2 DEF TornIs
<1>2. c \in Handed BY <1>0, HandlerFrees DEF Books
<1>3. S = {z, list[z].next} \ {0} OBVIOUS
<1> HIDE DEF S, G
<1>4. /\ c \notin S
      /\ list[c].prev \in S => list[list[c].prev].allocated
      /\ list[c].next \notin S
      /\ list[c].next # 0 /\ ~list[list[c].next].allocated => list[list[c].next].next \notin S
  BY <1>2, <1>3, TornApart
<1>5. HandlerStep(list, next, S, G) /\ CoalescedAt(next, E)
  BY <1>0, <1>1, <1>4, FreeStepOnList
<1>6. /\ Torn(next, z, g, s, x, v)' /\ next[z] = list[z] /\ chunks'[g] = chunks[g]
  <2>1. G = {g} BY DEF G
  <2> QED BY <1>3, <1>5, <2>1, TornKept
<1> QED BY <1>5, <1>6 DEF HandlerStep

-----------------------------------------------------------------------------
(* The handler while memory is a list                                      *)
LEMMA PlainLinked ==
  ASSUME NEW list, Books(list), chunks = list, NEW c \in DOMAIN list
  PROVE  Linked(c)
<1>1. IsList(list) /\ WellFormed(list) BY DEF Books
<1>2. /\ c \in Nat /\ 0 \notin DOMAIN list
      /\ list[c].prev # 0 => list[c].prev \in DOMAIN list /\ list[list[c].prev].next = c
      /\ list[c].next # 0 => list[c].next \in DOMAIN list /\ list[c].next > c
  BY <1>1, Links
<1>3. list[c].next # 0 =>
        list[list[c].next].next = 0 \/ list[list[c].next].next \in DOMAIN list
  BY <1>1, <1>2, Links
<1> QED BY <1>2, <1>3 DEF Linked, Live

LEMMA PlainMalloc ==
  ASSUME NEW list, Books(list), NEW E, CoalescedAt(list, E), chunks = list,
         NEW size \in Nat, NEW c, Finds(c, size), chunks' = Granted(c, size),
         held' = Append(held, [pointer |-> c + ChunkHeader, size |-> size]),
         owned' = owned, main' = main
  PROVE  \E next : /\ HandlerStep(list, next, {}, {}) /\ CoalescedAt(next, E)
                   /\ GivenTo(next, list, c, size) /\ c \in DOMAIN list /\ ~list[c].allocated
                   /\ Handed' = Handed \cup {c} /\ c \notin Kernel \cup Handed
<1>1. c \in DOMAIN list /\ c \in Fits(size) /\ ~list[c].allocated BY DEF Finds, Fits
<1>2. Agree(chunks, list, {}, {}) BY DEF Agree
<1>3. /\ HandlerStep(list, Give(list, c, size), {}, {})
      /\ CoalescedAt(Give(list, c, size), E)
      /\ GivenTo(Give(list, c, size), list, c, size)
      /\ Handed' = Handed \cup {c} /\ c \notin Kernel \cup Handed
  <2> DEFINE S == {}
             G == {}
  <2>1. /\ Agree(chunks, list, S, G) /\ S \subseteq DOMAIN list /\ c \in DOMAIN list \ S
        /\ list[c].next \notin S \cup G
        /\ \A a \in G : a \in Nat /\ (a + ChunkHeader <= c \/ ChunkEnd(list, c) <= a)
    BY <1>1, <1>2
  <2> HIDE DEF S, G
  <2>2. /\ HandlerStep(list, Give(list, c, size), S, G)
        /\ CoalescedAt(Give(list, c, size), E)
        /\ GivenTo(Give(list, c, size), list, c, size)
        /\ Handed' = Handed \cup {c} /\ c \notin Kernel \cup Handed
    BY <1>1, <2>1, MallocStepOnList
  <2> QED BY <2>2 DEF S, G
<1> QED BY <1>1, <1>3, Zenon

LEMMA PlainFree ==
  ASSUME NEW list, Books(list), NEW E, CoalescedAt(list, E), chunks = list,
         held # <<>>, NEW c, c = Last(held).pointer - ChunkHeader,
         chunks' = Freed(chunks, c), held' = Front(held), owned' = owned, main' = main
  PROVE  \E next, c1 : /\ HandlerStep(list, next, {}, {}) /\ CoalescedAt(next, E)
                       /\ FreedFrom(next, list, c, c1) /\ c \in DOMAIN list /\ list[c].allocated
                       /\ Handed' = Handed \ {c} /\ c \in Handed /\ c \notin Kernel
<1>1. Agree(chunks, list, {}, {}) BY DEF Agree
<1>2. /\ HandlerStep(list, Freed(list, c), {}, {})
      /\ CoalescedAt(Freed(list, c), E)
      /\ \E c1 : FreedFrom(Freed(list, c), list, c, c1)
      /\ c \in DOMAIN list /\ list[c].allocated
      /\ Handed' = Handed \ {c} /\ c \in Handed /\ c \notin Kernel
  <2> DEFINE S == {}
             G == {}
  <2>1. /\ Agree(chunks, list, S, G) /\ 0 \notin S \cup G /\ c \notin S
        /\ list[c].prev \in S => list[list[c].prev].allocated
        /\ list[c].next \in S =>
             list[list[c].next].allocated /\ (list[c].prev = 0 \/ list[list[c].prev].allocated)
        /\ list[c].next # 0 /\ ~list[list[c].next].allocated => list[list[c].next].next \notin S
    BY <1>1
  <2> HIDE DEF S, G
  <2>2. /\ HandlerStep(list, Freed(list, c), S, G)
        /\ CoalescedAt(Freed(list, c), E)
        /\ \E c1 : FreedFrom(Freed(list, c), list, c, c1)
        /\ c \in DOMAIN list /\ list[c].allocated
        /\ Handed' = Handed \ {c} /\ c \in Handed /\ c \notin Kernel
    BY <2>1, FreeStepOnList
  <2> QED BY <2>2 DEF S, G
<1> QED BY <1>2, Zenon

(* Most statements need no more of the list than this. *)
LEMMA PlainPlace ==
  ASSUME NEW list, NEW B, chunks = list, Place(list, B),
         main.at \in {"idle", "unmark", "look", "cut", "mark", "testNext"},
         NEW next, HandlerStep(list, next, {}, {}), owned' = owned
  PROVE  Place(next, B)'
<1>1. /\ chunks' = next /\ main' = main /\ current' = current /\ Temp' = Temp
      /\ \A a : Anchored(list, a) => Anchored(next, a)'
      /\ Kernel' = Kernel
  BY DEF HandlerStep, current, Temp
<1>2. \A a, b : Clear(a, b) => Clear(a, b)' BY <1>1 DEF Clear
<1>3. CASE main.at \in {"idle", "unmark"}
  <2>1. main.at = "unmark" => AtUnmark(next, B)' BY <1>1 DEF Place, AtUnmark
  <2> QED BY <1>1, <1>3, <2>1 DEF Place
<1>4. CASE main.at = "look"
  <2>1. AtLook(list, B) BY <1>4 DEF Place
  <2>2. AtLook(next, B)' BY <1>1, <2>1 DEF AtLook
  <2> QED BY <1>1, <1>4, <2>2 DEF Place
<1>5. CASE main.at = "cut"
  <2>1. AtCut(list, B) BY <1>5 DEF Place
  <2>2. AtCut(next, B)' BY <1>1, <1>2, <2>1 DEF AtCut
  <2> QED BY <1>1, <1>5, <2>2 DEF Place
<1>6. CASE main.at = "mark"
  <2>1. AtMark(list, B) BY <1>6 DEF Place
  <2>2. AtMark(next, B)' BY <1>1, <1>2, <2>1 DEF AtMark
  <2> QED BY <1>1, <1>6, <2>2 DEF Place
<1>7. CASE main.at = "testNext"
  <2>1. AtTestNext(list, B) BY <1>7 DEF Place
  <2>2. AtTestNext(next, B)' BY <1>1, <1>2, <2>1 DEF AtTestNext
  <2> QED BY <1>1, <1>7, <2>2 DEF Place
<1> QED BY <1>3, <1>4, <1>5, <1>6, <1>7

(* What the tests of free have found: malloc is not given a chunk that is  *)
(* about to be merged,                                                     *)
LEMMA MergePlaceMalloc ==
  ASSUME NEW list, Books(list), NEW B, chunks = list, Place(list, B),
         main.at \in {"testPrev", "prevNext", "nextSize"},
         NEW next, HandlerStep(list, next, {}, {}),
         NEW c \in DOMAIN list, ~list[c].allocated, c \notin Changing, c \notin Kernel \cup Handed,
         NEW size, GivenTo(next, list, c, size), Handed' = Handed \cup {c}
  PROVE  Place(next, B)'
<1>1. /\ chunks' = next /\ main' = main /\ current' = current /\ Temp' = Temp
      /\ \A a : Anchored(list, a) => Anchored(next, a)'
      /\ Kernel' = Kernel
  BY DEF HandlerStep, current, Temp
<1>2. \A a, b : Clear(a, b) => Clear(a, b)' BY <1>1 DEF Clear
<1>3. IsList(list) /\ WellFormed(list) BY DEF Books
<1>4. \A d \in DOMAIN list \ {c} :
        /\ d \in DOMAIN next /\ next[d].next = list[d].next
        /\ next[d].allocated = list[d].allocated
        /\ next[d].prev = list[d].prev \/ d = list[c].next
  BY DEF GivenTo
<1>5. ASSUME current \in DOMAIN list, c # current, c # list[current].prev
      PROVE  next[current].prev = list[current].prev
  <2>1. current # list[c].next
    <3>1. current # 0 BY <1>3, <1>5, Links
    <3> QED BY <1>3, <1>5, <3>1, Links
  <2> QED BY <1>4, <1>5, <2>1
<1>6. CASE main.at = "testPrev"
  <2>1. AtTestPrev(list, B) BY <1>6 DEF Place
  <2>2. c # current /\ c # list[current].prev
    BY <1>6, <2>1 DEF Changing, PrevOf, AtTestPrev
  <2>3. AtTestPrev(next, B)'
    BY <1>1, <1>2, <1>4, <1>5, <2>1, <2>2 DEF AtTestPrev
  <2> QED BY <1>1, <1>6, <2>3 DEF Place
<1>7. CASE main.at = "prevNext"
  <2>1. AtPrevNext(list, B) BY <1>7 DEF Place
  <2>2. c # current /\ c # list[current].prev
    BY <1>7, <2>1 DEF Changing, PrevOf, AtPrevNext
  <2>3. list[current].prev \in DOMAIN list \ {c}
    BY <1>3, <2>1, <2>2, Links DEF AtPrevNext
  <2>4. AtPrevNext(next, B)'
    BY <1>1, <1>2, <1>4, <1>5, <2>1, <2>2, <2>3 DEF AtPrevNext
  <2> QED BY <1>1, <1>7, <2>4 DEF Place
<1>8. CASE main.at = "nextSize"
  <2>1. AtNextSize(list, B) BY <1>8 DEF Place
  <2>2. c # current /\ c # list[current].next
    BY <1>8, <2>1 DEF Changing, NextOf, AtNextSize, Anchored
  <2>3. list[current].next \in DOMAIN list \ {c} /\ current \in DOMAIN list
    BY <1>3, <2>1, <2>2, Links DEF AtNextSize, Anchored
  <2>4. AtNextSize(next, B)'
    BY <1>1, <1>2, <1>4, <2>1, <2>2, <2>3 DEF AtNextSize
  <2> QED BY <1>1, <1>8, <2>4 DEF Place
<1> QED BY <1>6, <1>7, <1>8

(* and a free of the handler is of an allocated one.                       *)
LEMMA MergePlaceFree ==
  ASSUME NEW list, Books(list), NEW B, chunks = list, Place(list, B),
         main.at \in {"testPrev", "prevNext", "nextSize"},
         NEW next, HandlerStep(list, next, {}, {}),
         NEW c \in DOMAIN list, list[c].allocated, c \in Handed,
         NEW c1, FreedFrom(next, list, c, c1), Handed' = Handed \ {c}
  PROVE  Place(next, B)'
<1>1. /\ chunks' = next /\ main' = main /\ current' = current /\ Temp' = Temp
      /\ \A a : Anchored(list, a) => Anchored(next, a)'
      /\ Kernel' = Kernel /\ Books(next)'
  BY DEF HandlerStep, current, Temp
<1>2. \A a, b : Clear(a, b) => Clear(a, b)' BY <1>1 DEF Clear
<1>3. /\ IsList(list) /\ WellFormed(list)
      /\ \A d \in DOMAIN list : list[d].allocated <=> d \in Kernel \cup Handed
      /\ Kernel \cup Handed \subseteq DOMAIN list
  BY Zenon DEF Books
<1>4. /\ IsList(next) /\ WellFormed(next)
      /\ \A d \in DOMAIN next : next[d].allocated <=> d \in Kernel' \cup Handed'
  BY <1>1, Zenon DEF Books
(* A free chunk that is still there is free. *)
<1>5. ASSUME NEW d \in DOMAIN next, d \notin Kernel \cup Handed PROVE ~next[d].allocated
  BY <1>1, <1>4, <1>5
<1>6. ASSUME current \in DOMAIN list, ~list[current].allocated, list[current].prev # c
      PROVE  /\ current \in DOMAIN next /\ ~next[current].allocated
             /\ next[current].prev = list[current].prev
                \/ (next[current].prev = c1 /\ c1 \in DOMAIN next /\ ~next[c1].allocated)
  <2>1. current # c /\ current \notin Kernel \cup Handed BY <1>3, <1>6
  <2>2. current \in DOMAIN next BY <1>6, <2>1 DEF FreedFrom
  <2>3. ~next[current].allocated BY <1>5, <2>1, <2>2
  <2>4. CASE current = c1
    BY <2>2, <2>3, <2>4 DEF FreedFrom
  <2>5. CASE current # c1
    BY <1>6, <2>2, <2>3, <2>5 DEF FreedFrom
  <2> QED BY <2>4, <2>5
<1>7. CASE main.at = "testPrev"
  <2>1. AtTestPrev(list, B) BY <1>7 DEF Place
  <2>2. list[current].prev # c BY <2>1 DEF AtTestPrev
  <2>3. next[current].prev \notin Handed'
    BY <1>4, <1>6, <2>1, <2>2 DEF AtTestPrev
  <2>4. AtTestPrev(next, B)'
    BY <1>1, <1>2, <1>6, <2>1, <2>2, <2>3 DEF AtTestPrev
  <2> QED BY <1>1, <1>7, <2>4 DEF Place
<1>8. CASE main.at = "prevNext"
  <2>1. AtPrevNext(list, B) BY <1>8 DEF Place
  <2>2. list[current].prev # c BY <2>1 DEF AtPrevNext
  <2>3. /\ current \in DOMAIN next /\ ~next[current].allocated
        /\ next[current].prev = list[current].prev
           \/ (next[current].prev = c1 /\ c1 \in DOMAIN next /\ ~next[c1].allocated)
    BY <1>6, <2>1, <2>2 DEF AtPrevNext
  <2>4. list[current].prev \in DOMAIN list /\ list[current].prev \notin Kernel \cup Handed
        /\ current # HeapStart
    BY <1>3, <2>1, Links DEF AtPrevNext
  <2>5. next[current].prev \in DOMAIN next /\ next[current].prev # 0
    BY <1>4, <2>3, <2>4, Links
  <2>6. ~next[next[current].prev].allocated
    BY <1>5, <2>3, <2>4, <2>5
  <2>7. AtPrevNext(next, B)'
    BY <1>1, <1>2, <2>1, <2>3, <2>5, <2>6 DEF AtPrevNext
  <2> QED BY <1>1, <1>8, <2>7 DEF Place
<1>9. CASE main.at = "nextSize"
  <2>1. AtNextSize(list, B) BY <1>9 DEF Place
  <2> DEFINE n == list[current].next
  <2>2. /\ current \in DOMAIN list /\ ~list[current].allocated /\ n # 0
        /\ n \in DOMAIN list /\ ~list[n].allocated
    BY <1>3, <2>1, Links DEF AtNextSize, Anchored
  <2>3. current \notin Kernel \cup Handed /\ n \notin Kernel \cup Handed /\ current # c /\ n # c
    BY <1>3, <2>2
  <2>4. Anchored(next, current)'
    <3>1. PICK d : d = current OBVIOUS
    <3>2. Anchored(list, d) BY <2>1, <3>1 DEF AtNextSize
    <3>3. Anchored(next, d)' BY <1>1, <3>2
    <3>4. d = current' BY <1>1, <3>1
    <3> QED BY <3>3, <3>4 DEF Anchored
  <2>5. current \in DOMAIN next BY <1>1, <2>4 DEF Anchored
  <2>6. current # c1
    <3> SUFFICES ASSUME current = c1 PROVE FALSE
      OBVIOUS
    <3>1. current = list[c].prev BY <2>3 DEF FreedFrom
    <3>2. c # HeapStart BY <1>3, <2>2, <3>1, Links
    <3>3. n = c BY <1>3, <3>1, <3>2, Links
    <3> QED BY <2>3, <3>3
  <2>7. next[current].next = n BY <2>5, <2>6 DEF FreedFrom
  <2>8. n \in DOMAIN next BY <1>4, <2>2, <2>5, <2>7, Links
  <2>9. ~next[current].allocated /\ ~next[n].allocated BY <1>5, <2>3, <2>5, <2>8
  <2>10. AtNextSize(next, B)'
    BY <1>1, <1>2, <2>1, <2>2, <2>4, <2>7, <2>9 DEF AtNextSize
  <2> QED BY <1>1, <1>9, <2>10 DEF Place
<1> QED BY <1>7, <1>8, <1>9

-----------------------------------------------------------------------------
(* The handler while a header of a merged chunk is left over               *)
LEMMA ToPrevAgree ==
  ASSUME NEW list, Books(list), NEW B, AtToPrev(list, B)
  PROVE  /\ Agree(chunks, list, {}, {current}) /\ current \in Nat \ {0}
         /\ chunks[current].prev \in DOMAIN list /\ chunks[current].prev \notin Kernel \cup Handed
         /\ IsList(list) /\ WellFormed(list)
<1> DEFINE z == chunks[current].prev
<1>1. IsList(list) /\ WellFormed(list) BY DEF Books
<1>2. z \in DOMAIN list /\ z \notin Kernel \cup Handed
  BY DEF AtToPrev, Anchored, Books
<1>3. z \in Nat BY <1>1, <1>2, HeaderTypes
<1>4. current \in Nat \ {0} BY <1>3 DEF AtToPrev
<1>5. Agree(chunks, list, {}, {current}) BY DEF AtToPrev, Agree
<1> QED BY <1>1, <1>2, <1>4, <1>5

LEMMA ToPrevKept ==
  ASSUME NEW list, Books(list), NEW B, AtToPrev(list, B),
         NEW next, HandlerStep(list, next, {}, {current}),
         chunks[current].prev \notin Handed',
         list[chunks[current].prev].size <= next[chunks[current].prev].size
  PROVE  AtToPrev(next, B)'
<1>0. PICK z : z = chunks[current].prev OBVIOUS
<1>1. /\ Kernel' = Kernel /\ current' = current /\ Books(next)'
      /\ Agree(chunks', next, {}, {current}) /\ current \in DOMAIN chunks
      /\ chunks'[current] = chunks[current]
  BY DEF HandlerStep, current, Kept, AtToPrev
<1>2. Anchored(list, z) /\ Anchored(next, z)' /\ chunks'[current].prev = z
  BY <1>0, <1>1 DEF HandlerStep, AtToPrev
<1>3. z \in DOMAIN next /\ z \in DOMAIN list /\ z \notin Kernel' /\ z \notin Handed'
  BY <1>0, <1>2 DEF Anchored
<1>4. ~next[z].allocated BY <1>1, <1>3 DEF Books
<1>5. ChunkEnd(list, z) <= ChunkEnd(next, z) /\ ChunkEnd(list, z) \in Nat /\ ChunkEnd(next, z) \in Nat
  <2>1. IsList(list) /\ IsList(next) BY <1>1 DEF Books
  <2>2. /\ list[z].size \in Nat /\ next[z].size \in Nat /\ z \in Nat /\ ChunkHeader \in Nat
        /\ list[z].size <= next[z].size
    BY <1>0, <1>3, <2>1, HeaderTypes, HeapAssumption
  <2> QED BY <2>2 DEF ChunkEnd
<1>6. current \in Nat /\ ChunkHeader \in Nat BY ToPrevAgree, HeapAssumption
<1>7. /\ DOMAIN chunks' = DOMAIN next \cup {current} /\ current \notin DOMAIN next
      /\ \A d \in DOMAIN next : chunks'[d] = next[d]
  BY <1>1 DEF Agree
<1>8. Clear(z, B) => Clear(z, B)' BY <1>1 DEF Clear
<1>9. /\ current \in Nat /\ z < current /\ current + ChunkHeader <= ChunkEnd(next, z)
      /\ Clear(z, B)' /\ chunks'[current].next # current
  <2>1. /\ z < current /\ current + ChunkHeader <= ChunkEnd(list, z)
        /\ Clear(z, B) /\ chunks[current].next # current
    BY <1>0 DEF AtToPrev
  <2> QED BY <1>1, <1>5, <1>6, <1>8, <2>1
<1>10. /\ DOMAIN chunks' = DOMAIN next \cup {current'} /\ current' \notin DOMAIN next
       /\ chunks'[current'].prev = z /\ chunks'[current'].next # current'
       /\ current' \in Nat /\ z < current' /\ current' + ChunkHeader <= ChunkEnd(next, z)
  BY <1>1, <1>2, <1>7, <1>9
<1> QED BY <1>2, <1>4, <1>7, <1>9, <1>10 DEF AtToPrev

LEMMA ToPrevMalloc ==
  ASSUME NEW list, Books(list), NEW E, CoalescedAt(list, E), NEW B, AtToPrev(list, B),
         NEW size \in Nat, NEW c, Finds(c, size), c # chunks[current].prev,
         chunks' = Granted(c, size),
         held' = Append(held, [pointer |-> c + ChunkHeader, size |-> size]),
         owned' = owned, main' = main
  PROVE  \E next : /\ Books(next)' /\ CoalescedAt(next, E)
                   /\ AtToPrev(next, B)' /\ Kernel' = Kernel
<1> DEFINE z == chunks[current].prev
           next == Give(list, c, size)
           S == {}
           G == {current}
<1>1. /\ Agree(chunks, list, S, G) /\ current \in Nat \ {0}
      /\ z \in DOMAIN list /\ z \notin Kernel \cup Handed
      /\ IsList(list) /\ WellFormed(list)
  BY ToPrevAgree
<1>2. c \in DOMAIN list
  <2>1. c \in DOMAIN list \cup {current} BY DEF Finds, Fits, AtToPrev
  <2>2. SUFFICES ASSUME c = current PROVE FALSE
    BY <2>1
  <2>3. PICK passed \in SUBSET DOMAIN chunks : Passes(passed, c, size)
    BY DEF Finds
  <2>4. c # HeapStart BY <1>1, <2>2 DEF WellFormed, AtToPrev
  <2>5. PICK b \in passed : chunks[b].next = current
    BY <2>2, <2>3, <2>4 DEF Passes
  <2>6. b # current BY <2>5 DEF AtToPrev
  <2>7. b \in DOMAIN list /\ list[b].next = current /\ current \notin DOMAIN list
    BY <2>3, <2>5, <2>6 DEF AtToPrev
  <2> QED BY <1>1, <2>7, Links
<1>3. c \in Fits(size) BY DEF Finds
<1>4. list[c].next \notin S \cup G
  <2>1. list[c].next = 0 \/ list[c].next \in DOMAIN list BY <1>1, <1>2, Links
  <2> QED BY <1>1, <2>1 DEF AtToPrev
<1>5. \A a \in G : a \in Nat /\ (a + ChunkHeader <= c \/ ChunkEnd(list, c) <= a)
  <2>1. /\ c \in Nat /\ z \in Nat /\ ChunkHeader \in Nat
        /\ ChunkEnd(list, c) \in Nat /\ ChunkEnd(list, z) \in Nat
    BY <1>1, <1>2, HeaderTypes, HeapAssumption
  <2>2. ChunkEnd(list, c) <= z \/ ChunkEnd(list, z) <= c
    BY <1>1, <1>2, Disjoint
  <2>3. z < current /\ current + ChunkHeader <= ChunkEnd(list, z) BY DEF AtToPrev
  <2> QED BY <1>1, <2>1, <2>2, <2>3
<1>6. S \subseteq DOMAIN list /\ c \in DOMAIN list \ S BY <1>2
<1> HIDE DEF S, G, next, z
<1>7. /\ HandlerStep(list, next, S, G) /\ CoalescedAt(next, E)
      /\ GivenTo(next, list, c, size)
      /\ Handed' = Handed \cup {c} /\ c \notin Kernel \cup Handed
  BY <1>1, <1>3, <1>4, <1>5, <1>6, MallocStepOnList DEF next
<1>8. z \notin Handed' /\ list[z].size <= next[z].size
  <2>1. c # z BY DEF z
  <2>2. next[z].size = list[z].size /\ list[z].size \in Nat
    BY <1>1, <1>7, <2>1, HeaderTypes DEF GivenTo
  <2> QED BY <1>1, <1>7, <2>1, <2>2
<1>9. AtToPrev(next, B)'
  BY <1>7, <1>8, ToPrevKept DEF S, G, z
<1> QED BY <1>7, <1>9 DEF HandlerStep

LEMMA ToPrevLinked ==
  ASSUME NEW list, Books(list), NEW B, AtToPrev(list, B), NEW c \in DOMAIN list
  PROVE  Linked(c)
<1>1. IsList(list) /\ WellFormed(list) BY DEF Books
<1>2. /\ c \in Nat /\ 0 \notin DOMAIN list
      /\ list[c].prev # 0 => list[c].prev \in DOMAIN list /\ list[list[c].prev].next = c
      /\ list[c].next # 0 => list[c].next \in DOMAIN list /\ list[c].next > c
  BY <1>1, Links
<1>3. list[c].next # 0 =>
        list[list[c].next].next = 0 \/ list[list[c].next].next \in DOMAIN list
  BY <1>1, <1>2, Links
<1>4. \A d \in DOMAIN list : d \in DOMAIN chunks /\ chunks[d] = list[d]
  BY DEF AtToPrev
<1> QED BY <1>2, <1>3, <1>4 DEF Linked, Live

LEMMA ToPrevFree ==
  ASSUME NEW list, Books(list), NEW E, CoalescedAt(list, E), NEW B, AtToPrev(list, B),
         held # <<>>, chunks' = Freed(chunks, Last(held).pointer - ChunkHeader),
         held' = Front(held), owned' = owned, main' = main
  PROVE  \E next : /\ Books(next)' /\ CoalescedAt(next, E)
                   /\ AtToPrev(next, B)' /\ Kernel' = Kernel
<1>0. PICK z, c, next :
        /\ z = chunks[current].prev /\ c = Last(held).pointer - ChunkHeader
        /\ next = Freed(list, c)
  OBVIOUS
<1> DEFINE S == {}
           G == {current}
<1>1. /\ Agree(chunks, list, S, G) /\ current \in Nat \ {0}
      /\ z \in DOMAIN list /\ z \notin Kernel \cup Handed
      /\ IsList(list) /\ WellFormed(list)
  BY <1>0, ToPrevAgree
<1>2. /\ 0 \notin S \cup G /\ c \notin S
      /\ list[c].prev \in S => list[list[c].prev].allocated
      /\ list[c].next \in S =>
           list[list[c].next].allocated /\ (list[c].prev = 0 \/ list[list[c].prev].allocated)
      /\ list[c].next # 0 /\ ~list[list[c].next].allocated => list[list[c].next].next \notin S
  BY <1>1
<1> HIDE DEF S, G
<1>3. /\ HandlerStep(list, next, S, G) /\ CoalescedAt(next, E)
      /\ Handed' = Handed \ {c} /\ c \in DOMAIN list
  BY <1>0, <1>1, <1>2, FreeStepOnList
<1>4. PICK c1 : FreedFrom(next, list, c, c1)
  BY <1>0, <1>1, <1>2, FreeStepOnList
<1>5. z \notin Handed' /\ list[z].size <= next[z].size
  <2>1. Anchored(list, z) BY <1>0 DEF AtToPrev
  <2>2. Anchored(next, z)' BY <1>3, <2>1 DEF HandlerStep
  <2>3. z \in DOMAIN next BY <2>2 DEF Anchored
  <2>4. list[z].size \in Nat BY <1>1, HeaderTypes
  <2>5. list[z].size <= next[z].size BY <1>4, <2>3, <2>4 DEF FreedFrom
  <2> QED BY <1>1, <1>3, <2>5
<1>6. AtToPrev(next, B)'
  <2>1. HandlerStep(list, next, {}, {current}) BY <1>3 DEF S, G
  <2>2. chunks[current].prev \notin Handed' BY <1>0, <1>5
  <2>3. list[chunks[current].prev].size <= next[chunks[current].prev].size BY <1>0, <1>5
  <2> QED BY <2>1, <2>2, <2>3, ToPrevKept
<1> QED BY <1>3, <1>6 DEF HandlerStep

-----------------------------------------------------------------------------
(* The handler while one link back is still to be turned                   *)
NextBackIs(list, S) ==
  /\ Agree(chunks, list, S, {}) /\ S \subseteq DOMAIN list \cap Kernel /\ 0 \notin S
  /\ \A d \in S : /\ d = list[current].next /\ list[d].prev = current
                  /\ list[d].allocated /\ chunks[d].next = list[d].next
                  /\ \E v : chunks[d] = [list[d] EXCEPT !.prev = v]
  /\ current \in DOMAIN list /\ current \notin Kernel
  /\ IsList(list) /\ WellFormed(list)

LEMMA NextBackAgree ==
  ASSUME NEW list, Books(list), NEW B, AtNextBack(list, B),
         NEW S, S = {d \in DOMAIN list : chunks[d] # list[d]}
  PROVE  NextBackIs(list, S)
<1>1. /\ IsList(list) /\ WellFormed(list) /\ current \in DOMAIN list /\ current \notin Kernel
      /\ \A d \in Kernel : d \in DOMAIN list /\ list[d].allocated
  BY DEF Books, AtNextBack, Anchored
<1>2. 0 \notin DOMAIN list BY <1>1, Links
<1>3. ASSUME NEW d \in S
      PROVE  /\ d = list[current].next /\ d \in Kernel /\ d \in DOMAIN list
             /\ \E v : chunks[d] = [list[d] EXCEPT !.prev = v]
  BY DEF AtNextBack
<1>4. ASSUME NEW d \in S
      PROVE  /\ list[d].prev = current /\ list[d].allocated
             /\ chunks[d].next = list[d].next /\ chunks[d].allocated = list[d].allocated
  <2>1. d = list[current].next /\ d \in Kernel /\ d \in DOMAIN list BY <1>3
  <2>2. list[d].prev = current BY <1>1, <1>2, <2>1, Links
  <2>3. PICK v : chunks[d] = [list[d] EXCEPT !.prev = v] BY <1>3
  <2>4. list[d] \in Chunk BY <1>1, <2>1, HeaderTypes
  <2>5. chunks[d].next = list[d].next /\ chunks[d].allocated = list[d].allocated
    BY <2>3, <2>4 DEF Chunk
  <2> QED BY <1>1, <2>1, <2>2, <2>5
<1>5. Agree(chunks, list, S, {})
  <2>1. DOMAIN chunks = DOMAIN list BY DEF AtNextBack
  <2>2. \A d \in DOMAIN list : chunks[d].allocated = list[d].allocated
    BY <1>4
  <2> QED BY <2>1, <2>2 DEF Agree
<1> QED BY <1>1, <1>2, <1>3, <1>4, <1>5 DEF NextBackIs

LEMMA NextBackKept ==
  ASSUME NEW list, Books(list), NEW B, AtNextBack(list, B),
         NEW S, S = {d \in DOMAIN list : chunks[d] # list[d]},
         NEW next, HandlerStep(list, next, S, {})
  PROVE  AtNextBack(next, B)'
<1>1. /\ Agree(chunks, list, S, {}) /\ S \subseteq DOMAIN list \cap Kernel /\ 0 \notin S
      /\ \A d \in S : /\ list[d].prev = current
                      /\ \E v : chunks[d] = [list[d] EXCEPT !.prev = v]
      /\ current \in DOMAIN list /\ IsList(list) /\ WellFormed(list)
  <2>1. NextBackIs(list, S) BY NextBackAgree
  <2> QED BY <2>1 DEF NextBackIs
<1>2. /\ Kernel' = Kernel /\ current' = current /\ Anchored(next, current)'
      /\ IsList(next) /\ WellFormed(next) /\ Agree(chunks', next, S, {})
      /\ Kept(chunks', chunks, S) /\ Kept(next, list, S)
  BY DEF HandlerStep, AtNextBack, Books, current
<1>3. ASSUME NEW d \in S
      PROVE  /\ d \in DOMAIN next /\ d = next[current].next /\ d \in Kernel'
             /\ \E v : chunks'[d] = [next[d] EXCEPT !.prev = v]
  <2>1. d \in DOMAIN next /\ next[d] = list[d] /\ chunks'[d] = chunks[d]
    BY <1>1, <1>2 DEF Kept, Agree
  <2>2. next[d].prev = current BY <1>1, <2>1
  <2>3. current # 0 BY <1>1, Links
  <2>4. next[current].next = d BY <1>2, <2>1, <2>2, <2>3, Links
  <2>5. \E v : chunks'[d] = [next[d] EXCEPT !.prev = v] BY <1>1, <2>1
  <2> QED BY <1>1, <1>2, <2>1, <2>4, <2>5
<1>4. DOMAIN chunks' = DOMAIN next /\ \A d \in DOMAIN next \ S : chunks'[d] = next[d]
  BY <1>2 DEF Agree
<1>5. B = 0 BY DEF AtNextBack
<1>6. \A d \in DOMAIN next :
        \/ chunks'[d] = next[d]
        \/ /\ d = next[current'].next /\ d \in Kernel'
           /\ \E v : chunks'[d] = [next[d] EXCEPT !.prev = v]
  BY <1>2, <1>3, <1>4
<1> QED BY <1>2, <1>4, <1>5, <1>6 DEF AtNextBack

LEMMA NextBackMalloc ==
  ASSUME NEW list, Books(list), NEW E, CoalescedAt(list, E), NEW B, AtNextBack(list, B),
         NEW size \in Nat, NEW c, Finds(c, size), chunks' = Granted(c, size),
         held' = Append(held, [pointer |-> c + ChunkHeader, size |-> size]),
         owned' = owned, main' = main
  PROVE  \E next : /\ Books(next)' /\ CoalescedAt(next, E)
                   /\ AtNextBack(next, B)' /\ Kernel' = Kernel
<1> DEFINE S == {d \in DOMAIN list : chunks[d] # list[d]}
           G == {}
           next == Give(list, c, size)
           after == list[c].next
<1>0. S = {d \in DOMAIN list : chunks[d] # list[d]} OBVIOUS
<1> HIDE DEF S
<1>1. /\ Agree(chunks, list, S, G) /\ S \subseteq DOMAIN list \cap Kernel /\ 0 \notin S
      /\ \A d \in S : /\ d = list[current].next /\ list[d].prev = current
                      /\ \E v : chunks[d] = [list[d] EXCEPT !.prev = v]
      /\ current \in DOMAIN list
      /\ IsList(list) /\ WellFormed(list)
  <2>1. NextBackIs(list, S) BY <1>0, NextBackAgree
  <2> QED BY <2>1 DEF NextBackIs
<1>2. /\ c \in DOMAIN list /\ c \in Fits(size) /\ ~list[c].allocated
  BY <1>1 DEF Finds, Fits, Agree
<1>3. c \notin Kernel /\ c \notin S /\ chunks[c] = list[c] /\ list[c].size > size
  BY <1>1, <1>2 DEF Books, Agree, Fits
<1>4. after # 0 => after \in DOMAIN list /\ list[after].prev = c /\ after # c
  BY <1>1, <1>2, Links
<1>5. CASE after \notin S
  <2>1. /\ list[c].next \notin S \cup G /\ S \subseteq DOMAIN list /\ c \in DOMAIN list \ S
        /\ \A a \in G : a \in Nat /\ (a + ChunkHeader <= c \/ ChunkEnd(list, c) <= a)
    BY <1>1, <1>2, <1>3, <1>5
  <2> HIDE DEF next, G
  <2>2. /\ HandlerStep(list, next, S, G) /\ CoalescedAt(next, E)
    BY <1>1, <1>2, <2>1, MallocStepOnList DEF next
  <2>3. AtNextBack(next, B)'
    <3>1. HandlerStep(list, next, S, {}) BY <2>2 DEF G
    <3> QED BY <1>0, <3>1, NextBackKept
  <2> QED BY <2>2, <2>3 DEF HandlerStep
<1>6. CASE after \in S
  <2>1. c = current /\ after # 0 BY <1>1, <1>4, <1>6
  <2>2. S = {after} BY <1>1, <1>6
  <2>3. chunks' = Give(chunks, c, size)
    <3>1. \A a \in G : a \in Nat /\ (a + ChunkHeader <= c \/ ChunkEnd(list, c) <= a)
      OBVIOUS
    <3> HIDE DEF G
    <3> QED BY <1>1, <1>2, <1>3, <3>1, GrantedIsGive
  <2>4. /\ Books(next)' /\ CoalescedAt(next, E) /\ GivenTo(next, list, c, size)
        /\ Kernel' = Kernel
    BY <1>2, <1>3, HandlerGives
  <2>5. \A a : Anchored(list, a) => Anchored(next, a)'
    BY <1>2, <2>4, AnchoredGiven
  <2>6. CASE list[c].size >= size + ChunkHeader + 1
    <3> DEFINE temp == c + ChunkHeader + size
    <3>1. Split(chunks, c, size) = Split(list, c, size)
      <4>1. DOMAIN chunks = DOMAIN list BY <1>1 DEF Agree
      <4>2. temp # c /\ temp \notin DOMAIN list
        <5>1. CutAt(Split(list, c, size), list, c, size, temp)
          BY <1>1, <1>2, <2>6, SplitFields
        <5> QED BY <1>2, <5>1 DEF CutAt
      <4>3. [chunks[after] EXCEPT !.prev = temp] = [list[after] EXCEPT !.prev = temp]
        <5>1. PICK v : chunks[after] = [list[after] EXCEPT !.prev = v] BY <1>1, <1>6
        <5>2. list[after] \in Chunk BY <1>1, <1>4, <2>1, HeaderTypes
        <5> HIDE DEF temp, after
        <5> QED BY <5>1, <5>2 DEF Chunk
      <4>4. \A a \in DOMAIN list \ {c, after} : chunks[a] = list[a]
        BY <1>1, <2>2 DEF Agree
      <4> HIDE DEF temp
      <4>5. \A a \in DOMAIN list \cup {temp} :
              (IF a = c THEN [chunks[c] EXCEPT !.size = size, !.next = temp]
               ELSE IF a = temp
                 THEN [next |-> chunks[c].next, prev |-> c, allocated |-> FALSE,
                       size |-> chunks[c].size - size - ChunkHeader]
               ELSE IF a = chunks[c].next THEN [chunks[a] EXCEPT !.prev = temp]
               ELSE chunks[a])
              = (IF a = c THEN [list[c] EXCEPT !.size = size, !.next = temp]
               ELSE IF a = temp
                 THEN [next |-> list[c].next, prev |-> c, allocated |-> FALSE,
                       size |-> list[c].size - size - ChunkHeader]
               ELSE IF a = list[c].next THEN [list[a] EXCEPT !.prev = temp]
               ELSE list[a])
        BY <1>3, <4>3, <4>4
      <4> QED BY <4>1, <4>5 DEF Split, temp
    <3>2. chunks' = next BY <1>3, <2>3, <2>6, <3>1 DEF Give
    <3> HIDE DEF next
    <3>3. AtNextBack(next, B)'
      <4>1. Anchored(next, current)' BY <2>5 DEF AtNextBack, current
      <4> QED BY <3>2, <4>1 DEF AtNextBack
    <3> QED BY <2>4, <3>3
  <2>7. CASE ~(list[c].size >= size + ChunkHeader + 1)
    <3>1. chunks' = Mark(chunks, c, TRUE) /\ next = Mark(list, c, TRUE)
      BY <1>3, <2>3, <2>7 DEF Give
    <3>2. c \in DOMAIN list \ S BY <1>2, <1>3
    <3>3. /\ Agree(Mark(chunks, c, TRUE), Mark(list, c, TRUE), S, G)
          /\ Kept(Mark(chunks, c, TRUE), chunks, S \cup G) /\ Kept(Mark(list, c, TRUE), list, S)
      BY <1>1, <3>2, AgreeMark
    <3>4. chunks # list BY <1>6 DEF S
    <3> HIDE DEF next, G
    <3>5. HandlerStep(list, next, S, G)
      BY <2>4, <2>5, <3>1, <3>3, <3>4 DEF HandlerStep
    <3>6. AtNextBack(next, B)'
      <4>1. HandlerStep(list, next, S, {}) BY <3>5 DEF G
      <4> QED BY <1>0, <4>1, NextBackKept
    <3> QED BY <2>4, <3>6
  <2> QED BY <2>6, <2>7
<1> QED BY <1>5, <1>6

LEMMA NextBackApart ==
  ASSUME NEW list, Books(list), NEW B, AtNextBack(list, B),
         NEW S, S = {d \in DOMAIN list : chunks[d] # list[d]}, NEW c \in Handed
  PROVE  /\ c \notin S
         /\ list[c].prev \in S => list[list[c].prev].allocated
         /\ list[c].next \in S =>
              list[list[c].next].allocated /\ (list[c].prev = 0 \/ list[list[c].prev].allocated)
         /\ list[c].next # 0 /\ ~list[list[c].next].allocated => list[list[c].next].next \notin S
         /\ Linked(c)
<1> DEFINE p == list[c].prev
           n == list[c].next
<1>1. /\ Agree(chunks, list, S, {}) /\ S \subseteq DOMAIN list \cap Kernel /\ 0 \notin S
      /\ \A d \in S : /\ d = list[current].next /\ list[d].prev = current
                      /\ list[d].allocated /\ chunks[d].next = list[d].next
      /\ current \in DOMAIN list /\ IsList(list) /\ WellFormed(list)
  <2>1. NextBackIs(list, S) BY NextBackAgree
  <2> QED BY <2>1 DEF NextBackIs
<1>2. /\ c \in DOMAIN list /\ c \notin Kernel /\ list[c].allocated
      /\ \A d \in Kernel : d \in DOMAIN list /\ list[d].allocated
  BY DEF Books
<1>3. /\ c \in Nat /\ c # 0 /\ 0 \notin DOMAIN list
      /\ p # 0 => p \in DOMAIN list /\ list[p].next = c
      /\ n # 0 => n \in DOMAIN list /\ list[n].prev = c /\ c < n
  BY <1>1, <1>2, Links
<1>4. c \notin S BY <1>1, <1>2
<1>5. (current = HeapStart /\ list[current].prev = 0) \/ list[current].prev \in Kernel
  BY <1>1, Links DEF AtNextBack, Anchored
<1>6. n \in S => p = 0 \/ list[p].allocated
  <2> SUFFICES ASSUME n \in S PROVE p = 0 \/ list[p].allocated
    OBVIOUS
  <2>1. c = current BY <1>1, <1>3
  <2> QED BY <1>2, <1>5, <2>1
<1>7. n # 0 /\ ~list[n].allocated => list[n].next \notin S
  <2> SUFFICES ASSUME n # 0, list[n].next \in S PROVE FALSE
    OBVIOUS
  <2>1. n = current
    <3>1. list[n].next # 0 BY <1>1
    <3>2. list[list[n].next].prev = n BY <1>1, <1>3, <3>1, Links
    <3> QED BY <1>1, <3>2
  <2>2. list[current].prev = c BY <1>3, <2>1
  <2> QED BY <1>2, <1>3, <1>5, <2>2
<1>8. Linked(c)
  <2>1. /\ c \in DOMAIN chunks /\ chunks[c] = list[c]
        /\ DOMAIN chunks = DOMAIN list
    BY <1>1, <1>2, <1>4 DEF Agree
  <2>2. \A d \in DOMAIN list : chunks[d].next = list[d].next
    BY <1>1 DEF Agree
  <2>3. p # 0 => p \in DOMAIN chunks /\ chunks[p].next = c
    BY <1>3, <2>1, <2>2
  <2>4. n # 0 => /\ n \in DOMAIN chunks /\ n > c
                 /\ chunks[n].next = 0 \/ chunks[n].next \in DOMAIN chunks
    <3> SUFFICES ASSUME n # 0
                 PROVE  /\ n \in DOMAIN chunks /\ n > c
                        /\ chunks[n].next = 0 \/ chunks[n].next \in DOMAIN chunks
      OBVIOUS
    <3>1. list[n].next = 0 \/ list[n].next \in DOMAIN list BY <1>1, <1>3, Links
    <3>2. n \in Nat BY <1>1, <1>3, HeaderTypes
    <3> QED BY <1>3, <2>1, <2>2, <3>1, <3>2
  <2> QED BY <2>1, <2>3, <2>4 DEF Linked, Live
<1> QED BY <1>1, <1>4, <1>6, <1>7, <1>8

LEMMA NextBackFree ==
  ASSUME NEW list, Books(list), NEW E, CoalescedAt(list, E), NEW B, AtNextBack(list, B),
         held # <<>>, chunks' = Freed(chunks, Last(held).pointer - ChunkHeader),
         held' = Front(held), owned' = owned, main' = main
  PROVE  \E next : /\ Books(next)' /\ CoalescedAt(next, E)
                   /\ AtNextBack(next, B)' /\ Kernel' = Kernel
<1>0. PICK c, next : c = Last(held).pointer - ChunkHeader /\ next = Freed(list, c)
  OBVIOUS
<1>1. PICK S, G : S = {d \in DOMAIN list : chunks[d] # list[d]} /\ G = {}
  OBVIOUS
<1>2. Agree(chunks, list, S, G) /\ 0 \notin S \cup G
  <2>1. NextBackIs(list, S) BY <1>1, NextBackAgree
  <2> QED BY <1>1, <2>1 DEF NextBackIs
<1>3. c \in Handed BY <1>0, HandlerFrees
<1>4. /\ c \notin S
      /\ list[c].prev \in S => list[list[c].prev].allocated
      /\ list[c].next \in S =>
           list[list[c].next].allocated /\ (list[c].prev = 0 \/ list[list[c].prev].allocated)
      /\ list[c].next # 0 /\ ~list[list[c].next].allocated => list[list[c].next].next \notin S
  BY <1>3, <1>1, NextBackApart
<1>5. HandlerStep(list, next, S, G) /\ CoalescedAt(next, E)
  BY <1>0, <1>2, <1>4, FreeStepOnList
<1>6. AtNextBack(next, B)'
  <2>1. HandlerStep(list, next, S, {}) BY <1>1, <1>5
  <2> QED BY <1>1, <2>1, NextBackKept
<1> QED BY <1>5, <1>6 DEF HandlerStep

-----------------------------------------------------------------------------
(* The steps of the handler keep the invariant                             *)
(* Where two chunks are torn, and what must stay for kernelMain to go on.  *)
TornAt(list, B, z, g, s, x, v) ==
  /\ Torn(list, z, g, s, x, v) /\ (x = list[z].next \/ (x = g /\ s = list[z].size))
  /\ z \in Changing /\ list[z].next \in Changing \cup Kernel \cup {0}
  /\ main' = main /\ Kernel' = Kernel =>
       \A next : Torn(next, z, g, s, x, v)' /\ next[z] = list[z] /\ chunks'[g] = chunks[g] =>
         Place(next, B)'

LEMMA TornPlace ==
  ASSUME NEW list, NEW B, Place(list, B),
         main.at \in {"relink", "shrink", "link", "prevSize", "prevBack", "nextNext"}
  PROVE  \E z, g, s, x, v : TornAt(list, B, z, g, s, x, v)
<1>1. CASE main.at \in {"relink", "shrink", "link"}
  <2>1. PICK z, g, s, x, v :
          /\ z = current /\ g = Temp /\ x = list[z].next
          /\ s = IF main.at = "link" THEN main.size ELSE list[z].size
          /\ v = IF main.at = "relink" THEN current ELSE Temp
    OBVIOUS
  <2>2. Torn(list, z, g, s, x, v) /\ B = 0 /\ Cutting(list)
    <3>1. CASE main.at = "relink"
      <4>1. AtRelink(list, B) BY <3>1 DEF Place
      <4> QED BY <2>1, <3>1, <4>1 DEF AtRelink
    <3>2. CASE main.at = "shrink"
      <4>1. AtShrink(list, B) BY <3>2 DEF Place
      <4> QED BY <2>1, <3>2, <4>1 DEF AtShrink
    <3>3. CASE main.at = "link"
      <4>1. AtLink(list, B) BY <3>3 DEF Place
      <4> QED BY <2>1, <3>3, <4>1 DEF AtLink
    <3> QED BY <1>1, <3>1, <3>2, <3>3
  <2>3. z \in Changing BY <1>1, <2>1 DEF Changing
  <2>4. ASSUME main' = main, Kernel' = Kernel, NEW next, Torn(next, z, g, s, x, v)',
               next[z] = list[z]
        PROVE  Place(next, B)'
    <3>1. current' = z /\ Temp' = g /\ main'.at = main.at /\ main'.size = main.size
      BY <2>1, <2>4 DEF current, Temp
    <3>2. B = 0 /\ Cutting(next)' BY <2>1, <2>2, <2>4, <3>1 DEF Cutting
    <3>3. CASE main.at = "relink"
      <4>1. /\ s = next[current'].size /\ x = next[current'].next /\ v = current'
        BY <2>1, <2>4, <3>1, <3>3
      <4>2. AtRelink(next, B)' BY <2>4, <3>1, <3>2, <4>1 DEF AtRelink
      <4> QED BY <3>1, <3>3, <4>2 DEF Place
    <3>4. CASE main.at = "shrink"
      <4>1. /\ s = next[current'].size /\ x = next[current'].next /\ v = Temp'
        BY <2>1, <2>4, <3>1, <3>4
      <4>2. AtShrink(next, B)' BY <2>4, <3>1, <3>2, <4>1 DEF AtShrink
      <4> QED BY <3>1, <3>4, <4>2 DEF Place
    <3>5. CASE main.at = "link"
      <4>1. /\ s = main'.size /\ x = next[current'].next /\ v = Temp'
        BY <2>1, <2>4, <3>1, <3>5
      <4>2. AtLink(next, B)' BY <2>4, <3>1, <3>2, <4>1 DEF AtLink
      <4> QED BY <3>1, <3>5, <4>2 DEF Place
    <3> QED BY <1>1, <3>3, <3>4, <3>5
  <2>5. TornAt(list, B, z, g, s, x, v)
    BY <2>1, <2>2, <2>3, <2>4 DEF TornAt, Cutting
  <2> QED BY <2>5
<1>2. CASE main.at \in {"prevSize", "prevBack"}
  <2>1. PICK z, g, s, x, v :
          /\ z = chunks[current].prev /\ g = current /\ x = list[z].next
          /\ s = IF main.at = "prevSize" THEN current - z - ChunkHeader ELSE list[z].size
          /\ v = current
    OBVIOUS
  <2>2. Torn(list, z, g, s, x, v) /\ B \in {0, list[z].next}
    <3>1. CASE main.at = "prevSize"
      <4>1. AtPrevSize(list, B) BY <3>1 DEF Place
      <4> QED BY <2>1, <3>1, <4>1 DEF AtPrevSize
    <3>2. CASE main.at = "prevBack"
      <4>1. AtPrevBack(list, B) BY <3>2 DEF Place
      <4> QED BY <2>1, <3>2, <4>1 DEF AtPrevBack
    <3> QED BY <1>2, <3>1, <3>2
  <2>3. z \in Changing /\ list[z].next \in Changing
    <3>1. g \in DOMAIN chunks /\ chunks[g].next = list[z].next BY <2>2 DEF Torn
    <3> QED BY <1>2, <2>1, <3>1 DEF Changing, PrevOf, NextOf
  <2>4. ASSUME main' = main, Kernel' = Kernel, NEW next, Torn(next, z, g, s, x, v)',
               next[z] = list[z], chunks'[g] = chunks[g]
        PROVE  Place(next, B)'
    <3>1. /\ current' = g /\ main'.at = main.at /\ chunks'[current'].prev = z
          /\ v = current' /\ x = next[z].next
      BY <2>1, <2>4 DEF current
    <3>2. B \in {0, next[z].next} BY <2>2, <2>4
    <3>3. CASE main.at = "prevSize"
      <4>1. s = current' - z - ChunkHeader BY <2>1, <3>1, <3>3
      <4>2. AtPrevSize(next, B)' BY <2>4, <3>1, <3>2, <4>1 DEF AtPrevSize
      <4> QED BY <3>1, <3>3, <4>2 DEF Place
    <3>4. CASE main.at = "prevBack"
      <4>1. s = next[z].size BY <2>1, <2>4, <3>4
      <4>2. AtPrevBack(next, B)' BY <2>4, <3>1, <3>2, <4>1 DEF AtPrevBack
      <4> QED BY <3>1, <3>4, <4>2 DEF Place
    <3> QED BY <1>2, <3>3, <3>4
  <2>5. TornAt(list, B, z, g, s, x, v)
    BY <2>1, <2>2, <2>3, <2>4 DEF TornAt
  <2> QED BY <2>5
<1>3. CASE main.at = "nextNext"
  <2>1. PICK z, g, s, x, v :
          /\ z = current /\ g = chunks[current].next /\ x = g /\ v = g /\ s = list[z].size
    OBVIOUS
  <2>2. Torn(list, z, g, s, x, v) /\ B = 0 /\ list[z].next \in Kernel \cup {0}
    <3>1. AtNextNext(list, B) BY <1>3 DEF Place
    <3> QED BY <2>1, <3>1 DEF AtNextNext
  <2>3. z \in Changing BY <1>3, <2>1 DEF Changing
  <2>4. ASSUME main' = main, Kernel' = Kernel, NEW next, Torn(next, z, g, s, x, v)',
               next[z] = list[z]
        PROVE  Place(next, B)'
    <3>1. /\ current' = z /\ main'.at = main.at BY <2>1, <2>4 DEF current
    <3>2. chunks'[z].next = x
      <4>1. chunks'[z] = [next[z] EXCEPT !.size = s, !.next = x] BY <2>4 DEF Torn
      <4>2. chunks[z] = [list[z] EXCEPT !.size = s, !.next = x] BY <2>2 DEF Torn
      <4> QED BY <2>1, <2>4, <4>1, <4>2
    <3>3. AtNextNext(next, B)'
      BY <2>1, <2>2, <2>4, <3>1, <3>2 DEF AtNextNext
    <3> QED BY <1>3, <3>1, <3>3 DEF Place
  <2>5. TornAt(list, B, z, g, s, x, v)
    BY <2>1, <2>2, <2>3, <2>4 DEF TornAt
  <2> QED BY <2>5
<1> QED BY <1>1, <1>2, <1>3

(* The statements at which memory is a list.                               *)
Plain == {"idle", "unmark", "look", "cut", "mark", "testNext"}
Merging == {"testPrev", "prevNext", "nextSize"}
Tearing == {"relink", "shrink", "link", "prevSize", "prevBack", "nextNext"}

LEMMA Places ==
  ASSUME NEW list, NEW B, Place(list, B)
  PROVE  \/ main.at \in Plain /\ chunks = list
         \/ main.at \in Merging /\ chunks = list
         \/ main.at \in Tearing
         \/ main.at = "toPrev" /\ AtToPrev(list, B)
         \/ main.at = "nextBack" /\ AtNextBack(list, B)
BY DEF Place, Plain, Merging, Tearing, AtUnmark, AtLook, AtCut, AtMark, AtTestPrev, AtPrevNext,
       AtTestNext, AtNextSize

LEMMA PreemptedMalloc ==
  ASSUME PreemptedInv, NEW size \in HandlerSizes, HandlerMalloc(size)
  PROVE  PreemptedInv'
<1> SUFFICES ASSUME ~exposed' PROVE \E list, B : Sound(list, B)'
  BY DEF PreemptedInv
<1>1. PICK c \in DOMAIN chunks :
        /\ Finds(c, size) /\ chunks' = Granted(c, size)
        /\ held' = Append(held, [pointer |-> c + ChunkHeader, size |-> size])
        /\ exposed' = (exposed \/ c \in Changing)
  BY DEF HandlerMalloc
<1>2. ~exposed /\ c \notin Changing BY <1>1, Zenon
<1>3. size \in Nat /\ owned' = owned /\ main' = main BY PreemptedAssumption DEF HandlerMalloc
<1>4. PICK list, B : Sound(list, B) BY <1>2 DEF PreemptedInv
<1>5. Books(list) /\ CoalescedAt(list, Excused(B)) /\ Place(list, B) /\ main'.size \in Nat
  BY <1>3, <1>4 DEF Sound
<1>6. PICK E : E = Excused(B) OBVIOUS
<1>7. Excused(B)' = E BY <1>3, <1>6 DEF Excused, current
<1>8. SUFFICES \E next : Books(next)' /\ CoalescedAt(next, E) /\ Place(next, B)'
  BY <1>5, <1>7 DEF Sound
<1>9. CoalescedAt(list, E) BY <1>5, <1>6
<1>11. CASE main.at \in Plain \cup Merging /\ chunks = list
  <2>1. PICK next : /\ HandlerStep(list, next, {}, {}) /\ CoalescedAt(next, E)
                    /\ GivenTo(next, list, c, size) /\ c \in DOMAIN list /\ ~list[c].allocated
                    /\ Handed' = Handed \cup {c} /\ c \notin Kernel \cup Handed
    BY <1>1, <1>3, <1>5, <1>9, <1>11, PlainMalloc
  <2>2. Books(next)' BY <2>1 DEF HandlerStep
  <2>3. CASE main.at \in Plain
    <3>1. Place(next, B)' BY <1>3, <1>5, <1>11, <2>1, <2>3, PlainPlace DEF Plain
    <3> QED BY <2>1, <2>2, <3>1
  <2>4. CASE main.at \in Merging
    <3>1. Place(next, B)' BY <1>2, <1>5, <1>11, <2>1, <2>4, MergePlaceMalloc DEF Merging
    <3> QED BY <2>1, <2>2, <3>1
  <2> QED BY <1>11, <2>3, <2>4
<1>12. CASE main.at \in Tearing
  <2>1. PICK z, g, s, x, v : TornAt(list, B, z, g, s, x, v)
    BY <1>5, <1>12, TornPlace DEF Tearing
  <2>2. c # z /\ c # list[z].next
    <3>1. /\ z \in Changing /\ list[z].next \in Changing \cup Kernel \cup {0}
          /\ Torn(list, z, g, s, x, v)
      BY <2>1 DEF TornAt
    <3>2. ~chunks[c].allocated BY <1>1 DEF Finds, Fits
    <3>3. c # 0 /\ c \notin Kernel
      <4>1. /\ Agree(chunks, list, {z, list[z].next} \ {0}, {g}) /\ g # 0 /\ g \notin DOMAIN list
        <5>1. TornIs(list, z, g, s, x, v) BY <1>5, <3>1, TornFacts
        <5> QED BY <1>5, <3>1, <5>1, TornAgree DEF TornIs
      <4>2. \A d \in Kernel : d \in DOMAIN list /\ list[d].allocated /\ 0 \notin DOMAIN list
        BY <1>5, Links DEF Books
      <4>3. 0 \notin DOMAIN list BY <1>5, Links DEF Books
      <4> QED BY <1>1, <3>2, <4>1, <4>2, <4>3 DEF Agree
    <3> QED BY <1>2, <3>1, <3>3
  <2>3. PICK next : /\ Books(next)' /\ CoalescedAt(next, E)
                    /\ Torn(next, z, g, s, x, v)' /\ next[z] = list[z]
                    /\ chunks'[g] = chunks[g] /\ Kernel' = Kernel
    BY <1>1, <1>3, <1>5, <1>9, <2>1, <2>2, TornMalloc DEF TornAt
  <2>4. Place(next, B)' BY <1>3, <2>1, <2>3 DEF TornAt
  <2> QED BY <2>3, <2>4
<1>13. CASE main.at = "toPrev" /\ AtToPrev(list, B)
  <2>1. c # chunks[current].prev
    BY <1>2, <1>13 DEF Changing, PrevOf, AtToPrev
  <2>2. PICK next : /\ Books(next)' /\ CoalescedAt(next, E)
                    /\ AtToPrev(next, B)' /\ Kernel' = Kernel
    BY <1>1, <1>3, <1>5, <1>9, <1>13, <2>1, ToPrevMalloc
  <2>3. Place(next, B)' BY <1>3, <1>13, <2>2 DEF Place
  <2> QED BY <2>2, <2>3
<1>14. CASE main.at = "nextBack" /\ AtNextBack(list, B)
  <2>1. PICK next : /\ Books(next)' /\ CoalescedAt(next, E)
                    /\ AtNextBack(next, B)' /\ Kernel' = Kernel
    BY <1>1, <1>3, <1>5, <1>9, <1>14, NextBackMalloc
  <2>2. Place(next, B)' BY <1>3, <1>14, <2>1 DEF Place
  <2> QED BY <2>1, <2>2
<1> QED BY <1>5, <1>11, <1>12, <1>13, <1>14, Places

LEMMA PreemptedFree ==
  ASSUME PreemptedInv, HandlerFree
  PROVE  PreemptedInv'
<1> SUFFICES ASSUME ~exposed' PROVE \E list, B : Sound(list, B)'
  BY DEF PreemptedInv
<1>1. PICK c : c = Last(held).pointer - ChunkHeader OBVIOUS
<1>2. /\ held # <<>> /\ chunks' = Freed(chunks, c) /\ held' = Front(held)
      /\ chunks' = Freed(chunks, Last(held).pointer - ChunkHeader)
      /\ owned' = owned /\ main' = main /\ ~exposed
  BY <1>1 DEF HandlerFree
<1>4. PICK list, B : Sound(list, B) BY <1>2 DEF PreemptedInv
<1>5. Books(list) /\ CoalescedAt(list, Excused(B)) /\ Place(list, B) /\ main'.size \in Nat
  BY <1>2, <1>4 DEF Sound
<1>6. PICK E : E = Excused(B) OBVIOUS
<1>7. Excused(B)' = E BY <1>2, <1>6 DEF Excused, current
<1>8. SUFFICES \E next : Books(next)' /\ CoalescedAt(next, E) /\ Place(next, B)'
  BY <1>5, <1>7 DEF Sound
<1>9. CoalescedAt(list, E) BY <1>5, <1>6
<1>10. CASE main.at \in Plain \cup Merging /\ chunks = list
  <2>1. PICK next, c1 : /\ HandlerStep(list, next, {}, {}) /\ CoalescedAt(next, E)
                        /\ FreedFrom(next, list, c, c1) /\ c \in DOMAIN list /\ list[c].allocated
                        /\ Handed' = Handed \ {c} /\ c \in Handed /\ c \notin Kernel
    BY <1>1, <1>2, <1>5, <1>9, <1>10, PlainFree
  <2>2. Books(next)' BY <2>1 DEF HandlerStep
  <2>3. CASE main.at \in Plain
    <3>1. Place(next, B)' BY <1>2, <1>5, <1>10, <2>1, <2>3, PlainPlace DEF Plain
    <3> QED BY <2>1, <2>2, <3>1
  <2>4. CASE main.at \in Merging
    <3>1. Place(next, B)' BY <1>5, <1>10, <2>1, <2>4, MergePlaceFree DEF Merging
    <3> QED BY <2>1, <2>2, <3>1
  <2> QED BY <1>10, <2>3, <2>4
<1>11. CASE main.at \in Tearing
  <2>1. PICK z, g, s, x, v : TornAt(list, B, z, g, s, x, v)
    BY <1>5, <1>11, TornPlace DEF Tearing
  <2>2. PICK next : /\ Books(next)' /\ CoalescedAt(next, E)
                    /\ Torn(next, z, g, s, x, v)' /\ next[z] = list[z]
                    /\ chunks'[g] = chunks[g] /\ Kernel' = Kernel
    BY <1>2, <1>5, <1>9, <2>1, TornFree DEF TornAt
  <2>3. Place(next, B)' BY <1>2, <2>1, <2>2 DEF TornAt
  <2> QED BY <2>2, <2>3
<1>12. CASE main.at = "toPrev" /\ AtToPrev(list, B)
  <2>1. PICK next : /\ Books(next)' /\ CoalescedAt(next, E)
                    /\ AtToPrev(next, B)' /\ Kernel' = Kernel
    BY <1>2, <1>5, <1>9, <1>12, ToPrevFree
  <2>2. Place(next, B)' BY <1>2, <1>12, <2>1 DEF Place
  <2> QED BY <2>1, <2>2
<1>13. CASE main.at = "nextBack" /\ AtNextBack(list, B)
  <2>1. PICK next : /\ Books(next)' /\ CoalescedAt(next, E)
                    /\ AtNextBack(next, B)' /\ Kernel' = Kernel
    BY <1>2, <1>5, <1>9, <1>13, NextBackFree
  <2>2. Place(next, B)' BY <1>2, <1>13, <2>1 DEF Place
  <2> QED BY <2>1, <2>2
<1> QED BY <1>5, <1>10, <1>11, <1>12, <1>13, Places

-----------------------------------------------------------------------------
(* The steps of kernelMain keep the invariant                              *)
LEMMA Alone ==
  ASSUME PreemptedInv, ~exposed, held = <<>>
  PROVE  \E list, B :
           /\ Books(list) /\ CoalescedAt(list, Excused(B)) /\ Place(list, B)
           /\ main.size \in Nat /\ IsList(list) /\ WellFormed(list)
           /\ \A d \in DOMAIN list : list[d].allocated <=> d \in Kernel
           /\ Kernel \subseteq DOMAIN list
<1>1. PICK list, B : Sound(list, B) BY DEF PreemptedInv
<1>2. Handed = {} BY DEF Handed
<1>3. /\ Books(list) /\ CoalescedAt(list, Excused(B)) /\ Place(list, B)
      /\ main.size \in Nat
  BY <1>1 DEF Sound
<1>4. /\ IsList(list) /\ WellFormed(list)
      /\ \A d \in DOMAIN list : list[d].allocated <=> d \in Kernel \cup Handed
      /\ Kernel \subseteq DOMAIN list
  BY <1>3, Zenon DEF Books
<1>5. \A d \in DOMAIN list : list[d].allocated <=> d \in Kernel
  BY <1>2, <1>4
<1> QED BY <1>3, <1>4, <1>5

LEMMA SameBooks ==
  ASSUME NEW list, Books(list), owned' = owned, held' = held, Kernel' = Kernel
  PROVE  Books(list)'
<1>1. Handed' = Handed BY DEF Handed
<1> QED BY <1>1 DEF Books

LEMMA NewBooks ==
  ASSUME NEW list, IsList(list), WellFormed(list), held' = <<>>,
         \A d \in DOMAIN list : list[d].allocated <=> d \in Kernel',
         Kernel' \subseteq DOMAIN list,
         \A p \in DOMAIN owned' :
           p \in Nat /\ owned'[p] \in Nat /\ owned'[p] <= list[p - ChunkHeader].size
  PROVE  Books(list)'
<1>1. Handed' = {} BY DEF Handed
<1>2. held' \in Seq(Buffer) /\ DOMAIN held' = {} BY EmptySeq
<1>3. \A d \in DOMAIN list : list[d].allocated <=> d \in Kernel' \cup Handed'
  BY <1>1
<1> QED BY <1>1, <1>2, <1>3 DEF Books, Buffer

LEMMA StepSound ==
  ASSUME NEW list, NEW B, main'.size \in Nat, Books(list)',
         NEW E, E = Excused(B)', CoalescedAt(list, E), Place(list, B)'
  PROVE  PreemptedInv'
BY DEF PreemptedInv, Sound

LEMMA PreemptedCallMalloc ==
  ASSUME PreemptedInv, NEW size \in Sizes, CallMalloc(size)
  PROVE  PreemptedInv'
<1>1. /\ ~exposed /\ held = <<>> /\ main.at = "idle"
      /\ main'.at = "look" /\ main'.chunk = HeapStart /\ main'.size = size
      /\ chunks' = chunks /\ owned' = owned /\ held' = held
  BY DEF CallMalloc, Keep
<1>2. PICK list, B :
        /\ Books(list) /\ CoalescedAt(list, Excused(B)) /\ Place(list, B)
        /\ IsList(list) /\ WellFormed(list)
  BY <1>1, Alone
<1>3. chunks = list /\ B = 0 BY <1>1, <1>2 DEF Place
<1>4. Kernel' = Kernel BY <1>1 DEF Kernel
<1>5. Books(list)' BY <1>1, <1>2, <1>4, SameBooks
<1>6. AtLook(list, B)'
  BY <1>1, <1>2, <1>3, <1>4 DEF AtLook, Anchored, WellFormed, current
<1>7. Place(list, B)' BY <1>1, <1>6 DEF Place
<1>8. Excused(B)' = Excused(B) BY <1>1 DEF Excused
<1>9. size \in Nat BY HeapAssumption
<1> QED BY <1>1, <1>2, <1>5, <1>7, <1>8, <1>9, StepSound

(* A chunk found to be free and large enough.                              *)
LEMMA PreemptedLook ==
  ASSUME PreemptedInv, Look, ~exposed
  PROVE  PreemptedInv'
<1>1. /\ held = <<>> /\ main.at = "look" /\ chunks' = chunks /\ owned' = owned /\ held' = held
  BY DEF Look, At, Keep
<1>2. PICK list, B :
        /\ Books(list) /\ CoalescedAt(list, Excused(B)) /\ Place(list, B)
        /\ main.size \in Nat /\ IsList(list) /\ WellFormed(list)
        /\ \A d \in DOMAIN list : list[d].allocated <=> d \in Kernel
        /\ Kernel \subseteq DOMAIN list
  BY <1>1, Alone
<1>3. chunks = list /\ B = 0 /\ (current \in Kernel \cup {0} \/ Anchored(list, current))
  BY <1>1, <1>2 DEF Place, AtLook
<1>4. CoalescedAt(list, {0}) BY <1>1, <1>2, <1>3 DEF Excused
<1>5. CASE main' = Idle
  <2>1. Kernel' = Kernel BY <1>1, <1>5 DEF Kernel, Idle
  <2>2. Books(list)' BY <1>1, <1>2, <2>1, SameBooks
  <2>3. Place(list, B)' BY <1>1, <1>3, <1>5 DEF Place, Idle
  <2>4. Excused(B)' = {0} BY <1>3, <1>5 DEF Excused, Idle
  <2>5. main'.size \in Nat BY <1>5 DEF Idle
  <2> QED BY <1>4, <2>2, <2>3, <2>4, <2>5, StepSound
<1>6. CASE /\ current # 0 /\ chunks[current].size > main.size /\ ~chunks[current].allocated
           /\ GoTo("cut")
  <2>1. main'.at = "cut" /\ main'.chunk = current /\ main'.size = main.size
    BY <1>6 DEF GoTo
  <2>2. Kernel' = Kernel /\ current' = current /\ Temp' = Temp
    BY <1>1, <2>1 DEF Kernel, Temp, current
  <2>3. Books(list)' BY <1>1, <1>2, <2>2, SameBooks
  <2>4. Anchored(list, current) BY <1>2, <1>3, <1>6
  <2>5. /\ current \in Nat /\ list[current].size \in Nat /\ current \in DOMAIN list
        /\ ChunkHeader \in Nat /\ main.size \in Nat
        /\ ChunkEnd(list, current) \in Nat /\ HeapEnd \in Nat
        /\ ChunkEnd(list, current) <= HeapEnd
    BY <1>2, <2>4, Links, HeaderTypes, HeapAssumption DEF Anchored, HeapEnd
  <2>6. Temp \in Nat /\ current <= Temp /\ Temp < ChunkEnd(list, current)
    BY <1>3, <1>6, <2>5 DEF Temp, ChunkEnd
  <2>7. \A k \in Kernel : ~(current < k /\ k < Temp + 1)
    <3> SUFFICES ASSUME NEW k \in Kernel, current < k, k < Temp + 1 PROVE FALSE
      OBVIOUS
    <3>1. k \in DOMAIN list /\ k \in Nat BY <1>2, HeaderTypes
    <3>2. ChunkEnd(list, current) <= k BY <1>2, <2>5, <3>1 DEF WellFormed
    <3> QED BY <2>5, <2>6, <3>1, <3>2
  <2>8. Clear(current, Temp + 1) /\ Temp < HeapEnd
    BY <2>5, <2>6, <2>7 DEF Clear
  <2>9. AtCut(list, B)'
    BY <1>1, <1>3, <2>2, <2>4, <2>8 DEF AtCut, Anchored, Clear
  <2>10. Place(list, B)' BY <2>1, <2>9 DEF Place
  <2>11. Excused(B)' = {0} BY <1>3, <2>1 DEF Excused
  <2> QED BY <1>2, <1>4, <2>1, <2>3, <2>10, <2>11, StepSound
<1>7. CASE /\ current # 0 /\ ~(chunks[current].size > main.size /\ ~chunks[current].allocated)
           /\ main' = [at |-> "look", chunk |-> chunks[current].next, size |-> main.size]
  <2>1. main'.at = "look" /\ current' = list[current].next /\ main'.size = main.size
    BY <1>3, <1>7 DEF current
  <2>2. Kernel' = Kernel BY <1>1, <2>1 DEF Kernel
  <2>3. Books(list)' BY <1>1, <1>2, <2>2, SameBooks
  <2>4. current \in DOMAIN list BY <1>2, <1>3, <1>7 DEF Anchored
  <2>5. ASSUME current' # 0, current' \notin Kernel PROVE Anchored(list, current')
    <3>1. PICK n : n = current' OBVIOUS
    <3>2. n \in DOMAIN list /\ list[n].prev = current
      BY <1>2, <2>1, <2>4, <2>5, <3>1, Links
    <3>3. list[current].allocated
      BY <1>2, <1>4, <2>1, <2>4, <2>5, <3>1, <3>2 DEF CoalescedAt
    <3> QED BY <1>2, <2>4, <2>5, <3>1, <3>2, <3>3 DEF Anchored
  <2>6. AtLook(list, B)'
    BY <1>1, <1>3, <2>2, <2>5 DEF AtLook, Anchored
  <2>7. Place(list, B)' BY <2>1, <2>6 DEF Place
  <2>8. Excused(B)' = {0} BY <1>3, <2>1 DEF Excused
  <2> QED BY <1>2, <1>4, <2>1, <2>3, <2>7, <2>8, StepSound
<1> QED BY <1>5, <1>6, <1>7 DEF Look

(* The rest of the chunk that is cut gets its header.                      *)
LEMMA PreemptedCut ==
  ASSUME PreemptedInv, Cut, ~exposed
  PROVE  PreemptedInv'
<1>1. /\ held = <<>> /\ main.at = "cut" /\ owned' = owned /\ held' = held
  BY DEF Cut, At, Keep
<1>2. PICK list, B :
        /\ Books(list) /\ CoalescedAt(list, Excused(B)) /\ Place(list, B)
        /\ main.size \in Nat /\ IsList(list) /\ WellFormed(list)
        /\ \A d \in DOMAIN list : list[d].allocated <=> d \in Kernel
        /\ Kernel \subseteq DOMAIN list
  BY <1>1, Alone
<1>3. /\ chunks = list /\ B = 0 /\ Anchored(list, current)
      /\ Clear(current, Temp + 1) /\ Temp < HeapEnd
  BY <1>1, <1>2 DEF Place, AtCut
<1>4. CoalescedAt(list, {0}) BY <1>1, <1>2, <1>3 DEF Excused
<1>5. PICK z, g, m : z = current /\ g = Temp /\ m = main.size OBVIOUS
<1>6. /\ z \in DOMAIN list /\ ~list[z].allocated /\ z \in Nat /\ list[z] \in Chunk
      /\ list[z].size \in Nat /\ list[z].next \in Nat /\ ChunkHeader \in Nat /\ m \in Nat
      /\ g = z + ChunkHeader + m /\ g \in Nat /\ z <= g /\ HeapEnd \in Nat
  BY <1>2, <1>3, <1>5, HeaderTypes, HeapAssumption DEF Anchored, Temp, HeapEnd
<1>7. ASSUME main'.at \in {"relink", "mark"}, main'.chunk = z, main'.size = m
      PROVE  /\ Kernel' = Kernel /\ current' = z /\ Temp' = g /\ Books(list)'
             /\ Excused(B)' = {0} /\ main'.size \in Nat
  <2>1. Kernel' = Kernel BY <1>1, <1>7 DEF Kernel
  <2>2. Books(list)' BY <1>1, <1>2, <2>1, SameBooks
  <2>3. current' = z /\ Temp' = g BY <1>6, <1>7 DEF current, Temp
  <2>4. Excused(B)' = {0} BY <1>3, <1>7 DEF Excused
  <2> QED BY <1>6, <1>7, <2>1, <2>2, <2>3, <2>4
<1>8. CASE Splits(current, main.size)
  <2> DEFINE y == list[z].next
             rest == [next |-> y, prev |-> z, allocated |-> FALSE,
                      size |-> list[z].size - m - ChunkHeader]
  <2>1. /\ chunks' = [a \in DOMAIN chunks \cup {g} |-> IF a = g THEN rest ELSE chunks[a]]
        /\ main'.at = "relink" /\ main'.chunk = z /\ main'.size = m
    BY <1>3, <1>5, <1>8 DEF Cut, GoTo
  <2>2. list[z].size >= m + ChunkHeader + 1 BY <1>3, <1>5, <1>8 DEF Splits
  <2>3. g \notin DOMAIN list
    <3>1. CutAt(Split(list, z, m), list, z, m, z + ChunkHeader + m)
      BY <1>2, <1>6, <2>2, SplitFields
    <3> QED BY <1>6, <3>1 DEF CutAt
  <2>4. g # z BY <1>6, <2>3
  <2>5. y # 0 => y \in DOMAIN list /\ list[y].prev = z /\ list[y] \in Chunk /\ y \in Kernel
    <3> SUFFICES ASSUME y # 0
                 PROVE  y \in DOMAIN list /\ list[y].prev = z /\ list[y] \in Chunk /\ y \in Kernel
      OBVIOUS
    <3>1. y \in DOMAIN list /\ list[y].prev = z /\ list[y] \in Chunk BY <1>2, <1>6, Links
    <3>2. list[y].allocated BY <1>4, <1>6 DEF CoalescedAt
    <3> QED BY <1>2, <3>1, <3>2
  <2>6. /\ rest \in Chunk /\ rest.next = y /\ rest.prev = z /\ ~rest.allocated
        /\ g + ChunkHeader + rest.size = ChunkEnd(list, z)
    <3>1. list[z].size - m - ChunkHeader \in Nat BY <1>6, <2>2
    <3>2. g + ChunkHeader + rest.size = ChunkEnd(list, z) BY <1>6 DEF ChunkEnd
    <3> QED BY <1>6, <3>1, <3>2 DEF Chunk
  <2>7. /\ DOMAIN chunks' = DOMAIN list \cup {g} /\ chunks'[g] = rest
        /\ \A d \in DOMAIN list : chunks'[d] = list[d]
    BY <1>3, <2>1, <2>3
  <2>8. list[z] = [list[z] EXCEPT !.size = list[z].size, !.next = list[z].next]
    BY <1>6 DEF Chunk
  <2>9. y # 0 => list[y] = [list[y] EXCEPT !.prev = z]
    BY <2>5 DEF Chunk
  <2>10. Kernel' = Kernel /\ current' = z /\ Temp' = g BY <1>7, <2>1
  <2>11. Anchored(list, z)' BY <1>3, <1>5, <2>10 DEF Anchored
  <2> HIDE DEF rest
  <2>12. Torn(list, z, g, list[z].size, list[z].next, z)'
    BY <1>6, <2>3, <2>4, <2>5, <2>6, <2>7, <2>8, <2>9, <2>10, <2>11 DEF Torn
  <2>13. Cutting(list)'
    BY <1>6, <2>1, <2>2, <2>5, <2>10 DEF Cutting
  <2>14. AtRelink(list, B)'
    BY <1>3, <2>10, <2>12, <2>13 DEF AtRelink
  <2>15. Place(list, B)' BY <2>1, <2>14 DEF Place
  <2> QED BY <1>4, <1>7, <2>1, <2>15, StepSound
<1>9. CASE ~Splits(current, main.size)
  <2>1. chunks' = chunks /\ main'.at = "mark" /\ main'.chunk = z /\ main'.size = m
    BY <1>5, <1>9 DEF Cut, GoTo
  <2>2. Kernel' = Kernel /\ current' = z /\ Temp' = g BY <1>7, <2>1
  <2>3. z < g
    BY <1>6, HeapAssumption
  <2>4. Clear(z, g) BY <1>3, <1>5, <1>6, <2>3, <1>2, HeaderTypes DEF Clear
  <2>5. AtMark(list, B)'
    BY <1>3, <1>5, <1>6, <2>1, <2>2, <2>4 DEF AtMark, Anchored, Clear
  <2>6. Place(list, B)' BY <2>1, <2>5 DEF Place
  <2> QED BY <1>4, <1>7, <2>1, <2>6, StepSound
<1> QED BY <1>8, <1>9

(* A statement that turns fields of torn chunks.                           *)
LEMMA TornTurn ==
  ASSUME NEW list, Books(list), NEW z, NEW g, NEW s, NEW x, NEW v, Torn(list, z, g, s, x, v),
         Kernel' = Kernel, NEW y, y = list[z].next, NEW s1, NEW x1, NEW v1,
         DOMAIN chunks' = DOMAIN chunks, chunks'[g] = chunks[g],
         \A d \in DOMAIN list \ {z, y} : chunks'[d] = chunks[d],
         chunks'[z] = [list[z] EXCEPT !.size = s1, !.next = x1],
         y # 0 => chunks'[y] = [list[y] EXCEPT !.prev = v1]
  PROVE  Torn(list, z, g, s1, x1, v1)'
<1>1. Anchored(list, z)' BY DEF Torn, Anchored
<1>2. /\ DOMAIN chunks' = DOMAIN list \cup {g} /\ g \notin DOMAIN list
      /\ \A d \in DOMAIN list \ {z, y} : chunks'[d] = list[d]
      /\ g \in Nat /\ z < g /\ chunks'[g] \in Chunk
      /\ g + ChunkHeader + chunks'[g].size = ChunkEnd(list, z)
      /\ ~list[z].allocated
      /\ chunks'[g].next = y /\ chunks'[g].prev = z /\ ~chunks'[g].allocated
      /\ y \in Kernel' \cup {0} \/ (~list[y].allocated /\ list[y].next \in Kernel' \cup {0})
  BY DEF Torn
<1> QED BY <1>1, <1>2 DEF Torn

(* A header that is given its own fields.                                  *)
LEMMA TurnedToItsOwn ==
  ASSUME NEW a \in Chunk, NEW s, NEW x, s = a.size, x = a.next
  PROVE  [a EXCEPT !.size = s, !.next = x] = a
BY DEF Chunk

(* The chunk behind gets the rest before it,                               *)
LEMMA PreemptedRelink ==
  ASSUME PreemptedInv, Relink, ~exposed
  PROVE  PreemptedInv'
<1>1. /\ held = <<>> /\ main.at = "relink" /\ owned' = owned /\ held' = held
      /\ SetPrevUnlessNull(chunks[Temp].next, Temp)
      /\ main'.at = "shrink" /\ main'.chunk = current /\ main'.size = main.size
  BY DEF Relink, At, Keep, GoTo
<1>2. PICK list, B :
        /\ Books(list) /\ CoalescedAt(list, Excused(B)) /\ Place(list, B)
        /\ main.size \in Nat /\ IsList(list) /\ WellFormed(list)
  BY <1>1, Alone
<1>3. AtRelink(list, B) BY <1>1, <1>2 DEF Place
<1>4. PICK z, g, s, x : /\ z = current /\ g = Temp /\ s = list[current].size
                        /\ x = list[current].next
  OBVIOUS
<1>5. B = 0 /\ Cutting(list) /\ Torn(list, z, g, s, x, z)
  BY <1>3, <1>4 DEF AtRelink
<1>6. /\ x = list[z].next /\ z \in DOMAIN list /\ g \notin DOMAIN list
      /\ x # 0 => x \in DOMAIN list /\ x # z /\ list[x] \in Chunk
  <2>1. TornIs(list, z, g, s, x, z) BY <1>2, <1>5, TornFacts
  <2> QED BY <1>2, <1>4, <1>5, Links, <2>1 DEF TornIs
<1>7. /\ DOMAIN chunks = DOMAIN list \cup {g} /\ chunks[g].next = x
      /\ chunks[z] = [list[z] EXCEPT !.size = s, !.next = x]
      /\ x # 0 => chunks[x] = [list[x] EXCEPT !.prev = z]
  BY <1>5, <1>6 DEF Torn
<1>8. /\ DOMAIN chunks' = DOMAIN chunks
      /\ \A d \in DOMAIN chunks \ ({x} \ {0}) : chunks'[d] = chunks[d]
      /\ x # 0 => chunks'[x] = [list[x] EXCEPT !.prev = g]
  <2>1. CASE x = 0
    BY <1>1, <1>4, <1>7, <2>1 DEF SetPrevUnlessNull
  <2>2. CASE x # 0
    <3>1. chunks' = [chunks EXCEPT ![x].prev = g]
      BY <1>1, <1>4, <1>7, <2>2 DEF SetPrevUnlessNull, SetPrev
    <3>2. x \in DOMAIN chunks BY <1>6, <1>7, <2>2
    <3>3. chunks'[x] = [chunks[x] EXCEPT !.prev = g] BY <3>1, <3>2
    <3>4. chunks'[x] = [list[x] EXCEPT !.prev = g]
      BY <1>6, <1>7, <2>2, <3>3 DEF Chunk
    <3>5. \A d \in DOMAIN chunks \ {x} : chunks'[d] = chunks[d] BY <3>1
    <3>6. DOMAIN chunks' = DOMAIN chunks BY <3>1
    <3> QED BY <2>2, <3>4, <3>5, <3>6
  <2> QED BY <2>1, <2>2
<1>9. Kernel' = Kernel BY <1>1 DEF Kernel
<1>10. Books(list)' BY <1>1, <1>2, <1>9, SameBooks
<1>11. Torn(list, z, g, s, x, g)'
  <2>1. /\ chunks'[g] = chunks[g] /\ chunks'[z] = chunks[z]
        /\ \A d \in DOMAIN list \ {z, x} : chunks'[d] = chunks[d]
    BY <1>6, <1>7, <1>8
  <2> QED BY <1>2, <1>5, <1>6, <1>7, <1>8, <1>9, <2>1, TornTurn
<1>12. current' = z /\ Temp' = g BY <1>1, <1>4 DEF current, Temp
<1>13. Cutting(list)' BY <1>1, <1>4, <1>5, <1>9, <1>12 DEF Cutting
<1>14. AtShrink(list, B)'
  BY <1>4, <1>5, <1>11, <1>12, <1>13 DEF AtShrink
<1>15. Place(list, B)' BY <1>1, <1>14 DEF Place
<1>16. Excused(B)' = Excused(B) BY <1>1 DEF Excused
<1> QED BY <1>1, <1>2, <1>10, <1>15, <1>16, StepSound

(* the chunk its new size,                                                 *)
LEMMA PreemptedShrink ==
  ASSUME PreemptedInv, Shrink, ~exposed
  PROVE  PreemptedInv'
<1>1. /\ held = <<>> /\ main.at = "shrink" /\ owned' = owned /\ held' = held
      /\ SetSize(current, main.size)
      /\ main'.at = "link" /\ main'.chunk = current /\ main'.size = main.size
  BY DEF Shrink, At, Keep, GoTo
<1>2. PICK list, B :
        /\ Books(list) /\ CoalescedAt(list, Excused(B)) /\ Place(list, B)
        /\ main.size \in Nat /\ IsList(list) /\ WellFormed(list)
  BY <1>1, Alone
<1>3. AtShrink(list, B) BY <1>1, <1>2 DEF Place
<1>4. PICK z, g, s, x, m : /\ z = current /\ g = Temp /\ s = list[current].size
                           /\ x = list[current].next /\ m = main.size
  OBVIOUS
<1>5. B = 0 /\ Cutting(list) /\ Torn(list, z, g, s, x, g)
  BY <1>3, <1>4 DEF AtShrink
<1>6. /\ x = list[z].next /\ z \in DOMAIN list /\ g \notin DOMAIN list /\ list[z] \in Chunk
      /\ x # 0 => x \in DOMAIN list /\ x # z
  <2>1. TornIs(list, z, g, s, x, g) BY <1>2, <1>5, TornFacts
  <2> QED BY <1>2, <1>4, <1>5, Links, <2>1 DEF TornIs
<1>7. /\ DOMAIN chunks = DOMAIN list \cup {g}
      /\ chunks[z] = [list[z] EXCEPT !.size = s, !.next = x]
      /\ x # 0 => chunks[x] = [list[x] EXCEPT !.prev = g]
  BY <1>5, <1>6 DEF Torn
<1>8. /\ DOMAIN chunks' = DOMAIN chunks
      /\ \A d \in DOMAIN chunks \ {z} : chunks'[d] = chunks[d]
      /\ chunks'[z] = [list[z] EXCEPT !.size = m, !.next = x]
  <2>1. chunks' = [chunks EXCEPT ![z].size = m] BY <1>1, <1>4 DEF SetSize
  <2>2. chunks'[z] = [chunks[z] EXCEPT !.size = m] BY <1>6, <1>7, <2>1
  <2>3. chunks'[z] = [list[z] EXCEPT !.size = m, !.next = x]
    BY <1>6, <1>7, <2>2 DEF Chunk
  <2> QED BY <2>1, <2>3
<1>9. Kernel' = Kernel BY <1>1 DEF Kernel
<1>10. Books(list)' BY <1>1, <1>2, <1>9, SameBooks
<1>11. Torn(list, z, g, m, x, g)'
  <2>1. /\ chunks'[g] = chunks[g]
        /\ x # 0 => chunks'[x] = [list[x] EXCEPT !.prev = g]
        /\ \A d \in DOMAIN list \ {z, x} : chunks'[d] = chunks[d]
    BY <1>6, <1>7, <1>8
  <2> QED BY <1>2, <1>5, <1>6, <1>8, <1>9, <2>1, TornTurn
<1>12. current' = z /\ Temp' = g /\ main'.size = m BY <1>1, <1>4 DEF current, Temp
<1>13. Cutting(list)' BY <1>1, <1>4, <1>5, <1>9, <1>12 DEF Cutting
<1>14. AtLink(list, B)'
  BY <1>4, <1>5, <1>11, <1>12, <1>13 DEF AtLink
<1>15. Place(list, B)' BY <1>1, <1>14 DEF Place
<1>16. Excused(B)' = Excused(B) BY <1>1 DEF Excused
<1> QED BY <1>1, <1>2, <1>10, <1>15, <1>16, StepSound

(* and the rest behind it: memory is the list that Split makes.            *)
LEMMA PreemptedLink ==
  ASSUME PreemptedInv, Link, ~exposed
  PROVE  PreemptedInv'
<1>1. /\ held = <<>> /\ main.at = "link" /\ owned' = owned /\ held' = held
      /\ SetNext(current, Temp)
      /\ main'.at = "mark" /\ main'.chunk = current /\ main'.size = main.size
  BY DEF Link, At, Keep, GoTo
<1>2. PICK list, B :
        /\ Books(list) /\ CoalescedAt(list, Excused(B)) /\ Place(list, B)
        /\ main.size \in Nat /\ IsList(list) /\ WellFormed(list)
        /\ \A d \in DOMAIN list : list[d].allocated <=> d \in Kernel
        /\ Kernel \subseteq DOMAIN list
  BY <1>1, Alone
<1>3. AtLink(list, B) BY <1>1, <1>2 DEF Place
<1>4. PICK z, g, x, m : z = current /\ g = Temp /\ x = list[current].next /\ m = main.size
  OBVIOUS
<1>5. B = 0 /\ Cutting(list) /\ Torn(list, z, g, m, x, g)
  BY <1>3, <1>4 DEF AtLink
<1>6. /\ x = list[z].next /\ z \in DOMAIN list /\ g \notin DOMAIN list /\ list[z] \in Chunk
      /\ ~list[z].allocated /\ z \in Nat /\ g \in Nat
      /\ list[z].size \in Nat /\ m \in Nat /\ ChunkHeader \in Nat
      /\ g = z + ChunkHeader + m /\ list[z].size > m + ChunkHeader /\ z < g
      /\ x # 0 => x \in DOMAIN list /\ x # z /\ list[x] \in Chunk /\ x \in Kernel
  <2>1. /\ x = list[z].next /\ list[z].size > m + ChunkHeader /\ g = z + ChunkHeader + m
        /\ x \in Kernel \cup {0}
    BY <1>4, <1>5 DEF Cutting, Temp
  <2>2. /\ z \in DOMAIN list /\ g \notin DOMAIN list /\ z < g /\ g \in Nat /\ ~list[z].allocated
        /\ x # 0 => x \in DOMAIN list /\ x # z
    <3>1. TornIs(list, z, g, m, x, g) BY <1>2, <1>5, TornFacts
    <3> QED BY <1>2, <1>5, <2>1, <3>1 DEF TornIs
  <2>3. /\ list[z] \in Chunk /\ z \in Nat /\ list[z].size \in Nat
        /\ x # 0 => list[x] \in Chunk
    BY <1>2, <2>2, HeaderTypes
  <2> QED BY <1>2, <1>4, <2>1, <2>2, <2>3, HeapAssumption
<1>7. /\ DOMAIN chunks = DOMAIN list \cup {g} /\ chunks[g] \in Chunk
      /\ chunks[g].next = x /\ chunks[g].prev = z /\ ~chunks[g].allocated
      /\ g + ChunkHeader + chunks[g].size = ChunkEnd(list, z)
      /\ chunks[z] = [list[z] EXCEPT !.size = m, !.next = x]
      /\ x # 0 => chunks[x] = [list[x] EXCEPT !.prev = g]
      /\ \A d \in DOMAIN list \ {z, x} : chunks[d] = list[d]
      /\ Anchored(list, z)
  BY <1>5, <1>6 DEF Torn
<1> DEFINE next == Split(list, z, m)
<1>8. chunks' = next
  <2>1. chunks' = [chunks EXCEPT ![z].next = g] BY <1>1, <1>4 DEF SetNext
  <2>2. DOMAIN chunks' = DOMAIN list \cup {g} BY <1>7, <2>1
  <2>3. chunks'[z] = [list[z] EXCEPT !.size = m, !.next = g]
    <3>1. chunks'[z] = [chunks[z] EXCEPT !.next = g] BY <1>6, <1>7, <2>1
    <3> QED BY <1>6, <1>7, <3>1 DEF Chunk
  <2>4. chunks'[g] = [next |-> x, prev |-> z, allocated |-> FALSE,
                      size |-> list[z].size - m - ChunkHeader]
    <3>1. chunks'[g] = chunks[g] BY <1>6, <1>7, <2>1
    <3>2. chunks[g].size \in Nat /\ chunks[g].allocated \in BOOLEAN BY <1>7 DEF Chunk
    <3>3. chunks[g].size = list[z].size - m - ChunkHeader
      BY <1>6, <1>7, <3>2 DEF ChunkEnd
    <3>4. chunks[g].allocated = FALSE BY <1>7, <3>2
    <3>5. chunks[g] = [next |-> chunks[g].next, prev |-> chunks[g].prev,
                       allocated |-> chunks[g].allocated, size |-> chunks[g].size]
      BY <1>7 DEF Chunk
    <3> QED BY <1>7, <3>1, <3>3, <3>4, <3>5
  <2>5. \A d \in DOMAIN list \ {z} :
          chunks'[d] = IF d = x THEN [list[d] EXCEPT !.prev = g] ELSE list[d]
    <3>1. \A d \in DOMAIN list \ {z} : chunks'[d] = chunks[d] BY <1>7, <2>1
    <3>2. x # 0 \/ x \notin DOMAIN list BY <1>2, Links
    <3> QED BY <1>7, <3>1, <3>2
  <2>6. chunks' = [a \in DOMAIN list \cup {g} |-> chunks'[a]]
    BY <2>1, <2>2
  <2>7. next = [a \in DOMAIN list \cup {g} |->
                  IF a = z THEN [list[z] EXCEPT !.size = m, !.next = g]
                  ELSE IF a = g
                    THEN [next |-> x, prev |-> z, allocated |-> FALSE,
                          size |-> list[z].size - m - ChunkHeader]
                  ELSE IF a = x THEN [list[a] EXCEPT !.prev = g]
                  ELSE list[a]]
    BY <1>6 DEF Split
  <2>8. \A a \in DOMAIN list \cup {g} :
          chunks'[a] = IF a = z THEN [list[z] EXCEPT !.size = m, !.next = g]
                       ELSE IF a = g
                         THEN [next |-> x, prev |-> z, allocated |-> FALSE,
                               size |-> list[z].size - m - ChunkHeader]
                       ELSE IF a = x THEN [list[a] EXCEPT !.prev = g]
                       ELSE list[a]
    BY <1>6, <2>3, <2>4, <2>5
  <2> HIDE DEF next
  <2> QED BY <2>6, <2>7, <2>8
<1>9. CutAt(next, list, z, m, g) /\ IsList(next) /\ WellFormed(next)
  <2>1. list[z].size >= m + ChunkHeader + 1 BY <1>6
  <2> QED BY <1>2, <1>6, <2>1, SplitFields, SplitWellFormed
<1> HIDE DEF next
<1>10. CoalescedAt(list, {0}) BY <1>1, <1>2, <1>5 DEF Excused
<1>11. CoalescedAt(next, {g})
  <2> SUFFICES ASSUME NEW d \in DOMAIN next, ~next[d].allocated, next[d].next # 0,
                      next[d].next # g
               PROVE  next[next[d].next].allocated
    BY DEF CoalescedAt
  <2>1. CASE d = g
    <3>1. next[d].next = x /\ x # z BY <1>6, <1>9, <2>1 DEF CutAt
    <3> QED BY <1>2, <1>6, <1>9, <3>1 DEF CutAt
  <2>2. CASE d # g
    <3>1. d # z /\ d \in DOMAIN list /\ next[d].next = list[d].next /\ ~list[d].allocated
      BY <1>9, <2>2 DEF CutAt
    <3>2. list[d].next \in DOMAIN list BY <1>2, <3>1, Links
    <3>3. list[list[d].next].allocated BY <1>10, <3>1, <3>2 DEF CoalescedAt
    <3>4. list[d].next # z BY <1>6, <3>3
    <3> QED BY <1>9, <3>1, <3>2, <3>3, <3>4 DEF CutAt
  <2> QED BY <2>1, <2>2
<1>12. Kernel' = Kernel BY <1>1 DEF Kernel
<1>13. current' = z /\ Temp' = g BY <1>1, <1>4 DEF current, Temp
<1>14. Books(next)'
  <2>1. \A d \in DOMAIN next : next[d].allocated <=> d \in Kernel'
    <3> SUFFICES ASSUME NEW d \in DOMAIN next PROVE next[d].allocated <=> d \in Kernel'
      OBVIOUS
    <3>1. CASE d = g
      <4>1. ~next[g].allocated BY <1>9 DEF CutAt
      <4>2. g \notin Kernel BY <1>2, <1>6
      <4> QED BY <1>12, <3>1, <4>1, <4>2
    <3>2. CASE d # g
      <4>1. d \in DOMAIN list /\ next[d].allocated = list[d].allocated
        BY <1>9, <3>2 DEF CutAt
      <4> QED BY <1>2, <1>12, <4>1
    <3> QED BY <3>1, <3>2
  <2>2. Kernel' \subseteq DOMAIN next BY <1>2, <1>9, <1>12 DEF CutAt
  <2>3. ASSUME NEW p \in DOMAIN owned'
        PROVE  p \in Nat /\ owned'[p] \in Nat /\ owned'[p] <= next[p - ChunkHeader].size
    <3>1. p - ChunkHeader \in Kernel BY <1>1 DEF Kernel
    <3>2. p - ChunkHeader \in DOMAIN list \ {z} BY <1>2, <1>6, <3>1
    <3>3. next[p - ChunkHeader].size = list[p - ChunkHeader].size BY <1>9, <3>2 DEF CutAt
    <3> QED BY <1>1, <1>2, <3>3 DEF Books
  <2> QED BY <1>1, <1>9, <2>1, <2>2, <2>3, NewBooks
<1>15. Anchored(next, z)'
  <2>1. z \in DOMAIN next /\ next[z].prev = list[z].prev BY <1>6, <1>9 DEF CutAt
  <2> QED BY <1>7, <1>12, <2>1 DEF Anchored
<1>16. /\ \A k \in Kernel : ~(z < k /\ k < g)
       /\ g <= HeapEnd
  <2>1. /\ ChunkEnd(list, z) \in Nat /\ g < ChunkEnd(list, z) /\ ChunkEnd(list, z) <= HeapEnd
        /\ HeapEnd \in Nat
    BY <1>2, <1>6, Links, HeapAssumption DEF ChunkEnd, HeapEnd
  <2>2. ASSUME NEW k \in Kernel, z < k, k < g PROVE FALSE
    <3>1. k \in DOMAIN list /\ k \in Nat BY <1>2, HeaderTypes
    <3>2. ChunkEnd(list, z) <= k BY <1>2, <1>6, <2>2, <3>1 DEF WellFormed
    <3> QED BY <1>6, <2>1, <2>2, <3>1, <3>2
  <2> QED BY <1>6, <2>1, <2>2
<1>17. Clear(z, g)' BY <1>6, <1>12, <1>16 DEF Clear
<1>18. AtMark(next, g)'
  BY <1>8, <1>13, <1>15, <1>16, <1>17 DEF AtMark
<1>19. Place(next, g)' BY <1>1, <1>18 DEF Place
<1>20. Excused(g)' = {g} BY <1>1 DEF Excused
<1> QED BY <1>1, <1>2, <1>11, <1>14, <1>19, <1>20, StepSound

(* Without the handler's chunks, the address where free chunks may be      *)
(* neighbours is right behind kernelMain's chunk.                          *)
LEMMA ExcusedBehind ==
  ASSUME NEW list, IsList(list), WellFormed(list),
         \A d \in DOMAIN list : list[d].allocated <=> d \in Kernel,
         NEW c \in DOMAIN list, ~list[c].allocated,
         NEW B \in DOMAIN list, Clear(c, B), CoalescedAt(list, {B, c})
  PROVE  B = list[c].next
<1> DEFINE y == list[c].next
<1>1. /\ c \in Nat /\ B \in Nat /\ B # 0 /\ ChunkEnd(list, c) \in Nat /\ ChunkEnd(list, B) \in Nat
      /\ B < ChunkEnd(list, B) /\ ChunkEnd(list, B) <= HeapEnd /\ HeapEnd \in Nat
      /\ c < ChunkEnd(list, c)
  BY Links, HeapAssumption DEF HeapEnd
<1>2. c < B /\ \A k \in Kernel : ~(c < k /\ k < B) BY <1>1 DEF Clear
<1>3. ChunkEnd(list, c) <= B BY <1>1, <1>2 DEF WellFormed
<1>4. y # 0 /\ y = ChunkEnd(list, c) /\ y \in DOMAIN list
  BY <1>1, <1>3, Links
<1>5. SUFFICES ASSUME y # B PROVE FALSE
  OBVIOUS
<1>6. list[y].allocated BY <1>1, <1>4, <1>5 DEF CoalescedAt
<1> QED BY <1>1, <1>2, <1>3, <1>4, <1>5, <1>6

(* malloc's chunk is handed out.                                           *)
LEMMA PreemptedMarkAllocated ==
  ASSUME PreemptedInv, MarkAllocated, ~exposed
  PROVE  PreemptedInv'
<1>1. /\ held = <<>> /\ main.at = "mark" /\ held' = held /\ main' = Idle
      /\ chunks' = Mark(chunks, current, TRUE)
      /\ owned' = [q \in DOMAIN owned \cup {current + ChunkHeader} |->
                     IF q = current + ChunkHeader THEN main.size ELSE owned[q]]
  BY DEF MarkAllocated, At
<1>2. PICK list, B :
        /\ Books(list) /\ CoalescedAt(list, Excused(B)) /\ Place(list, B)
        /\ main.size \in Nat /\ IsList(list) /\ WellFormed(list)
        /\ \A d \in DOMAIN list : list[d].allocated <=> d \in Kernel
        /\ Kernel \subseteq DOMAIN list
  BY <1>1, Alone
<1>3. AtMark(list, B) BY <1>1, <1>2 DEF Place
<1>4. PICK z, g, m : z = current /\ g = Temp /\ m = main.size OBVIOUS
<1>5. /\ chunks = list /\ B \in {0, g} /\ Anchored(list, z)
      /\ Clear(z, g) /\ g <= HeapEnd
  BY <1>3, <1>4 DEF AtMark
<1>6. /\ z \in DOMAIN list /\ z \notin Kernel /\ ~list[z].allocated
      /\ z \in Nat /\ z # 0 /\ ChunkHeader \in Nat \ {0} /\ list[z].size \in Nat /\ m \in Nat
      /\ ChunkEnd(list, z) \in Nat /\ ChunkEnd(list, z) <= HeapEnd /\ HeapEnd \in Nat
      /\ g = z + ChunkHeader + m /\ g \in Nat /\ z < g
  <2>1. z \in DOMAIN list /\ z \notin Kernel BY <1>5 DEF Anchored
  <2>2. g = z + ChunkHeader + m BY <1>4 DEF Temp
  <2>3. /\ z \in Nat /\ z # 0 /\ list[z].size \in Nat
        /\ ChunkEnd(list, z) \in Nat /\ ChunkEnd(list, z) <= HeapEnd
    BY <1>2, <2>1, Links
  <2> QED BY <1>2, <1>4, <2>1, <2>2, <2>3, HeapAssumption DEF HeapEnd
<1>7. CoalescedAt(list, {B}) BY <1>1, <1>2 DEF Excused
<1>8. m <= list[z].size
  <2> SUFFICES ASSUME list[z].size < m PROVE FALSE
    BY <1>6
  <2>1. ChunkEnd(list, z) < g BY <1>6 DEF ChunkEnd
  <2>2. PICK n : n = list[z].next OBVIOUS
  <2>3. n = ChunkEnd(list, z) /\ n \in DOMAIN list /\ n # 0 /\ z < n
    BY <1>2, <1>5, <1>6, <2>1, <2>2, Links
  <2>4. n \notin Kernel BY <1>5, <1>6, <2>1, <2>3 DEF Clear
  <2>5. n # B BY <1>5, <1>6, <2>1, <2>3
  <2>6. list[n].allocated BY <1>6, <1>7, <2>2, <2>3, <2>5 DEF CoalescedAt
  <2> QED BY <1>2, <2>3, <2>4, <2>6
<1> DEFINE next == Mark(list, z, TRUE)
<1>9. MarkedAs(next, list, z, TRUE) /\ IsList(next) /\ WellFormed(next)
  BY <1>2, <1>6, MarkFacts
<1>10. chunks' = next BY <1>1, <1>4, <1>5
<1> HIDE DEF next
<1>11. /\ DOMAIN next = DOMAIN list /\ next[z].allocated
       /\ \A d \in DOMAIN list :
            /\ next[d].next = list[d].next /\ next[d].size = list[d].size
            /\ d # z => next[d].allocated = list[d].allocated
  BY <1>6, <1>9, Zenon DEF MarkedAs
<1>12. CoalescedAt(next, {0})
  <2> SUFFICES ASSUME NEW d \in DOMAIN next, ~next[d].allocated, next[d].next # 0
               PROVE  next[next[d].next].allocated
    BY DEF CoalescedAt
  <2>1. d # z /\ d \in DOMAIN list /\ ~list[d].allocated /\ next[d].next = list[d].next
    BY <1>11
  <2>2. list[d].next \in DOMAIN list /\ list[list[d].next].prev = d
    BY <1>2, <2>1, Links
  <2>3. list[d].next # B
    <3> SUFFICES ASSUME list[d].next = B PROVE FALSE
      OBVIOUS
    <3>1. B \in DOMAIN list /\ B = g BY <1>5, <2>1, <2>2
    <3>2. CoalescedAt(list, {B, z}) BY <1>7 DEF CoalescedAt
    <3>3. B = list[z].next BY <1>2, <1>5, <1>6, <3>1, <3>2, ExcusedBehind
    <3>4. list[B].prev = z BY <1>2, <1>6, <3>1, <3>3, Links
    <3> QED BY <2>1, <2>2, <3>4
  <2>4. list[list[d].next].allocated BY <1>7, <2>1, <2>3 DEF CoalescedAt
  <2> QED BY <1>11, <2>1, <2>2, <2>4
<1>13. Kernel' = Kernel \cup {z}
  <2>1. Kernel = {p - ChunkHeader : p \in DOMAIN owned} BY <1>1 DEF Kernel
  <2>2. Kernel' = {p - ChunkHeader : p \in DOMAIN owned'} BY <1>1 DEF Kernel, Idle
  <2>3. DOMAIN owned' = DOMAIN owned \cup {z + ChunkHeader} BY <1>1, <1>4
  <2>4. z + ChunkHeader - ChunkHeader = z BY <1>6
  <2>5. ASSUME NEW k \in Kernel' PROVE k \in Kernel \cup {z}
    <3>1. PICK p \in DOMAIN owned' : k = p - ChunkHeader BY <2>2, <2>5
    <3>2. CASE p = z + ChunkHeader
      <4>1. k = z BY <1>6, <3>1, <3>2
      <4> QED BY <4>1
    <3>3. CASE p # z + ChunkHeader
      <4>1. p \in DOMAIN owned BY <2>3, <3>3
      <4> QED BY <2>1, <3>1, <4>1
    <3> QED BY <3>2, <3>3
  <2>6. ASSUME NEW k \in Kernel PROVE k \in Kernel'
    <3>1. PICK p \in DOMAIN owned : k = p - ChunkHeader BY <2>1, <2>6
    <3>2. p \in DOMAIN owned' /\ p \in Nat BY <1>2, <2>3 DEF Books
    <3>3. p - ChunkHeader \in Kernel' BY <1>6, <2>2, <3>2
    <3> QED BY <3>1, <3>3
  <2>7. z \in Kernel'
    <3>1. PICK p : p = z + ChunkHeader OBVIOUS
    <3>2. p \in DOMAIN owned' /\ p - ChunkHeader = z BY <1>6, <2>3, <3>1
    <3> QED BY <2>2, <3>2
  <2> QED BY <2>5, <2>6, <2>7
<1>14. Books(next)'
  <2>1. \A d \in DOMAIN next : next[d].allocated <=> d \in Kernel'
    <3> SUFFICES ASSUME NEW d \in DOMAIN next PROVE next[d].allocated <=> d \in Kernel'
      OBVIOUS
    <3>1. CASE d = z
      BY <1>11, <1>13, <3>1
    <3>2. CASE d # z
      BY <1>2, <1>11, <1>13, <3>2
    <3> QED BY <3>1, <3>2
  <2>2. Kernel' \subseteq DOMAIN next BY <1>2, <1>6, <1>11, <1>13
  <2>3. ASSUME NEW p \in DOMAIN owned'
        PROVE  p \in Nat /\ owned'[p] \in Nat /\ owned'[p] <= next[p - ChunkHeader].size
    <3>1. CASE p = z + ChunkHeader
      <4>1. p \in Nat /\ owned'[p] = m /\ p - ChunkHeader = z BY <1>1, <1>4, <1>6, <3>1
      <4> QED BY <1>6, <1>8, <1>11, <4>1
    <3>2. CASE p # z + ChunkHeader
      <4>1. p \in DOMAIN owned /\ owned'[p] = owned[p] BY <1>1, <1>4, <3>2
      <4>2. p - ChunkHeader \in DOMAIN list BY <1>2, <4>1 DEF Kernel
      <4> QED BY <1>2, <1>11, <4>1, <4>2 DEF Books
    <3> QED BY <3>1, <3>2
  <2> QED BY <1>1, <1>9, <2>1, <2>2, <2>3, NewBooks
<1>15. Place(next, 0)' BY <1>1, <1>10 DEF Place, Idle
<1>16. Excused(0)' = {0} /\ main'.size \in Nat BY <1>1 DEF Excused, Idle
<1> QED BY <1>12, <1>14, <1>15, <1>16, StepSound

(* free takes the pointer.                                                 *)
LEMMA PreemptedCallFree ==
  ASSUME PreemptedInv, NEW p \in DOMAIN owned, CallFree(p)
  PROVE  PreemptedInv'
<1>1. /\ ~exposed /\ held = <<>> /\ main.at = "idle" /\ held' = held /\ chunks' = chunks
      /\ main' = [at |-> "unmark", chunk |-> p - ChunkHeader, size |-> 0]
      /\ owned' = [q \in DOMAIN owned \ {p} |-> owned[q]]
  BY DEF CallFree
<1>2. PICK list, B :
        /\ Books(list) /\ CoalescedAt(list, Excused(B)) /\ Place(list, B)
        /\ IsList(list) /\ WellFormed(list)
        /\ \A d \in DOMAIN list : list[d].allocated <=> d \in Kernel
        /\ Kernel \subseteq DOMAIN list
  BY <1>1, Alone
<1>3. chunks = list /\ B = 0 BY <1>1, <1>2 DEF Place
<1>4. main'.at = "unmark" /\ current' = p - ChunkHeader /\ main'.size = 0
  BY <1>1 DEF current
<1>5. DOMAIN owned' = DOMAIN owned \ {p} /\ \A q \in DOMAIN owned' : owned'[q] = owned[q]
  BY <1>1
<1>6. Kernel' = Kernel
  <2>1. Kernel = {q - ChunkHeader : q \in DOMAIN owned} BY <1>1 DEF Kernel
  <2>2. Kernel' = {q - ChunkHeader : q \in DOMAIN owned'} \cup {p - ChunkHeader}
    BY <1>4 DEF Kernel
  <2> QED BY <1>5, <2>1, <2>2
<1>7. Books(list)'
  <2>1. ASSUME NEW q \in DOMAIN owned'
        PROVE  q \in Nat /\ owned'[q] \in Nat /\ owned'[q] <= list[q - ChunkHeader].size
    BY <1>2, <1>5 DEF Books
  <2> QED BY <1>1, <1>2, <1>6, <2>1, NewBooks
<1>8. AtUnmark(list, B)'
  <2>1. p \in Nat BY <1>2 DEF Books
  <2>2. p - ChunkHeader + ChunkHeader = p BY <2>1, HeapAssumption
  <2> QED BY <1>1, <1>3, <1>4, <1>5, <2>2 DEF AtUnmark
<1>9. Place(list, B)' BY <1>4, <1>8 DEF Place
<1>10. Excused(B)' = Excused(B) BY <1>1, <1>4 DEF Excused
<1> QED BY <1>2, <1>4, <1>7, <1>9, <1>10, StepSound

(* The chunk is free, and not merged yet.                                  *)
LEMMA PreemptedUnmark ==
  ASSUME PreemptedInv, Unmark, ~exposed
  PROVE  PreemptedInv'
<1>1. /\ held = <<>> /\ main.at = "unmark" /\ held' = held /\ owned' = owned
      /\ chunks' = Mark(chunks, current, FALSE)
      /\ main'.at = "testPrev" /\ main'.chunk = current /\ main'.size = main.size
  BY DEF Unmark, At, GoTo, Keep
<1>2. PICK list, B :
        /\ Books(list) /\ CoalescedAt(list, Excused(B)) /\ Place(list, B)
        /\ main.size \in Nat /\ IsList(list) /\ WellFormed(list)
        /\ \A d \in DOMAIN list : list[d].allocated <=> d \in Kernel
        /\ Kernel \subseteq DOMAIN list
  BY <1>1, Alone
<1>3. chunks = list /\ B = 0 /\ current + ChunkHeader \notin DOMAIN owned
  BY <1>1, <1>2 DEF Place, AtUnmark
<1>4. PICK z : z = current OBVIOUS
<1>5. /\ z \in Kernel /\ z \in DOMAIN list /\ z \in Nat
      /\ ChunkEnd(list, z) \in Nat /\ z < ChunkEnd(list, z)
  BY <1>1, <1>2, <1>4, HeaderTypes DEF Kernel
<1>6. CoalescedAt(list, {0}) BY <1>1, <1>2, <1>3 DEF Excused
<1> DEFINE next == Mark(list, z, FALSE)
           y == list[z].next
<1>7. MarkedAs(next, list, z, FALSE) /\ IsList(next) /\ WellFormed(next)
  BY <1>2, <1>5, MarkFacts
<1>8. chunks' = next BY <1>1, <1>3, <1>4
<1> HIDE DEF next
<1>9. /\ DOMAIN next = DOMAIN list /\ ~next[z].allocated
      /\ \A d \in DOMAIN list :
            /\ next[d].next = list[d].next /\ next[d].size = list[d].size
            /\ d # z => next[d].allocated = list[d].allocated
  BY <1>5, <1>7, Zenon DEF MarkedAs
<1>10. CoalescedAt(next, {y, z})
  <2> SUFFICES ASSUME NEW d \in DOMAIN next, ~next[d].allocated, next[d].next # 0,
                      next[d].next # y, next[d].next # z
               PROVE  next[next[d].next].allocated
    BY DEF CoalescedAt
  <2>1. d # z /\ d \in DOMAIN list /\ ~list[d].allocated /\ next[d].next = list[d].next
    BY <1>9
  <2>2. list[d].next \in DOMAIN list BY <1>2, <2>1, Links
  <2>3. list[list[d].next].allocated BY <1>6, <2>1 DEF CoalescedAt
  <2> QED BY <1>9, <2>1, <2>2, <2>3
<1>11. Kernel' = Kernel \ {z}
  <2> DEFINE K == {p - ChunkHeader : p \in DOMAIN owned}
  <2>1. Kernel = K \cup {z} BY <1>1, <1>4 DEF Kernel
  <2>2. Kernel' = K BY <1>1 DEF Kernel
  <2>3. z \notin K
    <3> SUFFICES ASSUME NEW p \in DOMAIN owned, p - ChunkHeader = z PROVE FALSE
      OBVIOUS
    <3>1. p \in Nat BY <1>2 DEF Books
    <3>2. p = z + ChunkHeader BY <1>5, <3>1, HeapAssumption
    <3> QED BY <1>3, <1>4, <3>2
  <2> QED BY <2>1, <2>2, <2>3
<1>12. Books(next)'
  <2>1. \A d \in DOMAIN next : next[d].allocated <=> d \in Kernel'
    <3> SUFFICES ASSUME NEW d \in DOMAIN next PROVE next[d].allocated <=> d \in Kernel'
      OBVIOUS
    <3>1. CASE d = z
      BY <1>9, <1>11, <3>1
    <3>2. CASE d # z
      BY <1>2, <1>9, <1>11, <3>2
    <3> QED BY <3>1, <3>2
  <2>2. Kernel' \subseteq DOMAIN next BY <1>2, <1>9, <1>11
  <2>3. ASSUME NEW p \in DOMAIN owned'
        PROVE  p \in Nat /\ owned'[p] \in Nat /\ owned'[p] <= next[p - ChunkHeader].size
    <3>1. p \in DOMAIN owned /\ owned'[p] = owned[p] BY <1>1
    <3>2. p - ChunkHeader \in DOMAIN list BY <1>2, <3>1 DEF Kernel
    <3> QED BY <1>2, <1>9, <3>1, <3>2 DEF Books
  <2> QED BY <1>1, <1>7, <2>1, <2>2, <2>3, NewBooks
<1>13. current' = z BY <1>1, <1>4 DEF current
<1>14. Clear(z, y)'
  <2>1. y = 0 \/ (y = ChunkEnd(list, z) /\ y \in Nat /\ z < y)
    BY <1>2, <1>5, Links
  <2>2. ASSUME y # 0, NEW k \in Kernel', z < k, k < y PROVE FALSE
    <3>1. k \in DOMAIN list /\ k \in Nat BY <1>2, <1>11, <2>2, HeaderTypes
    <3>2. ChunkEnd(list, z) <= k BY <1>2, <1>5, <2>2, <3>1 DEF WellFormed
    <3> QED BY <1>5, <2>1, <2>2, <3>1, <3>2
  <2> QED BY <2>1, <2>2 DEF Clear
<1>15. AtTestPrev(next, y)'
  <2>1. Handed' = {} BY <1>1 DEF Handed
  <2> QED BY <1>5, <1>8, <1>9, <1>13, <1>14, <2>1 DEF AtTestPrev
<1>16. Place(next, y)' BY <1>1, <1>15 DEF Place
<1>17. Excused(y)' = {y, z} BY <1>1, <1>13 DEF Excused
<1> QED BY <1>1, <1>2, <1>10, <1>12, <1>16, <1>17, StepSound

(* The chunk before it is allocated, or free and to be merged.             *)
LEMMA PreemptedTestPrev ==
  ASSUME PreemptedInv, TestPrev, ~exposed
  PROVE  PreemptedInv'
<1>1. /\ held = <<>> /\ main.at = "testPrev" /\ held' = held /\ owned' = owned
      /\ chunks' = chunks /\ main'.chunk = current /\ main'.size = main.size
      /\ main'.at = IF FreeNeighbour(chunks, chunks[current].prev) THEN "prevNext" ELSE "testNext"
  BY DEF TestPrev, At, GoTo, Keep
<1>2. PICK list, B :
        /\ Books(list) /\ CoalescedAt(list, Excused(B)) /\ Place(list, B)
        /\ main.size \in Nat /\ IsList(list) /\ WellFormed(list)
        /\ \A d \in DOMAIN list : list[d].allocated <=> d \in Kernel
        /\ Kernel \subseteq DOMAIN list
  BY <1>1, Alone
<1>3. AtTestPrev(list, B) BY <1>1, <1>2 DEF Place
<1>4. PICK z, p : z = current /\ p = list[z].prev OBVIOUS
<1>5. chunks = list /\ z \in DOMAIN list /\ ~list[z].allocated /\ Clear(z, B)
  BY <1>3, <1>4 DEF AtTestPrev
<1>6. /\ z # 0 /\ IF z = HeapStart THEN p = 0 ELSE p \in DOMAIN list /\ list[p].next = z
      /\ 0 \notin DOMAIN list
  BY <1>2, <1>4, <1>5, Links
<1>7. CoalescedAt(list, {B, z})
  <2>1. Excused(B) = {B, z} BY <1>1, <1>4 DEF Excused
  <2> QED BY <1>2, <2>1
<1>8. Kernel' = Kernel /\ current' = z BY <1>1, <1>4 DEF Kernel, current
<1>9. Books(list)' BY <1>1, <1>2, <1>8, SameBooks
<1>10. CASE FreeNeighbour(list, p)
  <2>1. main'.at = "prevNext" BY <1>1, <1>4, <1>5, <1>10
  <2>2. p # 0 /\ ~list[p].allocated BY <1>10 DEF FreeNeighbour
  <2>3. Clear(z, B)' BY <1>5, <1>8 DEF Clear
  <2>4. AtPrevNext(list, B)'
    BY <1>1, <1>4, <1>5, <1>8, <2>2, <2>3 DEF AtPrevNext
  <2>5. Place(list, B)' BY <2>1, <2>4 DEF Place
  <2>6. Excused(B)' = {B, z} BY <1>8, <2>1 DEF Excused
  <2> QED BY <1>1, <1>2, <1>7, <1>9, <2>5, <2>6, StepSound
<1>11. CASE ~FreeNeighbour(list, p)
  <2>1. main'.at = "testNext" BY <1>1, <1>4, <1>5, <1>11
  <2>2. p = 0 \/ list[p].allocated BY <1>11 DEF FreeNeighbour
  <2>3. Clear(z, B)' BY <1>5, <1>8 DEF Clear
  <2>4. Anchored(list, z)' BY <1>2, <1>4, <1>5, <1>6, <1>8, <2>2 DEF Anchored
  <2>5. AtTestNext(list, B)' BY <1>1, <1>5, <1>8, <2>3, <2>4 DEF AtTestNext
  <2>6. Place(list, B)' BY <2>1, <2>5 DEF Place
  <2>7. Excused(B)' = {B} BY <2>1 DEF Excused
  <2>8. CoalescedAt(list, {B})
    <3> SUFFICES ASSUME NEW d \in DOMAIN list, ~list[d].allocated,
                        list[d].next # 0, list[d].next # B
                 PROVE  list[list[d].next].allocated
      BY DEF CoalescedAt
    <3>1. CASE list[d].next = z
      <4>1. d = p BY <1>2, <1>4, <3>1, <1>6, Links
      <4> QED BY <1>6, <2>2, <4>1
    <3>2. CASE list[d].next # z
      BY <1>7, <3>2 DEF CoalescedAt
    <3> QED BY <3>1, <3>2
  <2> QED BY <1>1, <1>2, <1>9, <2>6, <2>7, <2>8, StepSound
<1> QED BY <1>10, <1>11

(* z and the chunk g behind it can become one: both are free, and no       *)
(* other free one is next to them but one behind that is followed by a     *)
(* chunk of kernelMain.                                                    *)
Mergeable(list, z, g, y, E) ==
  /\ \A d \in DOMAIN list : list[d].allocated <=> d \in Kernel
  /\ z \in DOMAIN list /\ ~list[z].allocated /\ (z = HeapStart \/ list[z].prev \in Kernel)
  /\ g = list[z].next /\ g # 0 /\ ~list[g].allocated
  /\ CoalescedAt(list, E \cup {g})
  /\ y = list[g].next
  /\ y \in Kernel \cup {0} \/ (~list[y].allocated /\ list[y].next \in Kernel \cup {0})

(* A step that only changes the size and the next of z.                    *)
Turns(list, z, s, x) ==
  /\ DOMAIN chunks' = DOMAIN chunks
  /\ chunks'[z] = [list[z] EXCEPT !.size = s, !.next = x]
  /\ \A d \in DOMAIN chunks \ {z} : chunks'[d] = chunks[d]

(* kernelMain begins to merge chunk g into chunk z before it.              *)
LEMMA MergeBegins ==
  ASSUME NEW list, Books(list), chunks = list,
         NEW z, NEW g, NEW y, NEW E, Mergeable(list, z, g, y, E),
         NEW s, NEW x, Turns(list, z, s, x),
         owned' = owned, held = <<>>, held' = held, Kernel' = Kernel,
         NEW next, next = Absorb(list, z)
  PROVE  /\ Books(next)' /\ CoalescedAt(next, E) /\ Torn(next, z, g, s, x, g)'
         /\ next[z].next = y
<1> USE DEF Mergeable, Turns
<1>1. /\ IsList(list) /\ WellFormed(list) /\ Kernel \subseteq DOMAIN list
  BY DEF Books
<1>2. JoinedAt(next, list, z) /\ IsList(next) /\ WellFormed(next) /\ CoalescedAt(next, E)
  BY <1>1, AbsorbFacts
<1>3. /\ g \in DOMAIN list /\ list[g].prev = z /\ g = ChunkEnd(list, z)
      /\ z # g /\ list[z] \in Chunk /\ list[g] \in Chunk /\ z \in Nat /\ g \in Nat /\ z < g
      /\ list[z].size \in Nat /\ list[g].size \in Nat /\ 0 \notin DOMAIN list
      /\ ChunkHeader \in Nat
  <2>1. g \in DOMAIN list /\ list[g].prev = z /\ g = ChunkEnd(list, z) /\ z < ChunkEnd(list, z)
    BY <1>1, Links
  <2> QED BY <1>1, <2>1, Links, HeapAssumption
<1>4. /\ y # z /\ y # g
      /\ y # 0 => y \in DOMAIN list /\ list[y].prev = g /\ list[y] \in Chunk
  <2>1. y # 0 => y \in DOMAIN list /\ list[y].prev = g BY <1>1, <1>3, Links
  <2>2. y # z BY <1>2 DEF JoinedAt
  <2>3. y # g
    <3>1. y = 0 \/ y = ChunkEnd(list, g) BY <1>1, <1>3, Links
    <3> QED BY <1>1, <1>3, <3>1, Links
  <2> QED BY <1>1, <2>1, <2>2, <2>3, HeaderTypes
<1>5. /\ DOMAIN next = DOMAIN list \ {g}
      /\ next[z].next = y /\ next[z].prev = list[z].prev /\ ~next[z].allocated
      /\ next[z].size = list[z].size + list[g].size + ChunkHeader
      /\ \A d \in DOMAIN list \ {z, g} :
           /\ next[d].size = list[d].size /\ next[d].next = list[d].next
           /\ next[d].allocated = list[d].allocated
      /\ next[z] \in Chunk
  BY <1>2, <1>3, Zenon DEF JoinedAt, IsList
<1>6. /\ \A d \in DOMAIN list \ {z, g, y} : next[d] = list[d]
      /\ y # 0 => next[y] = [list[y] EXCEPT !.prev = z]
  BY <1>3, <1>4 DEF Absorb
<1>7. Books(next)'
  <2>1. \A d \in DOMAIN next : next[d].allocated <=> d \in Kernel'
    <3> SUFFICES ASSUME NEW d \in DOMAIN next PROVE next[d].allocated <=> d \in Kernel
      OBVIOUS
    <3>1. CASE d = z
      BY <1>5, <3>1
    <3>2. CASE d # z
      <4>1. d \in DOMAIN list \ {z, g} /\ next[d].allocated = list[d].allocated
        BY <1>5, <3>2
      <4> QED BY <4>1
    <3> QED BY <3>1, <3>2
  <2>2. Kernel' \subseteq DOMAIN next BY <1>1, <1>5, <1>3
  <2>3. ASSUME NEW p \in DOMAIN owned'
        PROVE  p \in Nat /\ owned'[p] \in Nat /\ owned'[p] <= next[p - ChunkHeader].size
    <3>1. /\ p \in Nat /\ owned[p] \in Nat /\ owned[p] <= list[p - ChunkHeader].size
          /\ p - ChunkHeader \in Kernel
      BY DEF Books, Kernel
    <3>2. p - ChunkHeader \in DOMAIN list \ {z, g} BY <1>1, <3>1
    <3> QED BY <1>5, <3>1, <3>2
  <2> QED BY <1>2, <2>1, <2>2, <2>3, NewBooks
<1>8. Torn(next, z, g, s, x, g)'
  <2>1. Anchored(next, z)'
    <3>1. z \in DOMAIN next /\ z \notin Kernel /\ (z = HeapStart \/ next[z].prev \in Kernel)
      BY <1>3, <1>5
    <3> QED BY <3>1 DEF Anchored
  <2>2. chunks'[g] = list[g] BY <1>3
  <2>3. g + ChunkHeader + chunks'[g].size = ChunkEnd(next, z)
    BY <1>3, <1>5, <2>2 DEF ChunkEnd
  <2>4. DOMAIN chunks' = DOMAIN next \cup {g} /\ g \notin DOMAIN next
    BY <1>3, <1>5
  <2>5. chunks'[z] = [next[z] EXCEPT !.size = s, !.next = x]
    <3>1. PICK a, b : a = list[z] /\ b = next[z] OBVIOUS
    <3>2. a \in Chunk /\ b \in Chunk /\ a.prev = b.prev BY <1>3, <1>5, <3>1
    <3>3. b.allocated = a.allocated BY <1>2, <3>1, Zenon DEF JoinedAt
    <3>4. [a EXCEPT !.size = s, !.next = x] = [b EXCEPT !.size = s, !.next = x]
      BY <3>2, <3>3, Zenon DEF Chunk
    <3>5. chunks'[z] = [a EXCEPT !.size = s, !.next = x] BY <3>1
    <3> QED BY <3>1, <3>4, <3>5
  <2>6. y # 0 => chunks'[y] = [next[y] EXCEPT !.prev = g]
    <3> SUFFICES ASSUME y # 0 PROVE chunks'[y] = [next[y] EXCEPT !.prev = g]
      OBVIOUS
    <3>1. chunks'[y] = list[y] BY <1>4
    <3>2. PICK a, b : a = list[y] /\ b = next[y] OBVIOUS
    <3>3. a \in Chunk /\ g = a.prev BY <1>4, <3>2
    <3>4. b = [a EXCEPT !.prev = z] BY <1>6, <3>2
    <3>5. [b EXCEPT !.prev = g] = a BY <3>3, <3>4, Zenon DEF Chunk
    <3> QED BY <3>1, <3>2, <3>5
  <2>7. \A d \in DOMAIN next \ {z, y} : chunks'[d] = next[d]
    BY <1>5, <1>6
  <2>8. y \in Kernel \cup {0} \/ (~next[y].allocated /\ next[y].next \in Kernel \cup {0})
    <3>1. CASE y \in Kernel \cup {0} BY <3>1
    <3>2. CASE y \notin Kernel \cup {0}
      <4>1. y \in DOMAIN list \ {z, g} BY <1>4, <3>2
      <4>2. ~list[y].allocated /\ list[y].next \in Kernel \cup {0} BY <3>2
      <4>3. next[y].next = list[y].next /\ next[y].allocated = list[y].allocated
        BY <1>5, <4>1
      <4> QED BY <4>2, <4>3
    <3> QED BY <3>1, <3>2
  <2>9. /\ chunks'[g] \in Chunk /\ chunks'[g].next = y /\ chunks'[g].prev = z
        /\ ~chunks'[g].allocated
    BY <1>3, <2>2
  <2> QED BY <1>3, <1>5, <2>1, <2>3, <2>4, <2>5, <2>6, <2>7, <2>8, <2>9 DEF Torn
<1> QED BY <1>2, <1>5, <1>7, <1>8

(* free merges the chunk into the free one before it: the link over it,    *)
LEMMA PreemptedPrevNext ==
  ASSUME PreemptedInv, PrevNext, ~exposed
  PROVE  PreemptedInv'
<1>1. /\ held = <<>> /\ main.at = "prevNext" /\ held' = held /\ owned' = owned
      /\ SetNext(chunks[current].prev, chunks[current].next)
      /\ main'.at = "prevSize" /\ main'.chunk = current /\ main'.size = main.size
  BY DEF PrevNext, At, GoTo, Keep
<1>2. PICK list, B :
        /\ Books(list) /\ CoalescedAt(list, Excused(B)) /\ Place(list, B)
        /\ main.size \in Nat /\ IsList(list) /\ WellFormed(list)
        /\ \A d \in DOMAIN list : list[d].allocated <=> d \in Kernel
        /\ Kernel \subseteq DOMAIN list
  BY <1>1, Alone
<1>3. AtPrevNext(list, B) BY <1>1, <1>2 DEF Place
<1>4. PICK g, z, y, s : /\ g = current /\ z = list[g].prev /\ y = list[g].next
                        /\ s = list[z].size
  OBVIOUS
<1>5. /\ chunks = list /\ g \in DOMAIN list /\ ~list[g].allocated /\ Clear(g, B)
      /\ z # 0 /\ ~list[z].allocated
  BY <1>3, <1>4 DEF AtPrevNext
<1>6. /\ z \in DOMAIN list /\ list[z].next = g /\ z < g /\ ChunkEnd(list, z) = g
      /\ g \in Nat /\ g # 0 /\ z \in Nat /\ g < ChunkEnd(list, g) /\ ChunkEnd(list, g) \in Nat
      /\ list[z] \in Chunk /\ 0 \notin DOMAIN list
      /\ z = HeapStart \/ (list[z].prev \in DOMAIN list /\ list[list[z].prev].next = z)
      /\ y # 0 => y \in DOMAIN list /\ y = ChunkEnd(list, g)
  BY <1>2, <1>4, <1>5, Links
<1>7. CoalescedAt(list, {B, g})
  <2>1. Excused(B) = {B, g} BY <1>1, <1>4 DEF Excused
  <2> QED BY <1>2, <2>1
<1>8. B \in DOMAIN list => B = y
  BY <1>2, <1>4, <1>5, <1>7, ExcusedBehind
<1>9. CoalescedAt(list, {y} \cup {g})
  <2> SUFFICES ASSUME NEW d \in DOMAIN list, ~list[d].allocated,
                      list[d].next # 0, list[d].next # y, list[d].next # g
               PROVE  list[list[d].next].allocated
    BY DEF CoalescedAt
  <2>1. list[d].next \in DOMAIN list BY <1>2, Links
  <2> QED BY <1>7, <1>8, <2>1 DEF CoalescedAt
<1>10. y \in Kernel \cup {0} \/ (~list[y].allocated /\ list[y].next \in Kernel \cup {0})
  <2>1. CASE y \in Kernel \cup {0} BY <2>1
  <2>2. CASE y \notin Kernel \cup {0}
    <3>1. ~list[y].allocated /\ y \in DOMAIN list BY <1>2, <1>6, <2>2
    <3>2. CASE list[y].next = 0 BY <3>1, <3>2
    <3>3. CASE list[y].next # 0
      <4>1. /\ list[y].next \in DOMAIN list /\ list[y].next = ChunkEnd(list, y)
            /\ y < ChunkEnd(list, y) /\ ChunkEnd(list, y) \in Nat /\ y \in Nat
        BY <1>2, <3>1, <3>3, Links
      <4>2. y = ChunkEnd(list, g) BY <1>6, <2>2
      <4>3. list[y].next # y /\ list[y].next # g BY <1>6, <4>1, <4>2
      <4>4. list[list[y].next].allocated BY <1>9, <3>1, <3>3, <4>3 DEF CoalescedAt
      <4> QED BY <1>2, <3>1, <4>1, <4>4
    <3> QED BY <3>2, <3>3
  <2> QED BY <2>1, <2>2
<1>11. z = HeapStart \/ list[z].prev \in Kernel
  <2> SUFFICES ASSUME z # HeapStart PROVE list[z].prev \in Kernel
    OBVIOUS
  <2>1. list[z].prev \in DOMAIN list /\ list[list[z].prev].next = z BY <1>6
  <2>2. z # g /\ z # y BY <1>6
  <2>3. list[list[z].prev].allocated BY <1>5, <1>9, <2>1, <2>2 DEF CoalescedAt
  <2> QED BY <1>2, <2>1, <2>3
<1>12. /\ DOMAIN chunks' = DOMAIN chunks
       /\ \A d \in DOMAIN chunks \ {z} : chunks'[d] = chunks[d]
       /\ chunks'[z] = [list[z] EXCEPT !.size = s, !.next = y]
  <2>1. chunks' = [chunks EXCEPT ![z].next = y] BY <1>1, <1>4, <1>5 DEF SetNext
  <2>2. chunks'[z] = [list[z] EXCEPT !.next = y] BY <1>5, <1>6, <2>1
  <2>3. chunks'[z] = [list[z] EXCEPT !.size = s, !.next = y]
    BY <1>4, <1>6, <2>2 DEF Chunk
  <2> QED BY <2>1, <2>3
<1>13. Kernel' = Kernel /\ current' = g BY <1>1, <1>4 DEF Kernel, current
<1>14. PICK next : next = Absorb(list, z) OBVIOUS
<1>15. /\ Books(next)' /\ CoalescedAt(next, {y}) /\ Torn(next, z, g, s, y, g)'
       /\ next[z].next = y
  <2>1. Mergeable(list, z, g, y, {y})
    BY <1>2, <1>4, <1>5, <1>6, <1>9, <1>10, <1>11 DEF Mergeable
  <2>2. Turns(list, z, s, y) BY <1>5, <1>12 DEF Turns
  <2> QED BY <1>1, <1>2, <1>5, <1>13, <1>14, <2>1, <2>2, MergeBegins
<1>16. s = g - z - ChunkHeader
  <2>1. s \in Nat BY <1>4, <1>6 DEF Chunk
  <2> QED BY <1>4, <1>6, <2>1, HeapAssumption DEF ChunkEnd
<1>17. chunks'[current'].prev = z
  BY <1>4, <1>5, <1>6, <1>12, <1>13
<1>18. AtPrevSize(next, y)'
  <2>1. Torn(next, z, g, g - z - ChunkHeader, next[z].next, g)' BY <1>15, <1>16
  <2> QED BY <1>13, <1>15, <1>17, <2>1 DEF AtPrevSize
<1>19. Place(next, y)' BY <1>1, <1>18 DEF Place
<1>20. Excused(y)' = {y} BY <1>1 DEF Excused
<1> QED BY <1>1, <1>2, <1>15, <1>19, <1>20, StepSound

(* the size of both,                                                       *)
LEMMA PreemptedPrevSize ==
  ASSUME PreemptedInv, PrevSize, ~exposed
  PROVE  PreemptedInv'
<1>1. /\ held = <<>> /\ main.at = "prevSize" /\ owned' = owned /\ held' = held
      /\ SetSize(chunks[current].prev,
                 chunks[chunks[current].prev].size + chunks[current].size + ChunkHeader)
      /\ main'.at = "prevBack" /\ main'.chunk = current /\ main'.size = main.size
  BY DEF PrevSize, At, Keep, GoTo
<1>2. PICK list, B :
        /\ Books(list) /\ CoalescedAt(list, Excused(B)) /\ Place(list, B)
        /\ main.size \in Nat /\ IsList(list) /\ WellFormed(list)
  BY <1>1, Alone
<1>3. AtPrevSize(list, B) BY <1>1, <1>2 DEF Place
<1>4. PICK z, g, s, x : /\ z = chunks[current].prev /\ g = current
                        /\ s = g - z - ChunkHeader /\ x = list[z].next
  OBVIOUS
<1>5. B \in {0, x} /\ Torn(list, z, g, s, x, g)
  BY <1>3, <1>4 DEF AtPrevSize
<1>6. /\ z \in DOMAIN list /\ g \notin DOMAIN list /\ list[z] \in Chunk
      /\ z \in Nat /\ g \in Nat /\ list[z].size \in Nat /\ ChunkHeader \in Nat
      /\ x # 0 => x \in DOMAIN list /\ x # z
  <2>1. TornIs(list, z, g, s, x, g) BY <1>2, <1>5, TornFacts
  <2> QED BY <1>2, <1>4, <1>5, Links, HeapAssumption, <2>1 DEF TornIs
<1>7. /\ DOMAIN chunks = DOMAIN list \cup {g} /\ chunks[g] \in Chunk
      /\ g + ChunkHeader + chunks[g].size = ChunkEnd(list, z)
      /\ chunks[z] = [list[z] EXCEPT !.size = s, !.next = x]
      /\ x # 0 => chunks[x] = [list[x] EXCEPT !.prev = g]
  BY <1>4, <1>5 DEF Torn
<1>8. s + chunks[g].size + ChunkHeader = list[z].size
  <2>1. chunks[g].size \in Nat BY <1>7 DEF Chunk
  <2> QED BY <1>4, <1>6, <1>7, <2>1 DEF ChunkEnd
<1>9. /\ DOMAIN chunks' = DOMAIN chunks
      /\ \A d \in DOMAIN chunks \ {z} : chunks'[d] = chunks[d]
      /\ chunks'[z] = [list[z] EXCEPT !.size = list[z].size, !.next = x]
  <2>1. chunks[z].size = s BY <1>6, <1>7 DEF Chunk
  <2>2. chunks' = [chunks EXCEPT ![z].size = list[z].size]
    BY <1>1, <1>4, <1>8, <2>1 DEF SetSize
  <2>3. chunks'[z] = [chunks[z] EXCEPT !.size = list[z].size] BY <1>6, <1>7, <2>2
  <2>4. chunks'[z] = [list[z] EXCEPT !.size = list[z].size, !.next = x]
    BY <1>6, <1>7, <2>3 DEF Chunk
  <2> QED BY <2>2, <2>4
<1>10. Kernel' = Kernel /\ current' = g BY <1>1, <1>4 DEF Kernel, current
<1>11. Books(list)' BY <1>1, <1>2, <1>10, SameBooks
<1>12. Torn(list, z, g, list[z].size, x, g)'
  <2>1. /\ chunks'[g] = chunks[g]
        /\ x # 0 => chunks'[x] = [list[x] EXCEPT !.prev = g]
        /\ \A d \in DOMAIN list \ {z, x} : chunks'[d] = chunks[d]
    BY <1>6, <1>7, <1>9
  <2> QED BY <1>2, <1>4, <1>5, <1>6, <1>9, <1>10, <2>1, TornTurn
<1>13. chunks'[current'].prev = z BY <1>4, <1>6, <1>7, <1>9, <1>10
<1>14. AtPrevBack(list, B)'
  BY <1>4, <1>5, <1>10, <1>12, <1>13 DEF AtPrevBack
<1>15. Place(list, B)' BY <1>1, <1>14 DEF Place
<1>16. Excused(B)' = Excused(B) BY <1>1 DEF Excused
<1> QED BY <1>1, <1>2, <1>11, <1>15, <1>16, StepSound

(* the link back to the chunk before,                                      *)
LEMMA PreemptedPrevBack ==
  ASSUME PreemptedInv, PrevBack, ~exposed
  PROVE  PreemptedInv'
<1>1. /\ held = <<>> /\ main.at = "prevBack" /\ owned' = owned /\ held' = held
      /\ SetPrevUnlessNull(chunks[current].next, chunks[current].prev)
      /\ main'.at = "toPrev" /\ main'.chunk = current /\ main'.size = main.size
  BY DEF PrevBack, At, Keep, GoTo
<1>2. PICK list, B :
        /\ Books(list) /\ CoalescedAt(list, Excused(B)) /\ Place(list, B)
        /\ main.size \in Nat /\ IsList(list) /\ WellFormed(list) /\ Kernel \subseteq DOMAIN list
  BY <1>1, Alone
<1>3. AtPrevBack(list, B) BY <1>1, <1>2 DEF Place
<1>4. PICK z, g, s, y : /\ z = chunks[current].prev /\ g = current
                        /\ s = list[z].size /\ y = list[z].next
  OBVIOUS
<1>5. B \in {0, y} /\ Torn(list, z, g, s, y, g)
  BY <1>3, <1>4 DEF AtPrevBack
<1>6. /\ z \in DOMAIN list /\ g \notin DOMAIN list /\ list[z] \in Chunk /\ ~list[z].allocated
      /\ z \in Nat /\ g \in Nat /\ g # 0 /\ z < g /\ g + ChunkHeader <= ChunkEnd(list, z)
      /\ z < ChunkEnd(list, z) /\ ChunkEnd(list, z) \in Nat
      /\ y # 0 => /\ y \in DOMAIN list /\ y # z /\ list[y] \in Chunk /\ list[y].prev = z
                  /\ y = ChunkEnd(list, z)
  <2>1. TornIs(list, z, g, s, y, g) BY <1>2, <1>5, TornFacts
  <2> QED BY <1>2, <1>4, <1>5, Links, <2>1 DEF TornIs
<1>7. /\ DOMAIN chunks = DOMAIN list \cup {g} /\ chunks[g].next = y
      /\ chunks[z] = [list[z] EXCEPT !.size = s, !.next = y]
      /\ y # 0 => chunks[y] = [list[y] EXCEPT !.prev = g]
      /\ \A d \in DOMAIN list \ {z, y} : chunks[d] = list[d]
      /\ Anchored(list, z)
  BY <1>4, <1>5 DEF Torn
<1>8. chunks[z] = list[z]
  <2>1. PICK a : a = list[z] OBVIOUS
  <2>2. a \in Chunk /\ s = a.size /\ y = a.next BY <1>4, <1>6, <2>1
  <2>3. [a EXCEPT !.size = s, !.next = y] = a BY <2>2, TurnedToItsOwn
  <2> QED BY <1>7, <2>1, <2>3
<1>9. /\ DOMAIN chunks' = DOMAIN chunks
      /\ \A d \in DOMAIN chunks \ ({y} \ {0}) : chunks'[d] = chunks[d]
      /\ y # 0 => chunks'[y] = list[y]
  <2>1. CASE y = 0
    BY <1>1, <1>4, <1>7, <2>1 DEF SetPrevUnlessNull
  <2>2. CASE y # 0
    <3>1. chunks' = [chunks EXCEPT ![y].prev = z]
      BY <1>1, <1>4, <1>7, <2>2 DEF SetPrevUnlessNull, SetPrev
    <3>2. y \in DOMAIN chunks BY <1>6, <1>7, <2>2
    <3>3. chunks'[y] = [chunks[y] EXCEPT !.prev = z] BY <3>1, <3>2
    <3>4. chunks'[y] = list[y]
      <4>1. PICK a, b : a = list[y] /\ b = chunks[y] OBVIOUS
      <4>2. a \in Chunk /\ z = a.prev BY <1>6, <2>2, <4>1
      <4>3. b = [a EXCEPT !.prev = g] BY <1>7, <2>2, <4>1
      <4>4. [b EXCEPT !.prev = z] = a BY <4>2, <4>3, Zenon DEF Chunk
      <4> QED BY <3>3, <4>1, <4>4
    <3>5. \A d \in DOMAIN chunks \ {y} : chunks'[d] = chunks[d] BY <3>1
    <3>6. DOMAIN chunks' = DOMAIN chunks BY <3>1
    <3> QED BY <2>2, <3>4, <3>5, <3>6
  <2> QED BY <2>1, <2>2
<1>10. ASSUME NEW d \in DOMAIN list PROVE chunks'[d] = list[d]
  <2>1. d # 0 BY <1>2, Links
  <2>2. CASE d = y BY <1>9, <2>1, <2>2
  <2>3. CASE d = z BY <1>6, <1>7, <1>8, <1>9, <2>1, <2>3
  <2>4. CASE d \notin {y, z} BY <1>7, <1>9, <2>4
  <2> QED BY <2>2, <2>3, <2>4
<1>11. Kernel' = Kernel /\ current' = g BY <1>1, <1>4 DEF Kernel, current
<1>12. Books(list)' BY <1>1, <1>2, <1>11, SameBooks
<1>13. Clear(z, B)'
  <2> SUFFICES ASSUME B # 0, NEW k \in Kernel, z < k, k < B PROVE FALSE
    BY <1>5, <1>6, <1>11 DEF Clear
  <2>1. k \in DOMAIN list /\ k \in Nat BY <1>2, HeaderTypes
  <2>2. ChunkEnd(list, z) <= k BY <1>2, <1>6, <2>1 DEF WellFormed
  <2> QED BY <1>5, <1>6, <2>1, <2>2
<1>14. AtToPrev(list, B)'
  <2>1. Anchored(list, z)' BY <1>7, <1>11 DEF Anchored
  <2>2. /\ DOMAIN chunks' = DOMAIN list \cup {g} /\ g \notin DOMAIN list
        /\ chunks'[g].prev = z /\ chunks'[g].next # g
    <3>1. chunks'[g] = chunks[g] /\ y # g BY <1>6, <1>7, <1>9
    <3> QED BY <1>4, <1>6, <1>7, <1>9, <3>1
  <2> QED BY <1>6, <1>10, <1>11, <1>13, <2>1, <2>2 DEF AtToPrev
<1>15. Place(list, B)' BY <1>1, <1>14 DEF Place
<1>16. Excused(B)' = Excused(B) BY <1>1 DEF Excused
<1> QED BY <1>1, <1>2, <1>12, <1>15, <1>16, StepSound

(* and goes on with the chunk before.                                      *)
LEMMA PreemptedToPrev ==
  ASSUME PreemptedInv, ToPrev, ~exposed
  PROVE  PreemptedInv'
<1>1. /\ held = <<>> /\ main.at = "toPrev" /\ owned' = owned /\ held' = held
      /\ chunks' = [b \in DOMAIN chunks \ {current} |-> chunks[b]]
      /\ main' = [at |-> "testNext", chunk |-> chunks[current].prev, size |-> main.size]
  BY DEF ToPrev, At, Keep
<1>2. PICK list, B :
        /\ Books(list) /\ CoalescedAt(list, Excused(B)) /\ Place(list, B)
        /\ main.size \in Nat /\ IsList(list) /\ WellFormed(list)
  BY <1>1, Alone
<1>3. AtToPrev(list, B) BY <1>1, <1>2 DEF Place
<1>4. PICK z, g : z = chunks[current].prev /\ g = current OBVIOUS
<1>5. /\ DOMAIN chunks = DOMAIN list \cup {g} /\ g \notin DOMAIN list
      /\ \A d \in DOMAIN list : chunks[d] = list[d]
      /\ Anchored(list, z) /\ Clear(z, B)
  BY <1>3, <1>4 DEF AtToPrev
<1>6. chunks' = list
  <2>1. list = [d \in DOMAIN list |-> list[d]] BY <1>2 DEF IsList
  <2>2. DOMAIN chunks \ {g} = DOMAIN list BY <1>5
  <2>3. chunks' = [d \in DOMAIN list |-> chunks[d]] BY <1>1, <1>4, <2>2
  <2> QED BY <1>5, <2>1, <2>3
<1>7. main'.at = "testNext" /\ current' = z /\ main'.size = main.size
  BY <1>1, <1>4 DEF current
<1>8. Kernel' = Kernel BY <1>1, <1>7 DEF Kernel
<1>9. Books(list)' BY <1>1, <1>2, <1>8, SameBooks
<1>10. AtTestNext(list, B)'
  <2>1. Anchored(list, z)' BY <1>5, <1>8 DEF Anchored
  <2>2. Clear(z, B)' BY <1>5, <1>8 DEF Clear
  <2> QED BY <1>6, <1>7, <2>1, <2>2 DEF AtTestNext
<1>11. Place(list, B)' BY <1>7, <1>10 DEF Place
<1>12. Excused(B)' = Excused(B) BY <1>1, <1>7 DEF Excused
<1> QED BY <1>2, <1>7, <1>9, <1>11, <1>12, StepSound

(* The chunk behind it is allocated, or free and to be merged.             *)
LEMMA PreemptedTestNext ==
  ASSUME PreemptedInv, TestNext, ~exposed
  PROVE  PreemptedInv'
<1>1. /\ held = <<>> /\ main.at = "testNext" /\ held' = held /\ owned' = owned
      /\ chunks' = chunks
      /\ IF FreeNeighbour(chunks, chunks[current].next) THEN GoTo("nextSize") ELSE main' = Idle
  BY DEF TestNext, At, Keep
<1>2. PICK list, B :
        /\ Books(list) /\ CoalescedAt(list, Excused(B)) /\ Place(list, B)
        /\ main.size \in Nat /\ IsList(list) /\ WellFormed(list)
        /\ \A d \in DOMAIN list : list[d].allocated <=> d \in Kernel
        /\ Kernel \subseteq DOMAIN list
  BY <1>1, Alone
<1>3. AtTestNext(list, B) BY <1>1, <1>2 DEF Place
<1>4. PICK c, n : c = current /\ n = list[c].next OBVIOUS
<1>5. chunks = list /\ Anchored(list, c) /\ Clear(c, B)
  BY <1>3, <1>4 DEF AtTestNext
<1>6. c \in DOMAIN list /\ ~list[c].allocated BY <1>2, <1>5 DEF Anchored
<1>7. CoalescedAt(list, {B})
  <2>1. Excused(B) = {B} BY <1>1 DEF Excused
  <2> QED BY <1>2, <2>1
<1>8. CASE FreeNeighbour(list, n)
  <2>1. main'.at = "nextSize" /\ main'.chunk = c /\ main'.size = main.size
    BY <1>1, <1>4, <1>5, <1>8 DEF GoTo
  <2>2. n # 0 /\ ~list[n].allocated BY <1>8 DEF FreeNeighbour
  <2>3. Kernel' = Kernel /\ current' = c BY <1>1, <2>1 DEF Kernel, current
  <2>4. Books(list)' BY <1>1, <1>2, <2>3, SameBooks
  <2>5. Anchored(list, c)' BY <1>5, <2>3 DEF Anchored
  <2>6. Clear(c, B)' BY <1>5, <2>3 DEF Clear
  <2>7. AtNextSize(list, B)'
    BY <1>1, <1>4, <1>5, <1>6, <2>2, <2>3, <2>5, <2>6 DEF AtNextSize
  <2>8. Place(list, B)' BY <2>1, <2>7 DEF Place
  <2>9. Excused(B)' = {B} BY <2>1 DEF Excused
  <2> QED BY <1>2, <1>7, <2>1, <2>4, <2>8, <2>9, StepSound
<1>9. CASE ~FreeNeighbour(list, n)
  <2>1. main' = Idle BY <1>1, <1>4, <1>5, <1>9
  <2>2. n = 0 \/ list[n].allocated BY <1>9 DEF FreeNeighbour
  <2>3. main'.at = "idle" /\ main'.size = 0 BY <2>1 DEF Idle
  <2>4. Kernel' = Kernel BY <1>1, <2>3 DEF Kernel
  <2>5. Books(list)' BY <1>1, <1>2, <2>4, SameBooks
  <2>6. Place(list, 0)' BY <1>1, <1>5, <2>3 DEF Place
  <2>7. Excused(0)' = {0} BY <2>3 DEF Excused
  <2>8. CoalescedAt(list, {0})
    <3> SUFFICES ASSUME NEW d \in DOMAIN list, ~list[d].allocated, list[d].next # 0
                 PROVE  list[list[d].next].allocated
      BY DEF CoalescedAt
    <3>1. list[d].next \in DOMAIN list BY <1>2, Links
    <3>2. CASE list[d].next = B
      <4>1. CoalescedAt(list, {B, c}) BY <1>7 DEF CoalescedAt
      <4>2. B = n BY <1>2, <1>4, <1>5, <1>6, <3>1, <3>2, <4>1, ExcusedBehind
      <4> QED BY <2>2, <3>2, <4>2
    <3>3. CASE list[d].next # B
      BY <1>7, <3>3 DEF CoalescedAt
    <3> QED BY <3>2, <3>3
  <2> QED BY <2>3, <2>5, <2>6, <2>7, <2>8, StepSound
<1> QED BY <1>8, <1>9

(* free merges a free chunk behind into its own: the size of both,         *)
LEMMA PreemptedNextSize ==
  ASSUME PreemptedInv, NextSize, ~exposed
  PROVE  PreemptedInv'
<1>1. /\ held = <<>> /\ main.at = "nextSize" /\ held' = held /\ owned' = owned
      /\ SetSize(current, chunks[current].size + chunks[chunks[current].next].size + ChunkHeader)
      /\ main'.at = "nextNext" /\ main'.chunk = current /\ main'.size = main.size
  BY DEF NextSize, At, GoTo, Keep
<1>2. PICK list, B :
        /\ Books(list) /\ CoalescedAt(list, Excused(B)) /\ Place(list, B)
        /\ main.size \in Nat /\ IsList(list) /\ WellFormed(list)
        /\ \A d \in DOMAIN list : list[d].allocated <=> d \in Kernel
        /\ Kernel \subseteq DOMAIN list
  BY <1>1, Alone
<1>3. AtNextSize(list, B) BY <1>1, <1>2 DEF Place
<1>4. PICK c, g, y, s : /\ c = current /\ g = list[c].next /\ y = list[g].next
                        /\ s = list[c].size + list[g].size + ChunkHeader
  OBVIOUS
<1>5. /\ chunks = list /\ Anchored(list, c) /\ ~list[c].allocated /\ g # 0 /\ ~list[g].allocated
  BY <1>3, <1>4 DEF AtNextSize
<1>7. /\ c \in DOMAIN list /\ (c = HeapStart \/ list[c].prev \in Kernel)
      /\ g \in DOMAIN list /\ g \in Nat /\ list[c] \in Chunk
      /\ g < ChunkEnd(list, g) /\ ChunkEnd(list, g) \in Nat
      /\ y # 0 => y \in DOMAIN list /\ y = ChunkEnd(list, g)
  <2>1. c \in DOMAIN list /\ (c = HeapStart \/ list[c].prev \in Kernel)
    BY <1>5 DEF Anchored
  <2>2. g \in DOMAIN list /\ list[c] \in Chunk BY <1>2, <1>4, <1>5, <2>1, Links
  <2>3. /\ g \in Nat /\ g < ChunkEnd(list, g) /\ ChunkEnd(list, g) \in Nat
        /\ y # 0 => y \in DOMAIN list /\ y = ChunkEnd(list, g)
    BY <1>2, <1>4, <2>2, Links
  <2> QED BY <2>1, <2>2, <2>3
<1>8. CoalescedAt(list, {B}) /\ B = g
  <2>1. Excused(B) = {B} BY <1>1 DEF Excused
  <2> QED BY <1>2, <1>4, <1>5, <1>7, <2>1 DEF CoalescedAt
<1>9. CoalescedAt(list, {0} \cup {g}) BY <1>8 DEF CoalescedAt
<1>10. y \in Kernel \cup {0}
  <2> SUFFICES ASSUME y # 0 PROVE y \in Kernel
    OBVIOUS
  <2>1. y # B BY <1>7, <1>8
  <2>2. list[y].allocated BY <1>4, <1>5, <1>7, <1>8, <2>1 DEF CoalescedAt
  <2> QED BY <1>2, <1>7, <2>2
<1>11. /\ DOMAIN chunks' = DOMAIN chunks
       /\ \A d \in DOMAIN chunks \ {c} : chunks'[d] = chunks[d]
       /\ chunks'[c] = [list[c] EXCEPT !.size = s, !.next = g]
  <2>1. chunks' = [chunks EXCEPT ![c].size = s] BY <1>1, <1>4, <1>5 DEF SetSize
  <2>2. chunks'[c] = [list[c] EXCEPT !.size = s] BY <1>5, <1>7, <2>1
  <2>3. chunks'[c] = [list[c] EXCEPT !.size = s, !.next = g]
    BY <1>4, <1>7, <2>2 DEF Chunk
  <2> QED BY <2>1, <2>3
<1>12. Kernel' = Kernel /\ current' = c BY <1>1, <1>4 DEF Kernel, current
<1>13. PICK next : next = Absorb(list, c) OBVIOUS
<1>14. /\ Books(next)' /\ CoalescedAt(next, {0}) /\ Torn(next, c, g, s, g, g)'
       /\ next[c].next = y
  <2>1. Mergeable(list, c, g, y, {0})
    BY <1>2, <1>4, <1>5, <1>7, <1>9, <1>10 DEF Mergeable
  <2>2. Turns(list, c, s, g) BY <1>5, <1>11 DEF Turns
  <2> QED BY <1>1, <1>2, <1>5, <1>12, <1>13, <2>1, <2>2, MergeBegins
<1>15. next[c].size = s
  <2>1. JoinedAt(next, list, c) BY <1>2, <1>4, <1>5, <1>7, <1>13, AbsorbFields
  <2> QED BY <1>4, <2>1 DEF JoinedAt
<1>16. chunks'[current'].next = g
  BY <1>7, <1>11, <1>12 DEF Chunk
<1>17. AtNextNext(next, 0)'
  BY <1>10, <1>12, <1>14, <1>15, <1>16 DEF AtNextNext
<1>18. Place(next, 0)' BY <1>1, <1>17 DEF Place
<1>19. Excused(0)' = {0} BY <1>1 DEF Excused
<1> QED BY <1>1, <1>2, <1>14, <1>18, <1>19, StepSound

(* the link over it,                                                       *)
LEMMA PreemptedNextNext ==
  ASSUME PreemptedInv, NextNext, ~exposed
  PROVE  PreemptedInv'
<1>1. /\ held = <<>> /\ main.at = "nextNext" /\ owned' = owned /\ held' = held
      /\ chunks' = [b \in DOMAIN chunks \ {chunks[current].next} |->
                      IF b = current
                        THEN [chunks[b] EXCEPT !.next = chunks[chunks[current].next].next]
                        ELSE chunks[b]]
      /\ main'.at = "nextBack" /\ main'.chunk = current /\ main'.size = main.size
  BY DEF NextNext, At, Keep, GoTo
<1>2. PICK list, B :
        /\ Books(list) /\ CoalescedAt(list, Excused(B)) /\ Place(list, B)
        /\ main.size \in Nat /\ IsList(list) /\ WellFormed(list)
  BY <1>1, Alone
<1>3. AtNextNext(list, B) BY <1>1, <1>2 DEF Place
<1>4. PICK c, g, s, y : /\ c = current /\ g = chunks[current].next
                        /\ s = list[c].size /\ y = list[c].next
  OBVIOUS
<1>5. B = 0 /\ y \in Kernel \cup {0} /\ Torn(list, c, g, s, g, g)
  BY <1>3, <1>4 DEF AtNextNext
<1>6. /\ c \in DOMAIN list /\ g \notin DOMAIN list /\ list[c] \in Chunk /\ 0 \notin DOMAIN list
      /\ y # 0 => y \in DOMAIN list /\ y # c
  <2>1. /\ c \in DOMAIN list /\ g \notin DOMAIN list
        /\ y # 0 => y \in DOMAIN list /\ y # c
    <3>1. TornIs(list, c, g, s, g, g) BY <1>2, <1>5, TornFacts
    <3> QED BY <1>2, <1>4, <1>5, <3>1 DEF TornIs
  <2> QED BY <1>2, <2>1, Links
<1>7. /\ DOMAIN chunks = DOMAIN list \cup {g} /\ chunks[g].next = y
      /\ chunks[c] = [list[c] EXCEPT !.size = s, !.next = g]
      /\ y # 0 => chunks[y] = [list[y] EXCEPT !.prev = g]
      /\ \A d \in DOMAIN list \ {c, y} : chunks[d] = list[d]
      /\ Anchored(list, c)
  BY <1>4, <1>5 DEF Torn
<1>8. DOMAIN chunks' = DOMAIN list
  BY <1>1, <1>4, <1>6, <1>7
<1>9. chunks'[c] = list[c]
  <2>1. chunks'[c] = [chunks[c] EXCEPT !.next = y] BY <1>1, <1>4, <1>6, <1>7
  <2>2. list[c] = [next |-> list[c].next, prev |-> list[c].prev,
                   allocated |-> list[c].allocated, size |-> list[c].size]
    BY <1>6 DEF Chunk
  <2>3. chunks[c] = [next |-> g, prev |-> list[c].prev,
                     allocated |-> list[c].allocated, size |-> s]
    BY <1>7, <2>2
  <2>4. chunks'[c] = [next |-> y, prev |-> list[c].prev,
                      allocated |-> list[c].allocated, size |-> s]
    BY <2>1, <2>3
  <2> QED BY <1>4, <2>2, <2>4
<1>10. \A d \in DOMAIN list \ {c} : chunks'[d] = chunks[d]
  BY <1>1, <1>4, <1>6, <1>7
<1>11. Kernel' = Kernel /\ current' = c BY <1>1, <1>4 DEF Kernel, current
<1>12. Books(list)' BY <1>1, <1>2, <1>11, SameBooks
<1>13. ASSUME NEW d \in DOMAIN list
       PROVE  \/ chunks'[d] = list[d]
              \/ d = y /\ d \in Kernel /\ \E v : chunks'[d] = [list[d] EXCEPT !.prev = v]
  <2>1. CASE d = y
    <3>1. y # 0 /\ y # c /\ y \in Kernel BY <1>5, <1>6, <2>1
    <3>2. chunks'[d] = [list[d] EXCEPT !.prev = g] BY <1>7, <1>10, <2>1, <3>1
    <3> QED BY <2>1, <3>1, <3>2
  <2>2. CASE d # y
    BY <1>7, <1>9, <1>10, <2>2
  <2> QED BY <2>1, <2>2
<1>14. AtNextBack(list, B)'
  <2>1. Anchored(list, c)' BY <1>7, <1>11 DEF Anchored
  <2> QED BY <1>4, <1>5, <1>8, <1>11, <1>13, <2>1 DEF AtNextBack
<1>15. Place(list, B)' BY <1>1, <1>14 DEF Place
<1>16. Excused(B)' = Excused(B) BY <1>1 DEF Excused
<1> QED BY <1>1, <1>2, <1>12, <1>15, <1>16, StepSound

(* Memory is a function: what it holds at the headers is all there is to   *)
(* it.                                                                     *)
Memory == active = TRUE /\ chunks = [d \in DOMAIN chunks |-> chunks[d]]

(* and the link back, with which memory is the list again.                 *)
LEMMA PreemptedNextBack ==
  ASSUME PreemptedInv, Memory, NextBack, ~exposed
  PROVE  PreemptedInv'
<1>1. /\ held = <<>> /\ main.at = "nextBack" /\ owned' = owned /\ held' = held
      /\ SetPrevUnlessNull(chunks[current].next, current)
      /\ main' = Idle
  BY DEF NextBack, At, Keep
<1>2. PICK list, B :
        /\ Books(list) /\ CoalescedAt(list, Excused(B)) /\ Place(list, B)
        /\ main.size \in Nat /\ IsList(list) /\ WellFormed(list)
  BY <1>1, Alone
<1>3. AtNextBack(list, B) BY <1>1, <1>2 DEF Place
<1>4. PICK c, y : c = current /\ y = list[c].next OBVIOUS
<1>5. /\ B = 0 /\ c \in DOMAIN list /\ DOMAIN chunks = DOMAIN list
      /\ \A d \in DOMAIN list :
           \/ chunks[d] = list[d]
           \/ d = y /\ \E v : chunks[d] = [list[d] EXCEPT !.prev = v]
  BY <1>3, <1>4 DEF AtNextBack, Anchored
<1>6. /\ 0 \notin DOMAIN list /\ y # c
      /\ y # 0 => y \in DOMAIN list /\ list[y] \in Chunk /\ list[y].prev = c
  <2>1. /\ c \in Nat /\ c # 0 /\ c < ChunkEnd(list, c) /\ ChunkEnd(list, c) \in Nat
        /\ y = 0 \/ y = ChunkEnd(list, c)
        /\ y # 0 => y \in DOMAIN list /\ list[y].prev = c
    BY <1>2, <1>4, <1>5, Links
  <2>2. y # c BY <2>1
  <2>3. 0 \notin DOMAIN list BY <1>2, Links
  <2>4. y # 0 => list[y] \in Chunk BY <1>2, <2>1, HeaderTypes
  <2> QED BY <2>1, <2>2, <2>3, <2>4
<1>7. \A d \in DOMAIN list \ {y} : chunks[d] = list[d] BY <1>5
<1>8. chunks[c].next = y BY <1>4, <1>5, <1>6, <1>7
<1>9. list = [d \in DOMAIN list |-> list[d]] BY <1>2 DEF IsList
<1>10. chunks' = list
  <2>1. CASE y = 0
    <3>1. chunks' = chunks BY <1>1, <1>4, <1>8, <2>1 DEF SetPrevUnlessNull
    <3>2. \A d \in DOMAIN list : chunks[d] = list[d] BY <1>6, <1>7, <2>1
    <3>3. chunks = [d \in DOMAIN list |-> list[d]] BY <1>5, <3>2 DEF Memory
    <3> QED BY <1>9, <3>1, <3>3
  <2>2. CASE y # 0
    <3>1. chunks' = [chunks EXCEPT ![y].prev = c]
      BY <1>1, <1>4, <1>8, <2>2 DEF SetPrevUnlessNull, SetPrev
    <3>2. chunks'[y] = [chunks[y] EXCEPT !.prev = c] BY <1>5, <1>6, <2>2, <3>1
    <3>3. chunks'[y] = list[y]
      <4>1. CASE chunks[y] = list[y]
        BY <1>6, <2>2, <3>2, <4>1 DEF Chunk
      <4>2. CASE chunks[y] # list[y]
        <5>1. PICK v : chunks[y] = [list[y] EXCEPT !.prev = v]
          BY <1>5, <1>6, <2>2, <4>2
        <5> QED BY <1>6, <2>2, <3>2, <5>1 DEF Chunk
      <4> QED BY <4>1, <4>2
    <3>4. \A d \in DOMAIN list : chunks'[d] = list[d]
      BY <1>5, <1>7, <3>1, <3>3
    <3>5. chunks' = [d \in DOMAIN list |-> chunks'[d]] BY <1>5, <3>1
    <3> QED BY <1>9, <3>4, <3>5
  <2> QED BY <2>1, <2>2
<1>11. main'.at = "idle" /\ main'.size = 0 BY <1>1 DEF Idle
<1>12. Kernel' = Kernel BY <1>1, <1>11 DEF Kernel
<1>13. Books(list)' BY <1>1, <1>2, <1>12, SameBooks
<1>14. Place(list, B)' BY <1>5, <1>10, <1>11 DEF Place
<1>15. Excused(B)' = Excused(B) BY <1>1, <1>11 DEF Excused
<1> QED BY <1>2, <1>11, <1>13, <1>14, <1>15, StepSound

-----------------------------------------------------------------------------
(* The invariant of the specification                                      *)
LEMMA MemoryNext ==
  ASSUME Memory, [PreemptedNext]_preemptedVars
  PROVE  Memory'
<1>1. CASE \E size \in HandlerSizes : HandlerMalloc(size)
  <2>1. PICK size \in HandlerSizes : HandlerMalloc(size) BY <1>1
  <2>2. PICK c \in DOMAIN chunks : chunks' = Granted(c, size) /\ active' = active
    BY <2>1 DEF HandlerMalloc
  <2> QED BY <2>2 DEF Granted, Memory
<1>2. CASE HandlerFree
  <2>1. PICK c : chunks' = Freed(chunks, c) /\ active' = active BY <1>2 DEF HandlerFree
  <2>2. PICK h0 : h0 = Mark(chunks, c, FALSE) OBVIOUS
  <2>3. h0 = [d \in DOMAIN h0 |-> h0[d]] BY <2>2 DEF Mark
  <2>4. PICK h1 : h1 = MergePrev(h0, c) OBVIOUS
  <2>5. h1 = [d \in DOMAIN h1 |-> h1[d]] BY <2>3, <2>4 DEF MergePrev, Absorb
  <2>6. PICK c1 : chunks' = MergeNext(h1, c1) BY <2>1, <2>2, <2>4 DEF Freed
  <2> QED BY <2>1, <2>5, <2>6 DEF MergeNext, Absorb, Memory
<1>3. CASE \E size \in Sizes : CallMalloc(size)
  BY <1>3 DEF CallMalloc, Keep, Memory
<1>4. CASE \E p \in DOMAIN owned : CallFree(p)
  BY <1>4 DEF CallFree, Memory
<1>5. CASE Look \/ Cut \/ Relink
  BY <1>5 DEF Look, Cut, Relink, Keep, SetPrevUnlessNull, SetPrev, Memory
<1>6. CASE Shrink \/ Link \/ MarkAllocated
  BY <1>6 DEF Shrink, Link, MarkAllocated, Mark, Keep, SetSize, SetNext, Memory
<1>7. CASE Unmark \/ TestPrev \/ PrevNext \/ PrevSize
  BY <1>7 DEF Unmark, TestPrev, PrevNext, PrevSize, Mark, Keep, SetSize, SetNext, Memory
<1>8. CASE PrevBack \/ ToPrev \/ TestNext
  BY <1>8 DEF PrevBack, ToPrev, TestNext, Keep, SetPrevUnlessNull, SetPrev, Memory
<1>9. CASE NextSize \/ NextNext \/ NextBack
  BY <1>9 DEF NextSize, NextNext, NextBack, Keep, SetSize, SetPrevUnlessNull, SetPrev, Memory
<1>10. CASE UNCHANGED preemptedVars
  BY <1>10 DEF preemptedVars, vars, Memory
<1> QED
  BY <1>1, <1>2, <1>3, <1>4, <1>5, <1>6, <1>7, <1>8, <1>9, <1>10
  DEF PreemptedNext, MallocStep, FreeStep

LEMMA PreemptedStart == PreemptedInit => Memory /\ PreemptedInv
<1> SUFFICES ASSUME PreemptedInit PROVE Memory /\ PreemptedInv
  OBVIOUS
<1> DEFINE only == [next |-> 0, prev |-> 0, allocated |-> FALSE, size |-> HeapSize - ChunkHeader]
<1>1. /\ active = TRUE /\ chunks = [a \in {HeapStart} |-> only] /\ owned = [p \in {} |-> 0]
      /\ held = <<>> /\ main = Idle
  BY DEF PreemptedInit
<1>2. HeapSize - ChunkHeader \in Nat BY HeapAssumption, PreemptedAssumption
<1>3. /\ only \in Chunk /\ only.next = 0 /\ only.prev = 0 /\ ~only.allocated
      /\ only.size = HeapSize - ChunkHeader
  BY <1>2 DEF Chunk
<1> HIDE DEF only
<1>4. PICK list : list = chunks OBVIOUS
<1>5. DOMAIN list = {HeapStart} /\ list[HeapStart] = only /\ list \in [{HeapStart} -> Chunk]
  BY <1>1, <1>3, <1>4
<1>6. IsList(list) BY <1>5, HeapAssumption DEF IsList, HeapEnd
<1>7. ChunkEnd(list, HeapStart) = HeapEnd
  BY <1>3, <1>5, HeapAssumption DEF ChunkEnd, HeapEnd
<1>8. WellFormed(list)
  <2>1. LinkedForward(list, HeapStart) /\ LinkedBack(list, HeapStart)
    BY <1>3, <1>5, <1>7, HeapAssumption DEF LinkedForward, LinkedBack, HeapEnd
  <2>2. \A b \in HeapStart..(HeapEnd - 1) :
          HeapStart <= b /\ b < ChunkEnd(list, HeapStart)
    BY <1>7, HeapAssumption DEF HeapEnd
  <2> QED BY <1>5, <2>1, <2>2, HeapAssumption DEF WellFormed
<1>9. main.at = "idle" /\ main.size = 0 BY <1>1 DEF Idle
<1>10. Kernel = {} /\ DOMAIN owned = {} BY <1>1, <1>9 DEF Kernel
<1>11. Handed = {} BY <1>1 DEF Handed
<1>12. held \in Seq(Buffer) /\ DOMAIN held = {} BY <1>1, EmptySeq
<1>13. Books(list)
  BY <1>3, <1>5, <1>6, <1>8, <1>10, <1>11, <1>12 DEF Books, Buffer
<1>14. CoalescedAt(list, Excused(0)) BY <1>3, <1>5 DEF CoalescedAt
<1>15. Place(list, 0) BY <1>4, <1>9 DEF Place
<1>16. Sound(list, 0) BY <1>9, <1>13, <1>14, <1>15 DEF Sound
<1>17. Memory BY <1>1 DEF Memory
<1> QED BY <1>16, <1>17 DEF PreemptedInv

LEMMA PreemptedStutter ==
  ASSUME PreemptedInv, UNCHANGED preemptedVars
  PROVE  PreemptedInv'
<1>1. /\ chunks' = chunks /\ owned' = owned /\ held' = held /\ main' = main /\ exposed' = exposed
  BY DEF preemptedVars, vars
<1> SUFFICES ASSUME ~exposed PROVE PreemptedInv'
  BY <1>1 DEF PreemptedInv
<1>2. PICK list, B : Sound(list, B) BY DEF PreemptedInv
<1>3. current' = current /\ Temp' = Temp /\ main'.at = main.at BY <1>1 DEF current, Temp
<1>4. Kernel' = Kernel BY <1>1, <1>3 DEF Kernel
<1>5. Handed' = Handed BY <1>1 DEF Handed
<1>6. Books(list)' BY <1>1, <1>2, <1>4, SameBooks DEF Sound
<1>7. Excused(B)' = Excused(B) BY <1>3 DEF Excused
<1>8. \A c : Anchored(list, c)' <=> Anchored(list, c) BY <1>4 DEF Anchored
<1>9. \A c, b : Clear(c, b)' <=> Clear(c, b) BY <1>4 DEF Clear
<1>10. \A z, g, s, x, v : Torn(list, z, g, s, x, v) => Torn(list, z, g, s, x, v)'
  BY <1>1, <1>4, <1>8 DEF Torn
<1>11. Cutting(list)' <=> Cutting(list) BY <1>1, <1>3, <1>4 DEF Cutting
<1>12. Place(list, B) BY <1>2 DEF Sound
<1> SUFFICES Place(list, B)'
  BY <1>1, <1>2, <1>6, <1>7, StepSound DEF Sound
<1>13. CASE main.at \in {"idle", "unmark", "look", "cut", "mark"}
  <2>1. AtUnmark(list, B) => AtUnmark(list, B)' BY <1>1, <1>3 DEF AtUnmark
  <2>2. AtLook(list, B) => AtLook(list, B)' BY <1>1, <1>3, <1>4, <1>8 DEF AtLook
  <2>3. AtCut(list, B) => AtCut(list, B)' BY <1>1, <1>3, <1>8, <1>9 DEF AtCut
  <2>4. AtMark(list, B) => AtMark(list, B)' BY <1>1, <1>3, <1>8, <1>9 DEF AtMark
  <2> QED BY <1>1, <1>3, <1>12, <1>13, <2>1, <2>2, <2>3, <2>4 DEF Place
<1>14. CASE main.at \in {"testPrev", "prevNext", "testNext", "nextSize"}
  <2>1. AtTestPrev(list, B) => AtTestPrev(list, B)' BY <1>1, <1>3, <1>5, <1>9 DEF AtTestPrev
  <2>2. AtPrevNext(list, B) => AtPrevNext(list, B)' BY <1>1, <1>3, <1>9 DEF AtPrevNext
  <2>3. AtTestNext(list, B) => AtTestNext(list, B)' BY <1>1, <1>3, <1>8, <1>9 DEF AtTestNext
  <2>4. AtNextSize(list, B) => AtNextSize(list, B)' BY <1>1, <1>3, <1>8, <1>9 DEF AtNextSize
  <2> QED BY <1>3, <1>12, <1>14, <2>1, <2>2, <2>3, <2>4 DEF Place
<1>15. CASE main.at \in Tearing
  <2>1. PICK z, g, s, x, v : TornAt(list, B, z, g, s, x, v)
    BY <1>12, <1>15, TornPlace DEF Tearing
  <2> QED BY <1>1, <1>4, <1>10, <2>1 DEF TornAt
<1>16. CASE main.at \in {"toPrev", "nextBack"}
  <2>1. AtToPrev(list, B) => AtToPrev(list, B)' BY <1>1, <1>3, <1>8, <1>9 DEF AtToPrev
  <2>2. AtNextBack(list, B) => AtNextBack(list, B)'
    BY <1>1, <1>3, <1>4, <1>8 DEF AtNextBack
  <2> QED BY <1>3, <1>12, <1>16, <2>1, <2>2 DEF Place
<1> QED BY <1>12, <1>13, <1>14, <1>15, <1>16 DEF Place, Tearing

LEMMA PreemptedStays ==
  ASSUME Memory, PreemptedInv, [PreemptedNext]_preemptedVars
  PROVE  PreemptedInv'
<1>1. CASE \E size \in HandlerSizes : HandlerMalloc(size) BY <1>1, PreemptedMalloc
<1>2. CASE HandlerFree BY <1>2, PreemptedFree
<1>3. CASE \E size \in Sizes : CallMalloc(size) BY <1>3, PreemptedCallMalloc
<1>4. CASE \E p \in DOMAIN owned : CallFree(p) BY <1>4, PreemptedCallFree
<1>5. CASE MallocStep
  <2>1. CASE exposed
    <3>1. exposed' = exposed
      BY <1>5 DEF MallocStep, Look, Cut, Relink, Shrink, Link, MarkAllocated, Keep
    <3> QED BY <2>1, <3>1 DEF PreemptedInv
  <2>2. CASE ~exposed
    BY <1>5, <2>2, PreemptedLook, PreemptedCut, PreemptedRelink, PreemptedShrink,
       PreemptedLink, PreemptedMarkAllocated DEF MallocStep
  <2> QED BY <2>1, <2>2
<1>6. CASE FreeStep
  <2>1. CASE exposed
    <3>1. exposed' = exposed
      BY <1>6 DEF FreeStep, Unmark, TestPrev, PrevNext, PrevSize, PrevBack, ToPrev,
                  TestNext, NextSize, NextNext, NextBack, Keep
    <3> QED BY <2>1, <3>1 DEF PreemptedInv
  <2>2. CASE ~exposed
    <3>1. CASE Unmark \/ TestPrev \/ PrevNext \/ PrevSize \/ PrevBack
      BY <2>2, <3>1, PreemptedUnmark, PreemptedTestPrev, PreemptedPrevNext,
         PreemptedPrevSize, PreemptedPrevBack
    <3>2. CASE ToPrev \/ TestNext \/ NextSize \/ NextNext \/ NextBack
      BY <2>2, <3>2, PreemptedToPrev, PreemptedTestNext, PreemptedNextSize,
         PreemptedNextNext, PreemptedNextBack
    <3> QED BY <1>6, <3>1, <3>2 DEF FreeStep
  <2> QED BY <2>1, <2>2
<1>7. CASE UNCHANGED preemptedVars BY <1>7, PreemptedStutter
<1> QED BY <1>1, <1>2, <1>3, <1>4, <1>5, <1>6, <1>7 DEF PreemptedNext

(* Whatever the frames take and give back, memory is at each statement of  *)
(* malloc and free what the invariant says.                                *)
THEOREM PreemptedInvariance == PreemptedSpec => [](Memory /\ PreemptedInv)
<1>1. PreemptedInit => Memory /\ PreemptedInv BY PreemptedStart
<1>2. Memory /\ PreemptedInv /\ [PreemptedNext]_preemptedVars => Memory' /\ PreemptedInv'
  BY MemoryNext, PreemptedStays
<1> QED BY <1>1, <1>2, PTL DEF PreemptedSpec

-----------------------------------------------------------------------------
(* What follows from it                                                    *)
LEMMA ChunksApart ==
  ASSUME NEW list, IsList(list), WellFormed(list), NEW p \in Nat, NEW q \in Nat, p # q,
         p - ChunkHeader \in DOMAIN list, q - ChunkHeader \in DOMAIN list,
         NEW m \in Nat, m <= list[p - ChunkHeader].size,
         NEW n \in Nat, n <= list[q - ChunkHeader].size
  PROVE  Apart(p, m, q, n)
<1>1. PICK c, d : c = p - ChunkHeader /\ d = q - ChunkHeader OBVIOUS
<1>2. c # d /\ c \in DOMAIN list /\ d \in DOMAIN list BY <1>1, HeapAssumption
<1>3. ChunkEnd(list, c) <= d \/ ChunkEnd(list, d) <= c BY <1>2, Disjoint
<1>4. c \in Nat /\ d \in Nat /\ list[c].size \in Nat /\ list[d].size \in Nat
  BY <1>2, HeaderTypes
<1>5. /\ ChunkEnd(list, c) = p + list[c].size /\ ChunkEnd(list, d) = q + list[d].size
  BY <1>1, <1>4, HeapAssumption DEF ChunkEnd
<1>6. m <= list[c].size /\ n <= list[d].size BY <1>1
<1>7. p + m <= d \/ q + n <= c BY <1>3, <1>4, <1>5, <1>6
<1> QED BY <1>1, <1>7 DEF Apart

LEMMA InvApart == PreemptedInv => BlocksApart
<1> SUFFICES ASSUME PreemptedInv, ~exposed
             PROVE  /\ \A p, q \in DOMAIN owned : p # q => Apart(p, owned[p], q, owned[q])
                    /\ \A i, j \in DOMAIN held :
                         i # j => Apart(held[i].pointer, held[i].size, held[j].pointer, held[j].size)
                    /\ \A p \in DOMAIN owned : \A i \in DOMAIN held :
                         Apart(p, owned[p], held[i].pointer, held[i].size)
  BY DEF BlocksApart
<1>1. PICK list, B : Books(list) BY DEF PreemptedInv, Sound
<1>2. IsList(list) /\ WellFormed(list) /\ Kernel \subseteq DOMAIN list /\ Kernel \cap Handed = {}
  BY <1>1 DEF Books
<1>3. ASSUME NEW p \in DOMAIN owned
      PROVE  /\ p \in Nat /\ owned[p] \in Nat /\ p - ChunkHeader \in DOMAIN list
             /\ owned[p] <= list[p - ChunkHeader].size /\ p - ChunkHeader \in Kernel
  BY <1>1, <1>2 DEF Books, Kernel
<1>4. ASSUME NEW i \in DOMAIN held
      PROVE  /\ held[i].pointer \in Nat /\ held[i].size \in Nat
             /\ held[i].pointer - ChunkHeader \in DOMAIN list
             /\ held[i].size <= list[held[i].pointer - ChunkHeader].size
             /\ held[i].pointer - ChunkHeader \in Handed
  BY <1>1, HandedChunk DEF Books
<1>5. ASSUME NEW p \in DOMAIN owned, NEW q \in DOMAIN owned, p # q
      PROVE  Apart(p, owned[p], q, owned[q])
  BY <1>2, <1>3, <1>5, ChunksApart
<1>6. ASSUME NEW i \in DOMAIN held, NEW j \in DOMAIN held, i # j
      PROVE  Apart(held[i].pointer, held[i].size, held[j].pointer, held[j].size)
  <2>1. held[i].pointer # held[j].pointer BY <1>1, <1>6 DEF Books
  <2> QED BY <1>2, <1>4, <1>6, <2>1, ChunksApart
<1>7. ASSUME NEW p \in DOMAIN owned, NEW i \in DOMAIN held
      PROVE  Apart(p, owned[p], held[i].pointer, held[i].size)
  <2>1. p # held[i].pointer BY <1>2, <1>3, <1>4
  <2> QED BY <1>2, <1>3, <1>4, <2>1, ChunksApart
<1> QED BY <1>5, <1>6, <1>7

LEMMA InvRest == Memory /\ PreemptedInv => RestConsistent
<1> SUFFICES ASSUME Memory, PreemptedInv, main.at = "idle", held = <<>>, ~exposed
             PROVE  ListConsistent /\ Coalesced /\ OwnersKnown
  BY DEF RestConsistent
<1>1. PICK list, B :
        /\ Books(list) /\ CoalescedAt(list, Excused(B)) /\ Place(list, B)
        /\ IsList(list) /\ WellFormed(list)
        /\ \A d \in DOMAIN list : list[d].allocated <=> d \in Kernel
        /\ Kernel \subseteq DOMAIN list
  BY Alone
<1>2. chunks = list /\ B = 0 BY <1>1 DEF Place
<1>3. Excused(B) = {0} BY <1>2 DEF Excused
<1>4. Kernel = {p - ChunkHeader : p \in DOMAIN owned} BY DEF Kernel
<1>5. ListConsistent BY <1>1, <1>2, PreemptedAssumption DEF ListConsistent, Memory
<1>6. Coalesced
  <2>1. CoalescedAt(chunks, {0}) BY <1>1, <1>2, <1>3
  <2> QED BY <2>1 DEF Coalesced, CoalescedAt
<1>7. OwnersKnown
  <2>1. ASSUME NEW c \in DOMAIN chunks, chunks[c].allocated
        PROVE  c + ChunkHeader \in DOMAIN owned
    <3>1. PICK p \in DOMAIN owned : c = p - ChunkHeader BY <1>1, <1>2, <1>4, <2>1
    <3>2. p \in Nat BY <1>1 DEF Books
    <3>3. c + ChunkHeader = p BY <3>1, <3>2, HeapAssumption
    <3> QED BY <3>3
  <2>2. ASSUME NEW p \in DOMAIN owned
        PROVE  /\ p - ChunkHeader \in DOMAIN chunks /\ chunks[p - ChunkHeader].allocated
               /\ chunks[p - ChunkHeader].size >= owned[p]
    <3>1. p - ChunkHeader \in DOMAIN list /\ list[p - ChunkHeader].allocated
      BY <1>1, <1>4
    <3>2. owned[p] \in Nat /\ owned[p] <= list[p - ChunkHeader].size BY <1>1 DEF Books
    <3>3. list[p - ChunkHeader].size \in Nat BY <1>1, <3>1, HeaderTypes
    <3> QED BY <1>2, <3>1, <3>2, <3>3
  <2> QED BY <2>1, <2>2 DEF OwnersKnown
<1> QED BY <1>5, <1>6, <1>7

(* The pointers that kernelMain follows lead to headers,                   *)
LEMMA FollowsLive ==
  ASSUME PreemptedInv, ~exposed, held = <<>>, main.at # "idle"
  PROVE  Live(Follows)
<1>1. PICK list, B :
        /\ Books(list) /\ CoalescedAt(list, Excused(B)) /\ Place(list, B)
        /\ IsList(list) /\ WellFormed(list)
        /\ \A d \in DOMAIN list : list[d].allocated <=> d \in Kernel
        /\ Kernel \subseteq DOMAIN list
  BY Alone
<1>2. ASSUME NEW a \in DOMAIN chunks
      PROVE  NextOf(a) = {chunks[a].next} /\ PrevOf(a) = {chunks[a].prev}
  <2>1. DOMAIN chunks \cap {a} = {a} BY <1>2
  <2> QED BY <2>1 DEF NextOf, PrevOf
<1>3. ASSUME NEW a \in DOMAIN list
      PROVE  /\ list[a].next = 0 \/ list[a].next \in DOMAIN list
             /\ list[a].prev = 0 \/ list[a].prev \in DOMAIN list
  BY <1>1, <1>3, Links
<1>4. CASE main.at \in {"unmark", "look", "cut", "mark"}
  <2>1. CASE main.at = "unmark"
    <3>1. chunks = list BY <1>1, <2>1 DEF Place, AtUnmark
    <3>2. current \in Kernel BY <2>1 DEF Kernel
    <3> QED BY <1>1, <2>1, <3>1, <3>2 DEF Follows, Live
  <2>2. CASE main.at = "look"
    <3>1. AtLook(list, B) BY <1>1, <2>2 DEF Place
    <3>2. Follows = {current} \ {0} BY <2>2 DEF Follows
    <3> QED BY <1>1, <3>1, <3>2 DEF AtLook, Anchored, Live
  <2>3. CASE main.at \in {"cut", "mark"}
    <3>1. chunks = list /\ Anchored(list, current) BY <1>1, <2>3 DEF Place, AtCut, AtMark
    <3>2. Follows = {current} BY <2>3 DEF Follows
    <3> QED BY <3>1, <3>2 DEF Anchored, Live
  <2> QED BY <1>4, <2>1, <2>2, <2>3
<1>5. CASE main.at \in {"testPrev", "prevNext", "testNext", "nextSize"}
  <2>1. /\ chunks = list /\ current \in DOMAIN list
        /\ main.at = "prevNext" => list[current].prev # 0
        /\ main.at = "nextSize" => list[current].next # 0
    BY <1>1, <1>5 DEF Place, AtTestPrev, AtPrevNext, AtTestNext, AtNextSize, Anchored
  <2>2. NextOf(current) = {list[current].next} /\ PrevOf(current) = {list[current].prev}
    BY <1>2, <2>1
  <2>3. /\ list[current].next = 0 \/ list[current].next \in DOMAIN list
        /\ list[current].prev = 0 \/ list[current].prev \in DOMAIN list
    BY <1>3, <2>1
  <2> QED BY <1>5, <2>1, <2>2, <2>3 DEF Follows, Live
<1>6. CASE main.at \in {"relink", "shrink", "link", "nextNext"}
  <2>1. PICK z, g, s, x, v :
          /\ Torn(list, z, g, s, x, v) /\ z = current
          /\ main.at = "relink" => g = Temp
          /\ main.at = "nextNext" => chunks[current].next = g
    <3>1. CASE main.at = "relink" BY <1>1, <3>1 DEF Place, AtRelink
    <3>2. CASE main.at = "shrink" BY <1>1, <3>2 DEF Place, AtShrink
    <3>3. CASE main.at = "link" BY <1>1, <3>3 DEF Place, AtLink
    <3>4. CASE main.at = "nextNext" BY <1>1, <3>4 DEF Place, AtNextNext
    <3> QED BY <1>6, <3>1, <3>2, <3>3, <3>4
  <2>2. /\ g \in DOMAIN chunks /\ z \in DOMAIN chunks
        /\ chunks[g].next = 0 \/ chunks[g].next \in DOMAIN chunks
    <3>1. DOMAIN chunks = DOMAIN list \cup {g} /\ chunks[g].next = list[z].next /\ z \in DOMAIN list
      BY <2>1 DEF Torn, Anchored
    <3> QED BY <1>3, <3>1
  <2>3. NextOf(g) = {chunks[g].next} /\ NextOf(z) = {chunks[z].next} BY <1>2, <2>2
  <2> QED BY <1>6, <2>1, <2>2, <2>3 DEF Follows, Live
<1>7. CASE main.at \in {"prevSize", "prevBack"}
  <2>1. PICK z, g, s, x, v :
          Torn(list, z, g, s, x, v) /\ z = chunks[current].prev /\ g = current
    <3>1. CASE main.at = "prevSize" BY <1>1, <3>1 DEF Place, AtPrevSize
    <3>2. CASE main.at = "prevBack" BY <1>1, <3>2 DEF Place, AtPrevBack
    <3> QED BY <1>7, <3>1, <3>2
  <2>2. /\ g \in DOMAIN chunks /\ z \in DOMAIN chunks
        /\ chunks[g].next = 0 \/ chunks[g].next \in DOMAIN chunks
    <3>1. DOMAIN chunks = DOMAIN list \cup {g} /\ chunks[g].next = list[z].next /\ z \in DOMAIN list
      BY <2>1 DEF Torn, Anchored
    <3> QED BY <1>3, <3>1
  <2>3. NextOf(g) = {chunks[g].next} /\ PrevOf(g) = {z} BY <1>2, <2>1, <2>2
  <2> QED BY <1>7, <2>1, <2>2, <2>3 DEF Follows, Live
<1>8. CASE main.at = "toPrev"
  <2>1. current \in DOMAIN chunks BY <1>1, <1>8 DEF Place, AtToPrev
  <2> QED BY <1>8, <2>1 DEF Follows, Live
<1>9. CASE main.at = "nextBack"
  <2>1. AtNextBack(list, B) BY <1>1, <1>9 DEF Place
  <2>2. /\ current \in DOMAIN chunks /\ current \in DOMAIN list /\ DOMAIN chunks = DOMAIN list
        /\ chunks[current] = list[current]
    BY <2>1 DEF AtNextBack, Anchored
  <2>3. NextOf(current) = {list[current].next} BY <1>2, <2>2
  <2> QED BY <1>3, <1>9, <2>2, <2>3 DEF Follows, Live
<1> QED BY <1>1, <1>4, <1>5, <1>6, <1>7, <1>8, <1>9 DEF Place

(* and so do those in and around the handler's last buffer.                *)
LEMMA LastLinked ==
  ASSUME PreemptedInv, ~exposed, held # <<>>
  PROVE  Linked(Last(held).pointer - ChunkHeader)
<1>1. PICK list, B : Sound(list, B) BY DEF PreemptedInv
<1>2. Books(list) /\ Place(list, B) BY <1>1 DEF Sound
<1>3. PICK c : c = Last(held).pointer - ChunkHeader OBVIOUS
<1>4. c \in DOMAIN list /\ c \in Handed
  <2>1. held \in Seq(Buffer) BY <1>2 DEF Books, Buffer
  <2>2. Len(held) \in DOMAIN held BY <2>1, EmptySeq, LenProperties
  <2>3. Last(held) = held[Len(held)] BY DEF Last
  <2> QED BY <1>2, <1>3, <2>2, <2>3, HandedChunk
<1>5. CASE chunks = list BY <1>2, <1>3, <1>4, <1>5, PlainLinked
<1>6. CASE main.at \in Tearing
  <2>1. PICK z, g, s, x, v : Torn(list, z, g, s, x, v)
    BY <1>2, <1>6, TornPlace DEF Tearing, TornAt
  <2> QED BY <1>2, <1>3, <1>4, <2>1, TornApart
<1>7. CASE AtToPrev(list, B) BY <1>2, <1>3, <1>4, <1>7, ToPrevLinked
<1>8. CASE AtNextBack(list, B) BY <1>2, <1>3, <1>4, <1>8, NextBackApart
<1> QED BY <1>2, <1>5, <1>6, <1>7, <1>8, Places

-----------------------------------------------------------------------------
(* The theorems                                                            *)
(* Wherever malloc and free of kernelMain are interrupted by frames that   *)
(* take and give back buffers, the list is in order once both are done, if *)
(* no frame was given a chunk that was changing.                           *)
THEOREM ListSurvivesFrames == PreemptedSpec => []RestConsistent
<1>1. Memory /\ PreemptedInv => RestConsistent BY InvRest
<1> QED BY <1>1, PreemptedInvariance, PTL

(* Also in the middle of a malloc or a free, the blocks of kernelMain and  *)
(* the buffers of the handler share no byte.                               *)
THEOREM BlocksStayApart == PreemptedSpec => []BlocksApart
<1>1. Memory /\ PreemptedInv => BlocksApart BY InvApart
<1> QED BY <1>1, PreemptedInvariance, PTL

(* No pointer dangles that kernelMain has read before an interrupt and     *)
(* follows behind it, or that the handler's free finds in a list that      *)
(* kernelMain is half through with.                                        *)
THEOREM PointersStayLive == PreemptedSpec => []PointersLead
<1>1. Memory /\ PreemptedInv => PointersLead
  BY FollowsLive, LastLinked DEF PointersLead
<1> QED BY <1>1, PreemptedInvariance, PTL

-----------------------------------------------------------------------------
(* The search of malloc                                                    *)
(* How far the loop has come: up to here there is no room.                 *)
Passed == IF current = 0 THEN HeapEnd ELSE current

(* The bytes that a chunk needs to be found, its header with them. *)
Needed == ChunkHeader + main.size + 1

(* Chunk k of kernelMain has a byte in common with the ones needed from a. *)
InTheWay(k, a, n) == k < a + n /\ a < k + ChunkHeader + chunks[k].size

(* Wherever there would be room in the part of the heap that the loop has  *)
(* passed, a block of kernelMain is in the way, which no handler gives     *)
(* back.                                                                   *)
Searched ==
  ~exposed /\ main.at = "look" =>
    \A a \in Nat : HeapStart <= a /\ a + Needed <= Passed =>
      \E k \in Kernel : InTheWay(k, a, Needed)

(* The handler leaves the blocks of kernelMain where they are, and as      *)
(* large as they are.                                                      *)
LEMMA HandlerKeepsKernel ==
  ASSUME PreemptedInv, ~exposed, main.at = "look",
         (\E size \in HandlerSizes : HandlerMalloc(size)) \/ HandlerFree
  PROVE  /\ main' = main /\ Kernel' = Kernel
         /\ \A k \in Kernel : chunks'[k].size = chunks[k].size
<1>1. PICK list, B : Sound(list, B) BY DEF PreemptedInv
<1>2. Books(list) /\ CoalescedAt(list, Excused(B)) /\ Place(list, B) BY <1>1 DEF Sound
<1>3. chunks = list BY <1>2 DEF Place, AtLook
<1>4. \A k \in Kernel : k \in DOMAIN list /\ list[k].allocated BY <1>2, Zenon DEF Books
<1>5. PICK E : E = Excused(B) OBVIOUS
<1>6. CoalescedAt(list, E) BY <1>2, <1>5
<1>7. CASE \E size \in HandlerSizes : HandlerMalloc(size)
  <2>1. PICK size \in HandlerSizes : HandlerMalloc(size) BY <1>7
  <2>2. PICK c \in DOMAIN chunks :
          /\ Finds(c, size) /\ chunks' = Granted(c, size)
          /\ held' = Append(held, [pointer |-> c + ChunkHeader, size |-> size])
    BY <2>1 DEF HandlerMalloc
  <2>3. size \in Nat /\ owned' = owned /\ main' = main
    BY <2>1, PreemptedAssumption DEF HandlerMalloc
  <2>4. PICK next : /\ HandlerStep(list, next, {}, {}) /\ GivenTo(next, list, c, size)
                    /\ c \notin Kernel
    BY <1>2, <1>3, <1>6, <2>2, <2>3, PlainMalloc
  <2>5. chunks' = next /\ Kernel' = Kernel BY <1>3, <2>4 DEF HandlerStep
  <2>6. \A k \in Kernel : next[k].size = list[k].size BY <1>4, <2>4 DEF GivenTo
  <2> QED BY <1>3, <2>3, <2>5, <2>6
<1>8. CASE HandlerFree
  <2>1. PICK c : c = Last(held).pointer - ChunkHeader OBVIOUS
  <2>2. /\ held # <<>> /\ chunks' = Freed(chunks, c) /\ held' = Front(held)
        /\ owned' = owned /\ main' = main
    BY <1>8, <2>1 DEF HandlerFree
  <2>3. PICK next, c1 : /\ HandlerStep(list, next, {}, {}) /\ FreedFrom(next, list, c, c1)
                        /\ c \notin Kernel
    BY <1>2, <1>3, <1>6, <2>1, <2>2, PlainFree
  <2>4. chunks' = next /\ Kernel' = Kernel BY <1>3, <2>3 DEF HandlerStep
  <2>5. c1 \notin Kernel BY <1>4, <2>3 DEF FreedFrom
  <2>6. \A k \in Kernel : next[k].size = list[k].size
    BY <1>4, <2>3, <2>5 DEF FreedFrom
  <2> QED BY <1>3, <2>2, <2>4, <2>6
<1> QED BY <1>7, <1>8

(* The chunk the loop leaves behind is kernelMain's, or it is too small    *)
(* and lies behind one of kernelMain's.                                    *)
LEMMA LookSearches ==
  ASSUME PreemptedInv, Searched, Look, ~exposed
  PROVE  Searched'
<1>1. /\ held = <<>> /\ main.at = "look" /\ chunks' = chunks /\ owned' = owned
      /\ exposed' = exposed
  BY DEF Look, At, Keep
<1> SUFFICES ASSUME main'.at = "look" PROVE Searched'
  BY DEF Searched
<1>2. /\ current # 0 /\ ~(chunks[current].size > main.size /\ ~chunks[current].allocated)
      /\ current' = chunks[current].next /\ main'.size = main.size
  BY DEF Look, GoTo, Idle, current
<1>3. PICK list, B :
        /\ Books(list) /\ CoalescedAt(list, Excused(B)) /\ Place(list, B)
        /\ main.size \in Nat /\ IsList(list) /\ WellFormed(list)
        /\ \A d \in DOMAIN list : list[d].allocated <=> d \in Kernel
        /\ Kernel \subseteq DOMAIN list
  BY <1>1, Alone
<1>4. chunks = list /\ (current \in Kernel \/ Anchored(list, current))
  BY <1>1, <1>2, <1>3 DEF Place, AtLook
<1>5. PICK c : c = current OBVIOUS
<1>6. c \in DOMAIN list /\ (list[c].allocated <=> c \in Kernel)
  BY <1>3, <1>4, <1>5 DEF Anchored
<1>7. PICK n : n = Needed OBVIOUS
<1>8. /\ c \in Nat /\ list[c].size \in Nat /\ n \in Nat /\ n = ChunkHeader + main.size + 1
      /\ main.size \in Nat /\ ChunkHeader \in Nat \ {0}
  BY <1>3, <1>6, <1>7, HeaderTypes, HeapAssumption DEF Needed
<1>9. Kernel' = Kernel /\ Needed' = n /\ Passed = c
  BY <1>1, <1>2, <1>5, <1>7 DEF Kernel, Needed, Passed
<1>10. PICK e : e = Passed' OBVIOUS
<1>11. e = c + ChunkHeader + list[c].size
  <2>1. list[c].next = (IF ChunkEnd(list, c) = HeapEnd THEN 0 ELSE ChunkEnd(list, c))
    BY <1>3, <1>6 DEF WellFormed, LinkedForward
  <2>2. e = IF list[c].next = 0 THEN HeapEnd ELSE list[c].next
    BY <1>2, <1>4, <1>5, <1>10 DEF Passed
  <2>3. ChunkEnd(list, c) # 0 BY <1>8 DEF ChunkEnd
  <2> QED BY <2>1, <2>2, <2>3 DEF ChunkEnd
<1> SUFFICES ASSUME NEW a \in Nat, HeapStart <= a, a + n <= e
             PROVE  \E k \in Kernel : k < a + n /\ a < k + ChunkHeader + list[k].size
  BY <1>1, <1>4, <1>9, <1>10 DEF Searched, InTheWay
<1>12. CASE a + n <= c
  BY <1>1, <1>4, <1>7, <1>9, <1>12 DEF Searched, InTheWay
<1>13. CASE c < a + n /\ list[c].allocated
  BY <1>6, <1>8, <1>11, <1>13
<1>14. CASE c < a + n /\ ~list[c].allocated
  <2>1. list[c].size <= main.size BY <1>2, <1>4, <1>5, <1>8, <1>14
  <2>2. a < c BY <1>8, <1>11, <2>1
  <2>3. HeapStart < c /\ HeapStart \in Nat BY <1>8, <2>2, HeapAssumption
  <2>4. PICK k : k = list[c].prev OBVIOUS
  <2>5. k \in Kernel BY <1>4, <1>5, <1>6, <1>14, <2>3, <2>4 DEF Anchored
  <2>6. k \in DOMAIN list /\ list[k].next = c /\ c # 0
    BY <1>3, <1>6, <1>8, <2>3, <2>4 DEF WellFormed, LinkedBack
  <2>7. ChunkEnd(list, k) = c BY <1>3, <2>6 DEF WellFormed, LinkedForward
  <2>8. k \in Nat /\ list[k].size \in Nat BY <1>3, <2>6, HeaderTypes
  <2>9. k + ChunkHeader + list[k].size = c BY <2>7 DEF ChunkEnd
  <2> QED BY <1>8, <1>14, <2>2, <2>5, <2>8, <2>9
<1> QED BY <1>8, <1>12, <1>13, <1>14

(* Only the call of malloc and the loop itself lead into the loop.         *)
LEMMA StatementsBehind ==
  /\ Cut \/ Relink \/ Shrink \/ Link \/ MarkAllocated => main'.at # "look" /\ main.at # "look"
  /\ FreeStep => main'.at # "look" /\ main.at # "look"
<1>1. Cut => main'.at # "look" /\ main.at # "look" BY DEF Cut, At, GoTo
<1>2. Relink => main'.at # "look" /\ main.at # "look" BY DEF Relink, At, GoTo
<1>3. Shrink \/ Link => main'.at # "look" /\ main.at # "look" BY DEF Shrink, Link, At, GoTo
<1>4. MarkAllocated => main'.at # "look" /\ main.at # "look" BY DEF MarkAllocated, At, Idle
<1>5. Unmark \/ TestPrev => main'.at # "look" /\ main.at # "look"
  <2>1. Unmark => main'.at # "look" /\ main.at # "look" BY DEF Unmark, At, GoTo
  <2>2. TestPrev => \E where \in {"prevNext", "testNext"} : GoTo(where) BY Zenon DEF TestPrev
  <2>3. TestPrev => main.at # "look" BY DEF TestPrev, At
  <2> QED BY <2>1, <2>2, <2>3 DEF GoTo
<1>6. PrevNext \/ PrevSize \/ PrevBack => main'.at # "look" /\ main.at # "look"
  BY DEF PrevNext, PrevSize, PrevBack, At, GoTo
<1>7. ToPrev \/ TestNext => main'.at # "look" /\ main.at # "look"
  BY DEF ToPrev, TestNext, At, GoTo, Idle
<1>8. NextSize \/ NextNext \/ NextBack => main'.at # "look" /\ main.at # "look"
  BY DEF NextSize, NextNext, NextBack, At, GoTo, Idle
<1> QED BY <1>1, <1>2, <1>3, <1>4, <1>5, <1>6, <1>7, <1>8 DEF FreeStep

LEMMA SearchedStays ==
  ASSUME PreemptedInv, Searched, [PreemptedNext]_preemptedVars
  PROVE  Searched'
<1> SUFFICES ASSUME ~exposed', main'.at = "look" PROVE Searched'
  BY DEF Searched
<1>1. CASE \E size \in Sizes : CallMalloc(size)
  <2>1. PICK size \in Sizes : CallMalloc(size) BY <1>1
  <2>2. current' = HeapStart /\ main'.size = size /\ size \in Nat
    BY <2>1, HeapAssumption DEF CallMalloc, current
  <2>3. Passed' = HeapStart /\ Needed' = ChunkHeader + size + 1
    BY <2>2, HeapAssumption DEF Passed, Needed
  <2>4. \A a \in Nat : ~(HeapStart <= a /\ a + Needed' <= Passed')
    BY <2>2, <2>3, HeapAssumption
  <2> QED BY <2>4 DEF Searched
<1>2. CASE \E p \in DOMAIN owned : CallFree(p)
  BY <1>2 DEF CallFree
<1>3. CASE MallocStep
  <2>1. ~(Cut \/ Relink \/ Shrink \/ Link \/ MarkAllocated)
    BY StatementsBehind
  <2>3. Look BY <1>3, <2>1 DEF MallocStep
  <2>2. ~exposed BY <2>3 DEF Look, Keep
  <2> QED BY <2>2, <2>3, LookSearches
<1>4. CASE FreeStep
  BY <1>4, StatementsBehind
<1>5. CASE (\E size \in HandlerSizes : HandlerMalloc(size)) \/ HandlerFree
  <2>1. ~exposed /\ main' = main
    <3>1. CASE \E size \in HandlerSizes : HandlerMalloc(size)
      <4>1. PICK size \in HandlerSizes : HandlerMalloc(size) BY <3>1
      <4>2. \E c \in DOMAIN chunks : exposed' = (exposed \/ c \in Changing)
        BY <4>1 DEF HandlerMalloc
      <4>3. main' = main BY <4>1 DEF HandlerMalloc
      <4> QED BY <4>2, <4>3, Zenon
    <3>2. CASE HandlerFree
      BY <3>2 DEF HandlerFree
    <3> QED BY <1>5, <3>1, <3>2
  <2>2. main.at = "look" BY <2>1
  <2>3. Kernel' = Kernel /\ \A k \in Kernel : chunks'[k].size = chunks[k].size
    BY <1>5, <2>1, <2>2, HandlerKeepsKernel
  <2>4. Passed' = Passed /\ Needed' = Needed BY <2>1 DEF Passed, Needed, current
  <2>5. \A a \in Nat : HeapStart <= a /\ a + Needed <= Passed =>
          \E k \in Kernel : InTheWay(k, a, Needed)
    BY <2>1, <2>2 DEF Searched
  <2> QED BY <2>3, <2>4, <2>5 DEF Searched, InTheWay
<1>6. CASE UNCHANGED preemptedVars
  <2>1. /\ main' = main /\ chunks' = chunks /\ owned' = owned /\ exposed' = exposed
    BY <1>6 DEF preemptedVars, vars
  <2>2. Kernel' = Kernel /\ Passed' = Passed /\ Needed' = Needed
    BY <2>1 DEF Kernel, Passed, Needed, current
  <2> QED BY <2>1, <2>2 DEF Searched, InTheWay
<1> QED BY <1>1, <1>2, <1>3, <1>4, <1>5, <1>6 DEF PreemptedNext

(* At the end of the heap the loop has passed everything: a chunk that     *)
(* fits would have a block of kernelMain in the way.                       *)
LEMMA RefusedFull ==
  ASSUME PreemptedInv, Searched, [PreemptedNext]_preemptedVars,
         main.at = "look", main'.at = "idle", ~exposed
  PROVE  Fits(main.size) = {}
<1>1. Look
  <2>1. ~UNCHANGED preemptedVars /\ main' # main BY DEF preemptedVars
  <2>2. ~HandlerFree /\ ~\E size \in HandlerSizes : HandlerMalloc(size)
    BY <2>1 DEF HandlerFree, HandlerMalloc
  <2>3. ~\E size \in Sizes : CallMalloc(size) BY DEF CallMalloc
  <2>4. ~\E p \in DOMAIN owned : CallFree(p) BY DEF CallFree
  <2>5. ~FreeStep /\ ~(Cut \/ Relink \/ Shrink \/ Link \/ MarkAllocated)
    BY StatementsBehind
  <2> QED BY <2>1, <2>2, <2>3, <2>4, <2>5 DEF PreemptedNext, MallocStep
<1>2. held = <<>> /\ current = 0 BY <1>1 DEF Look, At, GoTo
<1>3. PICK list, B :
        /\ Books(list) /\ CoalescedAt(list, Excused(B)) /\ Place(list, B)
        /\ main.size \in Nat /\ IsList(list) /\ WellFormed(list)
        /\ \A d \in DOMAIN list : list[d].allocated <=> d \in Kernel
        /\ Kernel \subseteq DOMAIN list
  BY <1>2, Alone
<1>4. chunks = list BY <1>3 DEF Place, AtLook
<1> SUFFICES ASSUME NEW c \in Fits(main.size) PROVE FALSE
  OBVIOUS
<1>5. c \in DOMAIN list /\ list[c].size > main.size /\ ~list[c].allocated
  BY <1>4 DEF Fits
<1>6. PICK n : n = Needed OBVIOUS
<1>7. /\ c \in Nat /\ HeapStart <= c /\ list[c].size \in Nat
      /\ c + ChunkHeader + list[c].size <= HeapEnd
      /\ ChunkHeader \in Nat \ {0} /\ n = ChunkHeader + main.size + 1 /\ HeapEnd \in Nat
  BY <1>3, <1>5, <1>6, HeaderTypes, Links, HeapAssumption
     DEF WellFormed, LinkedForward, ChunkEnd, Needed, HeapEnd, IsList
<1>8. Passed = HeapEnd BY <1>2 DEF Passed
<1>9. c + n <= c + ChunkHeader + list[c].size BY <1>3, <1>5, <1>7
<1>10. c + n <= HeapEnd BY <1>3, <1>7, <1>9
<1>11. PICK k \in Kernel : k < c + n /\ c < k + ChunkHeader + list[k].size
  BY <1>4, <1>6, <1>7, <1>8, <1>10 DEF Searched, InTheWay
<1>12. k \in DOMAIN list /\ k # c /\ k \in Nat /\ list[k].size \in Nat
  BY <1>3, <1>5, <1>11, HeaderTypes
<1>13. ChunkEnd(list, c) <= k \/ ChunkEnd(list, k) <= c
  BY <1>3, <1>5, <1>12, Disjoint
<1> QED BY <1>3, <1>7, <1>9, <1>11, <1>12, <1>13 DEF ChunkEnd

(* A malloc of kernelMain that frames have interrupted returns 0 only if   *)
(* no chunk fits at that moment: what the handler has taken and given back *)
(* meanwhile hides no room from it.                                        *)
THEOREM RefusesOnlyWhenFull == PreemptedSpec => RefusedOnlyWhenFull
<1>1. PreemptedInit => Searched BY DEF PreemptedInit, Idle, Searched
<1>2. PreemptedInv /\ Searched /\ [PreemptedNext]_preemptedVars => Searched'
  BY SearchedStays
<1>3. PreemptedInv /\ Searched /\ [PreemptedNext]_preemptedVars =>
        [main.at = "look" /\ main'.at = "idle" /\ ~exposed => Fits(main.size) = {}]_preemptedVars
  BY RefusedFull
<1> QED BY <1>1, <1>2, <1>3, PreemptedInvariance, PTL DEF PreemptedSpec, RefusedOnlyWhenFull

=============================================================================
