------------------------- MODULE amd_am79c973Proofs -------------------------
(***************************************************************************)
(* The two rings, for every size of them and every frame size: the driver  *)
(* reads what the card accepted, in order and once, and the card transmits *)
(* what Send was given, in order and once.                                 *)
(*                                                                         *)
(* Between the driver's index and the card's lie the descriptors that wait *)
(* for the driver, and nowhere else; their good frames continue, one by    *)
(* one, the numbers of those that were handed up.  On the send ring the    *)
(* two change places: what waits for the card lies from the card's index   *)
(* on, and a Send that goes on has the place behind it.                    *)
(***************************************************************************)
EXTENDS amd_am79c973, FiniteSetTheorems, TLAPS

(* Those that wait for the driver and hold a whole frame.                  *)
Good == {d \in Unread : recvDescr[d].ok}

(* The handler has handed a frame up and not given its descriptor back.    *)
Handling == pc["irq"] \in {"take", "load", "store", "copy", "own", "give"}

(* The good frames that were handed up and whose descriptors were given    *)
(* back.                                                                   *)
Given ==
  Len(handled) - (IF Handling /\ recvDescr[currentRecvBuffer].ok THEN 1 ELSE 0)

(* How far d lies behind r, round the ring, and who is k behind r.         *)
Distance(r, d) == IF r <= d THEN d - r ELSE d - r + N

Place(r, k) == IF r + k < N THEN r + k ELSE r + k - N

(* The good ones the driver meets up to d.                                 *)
UpTo(d) == {e \in Good : Distance(currentRecvBuffer, e) <= Distance(currentRecvBuffer, d)}

-----------------------------------------------------------------------------
(* The inductive invariant                                                 *)

(* What a descriptor of the receive ring may be.                           *)
Descriptor == [own : BOOLEAN, of : Nat, ok : BOOLEAN, answer : BOOLEAN]

(* The types, without the bounds of the model.                             *)
RxTyped ==
  /\ recvDescr \in [Ring -> Descriptor]
  /\ pc = [p \in Callers |-> pc[p]]
  /\ currentRecvBuffer \in Ring /\ cardRecv \in Ring
  /\ handled \in Seq([of : Nat, bytes : Nat]) /\ accepted \in Nat
  /\ recvBuffer \in [Ring -> Nat]

(* What waits for the driver lies between its index and the card's.        *)
UnreadBetween ==
  \E k \in 0..N :
    /\ Unread = {d \in Ring : Distance(currentRecvBuffer, d) < k}
    /\ cardRecv = Place(currentRecvBuffer, k)

(* What is handed up is still on the ring.                                 *)
HandlingUnread == Handling => currentRecvBuffer \in Unread

(* The good ones that wait continue the numbers of those given back,       *)
Numbered == \A d \in Good : recvDescr[d].of = Given + Cardinality(UpTo(d))

(* and there is no other that was accepted.                                *)
Counted == accepted = Given + Cardinality(Good)

(* The frames were handed up in order.                                     *)
HandledInOrder == \A i \in 1..Len(handled) : handled[i].of = i

(* While one frame at a time waits, its buffer has its bytes.              *)
BytesOwn ==
  "crowd" \notin seen =>
    /\ \A d, e \in Unread : d = e
    /\ \A d \in Good : recvBuffer[d] = recvDescr[d].of
    /\ \A i \in 1..Len(handled) : handled[i].bytes = i

IInv ==
  /\ RxTyped /\ UnreadBetween /\ HandlingUnread
  /\ Numbered /\ Counted /\ HandledInOrder /\ BytesOwn

-----------------------------------------------------------------------------
(* The ring                                                                *)

(* The next place is on the ring.                                          *)
LEMMA NextPlace ==
  ASSUME NEW c \in Ring
  PROVE  /\ (c + 1) % N = IF c + 1 < N THEN c + 1 ELSE 0
         /\ (c + 1) % N \in Ring
<1>1. N \in Nat /\ N > 0 /\ c \in Nat /\ c < N
  BY NICAssumption, SMT DEF Ring
<1>2. CASE c + 1 < N
  BY <1>1, <1>2, SMT DEF Ring
<1>3. CASE c + 1 = N
  <2>1. (c + 1) % N = 0
    BY <1>1, <1>3, SMT
  <2> QED
    BY <1>1, <1>3, <2>1, SMT DEF Ring
<1> QED
  BY <1>1, <1>2, <1>3, SMT

(* A part of the ring is finite.                                           *)
LEMMA RingFinite ==
  ASSUME NEW S \in SUBSET Ring
  PROVE  IsFiniteSet(S) /\ Cardinality(S) \in Nat
<1>1. IsFiniteSet(0..(N - 1))
  BY NICAssumption, FS_Interval, SMT
<1> QED
  BY <1>1, FS_Subset, FS_CardinalityType, Zenon DEF Ring

(* The place k behind r is the one at distance k.                          *)
LEMMA PlaceDistance ==
  ASSUME NEW r \in Ring, NEW k \in 0..(N - 1)
  PROVE  Place(r, k) \in Ring /\ \A d \in Ring : d = Place(r, k) <=> Distance(r, d) = k
BY NICAssumption, SMT DEF Ring, Place, Distance

(* Nobody is a whole round away, and only r itself is nowhere behind r.    *)
LEMMA DistanceInRing ==
  ASSUME NEW r \in Ring, NEW d \in Ring
  PROVE  Distance(r, d) \in 0..(N - 1) /\ (Distance(r, d) = 0 <=> d = r)
BY NICAssumption, SMT DEF Ring, Distance

(* Behind the next place everybody is one nearer, and r itself farthest.   *)
LEMMA OneNearer ==
  ASSUME NEW r \in Ring, NEW d \in Ring
  PROVE  Distance((r + 1) % N, d) = IF d = r THEN N - 1 ELSE Distance(r, d) - 1
<1>1. (r + 1) % N = IF r + 1 < N THEN r + 1 ELSE 0
  BY NextPlace
<1> QED
  BY <1>1, NICAssumption, SMT DEF Ring, Distance

(* Places counted from the next one, and the place behind a place.         *)
LEMMA PlaceOfNext ==
  ASSUME NEW r \in Ring
  PROVE  /\ \A k \in 1..N : Place((r + 1) % N, k - 1) = Place(r, k)
         /\ \A k \in 0..(N - 1) : (Place(r, k) + 1) % N = Place(r, k + 1)
<1>1. (r + 1) % N = IF r + 1 < N THEN r + 1 ELSE 0
  BY NextPlace
<1>2. \A k \in 1..N : Place((r + 1) % N, k - 1) = Place(r, k)
  BY <1>1, NICAssumption, SMT DEF Ring, Place
<1>3. ASSUME NEW k \in 0..(N - 1)
      PROVE  (Place(r, k) + 1) % N = Place(r, k + 1)
  <2>1. PICK c \in Ring : c = Place(r, k)
    BY PlaceDistance
  <2>2. (c + 1) % N = IF c + 1 < N THEN c + 1 ELSE 0
    BY NextPlace
  <2>3. c = (IF r + k < N THEN r + k ELSE r + k - N)
    BY <2>1 DEF Place
  <2>4. (IF c + 1 < N THEN c + 1 ELSE 0) = Place(r, k + 1)
    BY <2>3, NICAssumption, SMT DEF Ring, Place
  <2> QED
    BY <2>1, <2>2, <2>4
<1> QED
  BY <1>2, <1>3

-----------------------------------------------------------------------------
(* Steps that leave the receive ring alone                                 *)

(* Nothing the invariant speaks of changes.                                *)
LEMMA Untouched ==
  ASSUME IInv,
         UNCHANGED <<recvDescr, recvBuffer, currentRecvBuffer, cardRecv, accepted, handled>>,
         seen \subseteq seen', pc' = [p \in Callers |-> pc'[p]], Handling' <=> Handling
  PROVE  IInv'
<1>1. Unread' = Unread /\ Good' = Good /\ Given' = Given
  BY Zenon DEF Unread, Good, Given
<1>2. \A d : UpTo(d)' = UpTo(d)
  BY <1>1, Zenon DEF UpTo
<1>3. RxTyped' /\ UnreadBetween' /\ HandlingUnread'
  BY <1>1, Zenon DEF IInv, RxTyped, UnreadBetween, HandlingUnread
<1>4. Numbered' /\ Counted' /\ HandledInOrder'
  BY <1>1, <1>2, Zenon DEF IInv, Numbered, Counted, HandledInOrder
<1>5. BytesOwn'
  BY <1>1, Zenon DEF IInv, BytesOwn
<1> QED
  BY <1>3, <1>4, <1>5 DEF IInv

(* At the start the card has every descriptor.                             *)
LEMMA InitIInv == Init => IInv
<1> SUFFICES ASSUME Init
             PROVE  IInv
  OBVIOUS
<1>1. Unread = {} /\ Good = {}
  BY Zenon DEF Init, Unread, Good
<1>2. ~Handling /\ Given = 0
  <2>1. pc["irq"] = "idle" /\ Len(handled) = 0
    BY SMT DEF Init, Callers
  <2>2. ~Handling
    BY <2>1, SMT DEF Handling
  <2>3. Given = 0 - 0
    BY <2>1, <2>2, Zenon DEF Given
  <2> QED
    BY <2>2, <2>3, SMT
<1>3. RxTyped
  BY NICAssumption, SMT DEF Init, RxTyped, Descriptor, Ring
<1>4. UnreadBetween
  <2>1. 0 \in 0..N /\ cardRecv = Place(currentRecvBuffer, 0)
    BY NICAssumption, SMT DEF Init, Place
  <2>2. \A d \in Ring : ~(Distance(currentRecvBuffer, d) < 0)
    BY <1>3, DistanceInRing, SMT DEF RxTyped
  <2>3. Unread = {d \in Ring : Distance(currentRecvBuffer, d) < 0}
    BY <1>1, <2>2, Zenon
  <2> QED
    BY <2>1, <2>3 DEF UnreadBetween
<1>5. Counted
  BY <1>1, <1>2, FS_EmptySet, SMT DEF Init, Counted
<1>6. HandledInOrder /\ BytesOwn
  BY <1>1, SMT DEF Init, HandledInOrder, BytesOwn
<1> QED
  BY <1>1, <1>2, <1>3, <1>4, <1>5, <1>6, Zenon DEF IInv, HandlingUnread, Numbered

(* A caller that goes on leaves the other one where it is.                 *)
LEMMA Gone ==
  ASSUME NEW p \in Callers, NEW where, pc = [q \in Callers |-> pc[q]], Go(p, where)
  PROVE  /\ pc' = [q \in Callers |-> pc'[q]] /\ pc'[p] = where
         /\ \A q \in Callers \ {p} : pc'[q] = pc[q]
<1>1. pc' = [pc EXCEPT ![p] = where]
  BY DEF Go
<1>2. DOMAIN pc = Callers
  BY Zenon
<1>3. pc' = [q \in Callers |-> IF q = p THEN where ELSE pc[q]]
  BY <1>1, <1>2, SMT
<1> QED
  BY <1>3, Zenon

(* A step of Send leaves the receive ring alone, and its caller in Send or *)
(* behind it.                                                              *)
LEMMA SendStepMoves ==
  ASSUME IInv, NEW p \in Callers, SendStep(p)
  PROVE  /\ UNCHANGED <<recvDescr, recvBuffer, currentRecvBuffer, cardRecv, accepted, handled>>
         /\ seen' = seen
         /\ pc' = [q \in Callers |-> pc'[q]] /\ (Handling' <=> Handling)
<1>1. /\ UNCHANGED <<recvDescr, recvBuffer, currentRecvBuffer, cardRecv, accepted, handled>>
      /\ seen' = seen
  BY Zenon DEF SendStep, TakeDescriptor, LoadIndex, StoreIndex, CopyFrame, HandOver, ring, indices,
               history
<1>2. PICK where : /\ Go(p, where)
                   /\ pc[p] \in {"take", "load", "store", "copy", "own"}
                   /\ p = "irq" => where \in {"load", "store", "copy", "own", "give"}
  <2>1. CASE TakeDescriptor(p)
    BY <2>1, Zenon DEF TakeDescriptor, At
  <2>2. CASE LoadIndex(p)
    BY <2>2, Zenon DEF LoadIndex, At
  <2>3. CASE StoreIndex(p)
    BY <2>3, Zenon DEF StoreIndex, At
  <2>4. CASE CopyFrame(p)
    BY <2>4, Zenon DEF CopyFrame, At
  <2>5. CASE HandOver(p)
    <3>1. Go(p, IF p = "main" THEN "idle" ELSE "give") /\ pc[p] = "own"
      BY <2>5, Zenon DEF HandOver, At
    <3>2. p = "irq" => (IF p = "main" THEN "idle" ELSE "give") = "give"
      BY SMT
    <3> QED
      BY <3>1, <3>2, Zenon
  <2> QED
    BY <2>1, <2>2, <2>3, <2>4, <2>5, Zenon DEF SendStep
<1>3. pc' = [q \in Callers |-> pc'[q]] /\ (Handling' <=> Handling)
  <2>1. pc = [q \in Callers |-> pc[q]]
    BY Zenon DEF IInv, RxTyped
  <2>2. /\ pc' = [q \in Callers |-> pc'[q]] /\ pc'[p] = where
        /\ \A q \in Callers \ {p} : pc'[q] = pc[q]
    BY <1>2, <2>1, Gone, Zenon
  <2>3. CASE p = "irq"
    <3>1. pc["irq"] \in {"take", "load", "store", "copy", "own"}
      BY <1>2, <2>3, SMT
    <3>2. pc'["irq"] \in {"load", "store", "copy", "own", "give"}
      BY <1>2, <2>2, <2>3, SMT
    <3> QED
      BY <2>2, <3>1, <3>2, Zenon DEF Handling
  <2>4. CASE p = "main"
    <3>1. "irq" \in Callers \ {p}
      BY <2>4, SMT DEF Callers
    <3> QED
      BY <2>2, <3>1, Zenon DEF Handling
  <2> QED
    BY <2>2, <2>3, <2>4 DEF Callers
<1> QED
  BY <1>1, <1>3, Zenon

(* Send does not touch the receive ring, in whichever caller.              *)
LEMMA SendStepKeeps ==
  ASSUME IInv, NEW p \in Callers, SendStep(p)
  PROVE  IInv'
BY SendStepMoves, Untouched, Zenon

(* The handler outside its loop, kernelMain's call, and the card's sending. *)
LEMMA OutsideKeeps ==
  ASSUME IInv, StartSend \/ Interrupt \/ DrainOnce \/ Acknowledge \/ Transmit
  PROVE  IInv'
<1>1. UNCHANGED <<recvDescr, recvBuffer, currentRecvBuffer, cardRecv, accepted, handled>>
  BY Zenon DEF StartSend, Interrupt, DrainOnce, Acknowledge, Transmit, ring, indices, history
<1>2. seen \subseteq seen'
  BY Zenon DEF StartSend, Interrupt, DrainOnce, Acknowledge, Transmit, history, Noticed
<1>3. pc = [q \in Callers |-> pc[q]]
  BY Zenon DEF IInv, RxTyped
<1>4. CASE StartSend
  <2>1. pc' = [q \in Callers |-> IF q = "main" THEN "take" ELSE pc[q]]
    BY <1>3, <1>4, Zenon DEF StartSend, Go
  <2>2. pc' = [q \in Callers |-> pc'[q]] /\ pc'["irq"] = pc["irq"]
    BY <2>1, SMT DEF Callers
  <2> QED
    BY <1>1, <1>2, <2>2, Untouched, Zenon DEF Handling
<1>5. CASE Interrupt \/ DrainOnce \/ Acknowledge
  <2>1. PICK where \in {"drain", "ack", "idle"} :
          /\ pc["irq"] \in {"idle", "drain", "ack"}
          /\ pc' = [q \in Callers |-> IF q = "irq" THEN where ELSE pc[q]]
    <3>1. CASE Interrupt
      <4>1. PICK where : /\ pc' = [pc EXCEPT !["irq"] = where]
                         /\ where = IF "RINT" \in csr THEN "drain" ELSE "ack"
        BY <3>1, Zenon DEF Interrupt, Go
      <4> QED
        BY <1>3, <3>1, <4>1, Zenon DEF Interrupt
    <3>2. CASE DrainOnce
      BY <1>3, <3>2, Zenon DEF DrainOnce, Go
    <3>3. CASE Acknowledge
      BY <1>3, <3>3, Zenon DEF Acknowledge, Go
    <3> QED
      BY <1>5, <3>1, <3>2, <3>3
  <2>2. pc' = [q \in Callers |-> pc'[q]] /\ pc'["irq"] = where
    BY <2>1, SMT DEF Callers
  <2>3. ~Handling /\ ~Handling'
    BY <2>1, <2>2, SMT DEF Handling
  <2> QED
    BY <1>1, <1>2, <2>2, <2>3, Untouched, Zenon
<1>6. CASE Transmit
  <2>1. pc' = pc
    BY <1>6, Zenon DEF Transmit
  <2> QED
    BY <1>1, <1>2, <1>3, <2>1, Untouched, Zenon DEF Handling
<1> QED
  BY <1>4, <1>5, <1>6

-----------------------------------------------------------------------------
(* Steps of the receive ring                                               *)

(* The driver's descriptor is the nearest one: no good frame is before it. *)
LEMMA NearestIsFirst ==
  ASSUME IInv, currentRecvBuffer \in Good
  PROVE  recvDescr[currentRecvBuffer].of = Given + 1
<1>1. currentRecvBuffer \in Ring /\ Good \subseteq Ring
  BY Zenon DEF IInv, RxTyped, Good, Unread
<1>2. \A e \in Good :
        Distance(currentRecvBuffer, e) <= Distance(currentRecvBuffer, currentRecvBuffer)
          <=> e = currentRecvBuffer
  <2> SUFFICES ASSUME NEW e \in Good
               PROVE  Distance(currentRecvBuffer, e)
                        <= Distance(currentRecvBuffer, currentRecvBuffer)
                        <=> e = currentRecvBuffer
    OBVIOUS
  <2>1. /\ Distance(currentRecvBuffer, e) \in 0..(N - 1)
        /\ Distance(currentRecvBuffer, e) = 0 <=> e = currentRecvBuffer
        /\ Distance(currentRecvBuffer, currentRecvBuffer) = 0
    BY <1>1, DistanceInRing, Zenon
  <2> QED
    BY <2>1, NICAssumption, SMT
<1>3. UpTo(currentRecvBuffer) = {currentRecvBuffer}
  BY <1>2, Zenon DEF UpTo
<1>4. Cardinality(UpTo(currentRecvBuffer)) = 1
  BY <1>3, FS_Singleton, Zenon
<1> QED
  BY <1>4, Zenon DEF IInv, Numbered

(* What goes up has the next number, and its own bytes if nothing else     *)
(* waited.                                                                 *)
LEMMA HandUpKeeps ==
  ASSUME IInv, HandUp
  PROVE  IInv'
<1> DEFINE r == recvDescr[currentRecvBuffer]
<1>1. /\ pc["irq"] = "drain" /\ ~r.own
      /\ UNCHANGED <<recvDescr, recvBuffer, currentRecvBuffer, cardRecv, accepted>>
      /\ handled' = IF r.ok
                      THEN Append(handled, [of |-> r.of, bytes |-> recvBuffer[currentRecvBuffer]])
                      ELSE handled
  BY Zenon DEF HandUp, ring, indices
<1>2. PICK where \in {"take", "give"} : Go("irq", where)
  BY Zenon DEF HandUp
<1>3. seen \subseteq seen'
  BY Zenon DEF HandUp, Noticed
<1>4. pc' = [q \in Callers |-> pc'[q]] /\ pc'["irq"] = where
  <2>1. pc = [q \in Callers |-> pc[q]] /\ "irq" \in Callers
    BY Zenon DEF IInv, RxTyped, Callers
  <2> QED
    BY <1>2, <2>1, Gone, Zenon
<1>5. ~Handling /\ Handling'
  BY <1>1, <1>4, SMT DEF Handling
<1>6. Unread' = Unread /\ Good' = Good /\ (\A d : UpTo(d)' = UpTo(d))
  <2>1. Unread' = Unread /\ Good' = Good
    BY <1>1, Zenon DEF Unread, Good
  <2> QED
    BY <1>1, <2>1, Zenon DEF UpTo
<1>7. currentRecvBuffer \in Unread /\ (r.ok => currentRecvBuffer \in Good)
  BY <1>1, Zenon DEF IInv, RxTyped, Unread, Good
<1>8. Given = Len(handled) /\ Len(handled) \in Nat
  <2>1. Len(handled) \in Nat
    BY SMT DEF IInv, RxTyped
  <2>2. Given = Len(handled) - 0
    BY <1>5, Zenon DEF Given
  <2> QED
    BY <2>1, <2>2, SMT
<1>9. CASE r.ok
  <2>1. PICK x : x = [of |-> r.of, bytes |-> recvBuffer[currentRecvBuffer]]
    BY Zenon
  <2>2. handled' = Append(handled, x) /\ x \in [of : Nat, bytes : Nat]
    BY <1>1, <1>9, <2>1, SMT DEF IInv, RxTyped, Descriptor
  <2>3. /\ handled' \in Seq([of : Nat, bytes : Nat]) /\ Len(handled') = Len(handled) + 1
        /\ \A i \in 1..Len(handled) : handled'[i] = handled[i]
        /\ handled'[Len(handled) + 1] = x
    BY <2>2, SMT DEF IInv, RxTyped
  <2>4. x.of = Len(handled) + 1
    <3>1. x.of = r.of
      BY <2>1, SMT
    <3> QED
      BY <1>7, <1>8, <1>9, <3>1, NearestIsFirst, Zenon
  <2>5. Given' = Given
    <3>1. Given' = Len(handled') - 1
      BY <1>1, <1>5, <1>9, Zenon DEF Given
    <3> QED
      BY <1>8, <2>3, <3>1, SMT
  <2>6. HandledInOrder'
    <3>1. \A i \in 1..(Len(handled) + 1) : i \in 1..Len(handled) \/ i = Len(handled) + 1
      BY <1>8, SMT
    <3> QED
      BY <2>3, <2>4, <3>1, Zenon DEF IInv, HandledInOrder
  <2>7. BytesOwn'
    <3> SUFFICES ASSUME "crowd" \notin seen
                 PROVE  /\ \A d, e \in Unread : d = e
                        /\ \A d \in Good : recvBuffer[d] = recvDescr[d].of
                        /\ \A i \in 1..Len(handled') : handled'[i].bytes = i
      BY <1>1, <1>3, <1>6, Zenon DEF BytesOwn
    <3>1. x.bytes = Len(handled) + 1
      <4>1. x.bytes = recvBuffer[currentRecvBuffer] /\ x.of = r.of
        BY <2>1, SMT
      <4> QED
        BY <1>7, <1>9, <2>4, <4>1, Zenon DEF IInv, BytesOwn
    <3>2. \A i \in 1..(Len(handled) + 1) : i \in 1..Len(handled) \/ i = Len(handled) + 1
      BY <1>8, SMT
    <3> QED
      BY <2>3, <3>1, <3>2, Zenon DEF IInv, BytesOwn
  <2>8. RxTyped' /\ UnreadBetween' /\ HandlingUnread'
    BY <1>1, <1>4, <1>6, <1>7, <2>3, Zenon
       DEF IInv, RxTyped, UnreadBetween, HandlingUnread
  <2>9. Numbered' /\ Counted'
    BY <1>1, <1>6, <2>5, Zenon DEF IInv, Numbered, Counted
  <2> QED
    BY <2>6, <2>7, <2>8, <2>9 DEF IInv
<1>10. CASE ~r.ok
  <2>1. handled' = handled
    BY <1>1, <1>10, Zenon
  <2>2. Given' = Given
    <3>1. Given' = Len(handled) - 0
      BY <1>1, <1>10, <2>1, Zenon DEF Given
    <3> QED
      BY <1>8, <3>1, SMT
  <2>3. RxTyped' /\ UnreadBetween' /\ HandlingUnread'
    BY <1>1, <1>4, <1>6, <1>7, <2>1, Zenon DEF IInv, RxTyped, UnreadBetween, HandlingUnread
  <2>4. Numbered' /\ Counted' /\ HandledInOrder'
    BY <1>1, <1>6, <2>1, <2>2, Zenon DEF IInv, Numbered, Counted, HandledInOrder
  <2>5. BytesOwn'
    BY <1>1, <1>3, <1>6, <2>1, Zenon DEF IInv, BytesOwn
  <2> QED
    BY <2>3, <2>4, <2>5 DEF IInv
<1> QED
  BY <1>9, <1>10

(* The descriptor given back was the nearest one: the others are one       *)
(* nearer, and one number further from those given back.                   *)
LEMMA GiveBackKeeps ==
  ASSUME IInv, GiveBack
  PROVE  IInv'
<1>1. PICK r : r = currentRecvBuffer
  BY Zenon
<1>2. /\ pc["irq"] = "give" /\ Go("irq", "drain")
      /\ recvDescr' = [recvDescr EXCEPT ![r].own = TRUE]
      /\ currentRecvBuffer' = (r + 1) % N
      /\ UNCHANGED <<recvBuffer, cardRecv, accepted, handled, seen>>
  BY <1>1, Zenon DEF GiveBack, history
<1>3. pc' = [q \in Callers |-> pc'[q]] /\ pc'["irq"] = "drain"
  <2>1. pc = [q \in Callers |-> pc[q]] /\ "irq" \in Callers
    BY Zenon DEF IInv, RxTyped, Callers
  <2> QED
    BY <1>2, <2>1, Gone, Zenon
<1>4. Handling /\ ~Handling'
  BY <1>2, <1>3, SMT DEF Handling
<1>5. r \in Ring /\ r \in Unread /\ Unread \subseteq Ring /\ Good \subseteq Unread
  BY <1>1, <1>4, Zenon DEF IInv, RxTyped, HandlingUnread, Unread, Good
<1>6. /\ recvDescr'[r].own /\ \A d \in Ring \ {r} : recvDescr'[d] = recvDescr[d]
      /\ \A d \in Ring : recvDescr'[d].of = recvDescr[d].of
      /\ recvDescr' \in [Ring -> Descriptor]
  <2>1. recvDescr \in [Ring -> Descriptor] /\ recvDescr[r] \in Descriptor
    BY <1>5, Zenon DEF IInv, RxTyped
  <2>2. PICK c : c = [recvDescr[r] EXCEPT !.own = TRUE]
    BY Zenon
  <2>3. c \in Descriptor /\ c.of = recvDescr[r].of /\ c.own = TRUE
    <3>1. recvDescr[r] = [own |-> recvDescr[r].own, of |-> recvDescr[r].of,
                          ok |-> recvDescr[r].ok, answer |-> recvDescr[r].answer]
      BY <2>1, Zenon DEF Descriptor
    <3>2. c = [own |-> TRUE, of |-> recvDescr[r].of,
               ok |-> recvDescr[r].ok, answer |-> recvDescr[r].answer]
      BY <2>2, <3>1, Zenon
    <3> QED
      BY <2>1, <3>2, Zenon DEF Descriptor
  <2>4. recvDescr' = [recvDescr EXCEPT ![r] = c]
    BY <1>2, <2>2, Zenon
  <2> QED
    BY <1>5, <2>1, <2>3, <2>4, Zenon
<1>7. Unread' = Unread \ {r} /\ Good' = Good \ {r}
  <2>1. Unread' = Unread \ {r}
    BY <1>6, Zenon DEF Unread
  <2>2. \A d \in Unread' : d \in Ring \ {r}
    BY <1>5, <2>1, Zenon
  <2> QED
    BY <1>6, <2>1, <2>2, Zenon DEF Good
<1>8. (r + 1) % N \in Ring
  BY <1>5, NextPlace
<1>9. UnreadBetween'
  <2>1. PICK k \in 0..N : Unread = {d \in Ring : Distance(r, d) < k} /\ cardRecv = Place(r, k)
    BY <1>1, Zenon DEF IInv, UnreadBetween
  <2>2. Distance(r, r) = 0
    BY <1>5, DistanceInRing, Zenon
  <2>3. k \in 1..N /\ k - 1 \in 0..N
    BY <1>5, <2>1, <2>2, NICAssumption, SMT
  <2>4. cardRecv' = Place((r + 1) % N, k - 1)
    BY <1>2, <1>5, <2>1, <2>3, PlaceOfNext, Zenon
  <2>5. \A d \in Ring : (d \in Unread /\ d # r) <=> Distance((r + 1) % N, d) < k - 1
    <3> SUFFICES ASSUME NEW d \in Ring
                 PROVE  (d \in Unread /\ d # r) <=> Distance((r + 1) % N, d) < k - 1
      OBVIOUS
    <3>1. Distance((r + 1) % N, d) = IF d = r THEN N - 1 ELSE Distance(r, d) - 1
      BY <1>5, OneNearer
    <3>2. Distance(r, d) \in 0..(N - 1)
      BY <1>5, DistanceInRing, Zenon
    <3>3. d \in Unread <=> Distance(r, d) < k
      BY <2>1, Zenon
    <3>4. CASE d = r
      BY <2>3, <3>1, <3>4, NICAssumption, SMT
    <3>5. CASE d # r
      <4>1. Distance((r + 1) % N, d) = Distance(r, d) - 1
        BY <3>1, <3>5, Zenon
      <4>2. Distance(r, d) < k <=> Distance(r, d) - 1 < k - 1
        BY <2>3, <3>2, NICAssumption, SMT
      <4> QED
        BY <3>3, <3>5, <4>1, <4>2, Zenon
    <3> QED
      BY <3>4, <3>5
  <2>6. Unread' = {d \in Ring : Distance((r + 1) % N, d) < k - 1}
    BY <1>5, <1>7, <2>5, Zenon
  <2> QED
    BY <1>2, <2>3, <2>4, <2>6, Zenon DEF UnreadBetween
<1>10. \A d \in Good' : UpTo(d)' = UpTo(d) \ {r} /\ (r \in Good => r \in UpTo(d))
  <2> SUFFICES ASSUME NEW d \in Good \ {r}
               PROVE  UpTo(d)' = UpTo(d) \ {r} /\ (r \in Good => r \in UpTo(d))
    BY <1>7, Zenon
  <2>1. \A e \in Ring \ {r} :
          /\ Distance((r + 1) % N, e) = Distance(r, e) - 1
          /\ Distance(r, e) \in 0..(N - 1) /\ Distance(r, r) = 0
    BY <1>5, OneNearer, DistanceInRing, Zenon
  <2>2. \A e \in Good \ {r} :
          Distance((r + 1) % N, e) <= Distance((r + 1) % N, d)
            <=> Distance(r, e) <= Distance(r, d)
    BY <1>5, <2>1, NICAssumption, SMT
  <2>3. UpTo(d)' = UpTo(d) \ {r}
    BY <1>1, <1>2, <1>7, <2>2, Zenon DEF UpTo
  <2>4. Distance(r, r) <= Distance(r, d)
    BY <1>5, <2>1, NICAssumption, SMT
  <2> QED
    BY <1>1, <2>3, <2>4, Zenon DEF UpTo
<1>11. Given' = IF r \in Good THEN Given + 1 ELSE Given
  <2>1. r \in Good <=> recvDescr[r].ok
    BY <1>5, Zenon DEF Good
  <2>2. Given = Len(handled) - (IF r \in Good THEN 1 ELSE 0)
    BY <1>1, <1>4, <2>1, Zenon DEF Given
  <2>3. Given' = Len(handled) - 0
    BY <1>2, <1>4, Zenon DEF Given
  <2>4. Len(handled) \in Nat
    BY SMT DEF IInv, RxTyped
  <2> QED
    BY <2>2, <2>3, <2>4, SMT
<1>12. Given \in Int
  BY SMT DEF IInv, RxTyped, Given
<1>13. \A S \in SUBSET Ring :
         /\ IsFiniteSet(S) /\ Cardinality(S) \in Nat
         /\ Cardinality(S \ {r}) = IF r \in S THEN Cardinality(S) - 1 ELSE Cardinality(S)
  BY RingFinite, FS_RemoveElement, Zenon
<1>14. Counted'
  <2>1. Cardinality(Good') = IF r \in Good THEN Cardinality(Good) - 1 ELSE Cardinality(Good)
    BY <1>5, <1>7, <1>13, Zenon
  <2>2. Cardinality(Good) \in Nat
    BY <1>5, <1>13, Zenon
  <2>3. accepted = Given + Cardinality(Good) /\ accepted' = accepted
    BY <1>2, Zenon DEF IInv, Counted
  <2>4. accepted' = Given' + Cardinality(Good')
    BY <1>11, <1>12, <2>1, <2>2, <2>3, SMT
  <2> QED
    BY <2>4 DEF Counted
<1>15. Numbered'
  <2> SUFFICES ASSUME NEW d \in Good'
               PROVE  recvDescr'[d].of = Given' + Cardinality(UpTo(d)')
    BY Zenon DEF Numbered
  <2>1. d \in Good /\ recvDescr'[d].of = recvDescr[d].of
    BY <1>5, <1>6, <1>7, Zenon
  <2>2. recvDescr[d].of = Given + Cardinality(UpTo(d))
    BY <2>1, Zenon DEF IInv, Numbered
  <2>3. UpTo(d) \subseteq Good /\ UpTo(d)' = UpTo(d) \ {r} /\ (r \in UpTo(d) <=> r \in Good)
    BY <1>10, Zenon DEF UpTo
  <2>4. /\ Cardinality(UpTo(d)') =
             IF r \in Good THEN Cardinality(UpTo(d)) - 1 ELSE Cardinality(UpTo(d))
        /\ Cardinality(UpTo(d)) \in Nat
    <3>1. UpTo(d) \in SUBSET Ring
      BY <1>5, <2>3, Zenon
    <3> QED
      BY <1>13, <2>3, <3>1, Zenon
  <2> QED
    BY <1>11, <1>12, <2>1, <2>2, <2>4, SMT
<1>16. BytesOwn'
  <2> SUFFICES ASSUME "crowd" \notin seen
               PROVE  /\ \A d, e \in Unread' : d = e
                      /\ \A d \in Good' : recvBuffer[d] = recvDescr'[d].of
                      /\ \A i \in 1..Len(handled) : handled[i].bytes = i
    BY <1>2, Zenon DEF BytesOwn
  <2>1. \A d \in Good' : d \in Good /\ recvDescr'[d].of = recvDescr[d].of
    BY <1>5, <1>6, <1>7, Zenon
  <2> QED
    BY <1>7, <2>1, Zenon DEF IInv, BytesOwn
<1>17. RxTyped' /\ HandlingUnread' /\ HandledInOrder'
  BY <1>2, <1>3, <1>4, <1>6, <1>8, Zenon DEF IInv, RxTyped, HandlingUnread, HandledInOrder
<1> QED
  BY <1>9, <1>14, <1>15, <1>16, <1>17 DEF IInv

(* Two elements make a cardinality of two.                                 *)
LEMMA AtMostOne ==
  ASSUME NEW S \in SUBSET Ring, ~(Cardinality(S) > 1)
  PROVE  \A d, e \in S : d = e
<1> SUFFICES ASSUME NEW d \in S, NEW e \in S, d # e
             PROVE  FALSE
  OBVIOUS
<1>1. IsFiniteSet({d}) /\ Cardinality({d}) = 1
  BY FS_Singleton, Zenon
<1>2. Cardinality({d} \cup {e}) = 2
  <2>1. Cardinality({d} \cup {e}) = Cardinality({d}) + 1
    BY <1>1, FS_AddElement, Zenon
  <2> QED
    BY <1>1, <2>1, SMT
<1>3. Cardinality({d} \cup {e}) <= Cardinality(S)
  BY RingFinite, FS_Subset, Zenon
<1>4. Cardinality(S) \in Nat
  BY RingFinite, Zenon
<1> QED
  BY <1>2, <1>3, <1>4, SMT

(* The card fills the descriptor behind those that wait: the frame, if it  *)
(* is good, has the number behind all of theirs.                           *)
LEMMA FillKeeps ==
  ASSUME IInv, NEW ok \in BOOLEAN, NEW answer \in BOOLEAN,
         Arrive(ok, answer), recvDescr[cardRecv].own
  PROVE  IInv'
<1>1. PICK r, c : r = currentRecvBuffer /\ c = cardRecv
  BY Zenon
<1>2. PICK n, new :
        /\ n = (IF ok THEN accepted + 1 ELSE accepted)
        /\ new = [own |-> FALSE, of |-> IF ok THEN n ELSE 0, ok |-> ok, answer |-> answer]
  BY Zenon
<1>3. /\ accepted' = n
      /\ recvDescr' = [recvDescr EXCEPT ![c] = new]
      /\ recvBuffer' = Written(recvBuffer, c, IF ok THEN n ELSE 0)
      /\ cardRecv' = (c + 1) % N
      /\ UNCHANGED <<currentRecvBuffer, pc, handled>>
  BY <1>1, <1>2, Zenon DEF Arrive
<1>4. n \in Nat /\ new \in Descriptor /\ new.own = FALSE /\ new.ok = ok
      /\ (ok => n = accepted + 1 /\ new.of = n) /\ (~ok => n = accepted)
  <2>1. n \in Nat /\ (ok => n = accepted + 1) /\ (~ok => n = accepted)
    BY <1>2, SMT DEF IInv, RxTyped
  <2>2. (IF ok THEN n ELSE 0) \in Nat
    BY <2>1, Zenon
  <2>3. new.own = FALSE /\ new.ok = ok /\ new.of = (IF ok THEN n ELSE 0)
    BY <1>2, Zenon
  <2>4. new \in Descriptor
    BY <1>2, <2>2, Zenon DEF Descriptor
  <2> QED
    BY <2>1, <2>3, <2>4, Zenon
<1>5. /\ r \in Ring /\ c \in Ring /\ (c + 1) % N \in Ring
      /\ Unread \subseteq Ring /\ Good \subseteq Unread /\ c \notin Unread
  BY <1>1, NextPlace, Zenon DEF IInv, RxTyped, Unread, Good
<1>6. /\ recvDescr'[c] = new /\ \A d \in Ring \ {c} : recvDescr'[d] = recvDescr[d]
      /\ recvDescr' \in [Ring -> Descriptor]
  BY <1>3, <1>4, <1>5, Zenon DEF IInv, RxTyped
<1>7. Unread' = Unread \cup {c} /\ Good' = IF ok THEN Good \cup {c} ELSE Good
  <2>1. Unread' = Unread \cup {c}
    BY <1>4, <1>5, <1>6, Zenon DEF Unread
  <2>2. \A d \in Unread : recvDescr'[d].ok <=> recvDescr[d].ok
    BY <1>5, <1>6, Zenon
  <2>3. recvDescr'[c].ok <=> ok
    BY <1>4, <1>6, Zenon
  <2> QED
    BY <2>1, <2>2, <2>3, Zenon DEF Good
<1>8. PICK k \in 0..(N - 1) :
        Unread = {d \in Ring : Distance(r, d) < k} /\ c = Place(r, k)
  <2>1. PICK k \in 0..N : Unread = {d \in Ring : Distance(r, d) < k} /\ c = Place(r, k)
    BY <1>1, Zenon DEF IInv, UnreadBetween
  <2>2. k # N
    <3>1. \A d \in Ring : Distance(r, d) < N
      BY <1>5, DistanceInRing, NICAssumption, SMT
    <3> QED
      BY <1>5, <2>1, <3>1, Zenon
  <2>3. k \in 0..(N - 1)
    BY <2>2, NICAssumption, SMT
  <2> QED
    BY <2>1, <2>3
<1>9. Distance(r, c) = k /\ \A d \in Ring : Distance(r, d) = k => d = c
  BY <1>5, <1>8, PlaceDistance, Zenon
<1>10. UnreadBetween'
  <2>1. k + 1 \in 0..N /\ cardRecv' = Place(r, k + 1)
    <3>1. k + 1 \in 0..N
      BY NICAssumption, SMT
    <3> QED
      BY <1>3, <1>5, <1>8, <3>1, PlaceOfNext, Zenon
  <2>2. \A d \in Ring : Distance(r, d) < k + 1 <=> d \in Unread \/ d = c
    <3> SUFFICES ASSUME NEW d \in Ring
                 PROVE  Distance(r, d) < k + 1 <=> d \in Unread \/ d = c
      OBVIOUS
    <3>1. Distance(r, d) \in 0..(N - 1)
      BY <1>5, DistanceInRing, Zenon
    <3>2. Distance(r, d) < k + 1 <=> Distance(r, d) < k \/ Distance(r, d) = k
      BY <3>1, NICAssumption, SMT
    <3>3. Distance(r, d) = k <=> d = c
      BY <1>9, Zenon
    <3> QED
      BY <1>8, <3>2, <3>3, Zenon
  <2>3. Unread' = {d \in Ring : Distance(r, d) < k + 1}
    BY <1>5, <1>7, <2>2, Zenon
  <2> QED
    BY <1>1, <1>3, <2>1, <2>3, Zenon DEF UnreadBetween
<1>11. (Handling' <=> Handling) /\ (Handling => r \in Unread)
  BY <1>1, <1>3, Zenon DEF Handling, IInv, HandlingUnread
<1>12. Given' = Given /\ Given \in Int
  <2>1. Handling => recvDescr'[r].ok = recvDescr[r].ok
    BY <1>5, <1>6, <1>11, Zenon
  <2>2. Given' = Given
    BY <1>1, <1>3, <1>11, <2>1, Zenon DEF Given
  <2>3. Given \in Int
    BY SMT DEF IInv, RxTyped, Given
  <2> QED
    BY <2>2, <2>3
<1>13. \A d \in Good : Distance(r, d) < k /\ Distance(r, d) \in Nat
  <2>1. \A d \in Good : Distance(r, d) \in 0..(N - 1) /\ Distance(r, d) < k
    BY <1>5, <1>8, DistanceInRing, Zenon
  <2> QED
    BY <2>1, NICAssumption, SMT
<1>14. \A d \in Good : UpTo(d)' = UpTo(d)
  <2> SUFFICES ASSUME NEW d \in Good
               PROVE  UpTo(d)' = UpTo(d)
    OBVIOUS
  <2>1. ~(Distance(r, c) <= Distance(r, d))
    BY <1>9, <1>13, SMT
  <2> QED
    BY <1>1, <1>3, <1>7, <2>1, Zenon DEF UpTo
<1>15. UpTo(c)' = Good'
  <2>1. \A e \in Good' : Distance(r, e) <= Distance(r, c)
    <3>1. \A e \in Good : Distance(r, e) <= k
      BY <1>13, NICAssumption, SMT
    <3>2. k <= k
      BY SMT
    <3> QED
      BY <1>7, <1>9, <3>1, <3>2, Zenon
  <2> QED
    BY <1>1, <1>3, <2>1, Zenon DEF UpTo
<1>16. /\ Cardinality(Good) \in Nat
       /\ Cardinality(Good') = IF ok THEN Cardinality(Good) + 1 ELSE Cardinality(Good)
  <2>1. IsFiniteSet(Good) /\ Cardinality(Good) \in Nat /\ c \notin Good
    BY <1>5, RingFinite, Zenon
  <2>2. Cardinality(Good \cup {c}) = Cardinality(Good) + 1
    BY <2>1, FS_AddElement, Zenon
  <2> QED
    BY <1>7, <2>1, <2>2, Zenon
<1>17. Counted'
  <2>1. accepted = Given + Cardinality(Good)
    BY Zenon DEF IInv, Counted
  <2>2. accepted' = Given + Cardinality(Good')
    BY <1>3, <1>4, <1>12, <1>16, <2>1, SMT
  <2> QED
    BY <1>12, <2>2, Zenon DEF Counted
<1>18. Numbered'
  <2>1. \A d \in Good : recvDescr'[d].of = Given + Cardinality(UpTo(d)')
    BY <1>5, <1>6, <1>14, Zenon DEF IInv, Numbered
  <2>2. ok => recvDescr'[c].of = Given + Cardinality(UpTo(c)')
    BY <1>3, <1>4, <1>6, <1>12, <1>15, <1>17, Zenon DEF Counted
  <2> QED
    BY <1>7, <1>12, <2>1, <2>2, Zenon DEF Numbered
<1>19. BytesOwn'
  <2> SUFFICES ASSUME "crowd" \notin seen'
               PROVE  /\ \A d, e \in Unread' : d = e
                      /\ \A d \in Good' : recvBuffer'[d] = recvDescr'[d].of
                      /\ \A i \in 1..Len(handled) : handled[i].bytes = i
    BY <1>3, Zenon DEF BytesOwn
  <2>1. "crowd" \notin seen /\ ~(Cardinality(Unread') > 1)
    BY Zenon DEF Arrive, Noticed
  <2>2. \A d, e \in Unread' : d = e
    <3>1. Unread' \in SUBSET Ring
      BY <1>5, <1>7, Zenon
    <3> QED
      BY <2>1, <3>1, AtMostOne, Zenon
  <2>3. \A d \in Good' : d = c /\ ok
    <3>1. c \in Unread' /\ \A d \in Good' : d \in Unread'
      BY <1>5, <1>7, Zenon
    <3>2. \A d \in Good' : d = c
      BY <2>2, <3>1, Zenon
    <3>3. ~ok => c \notin Good'
      BY <1>5, <1>7, Zenon
    <3>4. ASSUME NEW d \in Good'
          PROVE  d = c /\ ok
      <4>1. d = c
        BY <3>2, <3>4, Zenon
      <4>2. c \in Good'
        BY <3>4, <4>1, Zenon
      <4>3. CASE ok
        BY <4>1, <4>3, Zenon
      <4>4. CASE ~ok
        BY <3>3, <4>2, <4>4, Zenon
      <4> QED
        BY <4>3, <4>4, Zenon
    <3> QED
      BY <3>4, Zenon
  <2>4. ok => recvBuffer'[c] = n
    BY <1>3, <1>5, Zenon DEF Written
  <2> QED
    BY <1>4, <1>6, <2>1, <2>2, <2>3, <2>4, Zenon DEF IInv, BytesOwn
<1>20. RxTyped' /\ HandlingUnread' /\ HandledInOrder'
  <2>1. recvBuffer' \in [Ring -> Nat]
    <3>1. PICK m \in Nat : m = (IF ok THEN n ELSE 0)
      BY <1>4, Zenon
    <3>2. recvBuffer \in [Ring -> Nat] /\ recvBuffer' = Written(recvBuffer, c, m)
      BY <1>3, <3>1, Zenon DEF IInv, RxTyped
    <3> QED
      BY <3>2, SMT DEF Written
  <2> QED
    BY <1>1, <1>3, <1>4, <1>5, <1>6, <1>7, <1>11, <2>1, Zenon
       DEF IInv, RxTyped, HandlingUnread, HandledInOrder
<1> QED
  BY <1>10, <1>17, <1>18, <1>19, <1>20 DEF IInv

(* A frame that arrives is written or missed.                              *)
LEMMA ArriveKeeps ==
  ASSUME IInv, NEW ok \in BOOLEAN, NEW answer \in BOOLEAN, Arrive(ok, answer)
  PROVE  IInv'
<1>1. CASE recvDescr[cardRecv].own
  BY <1>1, FillKeeps
<1>2. CASE ~recvDescr[cardRecv].own
  <2>1. /\ UNCHANGED <<recvDescr, recvBuffer, currentRecvBuffer, cardRecv, accepted, handled, pc>>
        /\ seen \subseteq seen'
    BY <1>2, Zenon DEF Arrive, Noticed
  <2>2. pc' = [q \in Callers |-> pc'[q]] /\ (Handling' <=> Handling)
    BY <2>1, Zenon DEF IInv, RxTyped, Handling
  <2> QED
    BY <2>1, <2>2, Untouched, Zenon
<1> QED
  BY <1>1, <1>2

-----------------------------------------------------------------------------
(* Every step of the handler, of Send and of the card keeps the invariant. *)
THEOREM Invariance == Spec => []IInv
<1>1. IInv /\ [Next]_vars => IInv'
  <2> SUFFICES ASSUME IInv, [Next]_vars
               PROVE  IInv'
    OBVIOUS
  <2>1. CASE UNCHANGED vars
    <3>1. UNCHANGED <<recvDescr, recvBuffer, currentRecvBuffer, cardRecv, accepted, handled, pc,
                      seen>>
      BY <2>1, Zenon DEF vars, ring, indices, history
    <3>2. pc' = [q \in Callers |-> pc'[q]] /\ (Handling' <=> Handling)
      BY <3>1, Zenon DEF IInv, RxTyped, Handling
    <3> QED
      BY <3>1, <3>2, Untouched, Zenon
  <2>2. ASSUME NEW p \in Callers, SendStep(p)
        PROVE  IInv'
    BY <2>2, SendStepKeeps
  <2>3. CASE StartSend \/ Interrupt \/ DrainOnce \/ Acknowledge \/ Transmit
    BY <2>3, OutsideKeeps
  <2>4. CASE HandUp
    BY <2>4, HandUpKeeps
  <2>5. CASE GiveBack
    BY <2>5, GiveBackKeeps
  <2>6. ASSUME NEW ok \in BOOLEAN, NEW answer \in BOOLEAN, Arrive(ok, answer)
        PROVE  IInv'
    BY <2>6, ArriveKeeps
  <2> QED
    BY <2>1, <2>2, <2>3, <2>4, <2>5, <2>6, Zenon DEF Next, HandlerStep
<1> QED
  BY InitIInv, <1>1, PTL DEF Spec

(* The good frames the card accepted are handed up once each and in order, *)
(* whatever is missed or bad or arrives while the handler runs, and with   *)
(* their own bytes as long as one frame at a time waited.                  *)
THEOREM FramesAreReceivedInOrder == Spec => []ReceivedInOrder
<1>1. IInv => ReceivedInOrder
  <2> SUFFICES ASSUME IInv
               PROVE  ReceivedInOrder
    OBVIOUS
  <2>1. \A i \in 1..Len(handled) :
          handled[i].of = i /\ ("crowd" \in seen \/ handled[i].bytes = i)
    BY Zenon DEF IInv, HandledInOrder, BytesOwn
  <2>2. PICK given : given = (IF Handling /\ recvDescr[currentRecvBuffer].ok THEN 1 ELSE 0)
    BY Zenon
  <2>3. given \in Nat /\ Len(handled) \in Nat /\ Cardinality(Good) \in Nat
    <3>1. Good \in SUBSET Ring
      BY Zenon DEF Good, Unread
    <3>2. Len(handled) \in Nat
      BY SMT DEF IInv, RxTyped
    <3> QED
      BY <2>2, <3>1, <3>2, RingFinite, SMT
  <2>4. accepted = Len(handled) - given + Cardinality(Good)
    BY <2>2, Zenon DEF IInv, Counted, Given
  <2>5. accepted = Len(handled) + Cardinality(Good) - given
    BY <2>3, <2>4, SMT
  <2> QED
    BY <2>1, <2>2, <2>5, Zenon DEF ReceivedInOrder, Good, Handling
<1> QED
  BY Invariance, <1>1, PTL

-----------------------------------------------------------------------------
(* The send ring                                                           *)

(* The descriptors that wait for the card.                                 *)
Owned == {d \in Ring : sendDescr[d].own}

(* Requests whose answer has not been given to Send yet.                   *)
ToAnswer == IF Handling THEN Requests \ {currentRecvBuffer} ELSE Requests

(* A Send goes on.                                                         *)
Busy == Sending("main") \/ Sending("irq")

(* The index has been moved past the descriptor of the Send that goes on.  *)
Ahead == \E p \in Callers : pc[p] \in {"copy", "own"}

(* The types, without the bounds of the model.                             *)
TxTyped ==
  /\ sendDescr \in [Ring -> [own : BOOLEAN, of : Nat]] /\ sendBuffer \in [Ring -> Nat]
  /\ currentSendBuffer \in Ring /\ cardSend \in Ring /\ sends \in Nat
  /\ wire \in Seq([of : Nat, bytes : Nat])
  /\ local \in [Callers -> [descriptor : Ring, next : Ring, frame : Nat]]

(* The ring holds the frames that wait, and there is room for the answers. *)
Roomy == sends + Cardinality(ToAnswer) <= Len(wire) + TxBurst

(* No Send has interrupted another.                                        *)
Alone == ~(Sending("main") /\ Sending("irq"))

(* k frames wait for the card, from its index on, with the numbers behind  *)
(* those that left; a Send that goes on has the place behind them.         *)
InStep(k) ==
  /\ sends = Len(wire) + k + (IF Busy THEN 1 ELSE 0)
  /\ Owned = {d \in Ring : Distance(cardSend, d) < k}
  /\ \A d \in Owned : sendDescr[d].of = Len(wire) + 1 + Distance(cardSend, d)
  /\ currentSendBuffer = Place(cardSend, IF Ahead THEN k + 1 ELSE k)
  /\ \A p \in Callers :
       /\ Sending(p) => local[p].frame = sends
       /\ pc[p] \in {"load", "store", "copy", "own"} => local[p].descriptor = Place(cardSend, k)
       /\ pc[p] = "store" => local[p].next = Place(cardSend, k + 1)

(* The frames left in order.                                               *)
SentInOrder == \A i \in 1..Len(wire) : wire[i].of = i

(* While one frame at a time waits, its buffer has its bytes.              *)
SentBytesOwn ==
  "crowd" \notin seen =>
    /\ sends <= Len(wire) + 1
    /\ \A d \in Owned : sendBuffer[d] = sendDescr[d].of
    /\ \A p \in Callers : pc[p] = "own" => sendBuffer[local[p].descriptor] = local[p].frame
    /\ \A i \in 1..Len(wire) : wire[i].bytes = i

(* The send ring, until two Sends have met.                                *)
Sent ==
  "race" \notin seen =>
    /\ Alone /\ \E k \in 0..N : InStep(k)
    /\ SentInOrder /\ SentBytesOwn

TxInv == TxTyped /\ Roomy /\ Sent

-----------------------------------------------------------------------------
(* The places of the send ring, and steps that leave it alone              *)

(* The place a whole round away is on the ring too.                        *)
LEMMA PlaceInRing ==
  ASSUME NEW r \in Ring, NEW k \in 0..N
  PROVE  Place(r, k) \in Ring
BY NICAssumption, SMT DEF Ring, Place

(* Written puts the frame where it is told to.                             *)
LEMMA WrittenThere ==
  ASSUME NEW buffer \in [Ring -> Nat], NEW d \in Ring, NEW n \in Nat
  PROVE  Written(buffer, d, n) \in [Ring -> Nat] /\ Written(buffer, d, n)[d] = n
BY SMT DEF Written

(* What is added to seen.                                                  *)
LEMMA WhatIsNoticed ==
  ASSUME Noticed
  PROVE  /\ seen \subseteq seen'
         /\ "crowd" \notin seen' => ~(sends' - Len(wire') > 1)
         /\ "race" \notin seen' => ~(Sending("main") /\ sends' > sends)
BY Zenon DEF Noticed

(* One caller sends and goes on: the other one does not send.              *)
LEMMA SenderGoes ==
  ASSUME pc = [q \in Callers |-> pc[q]], Alone, NEW p \in Callers, Sending(p),
         NEW where, Go(p, where)
  PROVE  /\ Busy /\ (Ahead <=> pc[p] \in {"copy", "own"})
         /\ Busy' <=> where \in {"take", "load", "store", "copy", "own"}
         /\ Ahead' <=> where \in {"copy", "own"}
         /\ Alone' /\ pc' = [q \in Callers |-> pc'[q]] /\ pc'[p] = where
         /\ \A q \in Callers \ {p} : pc'[q] = pc[q] /\ ~Sending(q) /\ ~Sending(q)'
<1>1. /\ pc' = [q \in Callers |-> pc'[q]] /\ pc'[p] = where
      /\ \A q \in Callers \ {p} : pc'[q] = pc[q]
  BY Gone, Zenon
<1>2. PICK o \in Callers : o # p /\ Callers = {p, o}
  BY SMT DEF Callers
<1>3. ~Sending(o) /\ ~Sending(o)'
  <2>1. ~Sending(o)
    BY <1>2, SMT DEF Callers, Alone
  <2> QED
    BY <1>1, <1>2, <2>1, Zenon DEF Sending
<1>4. /\ pc[o] \notin {"take", "load", "store", "copy", "own"}
      /\ pc'[o] \notin {"take", "load", "store", "copy", "own"}
  BY <1>3, Zenon DEF Sending
<1>5. Busy /\ (Busy' <=> Sending(p)')
  <2>1. Busy <=> Sending(p) \/ Sending(o)
    BY <1>2, SMT DEF Callers, Busy
  <2>2. Busy' <=> Sending(p)' \/ Sending(o)'
    BY <1>2, SMT DEF Callers, Busy
  <2> QED
    BY <1>3, <2>1, <2>2, Zenon
<1>6. Busy' <=> where \in {"take", "load", "store", "copy", "own"}
  BY <1>1, <1>5, Zenon DEF Sending
<1>7. (Ahead <=> pc[p] \in {"copy", "own"}) /\ (Ahead' <=> where \in {"copy", "own"})
  <2>1. Ahead <=> pc[p] \in {"copy", "own"} \/ pc[o] \in {"copy", "own"}
    BY <1>2, Zenon DEF Ahead
  <2>2. Ahead' <=> pc'[p] \in {"copy", "own"} \/ pc'[o] \in {"copy", "own"}
    BY <1>2, Zenon DEF Ahead
  <2>3. pc[o] \notin {"copy", "own"} /\ pc'[o] \notin {"copy", "own"}
    BY <1>4, Zenon
  <2> QED
    BY <1>1, <2>1, <2>2, <2>3, Zenon
<1>8. Alone'
  <2>1. ~(Sending(p)' /\ Sending(o)')
    BY <1>3, Zenon
  <2> QED
    BY <1>2, <2>1, SMT DEF Callers, Alone
<1>9. \A q \in Callers \ {p} : pc'[q] = pc[q] /\ ~Sending(q) /\ ~Sending(q)'
  BY <1>1, <1>2, <1>3, Zenon
<1> QED
  BY <1>1, <1>5, <1>6, <1>7, <1>8, <1>9, Zenon

(* Nobody sends.                                                           *)
LEMMA NoSender ==
  ASSUME ~Sending("main"), ~Sending("irq")
  PROVE  ~Busy /\ ~Ahead /\ Alone /\ \A p \in Callers : ~Sending(p)
<1>1. \A p \in Callers : ~Sending(p)
  BY Zenon DEF Callers
<1>2. \A p \in Callers : pc[p] \notin {"copy", "own"}
  BY <1>1, Zenon DEF Sending
<1> QED
  BY <1>1, <1>2, Zenon DEF Busy, Ahead, Alone

(* The length of what left is a number.                                    *)
LEMMA WireLength ==
  ASSUME TxTyped
  PROVE  Len(wire) \in Nat
<1>1. wire \in Seq([of : Nat, bytes : Nat])
  BY DEF TxTyped
<1> QED
  BY <1>1, SMT

(* What was within a bound is, with less.                                  *)
LEMMA StillRoom ==
  ASSUME NEW s \in Nat, NEW a \in Nat, NEW b \in Nat, NEW w \in Nat, NEW t \in Nat
  PROVE  /\ s + a <= w + t /\ b <= a => s + b <= w + t
         /\ s - w + a < t /\ b <= a + 1 => s + b <= w + t
         /\ s - w + a < t /\ b <= a => s + 1 + b <= w + t
         /\ s + a <= w + t /\ b + 1 = a => s + 1 + b <= w + t
BY SMT

(* Fewer requests wait, or as many, and nothing is sent or leaves.         *)
LEMMA RoomyKept ==
  ASSUME TxTyped, Roomy, ToAnswer' \subseteq ToAnswer, sends' = sends, wire' = wire
  PROVE  Roomy'
<1>1. ToAnswer \in SUBSET Ring
  BY Zenon DEF ToAnswer, Requests, Unread
<1>2. IsFiniteSet(ToAnswer) /\ Cardinality(ToAnswer) \in Nat
  BY <1>1, RingFinite, Zenon
<1>3. Cardinality(ToAnswer') <= Cardinality(ToAnswer) /\ Cardinality(ToAnswer') \in Nat
  BY <1>2, FS_Subset, FS_CardinalityType, Zenon
<1>4. PICK w \in Nat : w = Len(wire)
  BY WireLength, Zenon
<1>5. PICK a, b \in Nat : a = Cardinality(ToAnswer) /\ b = Cardinality(ToAnswer') /\ b <= a
  BY <1>2, <1>3, Zenon
<1>6. sends + a <= w + TxBurst
  BY <1>4, <1>5, Zenon DEF Roomy
<1>7. sends + b <= w + TxBurst
  <2>1. TxBurst \in Nat /\ sends \in Nat
    BY NICAssumption, Zenon DEF TxTyped
  <2> QED
    BY <1>5, <1>6, <2>1, StillRoom, Zenon
<1>8. sends' + Cardinality(ToAnswer') <= Len(wire') + TxBurst
  <2>1. Cardinality(ToAnswer') = b /\ sends' = sends /\ Len(wire') = w
    BY <1>4, <1>5, Zenon
  <2> QED
    BY <1>7, <2>1, Zenon
<1> QED
  BY <1>8 DEF Roomy

(* The receive ring is not touched.                                        *)
LEMMA SameToAnswer ==
  ASSUME recvDescr' = recvDescr, currentRecvBuffer' = currentRecvBuffer, Handling' <=> Handling
  PROVE  ToAnswer' = ToAnswer
<1>1. Requests' = Requests
  BY Zenon DEF Requests, Unread
<1> QED
  BY <1>1, Zenon DEF ToAnswer

(* Steps that neither send nor transmit.                                   *)
LEMMA TxUntouched ==
  ASSUME TxInv,
         UNCHANGED <<sendDescr, sendBuffer, currentSendBuffer, cardSend, sends, wire, local>>,
         seen \subseteq seen', Roomy',
         \A p \in Callers : \/ pc'[p] = pc[p]
                            \/ ~Sending(p) /\ ~Sending(p)'
  PROVE  TxInv'
<1>1. \A p \in Callers : /\ Sending(p)' <=> Sending(p)
                         /\ \A x \in {"take", "load", "store", "copy", "own"} :
                              pc'[p] = x <=> pc[p] = x
  BY Zenon DEF Sending
<1>2. (Busy' <=> Busy) /\ (Alone' <=> Alone)
  BY <1>1, SMT DEF Busy, Alone, Callers
<1>3. \A p \in Callers : /\ pc'[p] \in {"copy", "own"} <=> pc[p] \in {"copy", "own"}
                         /\ pc'[p] \in {"load", "store", "copy", "own"}
                              <=> pc[p] \in {"load", "store", "copy", "own"}
                         /\ pc'[p] = "store" <=> pc[p] = "store"
                         /\ pc'[p] = "own" <=> pc[p] = "own"
  BY <1>1, Zenon
<1>4. Ahead' <=> Ahead
  BY <1>3, Zenon DEF Ahead
<1>5. Owned' = Owned
  BY Zenon DEF Owned
<1>6. ASSUME NEW k, InStep(k)
      PROVE  InStep(k)'
  BY <1>1, <1>2, <1>3, <1>4, <1>5, <1>6, Zenon DEF InStep
<1>7. SentInOrder' <=> SentInOrder
  BY Zenon DEF SentInOrder
<1>8. SentBytesOwn => SentBytesOwn'
  BY <1>3, <1>5, Zenon DEF SentBytesOwn
<1>9. Sent'
  BY <1>2, <1>6, <1>7, <1>8, Zenon DEF TxInv, Sent
<1>10. TxTyped'
  BY Zenon DEF TxInv, TxTyped
<1> QED
  BY <1>9, <1>10, Zenon DEF TxInv

(* At the start nothing waits.                                             *)
LEMMA InitTx == Init => TxInv
<1> SUFFICES ASSUME Init
             PROVE  TxInv
  OBVIOUS
<1>1. ~Sending("main") /\ ~Sending("irq")
  <2>1. pc["main"] = "idle" /\ pc["irq"] = "idle"
    BY SMT DEF Init, Callers
  <2> QED
    BY <2>1, SMT DEF Sending
<1>2. ~Busy /\ ~Ahead /\ Alone /\ \A p \in Callers : ~Sending(p)
  BY <1>1, NoSender, Zenon
<1>3. Owned = {} /\ ToAnswer = {}
  BY Zenon DEF Init, Owned, ToAnswer, Requests, Unread
<1>4. TxTyped
  BY NICAssumption, SMT DEF Init, TxTyped, Ring
<1>5. Roomy
  <2>1. Cardinality(ToAnswer) = 0
    BY <1>3, FS_EmptySet, Zenon
  <2> QED
    BY <2>1, NICAssumption, SMT DEF Init, Roomy
<1>6. 0 \in 0..N /\ InStep(0)
  <2>1. 0 \in 0..N /\ Place(cardSend, 0) = currentSendBuffer
    BY NICAssumption, SMT DEF Init, Place
  <2>2. \A d \in Ring : ~(Distance(cardSend, d) < 0)
    BY <1>4, DistanceInRing, SMT DEF TxTyped
  <2>3. Owned = {d \in Ring : Distance(cardSend, d) < 0}
    BY <1>3, <2>2, Zenon
  <2>4. sends = Len(wire) + 0 + (IF Busy THEN 1 ELSE 0)
    BY <1>2, SMT DEF Init
  <2>5. \A p \in Callers : pc[p] \notin {"load", "store", "copy", "own"} /\ pc[p] # "store"
    BY <1>2, Zenon DEF Sending
  <2> QED
    BY <1>2, <1>3, <2>1, <2>3, <2>4, <2>5, Zenon DEF InStep
<1>7. SentInOrder
  BY SMT DEF Init, SentInOrder
<1>8. SentBytesOwn
  <2>1. \A p \in Callers : pc[p] # "own"
    BY <1>2, Zenon DEF Sending
  <2>2. sends <= Len(wire) + 1 /\ \A i \in 1..Len(wire) : wire[i].bytes = i
    BY SMT DEF Init
  <2> QED
    BY <1>3, <2>1, <2>2, Zenon DEF SentBytesOwn
<1> QED
  BY <1>2, <1>4, <1>5, <1>6, <1>7, <1>8, Zenon DEF TxInv, Sent

(* The handler outside Send, and what it gives back: nobody answers it     *)
(* any more.                                                               *)
LEMMA QuietKeepsTx ==
  ASSUME IInv, TxInv, Interrupt \/ DrainOnce \/ Acknowledge \/ GiveBack
  PROVE  TxInv'
<1>1. UNCHANGED <<sendDescr, sendBuffer, currentSendBuffer, cardSend, sends, wire, local, seen>>
  BY Zenon DEF Interrupt, DrainOnce, Acknowledge, GiveBack, ring, indices, history
<1>2. pc = [q \in Callers |-> pc[q]] /\ "irq" \in Callers
  BY Zenon DEF IInv, RxTyped, Callers
<1>3. PICK where \in {"drain", "ack", "idle"} : Go("irq", where)
  <2>1. CASE Interrupt
    BY <2>1, Zenon DEF Interrupt
  <2>2. CASE DrainOnce
    BY <2>2, Zenon DEF DrainOnce
  <2>3. CASE Acknowledge
    BY <2>3, Zenon DEF Acknowledge
  <2>4. CASE GiveBack
    BY <2>4, Zenon DEF GiveBack
  <2> QED
    BY <2>1, <2>2, <2>3, <2>4, Zenon
<1>4. pc'["irq"] = where /\ \A q \in Callers \ {"irq"} : pc'[q] = pc[q]
  BY <1>2, <1>3, Gone, Zenon
<1>5. ~Sending("irq") /\ ~Sending("irq")' /\ ~Handling'
  <2>1. pc["irq"] \in {"idle", "drain", "ack", "give"}
    BY Zenon DEF Interrupt, DrainOnce, Acknowledge, GiveBack
  <2>2. pc'["irq"] \in {"drain", "ack", "idle"}
    BY <1>4, Zenon
  <2>3. ~Sending("irq") /\ ~Sending("irq")'
    BY <2>1, <2>2, SMT DEF Sending
  <2> QED
    BY <2>2, <2>3, SMT DEF Handling
<1>6. ToAnswer' \subseteq ToAnswer
  <2>1. CASE Interrupt \/ DrainOnce \/ Acknowledge
    <3>1. UNCHANGED <<recvDescr, currentRecvBuffer>> /\ pc["irq"] \in {"idle", "drain", "ack"}
      BY <2>1, Zenon DEF Interrupt, DrainOnce, Acknowledge, ring, indices
    <3>2. ~Handling
      BY <3>1, SMT DEF Handling
    <3> QED
      BY <1>5, <3>1, <3>2, SameToAnswer, Zenon
  <2>2. CASE GiveBack
    <3>1. PICK r : r = currentRecvBuffer
      BY Zenon
    <3>2. /\ recvDescr' = [recvDescr EXCEPT ![r].own = TRUE] /\ pc["irq"] = "give"
          /\ r \in Ring /\ recvDescr \in [Ring -> Descriptor]
      BY <2>2, <3>1, Zenon DEF GiveBack, IInv, RxTyped
    <3>3. recvDescr'[r].own /\ \A d \in Ring \ {r} : recvDescr'[d] = recvDescr[d]
      BY <3>2, SMT DEF Descriptor
    <3>4. \A d \in Requests' : d \in Requests \ {r}
      BY <3>3, Zenon DEF Requests, Unread
    <3>5. Handling
      BY <3>2, SMT DEF Handling
    <3> QED
      BY <1>5, <3>1, <3>4, <3>5, Zenon DEF ToAnswer
  <2> QED
    BY <2>1, <2>2
<1>7. Roomy'
  BY <1>1, <1>6, RoomyKept, Zenon DEF TxInv
<1>8. \A p \in Callers : pc'[p] = pc[p] \/ (~Sending(p) /\ ~Sending(p)')
  BY <1>4, <1>5, Zenon
<1> QED
  BY <1>1, <1>7, <1>8, TxUntouched, Zenon

(* A frame that arrives asks for an answer only if the ring has a place    *)
(* for it.                                                                 *)
LEMMA ArriveKeepsTx ==
  ASSUME IInv, TxInv, NEW ok \in BOOLEAN, NEW answer \in BOOLEAN, Arrive(ok, answer)
  PROVE  TxInv'
<1>1. /\ UNCHANGED <<sendDescr, sendBuffer, currentSendBuffer, currentRecvBuffer, cardSend, sends,
                    wire, local, pc>>
      /\ seen \subseteq seen'
  BY Zenon DEF Arrive, Noticed
<1>2. PICK c \in Ring : c = cardRecv
  BY Zenon DEF IInv, RxTyped
<1>3. /\ \A d \in Ring \ {c} : recvDescr'[d] = recvDescr[d]
      /\ recvDescr'[c] = recvDescr[c] \/ recvDescr'[c].answer = answer
  <2>1. CASE recvDescr[c].own
    <3>1. PICK n : recvDescr' = [recvDescr EXCEPT ![c] =
                                   [own |-> FALSE, of |-> n, ok |-> ok, answer |-> answer]]
      BY <1>2, <2>1, Zenon DEF Arrive
    <3> QED
      BY <3>1, SMT DEF IInv, RxTyped
  <2>2. CASE ~recvDescr[c].own
    BY <1>2, <2>2, Zenon DEF Arrive
  <2> QED
    BY <2>1, <2>2
<1>4. Requests' \subseteq Requests \cup {c} /\ (~answer => Requests' \subseteq Requests)
  <2>1. \A d \in Requests' : d \in Ring /\ (d # c => d \in Requests)
    BY <1>3, Zenon DEF Requests, Unread
  <2>2. ~answer => \A d \in Requests' : d \in Requests
    BY <1>3, <2>1, Zenon DEF Requests, Unread
  <2> QED
    BY <2>1, <2>2, Zenon
<1>5. Handling' <=> Handling
  BY <1>1, Zenon DEF Handling
<1>6. CASE ~answer
  <2>1. ToAnswer' \subseteq ToAnswer
    BY <1>1, <1>4, <1>5, <1>6, Zenon DEF ToAnswer
  <2>2. Roomy'
    BY <1>1, <2>1, RoomyKept, Zenon DEF TxInv
  <2> QED
    BY <1>1, <2>2, TxUntouched, Zenon
<1>7. CASE answer
  <2>1. /\ ToAnswer' \subseteq Requests \cup {c}
        /\ Requests \cup {c} \in SUBSET Ring /\ Requests \in SUBSET Ring
    BY <1>4, Zenon DEF ToAnswer, Requests, Unread
  <2>2. IsFiniteSet(Requests) /\ IsFiniteSet(Requests \cup {c})
    BY <2>1, RingFinite, Zenon
  <2>3. PICK a, b, e \in Nat : /\ a = Cardinality(Requests) /\ b = Cardinality(ToAnswer')
                               /\ e = Cardinality(Requests \cup {c}) /\ b <= e
    <3>1. Cardinality(Requests) \in Nat /\ Cardinality(Requests \cup {c}) \in Nat
      BY <2>1, RingFinite, Zenon
    <3>2. IsFiniteSet(ToAnswer') /\ Cardinality(ToAnswer') <= Cardinality(Requests \cup {c})
      BY <2>1, <2>2, FS_Subset, Zenon
    <3>3. Cardinality(ToAnswer') \in Nat
      BY <3>2, FS_CardinalityType, Zenon
    <3> QED
      BY <3>1, <3>2, <3>3, Zenon
  <2>4. e <= a + 1
    <3>1. e = IF c \in Requests THEN a ELSE a + 1
      BY <2>2, <2>3, FS_AddElement, Zenon
    <3> QED
      BY <3>1, SMT
  <2>5. PICK w \in Nat : w = Len(wire)
    BY WireLength, Zenon DEF TxInv
  <2>6. sends - w + a < TxBurst
    BY <1>7, <2>3, <2>5, Zenon DEF Arrive, MayCauseSend
  <2>7. sends \in Nat
    BY Zenon DEF TxInv, TxTyped
  <2>8. sends + b <= w + TxBurst
    <3>1. TxBurst \in Nat /\ b <= a + 1
      BY <2>3, <2>4, NICAssumption, SMT
    <3> QED
      BY <2>6, <2>7, <3>1, StillRoom, Zenon
  <2>9. sends' + Cardinality(ToAnswer') <= Len(wire') + TxBurst
    <3>1. Cardinality(ToAnswer') = b /\ sends' = sends /\ Len(wire') = w
      BY <1>1, <2>3, <2>5, Zenon
    <3> QED
      BY <2>8, <3>1, Zenon
  <2>10. Roomy'
    BY <2>9 DEF Roomy
  <2> QED
    BY <1>1, <2>10, TxUntouched, Zenon
<1> QED
  BY <1>6, <1>7

-----------------------------------------------------------------------------
(* Send                                                                    *)

(* A Send that begins, while no other one goes on, gets the next number;   *)
(* it has nothing on the ring yet.                                         *)
LEMMA SendBegins ==
  ASSUME pc = [q \in Callers |-> pc[q]], TxInv, NEW p \in Callers, Go(p, "take"), Noticed,
         "race" \notin seen' => ~Sending("main"), ~Sending("irq"),
         sends' = sends + 1, local' = [local EXCEPT ![p].frame = sends + 1],
         UNCHANGED <<sendDescr, sendBuffer, currentSendBuffer, cardSend, wire>>
  PROVE  TxTyped' /\ Sent'
<1>1. /\ pc'[p] = "take" /\ \A q \in Callers \ {p} : pc'[q] = pc[q]
  BY Gone, Zenon
<1>2. /\ local' \in [Callers -> [descriptor : Ring, next : Ring, frame : Nat]]
      /\ local'[p].frame = sends + 1 /\ sends' \in Nat
  <2>1. sends \in Nat /\ local \in [Callers -> [descriptor : Ring, next : Ring, frame : Nat]]
    BY Zenon DEF TxInv, TxTyped
  <2>2. sends + 1 \in Nat /\ local[p] \in [descriptor : Ring, next : Ring, frame : Nat]
    BY <2>1, SMT
  <2>3. PICK n, l : n = sends + 1 /\ l = [local[p] EXCEPT !.frame = n]
    BY Zenon
  <2>4. l \in [descriptor : Ring, next : Ring, frame : Nat] /\ l.frame = n
    BY <2>2, <2>3, SMT
  <2>5. local' = [local EXCEPT ![p] = l]
    BY <2>3, Zenon
  <2>6. local' \in [Callers -> [descriptor : Ring, next : Ring, frame : Nat]] /\ local'[p] = l
    BY <2>1, <2>4, <2>5, Zenon
  <2> QED
    BY <2>2, <2>3, <2>4, <2>6, Zenon
<1>3. TxTyped'
  BY <1>2, Zenon DEF TxInv, TxTyped
<1>4. Sent'
  <2> SUFFICES ASSUME "race" \notin seen'
               PROVE  /\ Alone' /\ \E k \in 0..N : InStep(k)'
                      /\ SentInOrder' /\ SentBytesOwn'
    BY Zenon DEF Sent
  <2>1. /\ ~Busy /\ ~Ahead /\ \A q \in Callers : ~Sending(q)
    BY NoSender, Zenon
  <2>2. \A q \in Callers \ {p} : ~Sending(q)'
    BY <1>1, <2>1, Zenon DEF Sending
  <2>3. Sending(p)' /\ Alone' /\ Busy'
    <3>1. Sending(p)'
      BY <1>1, Zenon DEF Sending
    <3> QED
      BY <2>2, <3>1, SMT DEF Alone, Busy, Callers
  <2>4. \A q \in Callers : pc'[q] \notin {"load", "store", "copy", "own"}
    <3>1. \A q \in Callers \ {p} : pc'[q] \notin {"load", "store", "copy", "own"}
      BY <2>2, Zenon DEF Sending
    <3>2. pc'[p] \notin {"load", "store", "copy", "own"}
      BY <1>1, SMT
    <3> QED
      BY <3>1, <3>2, Zenon
  <2>5. ~Ahead'
    BY <2>4, Zenon DEF Ahead
  <2>6. PICK k \in 0..N : InStep(k)
    BY WhatIsNoticed, Zenon DEF TxInv, Sent
  <2>7. sends' = Len(wire') + k + (IF Busy' THEN 1 ELSE 0)
    <3>1. PICK w \in Nat : w = Len(wire)
      BY WireLength, Zenon DEF TxInv
    <3>2. sends = w + k + 0
      BY <2>1, <2>6, <3>1, Zenon DEF InStep
    <3>3. sends + 1 = w + k + 1
      <4>1. k \in Nat
        BY NICAssumption, SMT
      <4> QED
        BY <3>2, <4>1, SMT
    <3> QED
      BY <2>3, <3>1, <3>3, Zenon
  <2>8. Owned' = Owned
    BY Zenon DEF Owned
  <2>9. currentSendBuffer' = Place(cardSend', IF Ahead' THEN k + 1 ELSE k)
    <3>1. currentSendBuffer = Place(cardSend, k)
      BY <2>1, <2>6, Zenon DEF InStep
    <3> QED
      BY <2>5, <3>1, Zenon
  <2>10. \A q \in Callers : /\ Sending(q)' => local'[q].frame = sends'
                            /\ ~(pc'[q] \in {"load", "store", "copy", "own"}) /\ pc'[q] # "store"
    BY <1>2, <2>2, <2>4, Zenon
  <2>11. InStep(k)'
    BY <2>6, <2>7, <2>8, <2>9, <2>10, Zenon DEF InStep
  <2>12. SentInOrder'
    BY WhatIsNoticed, Zenon DEF TxInv, Sent, SentInOrder
  <2>13. SentBytesOwn'
    <3> SUFFICES ASSUME "crowd" \notin seen'
                 PROVE  /\ sends' <= Len(wire) + 1
                        /\ \A d \in Owned : sendBuffer[d] = sendDescr[d].of
                        /\ \A i \in 1..Len(wire) : wire[i].bytes = i
      BY <2>4, <2>8, Zenon DEF SentBytesOwn
    <3>1. sends' <= Len(wire) + 1
      <4>1. PICK w \in Nat : w = Len(wire)
        BY WireLength, Zenon DEF TxInv
      <4>2. ~(sends' - w > 1)
        BY <4>1, WhatIsNoticed, Zenon
      <4>3. PICK n \in Nat : n = sends'
        BY <1>2, Zenon
      <4>4. n <= w + 1
        BY <4>2, <4>3, SMT
      <4> QED
        BY <4>1, <4>3, <4>4, Zenon
    <3>2. "crowd" \notin seen /\ "race" \notin seen
      BY WhatIsNoticed, Zenon
    <3> QED
      BY <3>1, <3>2, Zenon DEF TxInv, Sent, SentBytesOwn
  <2> QED
    BY <2>3, <2>11, <2>12, <2>13, Zenon
<1> QED
  BY <1>3, <1>4

(* kernelMain sends only while the ring has a place for it besides those   *)
(* of the answers.                                                         *)
LEMMA StartSendKeepsTx ==
  ASSUME IInv, TxInv, StartSend
  PROVE  TxInv'
<1>1. /\ pc = [q \in Callers |-> pc[q]] /\ "main" \in Callers
      /\ pc["main"] = "idle" /\ pc["irq"] = "idle"
  <2>1. Turn("main") /\ pc["main"] = "idle"
    BY Zenon DEF StartSend, At
  <2> QED
    BY <2>1, Zenon DEF IInv, RxTyped, Callers, Turn
<1>2. ~Sending("main") /\ ~Sending("irq") /\ ~Handling
  <2>1. ~Sending("main") /\ ~Sending("irq")
    BY <1>1, SMT DEF Sending
  <2> QED
    BY <1>1, <2>1, SMT DEF Handling
<1>3. /\ UNCHANGED <<sendDescr, sendBuffer, recvDescr, currentSendBuffer, currentRecvBuffer,
                    cardSend, wire>>
      /\ sends' = sends + 1 /\ local' = [local EXCEPT !["main"].frame = sends + 1]
      /\ Go("main", "take") /\ Noticed
  BY Zenon DEF StartSend, ring, indices
<1>4. TxTyped' /\ Sent'
  BY <1>1, <1>2, <1>3, SendBegins, Zenon
<1>5. Roomy'
  <2>1. Handling' <=> Handling
    <3>1. pc'["irq"] = pc["irq"]
      <4>1. "irq" \in Callers \ {"main"}
        BY SMT DEF Callers
      <4> QED
        BY <1>1, <1>3, <4>1, Gone, Zenon
    <3> QED
      BY <3>1, Zenon DEF Handling
  <2>2. ToAnswer' = ToAnswer /\ ToAnswer = Requests
    <3>1. ToAnswer' = ToAnswer
      BY <1>3, <2>1, SameToAnswer, Zenon
    <3>2. ToAnswer = Requests
      BY <1>2, Zenon DEF ToAnswer
    <3> QED
      BY <3>1, <3>2
  <2>3. PICK a, w \in Nat : a = Cardinality(Requests) /\ w = Len(wire)
    <3>1. Requests \in SUBSET Ring
      BY Zenon DEF Requests, Unread
    <3>2. Cardinality(Requests) \in Nat /\ Len(wire) \in Nat
      BY <3>1, RingFinite, WireLength, Zenon DEF TxInv
    <3> QED
      BY <3>2, Zenon
  <2>4. sends - w + a < TxBurst /\ sends \in Nat /\ TxBurst \in Nat
    BY <2>3, NICAssumption, Zenon DEF StartSend, MayCauseSend, TxInv, TxTyped
  <2>5. a <= a
    BY SMT
  <2>6. sends + 1 + a <= w + TxBurst
    BY <2>4, <2>5, StillRoom, Zenon
  <2>7. sends' + Cardinality(ToAnswer') <= Len(wire') + TxBurst
    <3>1. Cardinality(ToAnswer') = a /\ sends' = sends + 1 /\ Len(wire') = w
      BY <1>3, <2>2, <2>3, Zenon
    <3> QED
      BY <2>6, <3>1, Zenon
  <2> QED
    BY <2>7 DEF Roomy
<1> QED
  BY <1>4, <1>5, Zenon DEF TxInv

(* The handler's answer takes the place kept for it.                       *)
LEMMA HandUpKeepsTx ==
  ASSUME IInv, TxInv, HandUp
  PROVE  TxInv'
<1>1. PICK r : r = currentRecvBuffer
  BY Zenon
<1>2. /\ UNCHANGED <<sendDescr, sendBuffer, recvDescr, currentSendBuffer, currentRecvBuffer,
                    cardSend, wire>>
      /\ pc["irq"] = "drain" /\ ~recvDescr[r].own /\ Noticed
      /\ pc = [q \in Callers |-> pc[q]] /\ "irq" \in Callers /\ r \in Ring
  BY <1>1, Zenon DEF HandUp, ring, indices, IInv, RxTyped, Callers
<1>3. ~Sending("irq") /\ ~Handling
  <2>1. ~Sending("irq")
    BY <1>2, SMT DEF Sending
  <2> QED
    BY <1>2, <2>1, SMT DEF Handling
<1>4. Requests' = Requests
  BY <1>2, Zenon DEF Requests, Unread
<1>5. CASE recvDescr[r].ok /\ recvDescr[r].answer
  <2>1. /\ sends' = sends + 1 /\ local' = [local EXCEPT !["irq"].frame = sends + 1]
        /\ Go("irq", "take")
    BY <1>1, <1>5, Zenon DEF HandUp
  <2>2. "race" \notin seen' => ~Sending("main")
    <3>1. sends' > sends
      BY <2>1, SMT DEF TxInv, TxTyped
    <3> QED
      BY <1>2, <3>1, WhatIsNoticed, Zenon
  <2>3. TxTyped' /\ Sent'
    BY <1>2, <1>3, <2>1, <2>2, SendBegins, Zenon
  <2>4. ToAnswer = Requests /\ ToAnswer' = Requests \ {r} /\ r \in Requests
    <3>1. pc'["irq"] = "take"
      BY <1>2, <2>1, Gone, Zenon
    <3>2. Handling'
      BY <3>1, SMT DEF Handling
    <3>3. r \in Requests
      BY <1>2, <1>5, Zenon DEF Requests, Unread
    <3> QED
      BY <1>1, <1>2, <1>3, <1>4, <3>2, <3>3, Zenon DEF ToAnswer
  <2>5. PICK a, b, w \in Nat : /\ a = Cardinality(ToAnswer) /\ b = Cardinality(ToAnswer')
                               /\ w = Len(wire) /\ b + 1 = a
    <3>1. Requests \in SUBSET Ring /\ Requests \ {r} \in SUBSET Ring
      BY Zenon DEF Requests, Unread
    <3>2. /\ IsFiniteSet(Requests) /\ Cardinality(Requests) \in Nat
          /\ Cardinality(Requests \ {r}) \in Nat
      BY <3>1, RingFinite, Zenon
    <3>3. Cardinality(Requests \ {r}) = Cardinality(Requests) - 1
      BY <2>4, <3>2, FS_RemoveElement, Zenon
    <3>4. Cardinality(Requests \ {r}) + 1 = Cardinality(Requests)
      BY <3>2, <3>3, SMT
    <3>5. Len(wire) \in Nat
      BY WireLength, Zenon DEF TxInv
    <3> QED
      BY <2>4, <3>2, <3>4, <3>5, Zenon
  <2>6. sends + a <= w + TxBurst /\ sends \in Nat /\ TxBurst \in Nat
    BY <2>5, NICAssumption, Zenon DEF TxInv, TxTyped, Roomy
  <2>7. sends + 1 + b <= w + TxBurst
    BY <2>5, <2>6, StillRoom, Zenon
  <2>8. sends' + Cardinality(ToAnswer') <= Len(wire') + TxBurst
    <3>1. Cardinality(ToAnswer') = b /\ sends' = sends + 1 /\ Len(wire') = w
      BY <1>2, <2>1, <2>5, Zenon
    <3> QED
      BY <2>7, <3>1, Zenon
  <2> QED
    BY <2>3, <2>8, Zenon DEF TxInv, Roomy
<1>6. CASE ~(recvDescr[r].ok /\ recvDescr[r].answer)
  <2>1. UNCHANGED <<sends, local>> /\ Go("irq", "give")
    BY <1>1, <1>6, Zenon DEF HandUp
  <2>2. pc'["irq"] = "give" /\ \A q \in Callers \ {"irq"} : pc'[q] = pc[q]
    BY <1>2, <2>1, Gone, Zenon
  <2>3. ~Sending("irq")'
    BY <2>2, SMT DEF Sending
  <2>4. ToAnswer' \subseteq ToAnswer
    BY <1>2, <1>3, <1>4, Zenon DEF ToAnswer
  <2>5. Roomy'
    BY <1>2, <2>1, <2>4, RoomyKept, Zenon DEF TxInv
  <2>6. \A p \in Callers : pc'[p] = pc[p] \/ (~Sending(p) /\ ~Sending(p)')
    BY <1>3, <2>2, <2>3, Zenon
  <2>7. seen \subseteq seen'
    BY <1>2, WhatIsNoticed, Zenon
  <2> QED
    BY <1>2, <2>1, <2>5, <2>6, <2>7, TxUntouched, Zenon
<1> QED
  BY <1>5, <1>6

(* A Send that goes on has a place of its own on the ring.                 *)
LEMMA SenderHasPlace ==
  ASSUME TxInv, TxBurst <= N, NEW k \in 0..N, InStep(k), Busy
  PROVE  k \in 0..(N - 1) /\ k + 1 \in 1..N
<1>1. PICK a, w \in Nat : a = Cardinality(ToAnswer) /\ w = Len(wire)
  <2>1. ToAnswer \in SUBSET Ring
    BY Zenon DEF ToAnswer, Requests, Unread
  <2>2. Cardinality(ToAnswer) \in Nat /\ Len(wire) \in Nat
    BY <2>1, RingFinite, WireLength, Zenon DEF TxInv
  <2> QED
    BY <2>2, Zenon
<1>2. PICK s, t \in Nat : s = sends /\ t = TxBurst
  BY NICAssumption, Zenon DEF TxInv, TxTyped
<1>3. s = w + k + 1
  BY <1>1, <1>2, Zenon DEF InStep
<1>4. s + a <= w + t
  BY <1>1, <1>2, Zenon DEF TxInv, Roomy
<1>5. t <= N /\ N \in Nat /\ k \in Nat
  BY <1>2, NICAssumption, SMT
<1>6. k + 1 <= N
  BY <1>3, <1>4, <1>5, SMT
<1> QED
  BY <1>5, <1>6, SMT

(* A Send notes the descriptor it uses.                                    *)
LEMMA DescriptorTaken ==
  ASSUME TxTyped, NEW p \in Callers, NEW x \in Ring,
         local' = [local EXCEPT ![p].descriptor = x]
  PROVE  /\ local' \in [Callers -> [descriptor : Ring, next : Ring, frame : Nat]]
         /\ local'[p].frame = local[p].frame /\ local'[p].descriptor = x
<1>1. /\ local \in [Callers -> [descriptor : Ring, next : Ring, frame : Nat]]
      /\ local[p] \in [descriptor : Ring, next : Ring, frame : Nat]
  BY Zenon DEF TxTyped
<1>2. PICK d : d = [local[p] EXCEPT !.descriptor = x]
  BY Zenon
<1>3. /\ d \in [descriptor : Ring, next : Ring, frame : Nat]
      /\ d.frame = local[p].frame /\ d.descriptor = x
  BY <1>1, <1>2, SMT
<1>4. local' = [local EXCEPT ![p] = d]
  BY <1>2, Zenon
<1>5. local'[p] = d /\ local' \in [Callers -> [descriptor : Ring, next : Ring, frame : Nat]]
  BY <1>1, <1>3, <1>4, Zenon
<1> QED
  BY <1>3, <1>5, Zenon

(* A Send notes what it will write back.                                   *)
LEMMA NextLoaded ==
  ASSUME TxTyped, NEW p \in Callers, NEW x \in Ring,
         local' = [local EXCEPT ![p].next = x]
  PROVE  /\ local' \in [Callers -> [descriptor : Ring, next : Ring, frame : Nat]]
         /\ local'[p].frame = local[p].frame /\ local'[p].next = x
         /\ local'[p].descriptor = local[p].descriptor
<1>1. /\ local \in [Callers -> [descriptor : Ring, next : Ring, frame : Nat]]
      /\ local[p] \in [descriptor : Ring, next : Ring, frame : Nat]
  BY Zenon DEF TxTyped
<1>2. PICK d : d = [local[p] EXCEPT !.next = x]
  BY Zenon
<1>3. /\ d \in [descriptor : Ring, next : Ring, frame : Nat]
      /\ d.frame = local[p].frame /\ d.next = x /\ d.descriptor = local[p].descriptor
  BY <1>1, <1>2, SMT
<1>4. local' = [local EXCEPT ![p] = d]
  BY <1>2, Zenon
<1>5. local'[p] = d /\ local' \in [Callers -> [descriptor : Ring, next : Ring, frame : Nat]]
  BY <1>1, <1>3, <1>4, Zenon
<1> QED
  BY <1>3, <1>5, Zenon

(* Where there is one sender at most, InStep is about that one.            *)
LEMMA OneSender ==
  ASSUME NEW p \in Callers, NEW k, \A q \in Callers \ {p} : ~Sending(q)',
         sends' = Len(wire') + k + (IF Busy' THEN 1 ELSE 0),
         Owned' = {d \in Ring : Distance(cardSend', d) < k},
         \A d \in Owned' : sendDescr'[d].of = Len(wire') + 1 + Distance(cardSend', d),
         currentSendBuffer' = Place(cardSend', IF Ahead' THEN k + 1 ELSE k),
         Sending(p)' => local'[p].frame = sends',
         pc'[p] \in {"load", "store", "copy", "own"} => local'[p].descriptor = Place(cardSend', k),
         pc'[p] = "store" => local'[p].next = Place(cardSend', k + 1)
  PROVE  InStep(k)'
<1>1. \A q \in Callers \ {p} : pc'[q] \notin {"load", "store", "copy", "own"} /\ pc'[q] # "store"
  BY Zenon DEF Sending
<1>2. \A q \in Callers :
        /\ Sending(q)' => local'[q].frame = sends'
        /\ pc'[q] \in {"load", "store", "copy", "own"} => local'[q].descriptor = Place(cardSend', k)
        /\ pc'[q] = "store" => local'[q].next = Place(cardSend', k + 1)
  BY <1>1, Zenon
<1> QED
  BY <1>2, Zenon DEF InStep

(* What a Send that goes on knows of the ring.                             *)
LEMMA SenderKnows ==
  ASSUME IInv, TxInv, TxBurst <= N, "race" \notin seen, NEW p \in Callers, Sending(p)
  PROVE  /\ Alone /\ pc = [q \in Callers |-> pc[q]] /\ local[p].frame = sends
         /\ \E k \in 0..(N - 1) :
              /\ InStep(k) /\ k + 1 \in 0..N /\ sends = Len(wire) + k + 1
              /\ Place(cardSend, k) \in Ring /\ Place(cardSend, k + 1) \in Ring
              /\ (Place(cardSend, k) + 1) % N = Place(cardSend, k + 1)
              /\ "crowd" \notin seen => k = 0 /\ Owned = {}
<1>1. Alone /\ pc = [q \in Callers |-> pc[q]]
  BY Zenon DEF IInv, RxTyped, TxInv, Sent
<1>2. PICK k \in 0..N : InStep(k)
  BY Zenon DEF TxInv, Sent
<1>3. Busy
  BY SMT DEF Busy, Callers
<1>4. k \in 0..(N - 1) /\ k + 1 \in 1..N
  BY <1>2, <1>3, SenderHasPlace, Zenon
<1>5. k \in 0..N /\ k + 1 \in 0..N /\ k \in Nat
  BY <1>4, NICAssumption, SMT
<1>6. sends = Len(wire) + k + 1 /\ local[p].frame = sends
  BY <1>2, <1>3, Zenon DEF InStep
<1>7. cardSend \in Ring
  BY Zenon DEF TxInv, TxTyped
<1>8. /\ Place(cardSend, k) \in Ring /\ Place(cardSend, k + 1) \in Ring
      /\ (Place(cardSend, k) + 1) % N = Place(cardSend, k + 1)
  BY <1>4, <1>5, <1>7, PlaceInRing, PlaceOfNext, Zenon
<1>9. "crowd" \notin seen => k = 0 /\ Owned = {}
  <2> SUFFICES ASSUME "crowd" \notin seen
               PROVE  k = 0 /\ Owned = {}
    OBVIOUS
  <2>1. PICK w \in Nat : w = Len(wire)
    BY WireLength, Zenon DEF TxInv
  <2>2. sends <= w + 1 /\ sends = w + k + 1
    BY <1>6, <2>1, Zenon DEF TxInv, Sent, SentBytesOwn
  <2>3. k = 0
    BY <1>5, <2>2, SMT
  <2>4. \A d \in Ring : ~(Distance(cardSend, d) < 0)
    BY <1>7, DistanceInRing, NICAssumption, SMT
  <2>5. Owned = {}
    BY <1>2, <2>3, <2>4, Zenon DEF InStep
  <2> QED
    BY <2>3, <2>5
<1> QED
  BY <1>1, <1>4, <1>5, <1>6, <1>8, <1>2, <1>9, Zenon

(* Reading and moving the index.                                           *)
LEMMA IndexKeepsTx ==
  ASSUME IInv, TxInv, TxBurst <= N, NEW p \in Callers,
         TakeDescriptor(p) \/ LoadIndex(p) \/ StoreIndex(p)
  PROVE  TxTyped' /\ Sent'
<1>1. /\ UNCHANGED <<sendDescr, sendBuffer, cardSend, sends, wire, seen>> /\ Sending(p)
  BY Zenon DEF TakeDescriptor, LoadIndex, StoreIndex, ring, indices, history, At, Sending
<1>2. /\ TakeDescriptor(p) => /\ pc[p] = "take" /\ Go(p, "load")
                             /\ local' = [local EXCEPT ![p].descriptor = currentSendBuffer]
                             /\ currentSendBuffer' = currentSendBuffer
      /\ LoadIndex(p) => /\ pc[p] = "load" /\ Go(p, "store")
                         /\ local' = [local EXCEPT ![p].next = (currentSendBuffer + 1) % N]
                         /\ currentSendBuffer' = currentSendBuffer
      /\ StoreIndex(p) => /\ pc[p] = "store" /\ Go(p, "copy") /\ local' = local
                          /\ currentSendBuffer' = local[p].next
  BY Zenon DEF TakeDescriptor, LoadIndex, StoreIndex, At, indices
<1>3. /\ currentSendBuffer \in Ring /\ (currentSendBuffer + 1) % N \in Ring
      /\ local[p].next \in Ring
  <2>1. /\ currentSendBuffer \in Ring
        /\ local \in [Callers -> [descriptor : Ring, next : Ring, frame : Nat]]
    BY Zenon DEF TxInv, TxTyped
  <2>2. local[p] \in [descriptor : Ring, next : Ring, frame : Nat]
    BY <2>1, Zenon
  <2> QED
    BY <2>1, <2>2, NextPlace, Zenon
<1>4. /\ local' \in [Callers -> [descriptor : Ring, next : Ring, frame : Nat]]
      /\ local'[p].frame = local[p].frame
      /\ TakeDescriptor(p) => local'[p].descriptor = currentSendBuffer
      /\ LoadIndex(p) => /\ local'[p].next = (currentSendBuffer + 1) % N
                         /\ local'[p].descriptor = local[p].descriptor
      /\ StoreIndex(p) => local' = local
  <2>1. CASE TakeDescriptor(p) /\ ~LoadIndex(p) /\ ~StoreIndex(p)
    <3>1. TxTyped /\ local' = [local EXCEPT ![p].descriptor = currentSendBuffer]
      BY <1>2, <2>1, Zenon DEF TxInv
    <3>2. /\ local' \in [Callers -> [descriptor : Ring, next : Ring, frame : Nat]]
          /\ local'[p].frame = local[p].frame /\ local'[p].descriptor = currentSendBuffer
      BY <1>3, <3>1, DescriptorTaken, Zenon
    <3> QED
      BY <2>1, <3>2, Zenon
  <2>2. CASE LoadIndex(p) /\ ~TakeDescriptor(p) /\ ~StoreIndex(p)
    <3>1. PICK n \in Ring : n = (currentSendBuffer + 1) % N
      BY <1>3, Zenon
    <3>2. TxTyped /\ local' = [local EXCEPT ![p].next = n]
      BY <1>2, <2>2, <3>1, Zenon DEF TxInv
    <3>3. /\ local' \in [Callers -> [descriptor : Ring, next : Ring, frame : Nat]]
          /\ local'[p].frame = local[p].frame
          /\ local'[p].next = n /\ local'[p].descriptor = local[p].descriptor
      BY <3>2, NextLoaded, Zenon
    <3> QED
      BY <2>2, <3>1, <3>3, Zenon
  <2>3. CASE StoreIndex(p) /\ ~TakeDescriptor(p) /\ ~LoadIndex(p)
    BY <1>2, <2>3, Zenon DEF TxInv, TxTyped
  <2>4. /\ ~(TakeDescriptor(p) /\ LoadIndex(p)) /\ ~(TakeDescriptor(p) /\ StoreIndex(p))
        /\ ~(LoadIndex(p) /\ StoreIndex(p))
    BY <1>2, SMT
  <2> QED
    BY <2>1, <2>2, <2>3, <2>4, Zenon
<1>5. TxTyped'
  <2>1. currentSendBuffer' \in Ring
    BY <1>2, <1>3, Zenon
  <2> QED
    BY <1>1, <1>4, <2>1, Zenon DEF TxInv, TxTyped
<1>6. Sent'
  <2> SUFFICES ASSUME "race" \notin seen
               PROVE  Alone' /\ (\E k \in 0..N : InStep(k)') /\ SentInOrder' /\ SentBytesOwn'
    BY <1>1, Zenon DEF Sent
  <2>1. PICK where : /\ where \in {"load", "store", "copy"} /\ Go(p, where)
                     /\ where = "load" => TakeDescriptor(p)
                     /\ where = "store" => LoadIndex(p)
                     /\ where = "copy" => StoreIndex(p)
    <3>1. "load" # "store" /\ "load" # "copy" /\ "store" # "copy"
      BY SMT
    <3> QED
      BY <1>2, <3>1, Zenon
  <2>2. /\ Alone /\ pc = [q \in Callers |-> pc[q]] /\ local[p].frame = sends
    BY <1>1, SenderKnows, Zenon
  <2>3. PICK k \in 0..(N - 1) :
              /\ InStep(k) /\ k + 1 \in 0..N /\ sends = Len(wire) + k + 1
              /\ (Place(cardSend, k) + 1) % N = Place(cardSend, k + 1)
    BY <1>1, SenderKnows, Zenon
  <2>4. /\ Ahead <=> pc[p] \in {"copy", "own"}
        /\ Busy' <=> where \in {"take", "load", "store", "copy", "own"}
        /\ Ahead' <=> where \in {"copy", "own"}
        /\ Alone' /\ pc'[p] = where
        /\ \A q \in Callers \ {p} : ~Sending(q)'
    BY <1>1, <2>1, <2>2, SenderGoes, Zenon
  <2>5. Busy' /\ (~Ahead) /\ (Ahead' <=> StoreIndex(p))
    <3>1. pc[p] \in {"take", "load", "store"} /\ (where = "copy" <=> StoreIndex(p))
      BY <1>2, <2>1, SMT
    <3>2. ~Ahead
      BY <2>4, <3>1, SMT
    <3>3. Ahead' <=> where = "copy"
      BY <2>1, <2>4, SMT
    <3>4. Busy'
      BY <2>1, <2>4, SMT
    <3> QED
      BY <3>1, <3>2, <3>3, <3>4, Zenon
  <2>6. currentSendBuffer = Place(cardSend, k)
    BY <2>3, <2>5, Zenon DEF InStep
  <2>7. local'[p].descriptor = Place(cardSend, k)
    BY <1>2, <1>4, <2>1, <2>3, <2>6, Zenon DEF InStep
  <2>8. pc'[p] = "store" => local'[p].next = Place(cardSend, k + 1)
    BY <1>4, <2>1, <2>3, <2>4, <2>6, Zenon
  <2>9. currentSendBuffer' = Place(cardSend, IF Ahead' THEN k + 1 ELSE k)
    <3>1. CASE StoreIndex(p)
      <4>1. currentSendBuffer' = Place(cardSend, k + 1)
        BY <1>2, <2>3, <3>1, Zenon DEF InStep
      <4> QED
        BY <2>5, <3>1, <4>1, Zenon
    <3>2. CASE ~StoreIndex(p)
      <4>1. currentSendBuffer' = Place(cardSend, k)
        BY <1>2, <2>6, <3>2, Zenon
      <4> QED
        BY <2>5, <3>2, <4>1, Zenon
    <3> QED
      BY <3>1, <3>2
  <2>10. Owned' = Owned
    BY <1>1, Zenon DEF Owned
  <2>11. InStep(k)'
    <3>1. sends' = Len(wire') + k + (IF Busy' THEN 1 ELSE 0)
      BY <1>1, <2>3, <2>5, Zenon
    <3>2. /\ Owned' = {d \in Ring : Distance(cardSend', d) < k}
          /\ \A d \in Owned' : sendDescr'[d].of = Len(wire') + 1 + Distance(cardSend', d)
      BY <1>1, <2>3, <2>10, Zenon DEF InStep
    <3>3. local'[p].frame = sends'
      BY <1>1, <1>4, <2>2, Zenon
    <3>4. /\ currentSendBuffer' = Place(cardSend', IF Ahead' THEN k + 1 ELSE k)
          /\ local'[p].descriptor = Place(cardSend', k)
          /\ pc'[p] = "store" => local'[p].next = Place(cardSend', k + 1)
      BY <1>1, <2>7, <2>8, <2>9, Zenon
    <3> QED
      BY <2>4, <3>1, <3>2, <3>3, <3>4, OneSender, Zenon
  <2>12. SentInOrder'
    BY <1>1, Zenon DEF TxInv, Sent, SentInOrder
  <2>13. SentBytesOwn'
    <3>1. \A q \in Callers : pc'[q] # "own"
      <4>1. pc'[p] # "own"
        BY <2>1, <2>4, SMT
      <4> QED
        BY <2>4, <4>1, Zenon DEF Sending
    <3> QED
      BY <1>1, <2>10, <3>1, Zenon DEF TxInv, Sent, SentBytesOwn
  <2>14. k \in 0..N
    BY NICAssumption, SMT
  <2> QED
    BY <2>4, <2>11, <2>12, <2>13, <2>14, Zenon
<1> QED
  BY <1>5, <1>6

(* The copy into the buffer.                                               *)
LEMMA CopyKeepsTx ==
  ASSUME IInv, TxInv, TxBurst <= N, NEW p \in Callers, CopyFrame(p)
  PROVE  TxTyped' /\ Sent'
<1>1. /\ UNCHANGED <<sendDescr, currentSendBuffer, cardSend, sends, wire, seen, local>>
      /\ pc[p] = "copy" /\ Go(p, "own") /\ Sending(p)
  BY Zenon DEF CopyFrame, indices, history, At, Sending
<1>2. PICK d \in Ring, n \in Nat : d = local[p].descriptor /\ n = local[p].frame
  <2>1. local \in [Callers -> [descriptor : Ring, next : Ring, frame : Nat]]
    BY Zenon DEF TxInv, TxTyped
  <2>2. local[p] \in [descriptor : Ring, next : Ring, frame : Nat]
    BY <2>1, Zenon
  <2> QED
    BY <2>2, Zenon
<1>3. sendBuffer' \in [Ring -> Nat] /\ sendBuffer'[d] = n
  <2>1. sendBuffer \in [Ring -> Nat]
    BY Zenon DEF TxInv, TxTyped
  <2>2. sendBuffer' = Written(sendBuffer, d, n)
    BY <1>2, Zenon DEF CopyFrame
  <2> QED
    BY <2>1, <2>2, WrittenThere, Zenon
<1>4. TxTyped'
  BY <1>1, <1>3, Zenon DEF TxInv, TxTyped
<1>5. Sent'
  <2> SUFFICES ASSUME "race" \notin seen
               PROVE  Alone' /\ (\E k \in 0..N : InStep(k)') /\ SentInOrder' /\ SentBytesOwn'
    BY <1>1, Zenon DEF Sent
  <2>1. /\ Alone /\ pc = [q \in Callers |-> pc[q]] /\ local[p].frame = sends
    BY <1>1, SenderKnows, Zenon
  <2>2. PICK k \in 0..(N - 1) : /\ InStep(k) /\ sends = Len(wire) + k + 1
                                /\ "crowd" \notin seen => k = 0 /\ Owned = {}
    BY <1>1, SenderKnows, Zenon
  <2>3. /\ Ahead <=> pc[p] \in {"copy", "own"}
        /\ Busy' <=> "own" \in {"take", "load", "store", "copy", "own"}
        /\ Ahead' <=> "own" \in {"copy", "own"}
        /\ Alone' /\ pc'[p] = "own"
        /\ \A q \in Callers \ {p} : ~Sending(q)'
    BY <1>1, <2>1, SenderGoes, Zenon
  <2>4. Busy' /\ Ahead /\ Ahead' /\ pc[p] \in {"load", "store", "copy", "own"} /\ pc'[p] # "store"
    <3>1. "own" # "store" /\ pc[p] \in {"load", "store", "copy", "own"}
      BY <1>1, SMT
    <3> QED
      BY <1>1, <2>3, <3>1, Zenon
  <2>5. Owned' = Owned
    BY <1>1, Zenon DEF Owned
  <2>6. InStep(k)'
    <3>1. sends' = Len(wire') + k + (IF Busy' THEN 1 ELSE 0)
      BY <1>1, <2>2, <2>4, Zenon
    <3>2. /\ Owned' = {e \in Ring : Distance(cardSend', e) < k}
          /\ \A e \in Owned' : sendDescr'[e].of = Len(wire') + 1 + Distance(cardSend', e)
      BY <1>1, <2>2, <2>5, Zenon DEF InStep
    <3>3. local'[p].frame = sends'
      BY <1>1, <2>1, Zenon
    <3>4. currentSendBuffer' = Place(cardSend', IF Ahead' THEN k + 1 ELSE k)
      <4>1. currentSendBuffer = Place(cardSend, k + 1)
        BY <2>2, <2>4, Zenon DEF InStep
      <4> QED
        BY <1>1, <2>4, <4>1, Zenon
    <3>5. local'[p].descriptor = Place(cardSend', k)
      <4>1. local[p].descriptor = Place(cardSend, k)
        BY <2>2, <2>4, Zenon DEF InStep
      <4> QED
        BY <1>1, <4>1, Zenon
    <3> QED
      BY <2>3, <2>4, <3>1, <3>2, <3>3, <3>4, <3>5, OneSender, Zenon
  <2>7. SentInOrder'
    BY <1>1, Zenon DEF TxInv, Sent, SentInOrder
  <2>8. SentBytesOwn'
    <3> SUFFICES ASSUME "crowd" \notin seen
                 PROVE  /\ sends <= Len(wire) + 1
                        /\ \A e \in Owned : sendBuffer'[e] = sendDescr[e].of
                        /\ \A q \in Callers : pc'[q] = "own" =>
                             sendBuffer'[local[q].descriptor] = local[q].frame
                        /\ \A i \in 1..Len(wire) : wire[i].bytes = i
      BY <1>1, <2>5, Zenon DEF SentBytesOwn
    <3>1. \A q \in Callers : pc'[q] = "own" => q = p
      BY <2>3, Zenon DEF Sending
    <3> QED
      BY <1>2, <1>3, <2>2, <3>1, Zenon DEF TxInv, Sent, SentBytesOwn
  <2>9. k \in 0..N
    BY NICAssumption, SMT
  <2> QED
    BY <2>3, <2>6, <2>7, <2>8, <2>9, Zenon
<1> QED
  BY <1>4, <1>5

(* The descriptor handed over is the one behind those that wait.           *)
LEMMA HandOverKeepsTx ==
  ASSUME IInv, TxInv, TxBurst <= N, NEW p \in Callers, HandOver(p)
  PROVE  TxTyped' /\ Sent'
<1>1. PICK where : /\ Go(p, where) /\ where \in {"idle", "give"}
                   /\ UNCHANGED <<sendBuffer, currentSendBuffer, cardSend, sends>>
                   /\ UNCHANGED <<wire, seen, local>>
                   /\ pc[p] = "own" /\ Sending(p)
  BY Zenon DEF HandOver, indices, history, At, Sending
<1>2. PICK d \in Ring, n \in Nat : d = local[p].descriptor /\ n = local[p].frame
  <2>1. local \in [Callers -> [descriptor : Ring, next : Ring, frame : Nat]]
    BY Zenon DEF TxInv, TxTyped
  <2>2. local[p] \in [descriptor : Ring, next : Ring, frame : Nat]
    BY <2>1, Zenon
  <2> QED
    BY <2>2, Zenon
<1>3. /\ sendDescr' \in [Ring -> [own : BOOLEAN, of : Nat]]
      /\ sendDescr'[d].own /\ sendDescr'[d].of = n
      /\ \A e \in Ring \ {d} : sendDescr'[e] = sendDescr[e]
  <2>1. PICK x : x = [own |-> TRUE, of |-> n]
    BY Zenon
  <2>2. x \in [own : BOOLEAN, of : Nat] /\ x.own /\ x.of = n
    BY <2>1, SMT
  <2>3. /\ sendDescr' = [sendDescr EXCEPT ![d] = x]
        /\ sendDescr \in [Ring -> [own : BOOLEAN, of : Nat]]
    BY <1>2, <2>1, Zenon DEF HandOver, TxInv, TxTyped
  <2> QED
    BY <2>2, <2>3, Zenon
<1>4. TxTyped'
  BY <1>1, <1>3, Zenon DEF TxInv, TxTyped
<1>5. Owned' = Owned \cup {d}
  BY <1>3, Zenon DEF Owned
<1>6. Sent'
  <2> SUFFICES ASSUME "race" \notin seen
               PROVE  Alone' /\ (\E k \in 0..N : InStep(k)') /\ SentInOrder' /\ SentBytesOwn'
    BY <1>1, Zenon DEF Sent
  <2>1. /\ Alone /\ pc = [q \in Callers |-> pc[q]] /\ local[p].frame = sends
    BY <1>1, SenderKnows, Zenon
  <2>2. PICK k \in 0..(N - 1) : /\ InStep(k) /\ k + 1 \in 0..N /\ sends = Len(wire) + k + 1
                                /\ "crowd" \notin seen => k = 0 /\ Owned = {}
    BY <1>1, SenderKnows, Zenon
  <2>3. /\ Ahead <=> pc[p] \in {"copy", "own"}
        /\ Busy' <=> where \in {"take", "load", "store", "copy", "own"}
        /\ Ahead' <=> where \in {"copy", "own"}
        /\ Alone' /\ pc'[p] = where
        /\ \A q \in Callers \ {p} : ~Sending(q)'
    BY <1>1, <2>1, SenderGoes, Zenon
  <2>4. /\ ~Busy' /\ Ahead /\ ~Ahead' /\ ~Sending(p)' /\ pc'[p] # "store" /\ pc'[p] # "own"
        /\ pc'[p] \notin {"load", "store", "copy", "own"}
        /\ pc[p] \in {"load", "store", "copy", "own"}
    <3>1. /\ where \notin {"take", "load", "store", "copy", "own"} /\ where \notin {"copy", "own"}
          /\ where \notin {"load", "store", "copy", "own"} /\ where # "store" /\ where # "own"
          /\ pc[p] \in {"load", "store", "copy", "own"} /\ pc[p] \in {"copy", "own"}
      BY <1>1, SMT
    <3> QED
      BY <2>3, <3>1, Zenon DEF Sending
  <2>5. PICK c \in Ring : c = cardSend
    BY Zenon DEF TxInv, TxTyped
  <2>6. d = Place(c, k) /\ Distance(c, d) = k /\ \A e \in Ring : Distance(c, e) = k => e = d
    <3>1. d = Place(c, k)
      BY <1>2, <2>2, <2>4, <2>5, Zenon DEF InStep
    <3> QED
      BY <2>5, <3>1, PlaceDistance, Zenon
  <2>7. Owned' = {e \in Ring : Distance(c, e) < k + 1}
    <3>1. \A e \in Ring : Distance(c, e) < k + 1 <=> e \in Owned \/ e = d
      <4> SUFFICES ASSUME NEW e \in Ring
                   PROVE  Distance(c, e) < k + 1 <=> e \in Owned \/ e = d
        OBVIOUS
      <4>1. Distance(c, e) \in 0..(N - 1)
        BY <2>5, DistanceInRing, Zenon
      <4>2. Distance(c, e) < k + 1 <=> Distance(c, e) < k \/ Distance(c, e) = k
        BY <4>1, NICAssumption, SMT
      <4>3. Distance(c, e) < k <=> e \in Owned
        BY <2>2, <2>5, Zenon DEF InStep
      <4> QED
        BY <2>6, <4>2, <4>3, Zenon
    <3>2. Owned \subseteq Ring
      BY Zenon DEF Owned
    <3> QED
      BY <1>5, <3>1, <3>2, Zenon
  <2>8. \A e \in Owned' : sendDescr'[e].of = Len(wire) + 1 + Distance(c, e)
    <3>1. d \notin Owned
      <4>1. ~(k < k)
        BY NICAssumption, SMT
      <4> QED
        BY <2>2, <2>5, <2>6, <4>1, Zenon DEF InStep
    <3>2. \A e \in Owned : sendDescr'[e].of = Len(wire) + 1 + Distance(c, e)
      BY <1>3, <2>2, <2>5, <3>1, Zenon DEF InStep, Owned
    <3>3. sendDescr'[d].of = Len(wire) + 1 + Distance(c, d)
      <4>1. PICK w \in Nat : w = Len(wire)
        BY WireLength, Zenon DEF TxInv
      <4>2. n = w + k + 1
        BY <1>2, <2>1, <2>2, <4>1, Zenon
      <4>3. k \in Nat
        BY NICAssumption, SMT
      <4>4. n = w + 1 + k
        BY <4>2, <4>3, SMT
      <4> QED
        BY <1>3, <2>6, <4>1, <4>4, Zenon
    <3> QED
      BY <1>5, <3>2, <3>3, Zenon
  <2>9. InStep(k + 1)'
    <3>1. sends' = Len(wire') + (k + 1) + (IF Busy' THEN 1 ELSE 0)
      <4>1. PICK w \in Nat : w = Len(wire)
        BY WireLength, Zenon DEF TxInv
      <4>2. k \in Nat
        BY NICAssumption, SMT
      <4>3. w + k + 1 = w + (k + 1) + 0
        BY <4>2, SMT
      <4>4. sends' = w + (k + 1) + 0
        BY <1>1, <2>2, <4>1, <4>3, Zenon
      <4> QED
        BY <1>1, <2>4, <4>1, <4>4, Zenon
    <3>2. /\ Owned' = {e \in Ring : Distance(cardSend', e) < k + 1}
          /\ \A e \in Owned' : sendDescr'[e].of = Len(wire') + 1 + Distance(cardSend', e)
      BY <1>1, <2>5, <2>7, <2>8, Zenon
    <3>3. currentSendBuffer' = Place(cardSend', IF Ahead' THEN (k + 1) + 1 ELSE k + 1)
      <4>1. currentSendBuffer = Place(cardSend, k + 1)
        BY <2>2, <2>4, Zenon DEF InStep
      <4> QED
        BY <1>1, <2>4, <4>1, Zenon
    <3> QED
      BY <2>3, <2>4, <3>1, <3>2, <3>3, OneSender, Zenon
  <2>10. SentInOrder'
    BY <1>1, Zenon DEF TxInv, Sent, SentInOrder
  <2>11. SentBytesOwn'
    <3> SUFFICES ASSUME "crowd" \notin seen
                 PROVE  /\ sends <= Len(wire) + 1
                        /\ \A e \in Owned' : sendBuffer[e] = sendDescr'[e].of
                        /\ \A q \in Callers : pc'[q] # "own"
                        /\ \A i \in 1..Len(wire) : wire[i].bytes = i
      BY <1>1, Zenon DEF SentBytesOwn
    <3>1. \A q \in Callers : pc'[q] # "own"
      BY <2>3, <2>4, Zenon DEF Sending
    <3>2. sendBuffer[d] = n
      BY <1>1, <1>2, Zenon DEF TxInv, Sent, SentBytesOwn
    <3>3. \A e \in Owned' : e = d
      BY <1>5, <2>2, Zenon
    <3> QED
      BY <1>3, <3>1, <3>2, <3>3, Zenon DEF TxInv, Sent, SentBytesOwn
  <2> QED
    BY <2>2, <2>3, <2>9, <2>10, <2>11, Zenon
<1> QED
  BY <1>4, <1>6

(* A step of Send, whichever.                                              *)
LEMMA SendStepKeepsTx ==
  ASSUME IInv, TxInv, TxBurst <= N, NEW p \in Callers, SendStep(p)
  PROVE  TxInv'
<1>1. UNCHANGED <<recvDescr, currentRecvBuffer>> /\ (Handling' <=> Handling)
  BY SendStepMoves, Zenon
<1>2. UNCHANGED <<sends, wire>>
  BY Zenon DEF SendStep, TakeDescriptor, LoadIndex, StoreIndex, CopyFrame, HandOver, history
<1>3. ToAnswer' \subseteq ToAnswer
  BY <1>1, SameToAnswer, Zenon
<1>4. Roomy'
  BY <1>2, <1>3, RoomyKept, Zenon DEF TxInv
<1>5. TxTyped' /\ Sent'
  BY IndexKeepsTx, CopyKeepsTx, HandOverKeepsTx, Zenon DEF SendStep
<1> QED
  BY <1>4, <1>5, Zenon DEF TxInv

-----------------------------------------------------------------------------
(* The card's side, and the theorems                                       *)

(* The card transmits the first of those that wait, which has the number   *)
(* behind the last one that left.                                          *)
LEMMA TransmitKeepsTx ==
  ASSUME IInv, TxInv, TxBurst <= N, Transmit
  PROVE  TxInv'
<1>1. PICK c \in Ring : c = cardSend
  BY Zenon DEF TxInv, TxTyped
<1>2. /\ UNCHANGED <<sendBuffer, recvDescr, currentSendBuffer, currentRecvBuffer>>
      /\ UNCHANGED <<pc, local, sends, seen>>
      /\ sendDescr' = [sendDescr EXCEPT ![c].own = FALSE] /\ sendDescr[c].own
      /\ cardSend' = (c + 1) % N
  BY <1>1, Zenon DEF Transmit
<1>3. PICK n, b \in Nat : n = sendDescr[c].of /\ b = sendBuffer[c]
  <2>1. /\ sendDescr \in [Ring -> [own : BOOLEAN, of : Nat]] /\ sendBuffer \in [Ring -> Nat]
    BY Zenon DEF TxInv, TxTyped
  <2>2. sendDescr[c] \in [own : BOOLEAN, of : Nat] /\ sendBuffer[c] \in Nat
    BY <2>1, Zenon
  <2> QED
    BY <2>2, Zenon
<1>4. PICK w \in Nat : w = Len(wire)
  BY WireLength, Zenon DEF TxInv
<1>5. PICK x : x = [of |-> n, bytes |-> b]
  BY Zenon
<1>6. x \in [of : Nat, bytes : Nat] /\ x.of = n /\ x.bytes = b
  BY <1>5, SMT
<1>7. /\ wire' \in Seq([of : Nat, bytes : Nat]) /\ Len(wire') = w + 1
      /\ wire'[w + 1] = x /\ \A i \in 1..w : wire'[i] = wire[i]
  <2>1. wire' = Append(wire, x) /\ wire \in Seq([of : Nat, bytes : Nat])
    BY <1>1, <1>3, <1>5, Zenon DEF Transmit, TxInv, TxTyped
  <2> QED
    BY <1>4, <1>6, <2>1, SMT
<1>8. /\ sendDescr' \in [Ring -> [own : BOOLEAN, of : Nat]]
      /\ ~sendDescr'[c].own /\ \A e \in Ring \ {c} : sendDescr'[e] = sendDescr[e]
  <2>1. PICK y : y = [sendDescr[c] EXCEPT !.own = FALSE]
    BY Zenon
  <2>2. sendDescr \in [Ring -> [own : BOOLEAN, of : Nat]]
    BY Zenon DEF TxInv, TxTyped
  <2>3. y \in [own : BOOLEAN, of : Nat] /\ ~y.own
    <3>1. /\ sendDescr[c] = [own |-> sendDescr[c].own, of |-> sendDescr[c].of]
          /\ sendDescr[c].of \in Nat
      BY <2>2, Zenon
    <3>2. y = [own |-> FALSE, of |-> sendDescr[c].of]
      BY <2>1, <3>1, Zenon
    <3> QED
      BY <3>1, <3>2, Zenon
  <2>4. sendDescr' = [sendDescr EXCEPT ![c] = y]
    BY <1>2, <2>1, Zenon
  <2> QED
    BY <2>2, <2>3, <2>4, Zenon
<1>9. TxTyped'
  <2>1. (c + 1) % N \in Ring
    BY NextPlace
  <2> QED
    BY <1>2, <1>7, <1>8, <2>1, Zenon DEF TxInv, TxTyped
<1>10. Roomy'
  <2>1. ToAnswer' = ToAnswer
    <3>1. Handling' <=> Handling
      BY <1>2, Zenon DEF Handling
    <3> QED
      BY <1>2, <3>1, SameToAnswer, Zenon
  <2>2. ToAnswer \in SUBSET Ring
    BY Zenon DEF ToAnswer, Requests, Unread
  <2>3. PICK a, s, t \in Nat : a = Cardinality(ToAnswer) /\ s = sends /\ t = TxBurst
    <3>1. Cardinality(ToAnswer) \in Nat /\ sends \in Nat /\ TxBurst \in Nat
      BY <2>2, RingFinite, NICAssumption, Zenon DEF TxInv, TxTyped
    <3> QED
      BY <3>1, Zenon
  <2>4. s + a <= w + t
    BY <1>4, <2>3, Zenon DEF TxInv, Roomy
  <2>5. s + a <= (w + 1) + t
    BY <2>4, SMT
  <2>6. sends' + Cardinality(ToAnswer') <= Len(wire') + TxBurst
    <3>1. Cardinality(ToAnswer') = a /\ sends' = s
      BY <1>2, <2>1, <2>3, Zenon
    <3> QED
      BY <1>7, <2>3, <2>5, <3>1, Zenon
  <2> QED
    BY <2>6 DEF Roomy
<1>11. Owned' = Owned \ {c} /\ c \in Owned /\ Owned \subseteq Ring
  BY <1>2, <1>8, Zenon DEF Owned
<1>12. Sent'
  <2> SUFFICES ASSUME "race" \notin seen
               PROVE  Alone' /\ (\E k \in 0..N : InStep(k)') /\ SentInOrder' /\ SentBytesOwn'
    BY <1>2, Zenon DEF Sent
  <2>1. PICK k \in 0..N : InStep(k)
    BY Zenon DEF TxInv, Sent
  <2>2. Distance(c, c) = 0
    BY DistanceInRing, Zenon
  <2>3. k \in 1..N /\ k - 1 \in 0..N /\ k \in Nat
    <3>1. 0 < k
      BY <1>1, <1>11, <2>1, <2>2, Zenon DEF InStep
    <3> QED
      BY <3>1, NICAssumption, SMT
  <2>4. n = w + 1
    <3>1. n = w + 1 + 0
      BY <1>1, <1>3, <1>4, <1>11, <2>1, <2>2, Zenon DEF InStep
    <3> QED
      BY <3>1, SMT
  <2>5. (Busy' <=> Busy) /\ (Ahead' <=> Ahead) /\ (Ahead => Busy) /\ Alone'
    <3>1. (Busy' <=> Busy) /\ (Ahead' <=> Ahead) /\ Alone'
      BY <1>2, Zenon DEF Busy, Ahead, Sending, Alone, TxInv, Sent
    <3>2. \A p \in Callers : pc[p] \in {"copy", "own"} => Busy
      BY SMT DEF Busy, Sending, Callers
    <3> QED
      BY <3>1, <3>2, Zenon DEF Ahead
  <2>6. Busy => k + 1 \in 1..N
    BY <2>1, SenderHasPlace, Zenon
  <2>7. /\ \A j \in 1..N : Place(cardSend', j - 1) = Place(c, j)
        /\ (k - 1) + 1 = k /\ (k + 1) - 1 = k
    BY <1>2, <2>3, PlaceOfNext, SMT
  <2>8. Place(cardSend', k - 1) = Place(c, k)
    BY <2>3, <2>7, Zenon
  <2>9. Busy => Place(cardSend', k) = Place(c, k + 1)
    BY <2>6, <2>7, Zenon
  <2>10. \A e \in Ring \ {c} : /\ Distance(cardSend', e) = Distance(c, e) - 1
                               /\ Distance(c, e) \in Nat
    <3>1. \A e \in Ring \ {c} : /\ Distance(cardSend', e) = Distance(c, e) - 1
                                /\ Distance(c, e) \in 0..(N - 1)
      BY <1>2, OneNearer, DistanceInRing, Zenon
    <3> QED
      BY <3>1, NICAssumption, SMT
  <2>11. Owned' = {e \in Ring : Distance(cardSend', e) < k - 1}
    <3>1. \A e \in Ring : (e \in Owned /\ e # c) <=> Distance(cardSend', e) < k - 1
      <4> SUFFICES ASSUME NEW e \in Ring
                   PROVE  (e \in Owned /\ e # c) <=> Distance(cardSend', e) < k - 1
        OBVIOUS
      <4>1. e \in Owned <=> Distance(c, e) < k
        BY <1>1, <2>1, Zenon DEF InStep
      <4>2. CASE e = c
        <5>1. Distance(cardSend', c) = N - 1
          BY <1>2, OneNearer, Zenon
        <5>2. ~(N - 1 < k - 1)
          BY <2>3, NICAssumption, SMT
        <5> QED
          BY <4>2, <5>1, <5>2, Zenon
      <4>3. CASE e # c
        <5>1. Distance(cardSend', e) = Distance(c, e) - 1 /\ Distance(c, e) \in Nat
          BY <2>10, <4>3, Zenon
        <5>2. Distance(c, e) < k <=> Distance(c, e) - 1 < k - 1
          BY <2>3, <5>1, SMT
        <5> QED
          BY <4>1, <4>3, <5>1, <5>2, Zenon
      <4> QED
        BY <4>2, <4>3
    <3> QED
      BY <1>11, <3>1, Zenon
  <2>12. \A e \in Owned' : sendDescr'[e].of = Len(wire') + 1 + Distance(cardSend', e)
    <3> SUFFICES ASSUME NEW e \in Owned \ {c}
                 PROVE  sendDescr'[e].of = (w + 1) + 1 + Distance(cardSend', e)
      BY <1>7, <1>11, Zenon
    <3>1. sendDescr[e].of = w + 1 + Distance(c, e)
      BY <1>1, <1>4, <2>1, Zenon DEF InStep
    <3>2. sendDescr'[e] = sendDescr[e]
      BY <1>8, <1>11, Zenon
    <3>3. PICK m \in Nat : m = Distance(c, e) /\ Distance(cardSend', e) = m - 1
      BY <1>11, <2>10, Zenon
    <3>4. w + 1 + m = (w + 1) + 1 + (m - 1)
      BY SMT
    <3> QED
      BY <3>1, <3>2, <3>3, <3>4, Zenon
  <2>13. InStep(k - 1)'
    <3>1. sends' = Len(wire') + (k - 1) + (IF Busy' THEN 1 ELSE 0)
      <4>1. PICK f \in Nat : f = (IF Busy THEN 1 ELSE 0)
        BY Zenon
      <4>2. sends = w + k + f
        BY <1>4, <2>1, <4>1, Zenon DEF InStep
      <4>3. w + k + f = (w + 1) + (k - 1) + f
        BY <2>3, SMT
      <4>4. (IF Busy' THEN 1 ELSE 0) = f
        BY <2>5, <4>1, Zenon
      <4> QED
        BY <1>2, <1>7, <4>2, <4>3, <4>4, Zenon
    <3>2. currentSendBuffer' = Place(cardSend', IF Ahead' THEN (k - 1) + 1 ELSE k - 1)
      <4>1. CASE Ahead
        <5>1. currentSendBuffer = Place(c, k + 1)
          BY <1>1, <2>1, <4>1, Zenon DEF InStep
        <5> QED
          BY <1>2, <2>5, <2>7, <2>9, <4>1, <5>1, Zenon
      <4>2. CASE ~Ahead
        <5>1. currentSendBuffer = Place(c, k)
          BY <1>1, <2>1, <4>2, Zenon DEF InStep
        <5> QED
          BY <1>2, <2>5, <2>8, <4>2, <5>1, Zenon
      <4> QED
        BY <4>1, <4>2
    <3>3. \A p \in Callers :
            /\ Sending(p)' => local'[p].frame = sends'
            /\ pc'[p] \in {"load", "store", "copy", "own"} =>
                 local'[p].descriptor = Place(cardSend', k - 1)
            /\ pc'[p] = "store" => local'[p].next = Place(cardSend', (k - 1) + 1)
      <4> SUFFICES ASSUME NEW p \in Callers
                   PROVE  /\ Sending(p)' => local'[p].frame = sends'
                          /\ pc'[p] \in {"load", "store", "copy", "own"} =>
                               local'[p].descriptor = Place(cardSend', k - 1)
                          /\ pc'[p] = "store" => local'[p].next = Place(cardSend', (k - 1) + 1)
        OBVIOUS
      <4>1. Sending(p)' => local'[p].frame = sends'
        BY <1>2, <2>1, Zenon DEF InStep, Sending
      <4>2. pc'[p] \in {"load", "store", "copy", "own"} =>
              local'[p].descriptor = Place(cardSend', k - 1)
        BY <1>1, <1>2, <2>1, <2>8, Zenon DEF InStep
      <4>3. pc[p] = "store" => Busy
        BY SMT DEF Busy, Sending, Callers
      <4>4. pc'[p] = "store" => local'[p].next = Place(cardSend', (k - 1) + 1)
        BY <1>1, <1>2, <2>1, <2>7, <2>9, <4>3, Zenon DEF InStep
      <4> QED
        BY <4>1, <4>2, <4>4
    <3> QED
      BY <2>11, <2>12, <3>1, <3>2, <3>3, Zenon DEF InStep
  <2>14. \A i \in 1..(w + 1) : i \in 1..w \/ i = w + 1
    BY SMT
  <2>15. SentInOrder'
    <3>1. \A i \in 1..w : wire[i].of = i
      BY <1>4, Zenon DEF TxInv, Sent, SentInOrder
    <3> QED
      BY <1>6, <1>7, <2>4, <2>14, <3>1, Zenon DEF SentInOrder
  <2>16. SentBytesOwn'
    <3> SUFFICES ASSUME "crowd" \notin seen
                 PROVE  /\ sends <= (w + 1) + 1
                        /\ \A e \in Owned' : sendBuffer[e] = sendDescr'[e].of
                        /\ \A q \in Callers : pc[q] = "own" =>
                             sendBuffer[local[q].descriptor] = local[q].frame
                        /\ \A i \in 1..(w + 1) : wire'[i].bytes = i
      BY <1>2, <1>7, Zenon DEF SentBytesOwn
    <3>1. /\ sends <= w + 1
          /\ \A e \in Owned : sendBuffer[e] = sendDescr[e].of
          /\ \A q \in Callers : pc[q] = "own" =>
               sendBuffer[local[q].descriptor] = local[q].frame
          /\ \A i \in 1..w : wire[i].bytes = i
      BY <1>4, Zenon DEF TxInv, Sent, SentBytesOwn
    <3>2. sends <= (w + 1) + 1
      <4>1. PICK s \in Nat : s = sends
        BY Zenon DEF TxInv, TxTyped
      <4>2. s <= (w + 1) + 1
        BY <3>1, <4>1, SMT
      <4> QED
        BY <4>1, <4>2
    <3>3. \A e \in Owned' : sendBuffer[e] = sendDescr'[e].of
      BY <1>8, <1>11, <3>1, Zenon
    <3>4. x.bytes = w + 1
      BY <1>3, <1>6, <1>11, <2>4, <3>1, Zenon
    <3> QED
      BY <1>7, <2>14, <3>1, <3>2, <3>3, <3>4, Zenon
  <2> QED
    BY <2>3, <2>5, <2>13, <2>15, <2>16, Zenon
<1> QED
  BY <1>9, <1>10, <1>12, Zenon DEF TxInv

(* Every step keeps the send ring in step, as long as no Send interrupts   *)
(* another and the ring has room for what waits.                           *)
THEOREM SendInvariance ==
  ASSUME TxBurst <= N
  PROVE  Spec => []TxInv
<1>1. IInv /\ TxInv /\ [Next]_vars => TxInv'
  <2> SUFFICES ASSUME IInv, TxInv, [Next]_vars
               PROVE  TxInv'
    OBVIOUS
  <2>1. CASE UNCHANGED vars
    <3>1. /\ UNCHANGED <<sendDescr, sendBuffer, currentSendBuffer, cardSend, sends, wire, local>>
          /\ UNCHANGED <<seen, pc, recvDescr, currentRecvBuffer>>
      BY <2>1, Zenon DEF vars, ring, indices, history
    <3>2. ToAnswer' \subseteq ToAnswer
      <4>1. Handling' <=> Handling
        BY <3>1, Zenon DEF Handling
      <4> QED
        BY <3>1, <4>1, SameToAnswer, Zenon
    <3>3. Roomy'
      BY <3>1, <3>2, RoomyKept, Zenon DEF TxInv
    <3> QED
      BY <3>1, <3>3, TxUntouched, Zenon
  <2>2. ASSUME NEW p \in Callers, SendStep(p)
        PROVE  TxInv'
    BY <2>2, SendStepKeepsTx, Zenon
  <2>3. CASE StartSend
    BY <2>3, StartSendKeepsTx, Zenon
  <2>4. CASE HandUp
    BY <2>4, HandUpKeepsTx, Zenon
  <2>5. CASE Interrupt \/ DrainOnce \/ Acknowledge \/ GiveBack
    BY <2>5, QuietKeepsTx, Zenon
  <2>6. ASSUME NEW ok \in BOOLEAN, NEW answer \in BOOLEAN, Arrive(ok, answer)
        PROVE  TxInv'
    BY <2>6, ArriveKeepsTx, Zenon
  <2>7. CASE Transmit
    BY <2>7, TransmitKeepsTx, Zenon
  <2> QED
    BY <2>1, <2>2, <2>3, <2>4, <2>5, <2>6, <2>7, Zenon DEF Next, HandlerStep
<1> QED
  BY InitTx, Invariance, <1>1, PTL DEF Spec

(* The frames given to Send leave in that order, once each and, as long as *)
(* one frame at a time waited, with their own bytes, unless a Send of the  *)
(* handler interrupted one of kernelMain: for every size of the ring, as   *)
(* long as the frames that wait fit into it.                               *)
THEOREM FramesAreTransmittedInOrder ==
  ASSUME TxBurst <= N
  PROVE  Spec => []TransmittedInOrder
<1>1. TxInv => TransmittedInOrder
  BY Zenon DEF TxInv, Sent, SentInOrder, SentBytesOwn, TransmittedInOrder
<1> QED
  BY SendInvariance, <1>1, PTL

=============================================================================
