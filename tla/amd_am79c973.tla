--------------------------- MODULE amd_am79c973 ----------------------------
(***************************************************************************)
(* The network card driver (src/src/drivers/amd_am79c973.cpp) and the card.*)
(*                                                                         *)
(* Driver and card share two rings of descriptors.  The card fills the     *)
(* receive buffers it owns and transmits the send buffers it owns; the     *)
(* driver hands a descriptor over by setting its owner bit.  Send is       *)
(* called from kernelMain and, for answers, from the interrupt handler,    *)
(* which interrupts kernelMain between any two accesses to memory and runs *)
(* to its end; the card goes on meanwhile.                                 *)
(*                                                                         *)
(* A frame is its number: the n-th frame given to Send, the n-th good one  *)
(* the card accepted.  0 is a buffer whose bytes belong to no one frame.   *)
(***************************************************************************)
EXTENDS Integers, Sequences, FiniteSets

CONSTANTS
  N,            \* descriptors in a ring (8)
  FrameBytes,   \* bytes in a frame
  MainSends,    \* kernelMain sends while fewer frames than this were sent
  MaxSends,     \* bound on the frames sent
  MaxArrivals,  \* bound on the frames that arrive
  RxBurst,      \* received frames that may wait for the driver
  TxBurst       \* frames that may wait for the card

ASSUME NICAssumption ==
  /\ {N, FrameBytes} \subseteq Nat \ {0}
  /\ {MainSends, MaxSends, MaxArrivals, RxBurst, TxBurst} \subseteq Nat

Ring == 0..(N - 1)

Callers == {"main", "irq"}

VARIABLES
  currentSendBuffer, currentRecvBuffer,
  sendDescr,    \* own: the card owns it; of: the frame it was filled with
  sendBuffer,   \* what the bytes at each send descriptor's address hold
  recvDescr,    \* own, of, ok (no error, whole frame), answer (a request)
  recvBuffer,
  csr,          \* the interrupt bits of register 0
  temp,         \* the handler's copy of them
  pc,           \* where each caller is
  local,        \* sendDescriptor, the increment, and the frame of each Send
  cardSend, cardRecv,  \* the descriptors the card looks at next
  sends, arrivals, accepted, \* frames given to Send, arrived, accepted and good
  wire,         \* what the card transmitted
  handled,      \* what OnRawDataReceived was called with
  seen          \* what has happened so far: "crowd", "race" (history)

ring == <<sendDescr, sendBuffer, recvDescr, recvBuffer>>
indices == <<currentSendBuffer, currentRecvBuffer, cardSend, cardRecv>>
history == <<sends, arrivals, accepted, wire, handled, seen>>
vars == <<ring, indices, csr, temp, pc, local, history>>

(* sendBuffers is declared [2*1024+15][8], so &sendBuffers[i] lies 8*i     *)
(* bytes into it, rounded up to 16 (from an aligned start).  So does       *)
(* recvBuffers.                                                            *)
Address(d) == ((8 * d + 15) \div 16) * 16

Overlap(d, e) ==
  Address(d) - Address(e) < FrameBytes /\ Address(e) - Address(d) < FrameBytes

(* Frame n written at descriptor d: the bytes the buffers share change in  *)
(* every one of them.                                                      *)
Written(buffer, d, n) ==
  [e \in Ring |-> IF Address(e) = Address(d) THEN n
                  ELSE IF Overlap(e, d) THEN 0 ELSE buffer[e]]

Init ==
  /\ currentSendBuffer = 0 /\ currentRecvBuffer = 0
  /\ sendDescr = [d \in Ring |-> [own |-> FALSE, of |-> 0]]
  /\ recvDescr = [d \in Ring |-> [own |-> TRUE, of |-> 0, ok |-> FALSE, answer |-> FALSE]]
  /\ sendBuffer = [d \in Ring |-> 0] /\ recvBuffer = [d \in Ring |-> 0]
  /\ csr = {} /\ temp = {}
  /\ pc = [p \in Callers |-> "idle"]
  /\ local = [p \in Callers |-> [descriptor |-> 0, next |-> 0, frame |-> 0]]
  /\ cardSend = 0 /\ cardRecv = 0
  /\ sends = 0 /\ arrivals = 0 /\ accepted = 0
  /\ wire = <<>> /\ handled = <<>> /\ seen = {}

-----------------------------------------------------------------------------
(* Send, in either caller *)

(* kernelMain goes on only while no handler runs. *)
Turn(p) == p = "main" => pc["irq"] = "idle"

At(p, where) == pc[p] = where /\ Turn(p)

Go(p, where) == pc' = [pc EXCEPT ![p] = where]

Unread == {d \in Ring : ~recvDescr[d].own}

Requests == {d \in Unread : recvDescr[d].ok /\ recvDescr[d].answer}

(* One more frame may be sent within the bounds: the frames not yet        *)
(* transmitted and the answers still to come are fewer than TxBurst.       *)
MayCauseSend ==
  /\ sends + Cardinality(Requests) < MaxSends
  /\ sends - Len(wire) + Cardinality(Requests) < TxBurst

Sending(p) == pc[p] \in {"take", "load", "store", "copy", "own"}

(* Two frames that wait for the card or for the driver at once make a      *)
(* crowd; a Send of the handler that interrupts one of kernelMain, a race. *)
Noticed ==
  seen' = seen \cup (IF sends' - Len(wire') > 1 \/ Cardinality(Unread') > 1 THEN {"crowd"} ELSE {})
               \cup (IF Sending("main") /\ sends' > sends THEN {"race"} ELSE {})

StartSend ==
  /\ At("main", "idle")
  /\ sends < MainSends /\ MayCauseSend
  /\ sends' = sends + 1
  /\ local' = [local EXCEPT !["main"].frame = sends + 1]
  /\ Go("main", "take")
  /\ UNCHANGED <<ring, indices, csr, temp, arrivals, accepted, wire, handled>>
  /\ Noticed

TakeDescriptor(p) ==
  /\ At(p, "take")
  /\ local' = [local EXCEPT ![p].descriptor = currentSendBuffer]
  /\ Go(p, "load")
  /\ UNCHANGED <<ring, indices, csr, temp, history>>

LoadIndexStaying(p) ==
  /\ At(p, "load")
  /\ local' = [local EXCEPT ![p].next = currentSendBuffer]
  /\ Go(p, "store")
  /\ UNCHANGED <<ring, indices, csr, temp, history>>

(* The increment reads the member again and writes it back. *)
LoadIndex(p) ==
  /\ At(p, "load")
  /\ local' = [local EXCEPT ![p].next = (currentSendBuffer + 1) % N]
  /\ Go(p, "store")
  /\ UNCHANGED <<ring, indices, csr, temp, history>>

StoreIndex(p) ==
  /\ At(p, "store")
  /\ currentSendBuffer' = local[p].next
  /\ Go(p, "copy")
  /\ UNCHANGED <<ring, currentRecvBuffer, cardSend, cardRecv, csr, temp, local, history>>

CopyFrameToNext(p) ==
  /\ At(p, "copy")
  /\ sendBuffer' = Written(sendBuffer, local[p].next, local[p].frame)
  /\ Go(p, "own")
  /\ UNCHANGED <<sendDescr, recvDescr, recvBuffer, indices, csr, temp, local, history>>

(* The copy does not look at the owner of the descriptor. *)
CopyFrame(p) ==
  /\ At(p, "copy")
  /\ sendBuffer' = Written(sendBuffer, local[p].descriptor, local[p].frame)
  /\ Go(p, "own")
  /\ UNCHANGED <<sendDescr, recvDescr, recvBuffer, indices, csr, temp, local, history>>

(* flags = 0x8300F000 | length, and the transmit demand. *)
HandOver(p) ==
  /\ At(p, "own")
  /\ sendDescr' = [sendDescr EXCEPT ![local[p].descriptor] =
                     [own |-> TRUE, of |-> local[p].frame]]
  /\ Go(p, IF p = "main" THEN "idle" ELSE "give")
  /\ UNCHANGED <<sendBuffer, recvDescr, recvBuffer, indices, csr, temp, local, history>>

SendStep(p) ==
  \/ TakeDescriptor(p) \/ LoadIndex(p) \/ StoreIndex(p)
  \/ CopyFrame(p) \/ HandOver(p)

-----------------------------------------------------------------------------
(* HandleInterrupt and Receive *)

(* The card's line is level triggered, and the handler starts by reading   *)
(* register 0.                                                             *)
Interrupt ==
  /\ pc["irq"] = "idle" /\ csr # {}
  /\ temp' = csr
  /\ Go("irq", IF "RINT" \in csr THEN "drain" ELSE "ack")
  /\ UNCHANGED <<ring, indices, csr, local, history>>

DrainOnce ==
  /\ pc["irq"] = "drain" /\ recvDescr[currentRecvBuffer].own
  /\ Go("irq", "ack")
  /\ UNCHANGED <<ring, indices, csr, temp, local, history>>

(* A good frame goes up to the handlers; an answer comes back down as a    *)
(* Send, called here or by the handler.                                    *)
HandUp ==
  LET r == recvDescr[currentRecvBuffer] IN
  /\ pc["irq"] = "drain" /\ ~r.own
  /\ handled' = IF r.ok
                  THEN Append(handled, [of |-> r.of, bytes |-> recvBuffer[currentRecvBuffer]])
                  ELSE handled
  /\ IF r.ok /\ r.answer
       THEN /\ sends' = sends + 1
            /\ local' = [local EXCEPT !["irq"].frame = sends + 1]
            /\ Go("irq", "take")
       ELSE /\ Go("irq", "give")
            /\ UNCHANGED <<sends, local>>
  /\ UNCHANGED <<ring, indices, csr, temp, arrivals, accepted, wire>>
  /\ Noticed

GiveBackTwo ==
  /\ pc["irq"] = "give"
  /\ recvDescr' = [recvDescr EXCEPT ![currentRecvBuffer].own = TRUE]
  /\ currentRecvBuffer' = (currentRecvBuffer + 2) % N
  /\ Go("irq", "drain")
  /\ UNCHANGED <<sendDescr, sendBuffer, recvBuffer, currentSendBuffer, cardSend, cardRecv,
                 csr, temp, local, history>>

GiveBack ==
  /\ pc["irq"] = "give"
  /\ recvDescr' = [recvDescr EXCEPT ![currentRecvBuffer].own = TRUE]
  /\ currentRecvBuffer' = (currentRecvBuffer + 1) % N
  /\ Go("irq", "drain")
  /\ UNCHANGED <<sendDescr, sendBuffer, recvBuffer, currentSendBuffer, cardSend, cardRecv,
                 csr, temp, local, history>>

(* Writing the bits back clears those that were set when they were read.   *)
Acknowledge ==
  /\ pc["irq"] = "ack"
  /\ csr' = csr \ temp
  /\ Go("irq", "idle")
  /\ UNCHANGED <<ring, indices, temp, local, history>>

HandlerStep == DrainOnce \/ HandUp \/ GiveBack \/ Acknowledge

-----------------------------------------------------------------------------
(* The card (external) *)

(* A frame arrives; without a descriptor of its own the card misses it.    *)
Arrive(ok, answer) ==
  /\ arrivals < MaxArrivals
  /\ Cardinality(Unread) < RxBurst
  /\ answer => ok /\ MayCauseSend
  /\ arrivals' = arrivals + 1
  /\ IF recvDescr[cardRecv].own
       THEN /\ accepted' = IF ok THEN accepted + 1 ELSE accepted
            /\ recvBuffer' = Written(recvBuffer, cardRecv, IF ok THEN accepted' ELSE 0)
            /\ recvDescr' = [recvDescr EXCEPT ![cardRecv] =
                               [own |-> FALSE, of |-> IF ok THEN accepted' ELSE 0,
                                ok |-> ok, answer |-> answer]]
            /\ cardRecv' = (cardRecv + 1) % N
            /\ csr' = csr \cup {"RINT"}
       ELSE /\ csr' = csr \cup {"MISS"}
            /\ UNCHANGED <<accepted, recvBuffer, recvDescr, cardRecv>>
  /\ UNCHANGED <<sendDescr, sendBuffer, currentSendBuffer, currentRecvBuffer, cardSend,
                 temp, pc, local, sends, wire, handled>>
  /\ Noticed

Transmit ==
  /\ sendDescr[cardSend].own
  /\ wire' = Append(wire, [of |-> sendDescr[cardSend].of, bytes |-> sendBuffer[cardSend]])
  /\ sendDescr' = [sendDescr EXCEPT ![cardSend].own = FALSE]
  /\ cardSend' = (cardSend + 1) % N
  /\ csr' = csr \cup {"TINT"}
  /\ UNCHANGED <<sendBuffer, recvDescr, recvBuffer, currentSendBuffer, currentRecvBuffer,
                 cardRecv, temp, pc, local, sends, arrivals, accepted, handled, seen>>

-----------------------------------------------------------------------------
Next ==
  \/ StartSend
  \/ \E p \in Callers : SendStep(p)
  \/ Interrupt \/ HandlerStep
  \/ \E ok, answer \in BOOLEAN : Arrive(ok, answer)
  \/ Transmit

(* Code that has started goes on, and the card serves its rings; nothing   *)
(* says that another frame arrives or that kernelMain sends again.         *)
Fairness ==
  /\ \A p \in Callers : WF_vars(SendStep(p))
  /\ WF_vars(Interrupt) /\ WF_vars(HandlerStep) /\ WF_vars(Transmit)

Spec == Init /\ [][Next]_vars /\ Fairness

-----------------------------------------------------------------------------
(* Properties *)

Frame == 0..(MaxSends + MaxArrivals)

TypeOK ==
  /\ {currentSendBuffer, currentRecvBuffer, cardSend, cardRecv} \subseteq Ring
  /\ sendDescr \in [Ring -> [own : BOOLEAN, of : Frame]]
  /\ recvDescr \in [Ring -> [own : BOOLEAN, of : Frame, ok : BOOLEAN, answer : BOOLEAN]]
  /\ sendBuffer \in [Ring -> Frame] /\ recvBuffer \in [Ring -> Frame]
  /\ csr \subseteq {"RINT", "TINT", "MISS"} /\ temp \subseteq {"RINT", "TINT", "MISS"}
  /\ pc["main"] \in {"idle", "take", "load", "store", "copy", "own"}
  /\ pc["irq"] \in {"idle", "drain", "take", "load", "store", "copy", "own", "give", "ack"}
  /\ local \in [Callers -> [descriptor : Ring, next : Ring, frame : Frame]]

(* Driver and card stay in step round the receive ring: the good frames    *)
(* the card accepted are handed up once each and in order, whatever is     *)
(* missed, bad or arrives while the handler runs, and with their own bytes *)
(* as long as one frame at a time waits.                                   *)
ReceivedInOrder ==
  /\ \A i \in 1..Len(handled) : handled[i].of = i /\ ("crowd" \in seen \/ handled[i].bytes = i)
  /\ accepted = Len(handled) + Cardinality({d \in Unread : recvDescr[d].ok})
                - (IF pc["irq"] \in {"take", "load", "store", "copy", "own", "give"}
                      /\ recvDescr[currentRecvBuffer].ok THEN 1 ELSE 0)

(* The frames given to Send leave in that order, once each, as long as the *)
(* ring holds them all and no Send interrupts another, and with their own  *)
(* bytes as long as one frame at a time waits.                             *)
TransmittedInOrder ==
  "race" \notin seen =>
    \A i \in 1..Len(wire) : wire[i].of = i /\ ("crowd" \in seen \/ wire[i].bytes = i)

(* A frame given to Send leaves in the end, unless two Sends met.          *)
SentFramesLeave ==
  \A n \in 1..MaxSends : sends >= n ~> (Len(wire) >= n \/ "race" \in seen)

(* Two Sends at a time use two buffers ("move to the next send buffer in   *)
(* cyclic way so to send data from different tasks in parallel").          *)
SendersApart ==
  (\A p \in Callers : Sending(p) /\ pc[p] # "take") =>
    local["main"].descriptor # local["irq"].descriptor

=============================================================================
