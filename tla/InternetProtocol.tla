-------------------------- MODULE InternetProtocol --------------------------
(***************************************************************************)
(* What a frame goes through on its way up and, if it is answered in       *)
(* place, down again: amd_am79c973::Receive, EtherFrameProvider,           *)
(* InternetProtocolProvider and InternetControlMessageProtocol             *)
(* (src/src/drivers/amd_am79c973.cpp, src/src/net: etherframe.cpp,         *)
(* ipv4.cpp, icmp.cpp).  A handler that returns true has turned the frame  *)
(* round in its buffer; every layer above turns its own header round.      *)
(***************************************************************************)
EXTENDS Integers, Sequences

CONSTANTS
  OwnIP, OwnMAC, Broadcast,
  Local,       \* the other machines of our network
  Gateway,     \* the one of them that leads to the others
  MACOf(_)     \* what AddressResolutionProtocol::Resolve returns

(* A frame is a record of dstMAC, srcMAC, dstIP, srcIP; total and header,  *)
(* the bytes of the IP datagram and of its header; protocol; of an ICMP    *)
(* message type, valid (its checksum is right) and rest (the sum of the    *)
(* data behind its first eight bytes); of a UDP datagram port, the one it  *)
(* is for.                                                                 *)

(* A uint16_t counts up to this. *)
ShortRange == 65536

-----------------------------------------------------------------------------
(* A frame is padded to 60 bytes, and the card counts the checksum of four *)
(* bytes behind it; Receive takes it off only if there are more than 64.   *)
EtherHeader == 14

ReceivedSize(total) ==
  LET padded == IF EtherHeader + total < 60 THEN 60 ELSE EtherHeader + total
  IN  IF padded + 4 > 64 THEN padded ELSE padded + 4

PayloadSize(total) == ReceivedSize(total) - EtherHeader

(* The field totalLength is in network order and read as it is. *)
TotalLength(total) == (total % 256) * 256 + total \div 256

GivenWhatever(frame) == TotalLength(frame.total) - frame.header

(* The size the protocol's handler is called with, an uint32_t: a negative *)
(* number stands for the number 2^32 above it.                             *)
Given(frame) ==
  (IF TotalLength(frame.total) > PayloadSize(frame.total)
     THEN PayloadSize(frame.total) ELSE TotalLength(frame.total))
  - frame.header

Below(size, n) == 0 <= size /\ size < n

-----------------------------------------------------------------------------
(* The way up *)

ForUs(frame) == frame.dstMAC \in {Broadcast, OwnMAC} /\ frame.dstIP = OwnIP

HeaderOfMessage == 8   \* of ICMP as of UDP

(* ICMP and UDP look no further if the message is too small. *)
LargeEnough(frame) == ~Below(Given(frame), HeaderOfMessage)

Handles(frame, protocol) == ForUs(frame) /\ frame.protocol = protocol /\ LargeEnough(frame)

(* An echo request is answered in place; the checksum is made over the     *)
(* first eight bytes.                                                      *)
IsEcho(frame) == Handles(frame, "ICMP") /\ frame.type = 8

EchoReply(frame) == [frame EXCEPT !.type = 0, !.valid = (frame.rest = 0)]

IPSentBackOneWay(frame) == [frame EXCEPT !.srcIP = frame.dstIP]

(* InternetProtocolProvider and EtherFrameProvider turn the addresses      *)
(* round, also of a frame that came to the broadcast address.              *)
IPSentBack(frame) == [frame EXCEPT !.dstIP = frame.srcIP, !.srcIP = frame.dstIP]

EtherSentBack(frame) == [frame EXCEPT !.dstMAC = frame.srcMAC, !.srcMAC = OwnMAC]

SentBack(frame) == EtherSentBack(IPSentBack(EchoReply(frame)))

-----------------------------------------------------------------------------
(* Checksum, over bytes in the order in which they leave.                  *)

Byte == 0..255

Word(high, low) == high * 256 + low

WordsSummed(bytes) ==
  LET sum[i \in 0..(Len(bytes) \div 2)] ==
        IF i = 0 THEN 0 ELSE sum[i - 1] + Word(bytes[2 * i - 1], bytes[2 * i])
  IN  sum[Len(bytes) \div 2]

(* A byte left over is read as a char, and so has its sign extended.       *)
SignExtended(byte) == IF byte < 128 THEN byte ELSE (ShortRange - 256) + byte

LastSummed(bytes) ==
  IF Len(bytes) % 2 = 1 THEN Word(SignExtended(bytes[Len(bytes)]), 0) ELSE 0

FoldedOnce(temp) == (temp % ShortRange) + temp \div ShortRange

Folded(temp) ==
  LET fold[t \in Nat] == IF t < ShortRange THEN t ELSE fold[(t % ShortRange) + t \div ShortRange]
  IN  fold[temp]

(* The two bytes that are stored. *)
Checksum(bytes) ==
  LET sum == (ShortRange - 1) - (Folded(WordsSummed(bytes) + LastSummed(bytes)) % ShortRange)
  IN  <<sum \div 256, sum % 256>>

-----------------------------------------------------------------------------
(* The way down *)

Route(dst) == IF dst \in Local THEN dst ELSE Gateway

(* InternetProtocolProvider::Send and EtherFrameProvider::Send. *)
Outgoing(dst, protocol, bytes, type, port) ==
  [dstMAC |-> MACOf(Route(dst)), srcMAC |-> OwnMAC, dstIP |-> dst, srcIP |-> OwnIP,
   total |-> 20 + bytes, header |-> 20, protocol |-> protocol,
   type |-> type, valid |-> TRUE, rest |-> 0, port |-> port]

RequestEchoReply(dst) == Outgoing(dst, "ICMP", HeaderOfMessage, 8, 0)

=============================================================================
