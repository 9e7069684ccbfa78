------------------------ MODULE UserDatagramProtocol ------------------------
(***************************************************************************)
(* The datagram sockets (src/src/net/udp.cpp) above the internet protocol. *)
(*                                                                         *)
(* A frame is handled inside the interrupt handler to its end; kernelMain  *)
(* listens, connects, binds and sends, and is interrupted between the      *)
(* calls.  A remote is an IP address with a port.  The network may send    *)
(* any frame at any time.                                                  *)
(***************************************************************************)
EXTENDS InternetProtocol, SequencesExt

CONSTANTS
  Remotes,     \* the remotes' IP addresses
  Nobody,      \* the remote of a socket that listens
  Ports,       \* the ports kernelMain may listen on
  FirstPort,   \* the first port Connect gives out (1024)
  Totals,      \* the sizes of the IP datagrams that arrive
  Headers,     \* the sizes of their headers
  Texts,       \* what a layer above has checksummed
  MaxSockets   \* bound on the sockets

ASSUME UDPAssumption ==
  /\ Nobody \notin Remotes
  /\ {FirstPort, MaxSockets} \subseteq Nat /\ Ports \subseteq Nat

(* What arrives has a header and a message's behind it; its length is a    *)
(* uint16_t.                                                               *)
ASSUME SizesAssumption ==
  /\ Totals \subseteq Nat /\ Headers \subseteq Nat
  /\ \A header \in Headers, total \in Totals : header + 8 <= total /\ total < ShortRange

(* Whoever asks for a checksum has the length of the text in a uint16_t,   *)
(* so that the sum stays within 32 bits.                                   *)
ASSUME TextsAssumption ==
  \A text \in Texts : text \in Seq(Byte) /\ Len(text) < ShortRange

VARIABLES
  sockets,    \* sockets[0..numSockets-1], as a sequence
  freePort,
  binding,    \* the socket kernelMain has got and not bound, 0 if there is none
  heard,      \* whom each socket's handler has heard (history)
  last,       \* the socket the last frame went to, its size and header, and
              \* the size the handler was given (history)
  out,        \* the frame sent in this step (history)
  summed      \* the text checksummed in this step, and its checksum (history)

vars == <<sockets, freePort, binding, heard, last, out, summed>>

AllPorts == Ports \cup FirstPort..(FirstPort + MaxSockets - 1)

(* A request or an answer of a remote: its frames come over the gateway if *)
(* it is not in our network.                                               *)
Frames ==
  {frame \in [dstMAC : {OwnMAC, Broadcast}, srcMAC : {MACOf(Route(r)) : r \in Remotes},
              dstIP : {OwnIP, Gateway}, srcIP : Remotes, total : Totals, header : Headers,
              protocol : {"ICMP", "UDP"}, type : {0, 8}, valid : {TRUE}, rest : {0, 1},
              port : AllPorts] :
     /\ frame.srcMAC = MACOf(Route(frame.srcIP))
     /\ frame.protocol = "UDP" => frame.type = 0 /\ frame.rest = 0
     /\ frame.protocol = "ICMP" => frame.port = FirstPort}

NoFrame == [protocol |-> "none"]

Nothing == [text |-> <<>>, sum |-> <<255, 255>>]

Nowhere == [socket |-> 0, total |-> 0, header |-> 0, size |-> 0]

Init ==
  /\ sockets = <<>> /\ freePort = FirstPort /\ binding = 0 /\ heard = <<>>
  /\ last = Nowhere
  /\ out = NoFrame
  /\ summed = Nothing

-----------------------------------------------------------------------------
(* OnInternetProtocolReceived *)

Match(s, port, r) == s.local = port /\ (s.listening \/ s.remote = r)

FoundLast(port, r) == SelectLastInSeq(sockets, LAMBDA s : Match(s, port, r))

(* The number of the first socket the datagram is for, 0 if there is none. *)
Found(port, r) == SelectInSeq(sockets, LAMBDA s : Match(s, port, r))

StillListening(s, r) == [s EXCEPT !.remote = r]

(* A socket that listens is connected with the first that speaks to it. *)
Taken(s, r) == [s EXCEPT !.listening = FALSE, !.remote = r]

(* The size the socket's handler is given is a uint16_t. *)
Payload(frame) == (Given(frame) - HeaderOfMessage) % ShortRange

Receive(frame) ==
  LET i == Found(frame.port, frame.srcIP)
      r == frame.srcIP
  IN  IF i = 0 THEN last' = Nowhere /\ UNCHANGED <<sockets, heard>>
      ELSE /\ sockets' = [sockets EXCEPT ![i] = IF @.listening THEN Taken(@, r) ELSE @]
           /\ heard' = [heard EXCEPT ![i] = IF sockets[i].bound THEN @ \cup {r} ELSE @]
           /\ last' = [socket |-> i, total |-> frame.total, header |-> frame.header,
                       size |-> Payload(frame)]

(* What OnRawDataReceived of the lowest layer does with a frame. *)
FrameArrives(frame) ==
  /\ IF Handles(frame, "UDP") THEN Receive(frame)
     ELSE last' = Nowhere /\ UNCHANGED <<sockets, heard>>
  /\ out' = IF IsEcho(frame) THEN SentBack(frame) ELSE NoFrame
  /\ UNCHANGED <<freePort, binding>>

-----------------------------------------------------------------------------
(* kernelMain *)

NewSocket(s) ==
  /\ binding = 0 /\ Len(sockets) < MaxSockets
  /\ sockets' = Append(sockets, s)
  /\ heard' = Append(heard, {})
  /\ binding' = Len(sockets')
  /\ last' = Nowhere /\ out' = NoFrame

Listen(port) ==
  /\ NewSocket([local |-> port, remote |-> Nobody, listening |-> TRUE, bound |-> FALSE])
  /\ UNCHANGED freePort

Connect(r) ==
  /\ NewSocket([local |-> freePort, remote |-> r, listening |-> FALSE, bound |-> FALSE])
  /\ freePort' = freePort + 1

Bind ==
  /\ binding # 0
  /\ sockets' = [sockets EXCEPT ![binding].bound = TRUE]
  /\ binding' = 0
  /\ last' = Nowhere /\ out' = NoFrame
  /\ UNCHANGED <<freePort, heard>>

(* Nothing asks whether the socket has a remote: one that listens sends to *)
(* whatever the memory of remoteIP held.                                   *)
Send(i) ==
  /\ binding = 0
  /\ \E r \in IF sockets[i].listening THEN Remotes \cup {Nobody} ELSE {sockets[i].remote} :
       out' = Outgoing(r, "UDP", HeaderOfMessage + 1, 0, sockets[i].local)
  /\ last' = Nowhere
  /\ UNCHANGED <<sockets, freePort, binding, heard>>

Ping(r) ==
  /\ binding = 0
  /\ out' = RequestEchoReply(r)
  /\ last' = Nowhere
  /\ UNCHANGED <<sockets, freePort, binding, heard>>

(* ICMP and TCP ask for checksums.  They depend on nothing here, so that   *)
(* one state to ask in is enough.                                          *)
Sum(text) ==
  /\ sockets = <<>> /\ last = Nowhere /\ out = NoFrame /\ summed = Nothing
  /\ summed' = [text |-> text, sum |-> Checksum(text)]
  /\ UNCHANGED <<sockets, freePort, binding, heard, last, out>>

SumUsed ==
  /\ summed # Nothing /\ summed' = Nothing
  /\ UNCHANGED <<sockets, freePort, binding, heard, last, out>>

-----------------------------------------------------------------------------
Unsummed ==
  \/ \E frame \in Frames : FrameArrives(frame)
  \/ \E port \in Ports : Listen(port)
  \/ \E r \in Remotes : Connect(r) \/ Ping(r)
  \/ \E i \in 1..Len(sockets) : Send(i)
  \/ Bind

Next ==
  \/ summed = Nothing /\ Unsummed /\ UNCHANGED summed
  \/ \E text \in Texts : Sum(text)
  \/ SumUsed

Spec == Init /\ [][Next]_vars

-----------------------------------------------------------------------------
(* Properties *)

TypeOK ==
  /\ sockets \in Seq([local : AllPorts, remote : Remotes \cup {Nobody},
                      listening : BOOLEAN, bound : BOOLEAN])
  /\ Len(sockets) <= MaxSockets /\ Len(heard) = Len(sockets)
  /\ freePort \in FirstPort..(FirstPort + MaxSockets)
  /\ binding \in 0..Len(sockets)
  /\ last.socket \in 0..Len(sockets) /\ last.size \in 0..65535

(* A socket's handler hears one remote only, whoever else sends to the     *)
(* same port and however many sockets listen on it.                        *)
HearsOnePeer ==
  \A i \in DOMAIN heard : \A r \in heard[i] : ~sockets[i].listening /\ sockets[i].remote = r

(* Sockets and peers are paired: besides HearsOnePeer, a remote and a port *)
(* belong to one socket, so what a remote says goes to the socket that is  *)
(* connected with it, unless kernelMain listens on a port Connect gives    *)
(* out: a socket that listens there takes the answers to another one.      *)
SocketsPaired ==
  /\ HearsOnePeer
  /\ (\A port \in Ports : port < FirstPort) =>
       \A i, j \in DOMAIN sockets :
         i # j /\ ~sockets[i].listening /\ ~sockets[j].listening =>
           <<sockets[i].local, sockets[i].remote>> # <<sockets[j].local, sockets[j].remote>>

(* A handler is given bytes of the frame behind the headers and no others, *)
(* and all of the datagram's, though totalLength is read in the wrong      *)
(* order: no bytes beyond the frame unless what is read is less than the   *)
(* IP header, all of them unless it is less than the datagram.  If it is   *)
(* less than the header the size wraps round and reaches beyond the frame, *)
(* against "pass only the payload to the socket" (udp.cpp:102).            *)
PayloadInFrame ==
  last.socket # 0 =>
    LET headers == last.header + HeaderOfMessage
    IN  /\ TotalLength(last.total) >= last.header =>
             last.size <= PayloadSize(last.total) - headers
        /\ TotalLength(last.total) >= last.total =>
             last.total - headers <= last.size

(* An echo reply goes back to who asked and comes from us, also if the     *)
(* request came to the broadcast address, and its checksum is right if     *)
(* there was nothing (that counts) behind the first eight bytes.           *)
EchoGoesBack ==
  out.protocol = "ICMP" /\ out.type = 0 =>
    /\ out.dstIP \in Remotes /\ out.dstMAC = MACOf(Route(out.dstIP))
    /\ out.srcIP = OwnIP /\ out.srcMAC = OwnMAC
    /\ out.rest = 0 => out.valid

(* The sum of bytes in ones' complement: what the number they write leaves *)
(* modulo this.                                                            *)
Ones == ShortRange - 1

Residue(bytes) ==
  LET residue[i \in 0..Len(bytes)] ==
        IF i = 0 THEN 0 ELSE Word(residue[i - 1], bytes[i]) % Ones
  IN  residue[Len(bytes)]

(* A text with its checksum adds up to zero in ones' complement, unless it *)
(* ends in an odd byte from 128 on.                                        *)
ChecksumIsInternetChecksum ==
  LET text  == summed.text
      n     == Len(text)
      whole == IF n % 2 = 0 THEN text ELSE Append(text, 0)
  IN  (n % 2 = 1 /\ text[n] >= 128) \/ Residue(whole \o summed.sum) = 0

=============================================================================
