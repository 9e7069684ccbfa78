-------------------- MODULE TransmissionControlProtocol --------------------
(***************************************************************************)
(* The transport protocol (src/src/net/tcp.cpp) with the handler kernel.cpp*)
(* binds to its listening socket, PrintfTCPHandler.                        *)
(*                                                                         *)
(* Segments are handled inside the interrupt handler, one after the other  *)
(* and to their end; kernelMain calls Listen, Connect, Send and Disconnect *)
(* and is interrupted between their statements.  A remote is an IP address *)
(* with a port.  The remotes and the wire are the environment: they follow *)
(* the protocol, and the wire either keeps what is sent in order or loses, *)
(* repeats and reorders it.                                                *)
(*                                                                         *)
(* A remote sends a stream of chunks, one in a segment.  Of a chunk counts *)
(* how many bytes of the stream there are up to its end, up to which of    *)
(* its own bytes it is not zero, whether it is a GET request, and whether  *)
(* it is pushed.                                                           *)
(***************************************************************************)
EXTENDS Integers, Sequences, SequencesExt

CONSTANTS
  Clients, Servers,  \* the remotes that connect to us and that we connect to
  Nobody,            \* what an unconnected socket holds as its remote
  ServerPort,        \* the port kernelMain listens on
  FirstPort,         \* the first of the ports Connect gives out (1024)
  Scenarios,         \* the settings to check, each a record as Setting says
  PeerISN, OwnISN,   \* the initial sequence numbers (0xbeefcafe for ours)
  SeqSpace,          \* sequence numbers are counted modulo this (2^32)
  HeaderBytes,       \* headerSize32 * 4 of the segments that arrive
  AnswerBytes,       \* bytes in an answer, and in what kernelMain sends (184)
  MaxSockets         \* bound on the sockets

Remotes == Clients \cup Servers

VARIABLES
  scenario,     \* the setting, chosen once
  sockets,      \* sockets[0..numSockets-1], as a sequence
  delivered,    \* the chunks each socket's handler was given (history)
  freePort,
  main,         \* the call kernelMain is in: its place, socket and segment
  calls,        \* the calls kernelMain has made: "send", "disconnect"
  spins,        \* the interrupt handler waits in TransmissionControlProtocolSocket::Send
  peers,        \* the connection as each remote sees it
  toPeers, toUs \* the segments each remote is sent and has sent

wire == <<toPeers, toUs>>
vars == <<scenario, sockets, delivered, freePort, main, calls, spins, peers, wire>>

(* What a setting says, in the order of its fields. *)
Setting ==
  [stream    : [Remotes -> Seq([end : Nat, kept : Nat, request : BOOLEAN, push : BOOLEAN])],
   mainCalls : SUBSET {"send", "disconnect"},
   together  : BOOLEAN, bindApart : BOOLEAN, reliable : BOOLEAN]

(* How many bytes a stream has before the chunk behind chunk k. *)
EndOf(stream, k) == IF k = 0 THEN 0 ELSE stream[k].end

(* The chunks lie one behind the other, none is empty, and a stream with   *)
(* its SYN and its FIN fits into the sequence numbers.                     *)
Fits(stream) ==
  \A k \in DOMAIN stream :
    /\ \A j \in 0..(k - 1) : EndOf(stream, j) < stream[k].end
    /\ EndOf(stream, k - 1) + stream[k].kept <= stream[k].end
    /\ stream[k].end + 1 < SeqSpace

(* kernelMain listens on a port that Connect does not give out. *)
ASSUME TCPAssumption ==
  /\ {ServerPort, FirstPort, MaxSockets, HeaderBytes, AnswerBytes} \subseteq Nat
  /\ SeqSpace \in Nat \ {0} /\ {PeerISN, OwnISN} \subseteq 0..(SeqSpace - 1)
  /\ ServerPort \notin FirstPort..(FirstPort + MaxSockets - 1)
  /\ Clients \cap Servers = {} /\ Nobody \notin Remotes
  /\ Scenarios \subseteq Setting
  /\ \A s \in Scenarios : \A r \in Remotes : Fits(s.stream[r])

Stream == scenario.stream        \* the chunks each remote sends
MainCalls == scenario.mainCalls  \* what kernelMain calls, each once
Together == scenario.together    \* kernelMain may both listen and connect
BindApart == scenario.bindApart  \* a segment may arrive between Listen and Bind
Reliable == scenario.reliable    \* the wire keeps every segment once and in order

Socket == [local : Nat, remote : Remotes \cup {Nobody}, sequenceNumber : 0..(SeqSpace - 1),
           acknowledgementNumber : 0..(SeqSpace - 1), bound : BOOLEAN,
           state : {"CLOSED", "LISTEN", "SYN_SENT", "SYN_RECEIVED", "ESTABLISHED",
                    "FIN_WAIT1", "FIN_WAIT2", "CLOSE_WAIT"}]

Plus(n, k) == (n + k) % SeqSpace

(* The sequence number behind the first k chunks of a remote's stream: the *)
(* number of the next chunk, and behind the last one that of the FIN.      *)
Behind(r, k) == Plus(PeerISN, 1 + EndOf(Stream[r], k))

(* The wire (external).  One that keeps every segment is a queue, one that *)
(* loses, repeats and reorders them a set of all that were ever sent.      *)
NoSegments == IF Reliable THEN <<>> ELSE {}

Put(queue, segments) == IF Reliable THEN queue \o segments ELSE queue \cup Range(segments)

OnWire(queue) == IF Reliable THEN Range(queue) ELSE queue

Arrives(queue, segment) == segment \in OnWire(queue) /\ (Reliable => segment = Head(queue))

Taken(queue) == IF Reliable THEN Tail(queue) ELSE queue

Init ==
  /\ scenario \in Scenarios
  /\ sockets = <<>> /\ delivered = <<>> /\ freePort = FirstPort
  /\ main = [at |-> "idle", socket |-> 0, segment |-> <<>>]
  /\ calls = {} /\ spins = FALSE
  /\ peers = [r \in Remotes |-> [state |-> "closed", port |-> ServerPort, sent |-> 0]]
  /\ toPeers = [r \in Remotes |-> NoSegments] /\ toUs = [r \in Remotes |-> NoSegments]

-----------------------------------------------------------------------------
(* TransmissionControlProtocolProvider::Send *)

(* The segment the header is filled with, and the text behind it. *)
Segment(s, flags, text) ==
  [port |-> s.local, flags |-> flags, seq |-> s.sequenceNumber,
   ack |-> s.acknowledgementNumber, text |-> text]

Advance(s, size) == [s EXCEPT !.sequenceNumber = Plus(@, size)]

Sends(r, segments) == toPeers' = [toPeers EXCEPT ![r] = Put(@, segments)]

-----------------------------------------------------------------------------
(* OnInternetProtocolReceived *)

Match(s, m, r) ==
  /\ s.local = m.port
  /\ \/ s.state = "LISTEN" /\ m.flags \cap {"SYN", "ACK"} = {"SYN"}
     \/ s.remote = r

FoundLast(m, r) == SelectLastInSeq(sockets, LAMBDA s : Match(s, m, r))

(* The number of the first socket the segment is for, 0 if there is none. *)
Found(m, r) == SelectInSeq(sockets, LAMBDA s : Match(s, m, r))

Kind(m) == m.flags \cap {"SYN", "ACK", "FIN"}

(* The handler of segment m from r turns socket s, which is the one it is  *)
(* for, into t and sends the segments out.  A socket that is closed stays  *)
(* in the list: the loop that would remove it ends before its first round. *)
Handle(m, r, s, t, out) ==
  /\ Found(m, r) # 0 /\ s = sockets[Found(m, r)]
  /\ sockets' = [sockets EXCEPT ![Found(m, r)] = t]
  /\ Sends(s.remote, out)

Live(m, s) == "RST" \notin m.flags /\ s.state # "CLOSED"

(* A reset closes the socket; a closed socket ignores the rest. *)
ReceiveReset(m, r) ==
  /\ \E s \in Range(sockets) : ~Live(m, s) /\ Handle(m, r, s, [s EXCEPT !.state = "CLOSED"], <<>>)
  /\ UNCHANGED <<delivered, spins>>

ReceiveForNobody(m, r) == Found(m, r) = 0 /\ UNCHANGED <<sockets, delivered, spins, toPeers>>

AcceptedAtOnce(s, m, r) ==
  [s EXCEPT !.state = "ESTABLISHED", !.remote = r, !.sequenceNumber = OwnISN,
            !.acknowledgementNumber = Plus(m.seq, 1)]

(* What a SYN from r makes of a listening socket. *)
Accepted(s, m, r) ==
  [s EXCEPT !.state = "SYN_RECEIVED", !.remote = r, !.sequenceNumber = OwnISN,
            !.acknowledgementNumber = Plus(m.seq, 1)]

ReceiveSyn(m, r) ==
  /\ Kind(m) = {"SYN"}
  /\ \E i \in {Found(m, r)} \ {0} :
       LET s == sockets[i]
           t == Accepted(s, m, r)
       IN  /\ s.state = "LISTEN" /\ Live(m, s)
           /\ sockets' = [sockets EXCEPT ![i] = Advance(t, 1)]
           /\ Sends(r, <<Segment(t, {"SYN", "ACK"}, "none")>>)
  /\ UNCHANGED <<delivered, spins>>

ReceiveSynAck(m, r) ==
  /\ Kind(m) = {"SYN", "ACK"}
  /\ \E s \in Range(sockets) :
       LET t == [Advance(s, 1) EXCEPT !.state = "ESTABLISHED",
                                      !.acknowledgementNumber = Plus(m.seq, 1)]
       IN  s.state = "SYN_SENT" /\ Live(m, s) /\ Handle(m, r, s, t, <<Segment(t, {"ACK"}, "none")>>)
  /\ UNCHANGED <<delivered, spins>>

(* The peer closes first, or answers our FIN with its own. *)
ReceiveFin(m, r) ==
  /\ Kind(m) \in {{"FIN"}, {"FIN", "ACK"}}
  /\ \E s \in Range(sockets) :
       LET t == [s EXCEPT !.acknowledgementNumber = Plus(@, 1)] IN
       /\ Live(m, s)
       /\ \/ /\ s.state = "ESTABLISHED"
             /\ Handle(m, r, s, [t EXCEPT !.state = "CLOSE_WAIT"],
                       <<Segment(t, {"ACK"}, "none"), Segment(t, {"FIN", "ACK"}, "none")>>)
          \/ /\ s.state = "CLOSE_WAIT"
             /\ Handle(m, r, s, [s EXCEPT !.state = "CLOSED"], <<>>)
          \/ /\ s.state \in {"FIN_WAIT1", "FIN_WAIT2"}
             /\ Handle(m, r, s, [t EXCEPT !.state = "CLOSED"], <<Segment(t, {"ACK"}, "none")>>)
  /\ UNCHANGED <<delivered, spins>>

AckMovesKeepingOpen == [SYN_RECEIVED |-> "ESTABLISHED", FIN_WAIT1 |-> "FIN_WAIT2"]

AckMovesNotAccepting == [FIN_WAIT1 |-> "FIN_WAIT2", CLOSE_WAIT |-> "CLOSED"]

(* An acknowledgement moves the socket on, whatever it acknowledges and    *)
(* whatever else the segment holds.                                        *)
AckMoves == [SYN_RECEIVED |-> "ESTABLISHED", FIN_WAIT1 |-> "FIN_WAIT2", CLOSE_WAIT |-> "CLOSED"]

ReceiveAck(m, r) ==
  /\ Kind(m) = {"ACK"}
  /\ \E s \in Range(sockets) :
       /\ Live(m, s) /\ (s.state \in DOMAIN AckMoves \/ m.flags = {"ACK"})
       /\ Handle(m, r, s,
                 IF s.state \in DOMAIN AckMoves THEN [s EXCEPT !.state = AckMoves[@]] ELSE s, <<>>)
  /\ UNCHANGED <<delivered, spins>>

(* The segment gets to the default case. *)
IsData(m, s) ==
  /\ Live(m, s)
  /\ \/ Kind(m) = {}
     \/ Kind(m) = {"ACK"} /\ s.state \notin DOMAIN AckMoves /\ m.flags # {"ACK"}

AckedTooMuch(m) == m.kept + 1

InAnyOrder(m, s) == TRUE

(* A wrong number: messages came in the wrong order. *)
InOrder(m, s) == m.seq = s.acknowledgementNumber

(* How far the acknowledgement number goes on: x is the last byte that is  *)
(* not zero, as padding of a short frame is, or 0 if all of them are.      *)
Acked(m) == IF m.kept = 0 THEN 1 - HeaderBytes ELSE m.kept

(* PrintfTCPHandler answers a GET on socket s and closes: the segments it  *)
(* sends, and what becomes of s.                                           *)
Answer(s) ==
  <<Segment(s, {"PSH", "ACK"}, "answer"),
    Segment(Advance(s, AnswerBytes), {"FIN", "ACK"}, "none")>>

Answered(s) == [Advance(s, AnswerBytes + 1) EXCEPT !.state = "FIN_WAIT1"]

(* The handler is given the data, and then it is acknowledged.  Send waits *)
(* for a state that only another segment could bring.                      *)
ReceiveData(m, r) ==
  \E i \in {Found(m, r)} \ {0} :
    LET s == sockets[i]
        t == IF m.request THEN Answered(s) ELSE s
        u == [t EXCEPT !.acknowledgementNumber = Plus(@, Acked(m))]
    IN  /\ IsData(m, s) /\ s.bound /\ InOrder(m, s)
        /\ delivered' = [delivered EXCEPT ![i] = Append(@, <<r, m.chunk>>)]
        /\ IF m.request /\ s.state # "ESTABLISHED"
             THEN spins' = TRUE /\ UNCHANGED <<sockets, toPeers>>
             ELSE /\ sockets' = [sockets EXCEPT ![i] = u]
                  /\ Sends(r, (IF m.request THEN Answer(s) ELSE <<>>)
                               \o <<Segment(u, {"ACK"}, "none")>>)
                  /\ UNCHANGED spins

(* What the socket does not expect is answered with a reset, and so is     *)
(* data out of order or without a handler; the socket stays as it is.      *)
Refused(m, s) ==
  /\ Live(m, s)
  /\ \/ Kind(m) = {"SYN"} /\ s.state # "LISTEN"
     \/ Kind(m) = {"SYN", "ACK"} /\ s.state # "SYN_SENT"
     \/ {"SYN", "FIN"} \subseteq m.flags
     \/ /\ "FIN" \in m.flags
        /\ s.state \notin {"ESTABLISHED", "CLOSE_WAIT", "FIN_WAIT1", "FIN_WAIT2"}
     \/ IsData(m, s) /\ (~InOrder(m, s) \/ ~s.bound)

ReceiveRefused(m, r) ==
  /\ \E s \in Range(sockets) :
       Refused(m, s) /\ Handle(m, r, s, s, <<Segment(s, {"RST"}, "none")>>)
  /\ UNCHANGED <<delivered, spins>>

Receive(m, r) ==
  /\ ~spins
  /\ Arrives(toUs[r], m) /\ toUs' = [toUs EXCEPT ![r] = Taken(@)]
  /\ \/ ReceiveForNobody(m, r) \/ ReceiveReset(m, r)
     \/ ReceiveSyn(m, r) \/ ReceiveSynAck(m, r) \/ ReceiveFin(m, r) \/ ReceiveAck(m, r)
     \/ ReceiveData(m, r) \/ ReceiveRefused(m, r)
  /\ UNCHANGED <<freePort, main, calls, peers>>

-----------------------------------------------------------------------------
(* kernelMain *)

MainAt(where) == ~spins /\ main.at = where

(* The constructor of the socket leaves the remote and the numbers as they *)
(* are in the memory malloc returns.                                       *)
Listen ==
  /\ MainAt("idle") /\ Len(sockets) < MaxSockets
  /\ Together \/ freePort = FirstPort
  /\ \E r \in Remotes \cup {Nobody}, n \in {PeerISN, OwnISN} :
       sockets' = Append(sockets, [local |-> ServerPort, remote |-> r, sequenceNumber |-> n,
                                   acknowledgementNumber |-> n, bound |-> ~BindApart,
                                   state |-> "LISTEN"])
  /\ delivered' = Append(delivered, <<>>)
  /\ main' = [main EXCEPT !.at = IF BindApart THEN "bind" ELSE "idle", !.socket = Len(sockets')]
  /\ UNCHANGED <<freePort, calls, spins, peers, wire>>

Connecting(r, n) ==
  [local |-> freePort, remote |-> r, sequenceNumber |-> OwnISN, acknowledgementNumber |-> n,
   bound |-> ~BindApart, state |-> "SYN_SENT"]

(* Nobody knows the new port before the SYN is sent.  A server is given    *)
(* one connection.                                                         *)
Connect(r) ==
  /\ MainAt("idle") /\ Len(sockets) < MaxSockets
  /\ \A s \in Range(sockets) : s.remote = r => s.state = "LISTEN"
  /\ Together \/ \A c \in Clients : peers[c].state = "closed" /\ sockets = <<>>
  /\ \E n \in {PeerISN, OwnISN} :
       /\ sockets' = Append(sockets, Connecting(r, n))
       /\ Sends(r, <<Segment(Connecting(r, n), {"SYN"}, "none")>>)
  /\ freePort' = freePort + 1
  /\ delivered' = Append(delivered, <<>>)
  /\ main' = [main EXCEPT !.at = IF BindApart THEN "bind" ELSE "idle", !.socket = Len(sockets')]
  /\ UNCHANGED <<calls, spins, peers, toUs>>

Bind ==
  /\ MainAt("bind")
  /\ sockets' = [sockets EXCEPT ![main.socket].bound = TRUE]
  /\ main' = [main EXCEPT !.at = "idle"]
  /\ UNCHANGED <<delivered, freePort, calls, spins, peers, wire>>

(* Unless both happen together, the socket is one that has connected. *)
Callable(i) == Together \/ sockets[i].local # ServerPort

CallSend(i) ==
  /\ MainAt("idle") /\ "send" \in MainCalls \ calls /\ Callable(i)
  /\ calls' = calls \cup {"send"}
  /\ main' = [main EXCEPT !.at = "wait", !.socket = i]
  /\ UNCHANGED <<sockets, delivered, freePort, spins, peers, wire>>

(* The loop of TransmissionControlProtocolSocket::Send. *)
Waited ==
  /\ MainAt("wait") /\ sockets[main.socket].state = "ESTABLISHED"
  /\ main' = [main EXCEPT !.at = "fill", !.segment = [flags |-> {"PSH", "ACK"}]]
  /\ UNCHANGED <<sockets, delivered, freePort, calls, spins, peers, wire>>

(* Only a socket that has had a remote is disconnected. *)
CallDisconnect(i) ==
  /\ MainAt("idle") /\ "disconnect" \in MainCalls \ calls /\ Callable(i)
  /\ sockets[i].state # "LISTEN"
  /\ calls' = calls \cup {"disconnect"}
  /\ sockets' = [sockets EXCEPT ![i].state = "FIN_WAIT1"]
  /\ main' = [main EXCEPT !.at = "fill", !.socket = i, !.segment = [flags |-> {"FIN", "ACK"}]]
  /\ UNCHANGED <<delivered, freePort, spins, peers, wire>>

MainText == IF "PSH" \in main.segment.flags THEN "message" ELSE "none"

Fill ==
  /\ MainAt("fill")
  /\ main' = [main EXCEPT !.at = "count",
                          !.segment = Segment(sockets[main.socket], main.segment.flags, MainText)]
  /\ UNCHANGED <<sockets, delivered, freePort, calls, spins, peers, wire>>

(* The sequence number goes on before the segment is sent. *)
Count ==
  /\ MainAt("count")
  /\ sockets' = [sockets EXCEPT ![main.socket] = IF MainText = "message" THEN Advance(@, AnswerBytes) ELSE @]
  /\ main' = [main EXCEPT !.at = "transmit"]
  /\ UNCHANGED <<delivered, freePort, calls, spins, peers, wire>>

Transmit ==
  /\ MainAt("transmit")
  /\ Sends(sockets[main.socket].remote, <<main.segment>>)
  /\ main' = [main EXCEPT !.at = IF "FIN" \in main.segment.flags THEN "bump" ELSE "idle"]
  /\ UNCHANGED <<sockets, delivered, freePort, calls, spins, peers, toUs>>

(* The FIN counts as a byte. *)
Bump ==
  /\ MainAt("bump")
  /\ sockets' = [sockets EXCEPT ![main.socket] = Advance(@, 1)]
  /\ main' = [main EXCEPT !.at = "idle"]
  /\ UNCHANGED <<delivered, freePort, calls, spins, peers, wire>>

Main ==
  \/ Listen \/ Bind \/ Waited \/ Fill \/ Count \/ Transmit \/ Bump
  \/ \E r \in Servers : Connect(r)
  \/ \E i \in 1..Len(sockets) : CallSend(i) \/ CallDisconnect(i)

-----------------------------------------------------------------------------
(* The remotes (external) *)

Mine(r) == UNCHANGED <<sockets, delivered, freePort, main, calls, spins>>

PeerSegment(r, flags, seq) ==
  [port |-> peers[r].port, flags |-> flags, seq |-> seq, chunk |-> 0, kept |-> 0,
   request |-> FALSE]

Says(r, segments) == toUs' = [toUs EXCEPT ![r] = Put(@, segments)]

Becomes(r, state) == peers' = [peers EXCEPT ![r].state = state]

(* Where the remote's sequence number is; its FIN counts as a byte. *)
PeerSeq(r) == Plus(Behind(r, peers[r].sent), IF peers[r].state = "finished" THEN 1 ELSE 0)

PeerConnects(r) ==
  /\ r \in Clients /\ peers[r].state = "closed"
  /\ Together \/ freePort = FirstPort
  /\ Becomes(r, "connecting")
  /\ Says(r, <<PeerSegment(r, {"SYN"}, PeerISN)>>)
  /\ UNCHANGED toPeers /\ Mine(r)

PeerSends(r) ==
  LET k == peers[r].sent + 1 IN
  /\ peers[r].state = "open" /\ k <= Len(Stream[r])
  /\ peers' = [peers EXCEPT ![r].sent = k]
  /\ LET c == Stream[r][k] IN
       Says(r, <<[PeerSegment(r, {"ACK"} \cup IF c.push THEN {"PSH"} ELSE {}, PeerSeq(r))
                    EXCEPT !.chunk = k, !.kept = c.kept, !.request = c.request]>>)
  /\ UNCHANGED toPeers /\ Mine(r)

PeerCloses(r) ==
  /\ peers[r].state = "open" /\ peers[r].sent = Len(Stream[r])
  /\ Becomes(r, "finished")
  /\ Says(r, <<PeerSegment(r, {"FIN", "ACK"}, PeerSeq(r))>>)
  /\ UNCHANGED toPeers /\ Mine(r)

PeerAborts(r) ==
  /\ ~Reliable /\ peers[r].state = "open"
  /\ Becomes(r, "aborted")
  /\ Says(r, <<PeerSegment(r, {"RST"}, PeerSeq(r))>>)
  /\ UNCHANGED toPeers /\ Mine(r)

PeerTakes(r) ==
  /\ \E m \in OnWire(toPeers[r]) :
       /\ Arrives(toPeers[r], m)
       /\ \/ /\ "SYN" \in m.flags /\ peers[r].state = "connecting"
             /\ Becomes(r, "open")
             /\ Says(r, <<PeerSegment(r, {"ACK"}, Plus(PeerISN, 1))>>)
          \/ /\ m.flags = {"SYN"} /\ peers[r].state = "closed"
             /\ peers' = [peers EXCEPT ![r].state = "open", ![r].port = m.port]
             /\ toUs' = [toUs EXCEPT ![r] =
                  Put(@, <<[PeerSegment(r, {"SYN", "ACK"}, PeerISN) EXCEPT !.port = m.port]>>)]
          \/ /\ "FIN" \in m.flags /\ peers[r].state = "open"
             /\ Becomes(r, "done")
             /\ Says(r, <<PeerSegment(r, {"ACK"}, PeerSeq(r)),
                          PeerSegment(r, {"FIN", "ACK"}, PeerSeq(r))>>)
          \/ /\ "FIN" \in m.flags /\ peers[r].state = "finished"
             /\ Becomes(r, "done")
             /\ Says(r, <<PeerSegment(r, {"ACK"}, PeerSeq(r))>>)
          \/ /\ "RST" \in m.flags /\ peers[r].state # "closed"
             /\ Becomes(r, "aborted") /\ UNCHANGED toUs
          \/ /\ m.text # "none" /\ peers[r].state \in {"open", "finished"}
             /\ Says(r, <<PeerSegment(r, {"ACK"}, PeerSeq(r))>>)
             /\ UNCHANGED peers
          \/ /\ Reliable /\ m.flags = {"ACK"}
             /\ UNCHANGED <<peers, toUs>>
  /\ toPeers' = [toPeers EXCEPT ![r] = Taken(@)]
  /\ Mine(r)

Peer(r) == PeerConnects(r) \/ PeerSends(r) \/ PeerCloses(r) \/ PeerTakes(r)

-----------------------------------------------------------------------------
Step ==
  \/ Main
  \/ \E r \in Remotes : \/ \E m \in OnWire(toUs[r]) : Receive(m, r)
                        \/ Peer(r) \/ PeerAborts(r)

Next == Step /\ UNCHANGED scenario

(* On a wire that keeps order, a segment that has arrived is handled,      *)
(* kernelMain goes on with a call it is in, and the remotes finish what    *)
(* they started.  The wire that loses promises nothing.                    *)
Kept == Reliable /\ UNCHANGED scenario

Fairness ==
  /\ WF_vars(Kept /\ Bind)
  /\ \A r \in Remotes :
       /\ WF_vars(Kept /\ \E m \in OnWire(toUs[r]) : Receive(m, r))
       /\ WF_vars(Kept /\ (PeerSends(r) \/ PeerCloses(r) \/ PeerTakes(r)))

Spec == Init /\ [][Next]_vars /\ Fairness

-----------------------------------------------------------------------------
(* Properties *)

(* What a setting must be like for the properties of the delivered data.   *)
(* No chunk is all zeros: the acknowledgement would go back.               *)
NoBlanks(s) == \A r \in Remotes : \A k \in DOMAIN s.stream[r] : s.stream[r][k].kept > 0

(* Where segments may overtake the SYN/ACK, none that a server pushes has  *)
(* the number that an unconnected socket happens to hold.                  *)
NotMisled(s) ==
  s.reliable \/ \A r \in Servers : \A k \in DOMAIN s.stream[r] :
    s.stream[r][k].push => Plus(PeerISN, 1 + EndOf(s.stream[r], k - 1)) # OwnISN

(* No chunk ends in zeros: they would be taken for padding.                *)
NothingPadded(s) == \A r \in Remotes : \A k \in DOMAIN s.stream[r] :
  s.stream[r][k].kept = s.stream[r][k].end - EndOf(s.stream[r], k - 1)

(* Where the wire keeps order, every chunk is pushed to a handler that is  *)
(* there: others are dropped without an answer, or refused.                *)
AllTaken(s) ==
  s.reliable => /\ ~s.bindApart
                /\ \A r \in Remotes : \A k \in DOMAIN s.stream[r] : s.stream[r][k].push

TypeOK ==
  /\ scenario \in Setting
  /\ sockets \in Seq(Socket) /\ Len(sockets) <= MaxSockets /\ Len(delivered) = Len(sockets)
  /\ freePort \in FirstPort..(FirstPort + MaxSockets)
  /\ main.at \in {"idle", "bind", "wait", "fill", "count", "transmit", "bump"}
  /\ main.socket \in 0..Len(sockets)
  /\ calls \subseteq MainCalls /\ spins \in BOOLEAN
  /\ \A r \in Remotes : peers[r].sent \in 0..Len(Stream[r])

(* Whatever the wire loses, repeats and reorders, a socket's handler is    *)
(* given what its remote sent, in order, once and without a gap, unless    *)
(* kernelMain disconnects: a FIN counts as a byte wherever it comes in the *)
(* stream, and Disconnect revives a socket that has counted one.  For      *)
(* settings as NoBlanks and NotMisled say: Connect does not set the        *)
(* acknowledgement number, and data is taken in every state.               *)
DeliveredInOrder ==
  "disconnect" \notin calls =>
  \A i \in DOMAIN delivered : \A k \in DOMAIN delivered[i] :
    delivered[i][k] = <<sockets[i].remote, k>>

(* A repeated or late SYN never occupies a second socket: a connection has *)
(* one, also while others listen on the same port.                         *)
OneSocketPerConnection ==
  \A i, j \in DOMAIN sockets :
    /\ i # j /\ sockets[i].state # "LISTEN" /\ sockets[j].state # "LISTEN"
    => <<sockets[i].local, sockets[i].remote>> # <<sockets[j].local, sockets[j].remote>>

(* A socket is established only with a remote that opened its end, and     *)
(* learned there where the remote's numbers start.                         *)
EstablishedIsMutual ==
  \A s \in Range(sockets) : s.state = "ESTABLISHED" =>
    peers[s.remote].state \notin {"closed", "connecting"}

(* The bytes of a stream in front of the zeros that chunk d ends in.       *)
AckedUpTo(r, d) == IF d = 0 THEN 0 ELSE EndOf(Stream[r], d - 1) + Stream[r][d].kept

(* The acknowledgement number of an open connection stands behind the last *)
(* byte that is not zero of the last chunk its handler was given: nothing  *)
(* is acknowledged that was not delivered, and of what was delivered no    *)
(* more is left out than the zeros at its end (tcp.cpp:220-224), unless    *)
(* kernelMain disconnects or the handler of the data does not return.  It  *)
(* is less than "we ack the data received" (line 217) says: data that ends *)
(* in zeros is handed up whole and not acknowledged to its end.            *)
(* On a wire that keeps order, and if the remote pushes all it says to a   *)
(* handler that is there and ends no chunk in zeros, the end is accepted   *)
(* behind the whole stream only.                                           *)
AcknowledgementFollowsDelivery ==
  ~spins /\ "disconnect" \notin calls => \A i \in DOMAIN sockets :
    LET s == sockets[i]
        d == Len(delivered[i])
    IN
    /\ s.state \in {"SYN_RECEIVED", "ESTABLISHED", "FIN_WAIT1", "FIN_WAIT2"} =>
         s.acknowledgementNumber = Plus(PeerISN, 1 + AckedUpTo(s.remote, d))
    /\ /\ Reliable /\ NothingPadded(scenario) /\ AllTaken(scenario)
       /\ s.state = "CLOSE_WAIT"
       => d = Len(Stream[s.remote])

(* On a wire that keeps order, a remote that got through to a socket ends  *)
(* the connection in the normal way, and the socket is closed then.        *)
ConnectionsEnd ==
  \A r \in Remotes : Reliable /\ peers[r].state = "open" ~>
    /\ peers[r].state = "done"
    /\ \A s \in Range(sockets) : s.remote = r => s.state \in {"CLOSED", "LISTEN"}

(* The segments with these numbers among those socket i's handler was      *)
(* given are requests.                                                     *)
Asked(i, numbers) ==
  \A n \in numbers : Stream[delivered[i][n][1]][delivered[i][n][2]].request

(* The handler waits in Send for good only where it has closed the socket  *)
(* itself before: when its remote asks again behind our FIN.               *)
SpinsOnlyBehindOwnClose ==
  spins => \E i \in DOMAIN sockets : sockets[i].state = "FIN_WAIT2"
                                    /\ \/ "disconnect" \in calls
                                       \/ \E n, k \in DOMAIN delivered[i] : n < k /\ Asked(i, {n, k})

=============================================================================
