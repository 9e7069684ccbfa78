----------------- MODULE TransmissionControlProtocolProofs ------------------
(***************************************************************************)
(* The transport protocol for any number of remotes and sockets, any       *)
(* streams and any wire: which socket a segment reaches, who is connected, *)
(* and what the handlers are given.                                        *)
(***************************************************************************)
EXTENDS TransmissionControlProtocol, SequenceTheorems, WellFoundedInduction, TLAPS

(* The six flags of a segment that the code looks at, without URG.         *)
Flags == {"SYN", "ACK", "FIN", "RST", "PSH"}

(* Sequence numbers.                                                       *)
Number == 0..(SeqSpace - 1)

(* What a remote sends, and what we send.                                  *)
PeerMessage == [port : Nat, flags : SUBSET Flags, seq : Number, chunk : Nat, kept : Nat,
                request : BOOLEAN]

OwnMessage == [port : Nat, flags : SUBSET Flags, seq : Number, ack : Number,
               text : {"none", "answer", "message"}]

(* A wire that holds segments of M.                                        *)
Carries(queue, M) == IF Reliable THEN queue \in Seq(M) ELSE queue \in SUBSET M

Places == 1..Len(sockets)

(* Socket k has left LISTEN: its remote is the one it talks to for good.   *)
HasRemote(k) == sockets[k].state # "LISTEN"

(* Socket k is the one that talks to r on our port.                        *)
Connects(k, r, port) ==
  HasRemote(k) /\ sockets[k].remote = r /\ sockets[k].local = port

(* Remote r has a socket on our port.                                      *)
Has(r, port) == \E k \in Places : Connects(k, r, port)

(* What a remote is before its connection is open.                         *)
Before == {"closed", "connecting"}

-----------------------------------------------------------------------------
(* The inductive invariant: types, sockets, kernelMain, remotes and wire *)

Typed ==
  /\ scenario \in Scenarios
  /\ sockets \in Seq(Socket) /\ Len(sockets) <= MaxSockets
  /\ delivered \in Seq(Seq(Remotes \X Nat)) /\ Len(delivered) = Len(sockets)
  /\ freePort \in FirstPort..(FirstPort + Len(sockets))
  /\ spins \in BOOLEAN
  /\ peers \in [Remotes -> [state : Before \cup {"open", "finished", "done", "aborted"},
                            port : Nat, sent : Nat]]
  /\ toUs = [r \in Remotes |-> toUs[r]] /\ toPeers = [r \in Remotes |-> toPeers[r]]
  /\ \A r \in Remotes : Carries(toUs[r], PeerMessage) /\ Carries(toPeers[r], OwnMessage)

(* A remote has one socket; the sockets that listen come behind the others *)
(* of their port; and the port tells clients from servers.                 *)
OnePerRemote ==
  \A i, j \in Places :
    HasRemote(i) /\ HasRemote(j) /\ sockets[i].remote = sockets[j].remote => i = j

ListenersLast ==
  \A i, j \in Places :
    i < j /\ ~HasRemote(i) /\ sockets[j].local = ServerPort => ~HasRemote(j)

PortsTell ==
  \A i \in Places :
    IF HasRemote(i)
      THEN /\ sockets[i].remote \in Remotes
           /\ sockets[i].remote \in Clients => sockets[i].local = ServerPort
           /\ sockets[i].remote \in Servers => sockets[i].local \in FirstPort..(freePort - 1)
      ELSE sockets[i].local = ServerPort

(* The call kernelMain is in, and the segment it is about to send. *)
MainKnown ==
  /\ main = [x \in {"at", "socket", "segment"} |-> main[x]]
  /\ main.at # "idle" => main.socket \in Places
  /\ main.at \in {"fill", "count", "transmit", "bump"} =>
       /\ HasRemote(main.socket)
       /\ main.segment.flags \in SUBSET Flags
       /\ "FIN" \in main.segment.flags => "disconnect" \in calls
  /\ main.at \in {"count", "transmit"} =>
       main.segment \in OwnMessage /\ main.segment.port = sockets[main.socket].local

(* What a remote has become, and what it and we have sent, says whether it *)
(* has a socket.                                                           *)
PeersKnown ==
  \A r \in Remotes :
    /\ peers[r].sent \in 0..Len(Stream[r])
    /\ r \in Clients => peers[r].port = ServerPort
    /\ peers[r].state = "connecting" => r \in Clients
    /\ IF peers[r].state \in Before THEN peers[r].sent = 0 ELSE Has(r, peers[r].port)

(* A SYN and nothing else is sent by a client that connects; data is some  *)
(* chunk of the stream, with its number.                                   *)
Sent(r, m) ==
  /\ m.port = peers[r].port
  /\ peers[r].state # "closed"
  /\ m.flags = {"SYN"} => r \in Clients
  /\ m.flags # {"SYN"} => peers[r].state \notin Before
  /\ m.flags \in {{"SYN"}, {"SYN", "ACK"}, {"ACK"}, {"ACK", "PSH"}, {"FIN", "ACK"}, {"RST"}}
  /\ "SYN" \in m.flags => m.seq = PeerISN
  /\ "FIN" \in m.flags => peers[r].state \in {"finished", "done", "aborted"}
  /\ m.chunk \in 0..peers[r].sent
  /\ IF m.chunk = 0 THEN "PSH" \notin m.flags
     ELSE LET c == Stream[r][m.chunk] IN
          /\ m.flags = {"ACK"} \cup (IF c.push THEN {"PSH"} ELSE {})
          /\ m.seq = Behind(r, m.chunk - 1) /\ m.kept = c.kept /\ m.request = c.request

(* Everything on the wires is what a remote has sent, and goes to a remote *)
(* that has a socket.                                                      *)
InKnown == \A r \in Remotes : \A m \in OnWire(toUs[r]) : Sent(r, m)

OutKnown == \A r \in Remotes : \A m \in OnWire(toPeers[r]) : Has(r, m.port)

(* The inductive invariant of types and connections.                       *)
Known ==
  /\ Typed /\ OnePerRemote /\ ListenersLast /\ PortsTell /\ MainKnown
  /\ PeersKnown /\ InKnown /\ OutKnown

-----------------------------------------------------------------------------
(* What holds on any wire of the socket of one remote *)

Open == {"SYN_RECEIVED", "ESTABLISHED", "FIN_WAIT1", "FIN_WAIT2"}

(* A socket that waits for the answer to its SYN was given nothing, and    *)
(* one that waits for the answer to its FIN has a close of ours behind it. *)
Told(i) ==
  LET s == sockets[i] IN
  /\ s.state \in {"LISTEN", "SYN_SENT"} => delivered[i] = <<>>
  /\ s.state = "SYN_SENT" =>
       s.remote \in Servers /\ s.acknowledgementNumber \in {PeerISN, OwnISN}
  /\ s.state \in {"FIN_WAIT1", "FIN_WAIT2"} =>
       "disconnect" \in calls \/ \E n \in DOMAIN delivered[i] : Asked(i, {n})

(* The handler of socket i was given the first d chunks of its remote, and *)
(* the acknowledgement number stands where the data of the last one ends.  *)
InSequence(i) ==
  LET s == sockets[i]
      d == Len(delivered[i])
  IN  /\ \A n \in 1..d : delivered[i][n] = <<s.remote, n>>
      /\ HasRemote(i) => d <= peers[s.remote].sent
      /\ ~spins /\ s.state \in Open =>
           s.acknowledgementNumber = Plus(PeerISN, 1 + AckedUpTo(s.remote, d))

(* The property EstablishedIsMutual, by places.                            *)
Mutual == \A i \in Places :
  sockets[i].state = "ESTABLISHED" => peers[sockets[i].remote].state \notin Before

AllTold == \A i \in Places : Told(i)

AllInSequence == "disconnect" \notin calls => \A i \in Places : InSequence(i)

-----------------------------------------------------------------------------
(* What holds on a wire that keeps order *)

Young == {"SYN_SENT", "SYN_RECEIVED", "ESTABLISHED"}

(* Behind d chunks the queue has the others of the n that were sent, in    *)
(* order, and the FIN behind all of the l of the stream.                   *)
InLine(q, d, n, l) ==
  /\ \A a, b \in 1..Len(q) : a < b /\ q[a].chunk # 0 /\ q[b].chunk # 0 => q[a].chunk < q[b].chunk
  /\ \A a \in 1..Len(q) : q[a].chunk # 0 => d < q[a].chunk
  /\ \A c \in (d + 1)..n : \E a \in 1..Len(q) : q[a].chunk = c
  /\ \A a, b \in 1..Len(q) : a < b /\ "FIN" \in q[a].flags => q[b].chunk = 0
  /\ \A a \in 1..Len(q) : "FIN" \in q[a].flags => n = l

(* What a remote has sent and its socket was not given is in line for it,  *)
(* and our side has not closed yet; a socket in CLOSE_WAIT was given the   *)
(* whole stream.                                                           *)
Lined(i) ==
  LET s == sockets[i]
      r == s.remote
      d == Len(delivered[i])
  IN  /\ s.state = "CLOSE_WAIT" => d = Len(Stream[r])
      /\ s.state \in Young =>
           /\ InLine(toUs[r], d, peers[r].sent, Len(Stream[r]))
           /\ \A m \in OnWire(toPeers[r]) : "FIN" \notin m.flags

AllLined == Reliable /\ "disconnect" \notin calls => \A i \in Places : Lined(i)

AllBound == \A i \in Places : BindApart \/ sockets[i].bound

-----------------------------------------------------------------------------
(* Sequence numbers, the wire and the search for a socket *)

LEMMA PlusTyped ==
  ASSUME NEW n \in Int, NEW k \in Int
  PROVE  Plus(n, k) \in Number
BY TCPAssumption, SMT DEF Plus, Number

(* What differs by a multiple of the space and by less than the space is   *)
(* the same.                                                               *)
LEMMA NoMultiple ==
  ASSUME NEW S \in Nat \ {0}, NEW p \in Int, NEW q \in Int,
         NEW x \in 0..(S - 1), NEW y \in 0..(S - 1), S * p + x = S * q + y
  PROVE  x = y
<1>1. CASE p = q
  BY <1>1, SMT
<1>2. CASE p > q
  <2>1. PICK d \in Nat \ {0} : p = q + d
    BY <1>2, SMT
  <2>2. S * p = S * q + S * d
    BY <2>1, SMT
  <2>3. S * d >= S
    BY <2>1, SMT
  <2> QED
    BY <2>2, <2>3, SMT
<1>3. CASE q > p
  <2>1. PICK d \in Nat \ {0} : q = p + d
    BY <1>3, SMT
  <2>2. S * q = S * p + S * d
    BY <2>1, SMT
  <2>3. S * d >= S
    BY <2>1, SMT
  <2> QED
    BY <2>2, <2>3, SMT
<1> QED
  BY <1>1, <1>2, <1>3, SMT

(* Quotient and remainder.                                                 *)
LEMMA Division ==
  ASSUME NEW S \in Nat \ {0}, NEW n \in Int
  PROVE  /\ n = S * (n \div S) + (n % S)
         /\ n \div S \in Int /\ n % S \in 0..(S - 1)
BY SMT

(* Two steps in the space of numbers are one.                              *)
LEMMA PlusPlus ==
  ASSUME NEW n \in Int, NEW k \in Int, NEW j \in Int
  PROVE  Plus(Plus(n, k), j) = Plus(n, k + j)
<1> DEFINE S == SeqSpace
           a == n + k
           b == (a % S) + j
           c == n + (k + j)
<1>1. S \in Nat \ {0} /\ a \in Int /\ c \in Int /\ c = a + j
  BY TCPAssumption, SMT
<1>2. a = S * (a \div S) + (a % S) /\ a \div S \in Int /\ a % S \in 0..(S - 1)
  BY <1>1, Division, Zenon
<1>3. b \in Int
  BY <1>1, <1>2, SMT
<1>4. b = S * (b \div S) + (b % S) /\ b \div S \in Int /\ b % S \in 0..(S - 1)
  BY <1>1, <1>3, Division, Zenon
<1>5. c = S * (c \div S) + (c % S) /\ c \div S \in Int /\ c % S \in 0..(S - 1)
  BY <1>1, Division, Zenon
<1>6. PICK p \in Int, q \in Int, t \in Int : p = a \div S /\ q = b \div S /\ t = c \div S
  BY <1>2, <1>4, <1>5, Zenon
<1>7. PICK x \in 0..(S - 1), y \in 0..(S - 1), z \in 0..(S - 1) :
        x = a % S /\ y = b % S /\ z = c % S
  BY <1>2, <1>4, <1>5, Zenon
<1>8. S * (p + q) + y = S * t + z
  <2>1. a = S * p + x /\ x + j = S * q + y /\ a + j = S * t + z
    BY <1>1, <1>2, <1>4, <1>5, <1>6, <1>7, Zenon
  <2> HIDE DEF S, a, b, c
  <2>2. S * (p + q) = S * p + S * q
    BY <1>1, SMT
  <2>3. S * p \in Int /\ S * q \in Int /\ S * t \in Int
    BY <1>1, SMT
  <2> QED
    BY <1>1, <2>1, <2>2, <2>3, SMT
<1>9. y = z
  <2> HIDE DEF S, a, b, c
  <2>1. p + q \in Int
    BY SMT
  <2> QED
    BY <1>1, <1>8, <2>1, NoMultiple, Zenon
<1> QED
  BY <1>7, <1>9, Zenon DEF Plus

(* Different distances from one number lead to different numbers.          *)
LEMMA PlusInjective ==
  ASSUME NEW n \in Int, NEW a \in Number, NEW b \in Number, Plus(n, a) = Plus(n, b)
  PROVE  a = b
<1> DEFINE S == SeqSpace
<1>1. S \in Nat \ {0} /\ n + a \in Int /\ n + b \in Int /\ a \in 0..(S - 1) /\ b \in 0..(S - 1)
  BY TCPAssumption, SMT DEF Number
<1>2. /\ n + a = S * ((n + a) \div S) + ((n + a) % S) /\ (n + a) \div S \in Int
      /\ (n + a) % S \in 0..(S - 1)
  BY <1>1, Division, Zenon
<1>3. /\ n + b = S * ((n + b) \div S) + ((n + b) % S) /\ (n + b) \div S \in Int
      /\ (n + b) % S \in 0..(S - 1)
  BY <1>1, Division, Zenon
<1>4. (n + a) % S = (n + b) % S
  BY Zenon DEF Plus
<1>5. PICK p \in Int, q \in Int, x \in 0..(S - 1) :
        n + a = S * p + x /\ n + b = S * q + x
  BY <1>2, <1>3, <1>4, Zenon
<1>6. S * q + a = S * p + b
  <2> HIDE DEF S
  <2>1. S * p \in Int /\ S * q \in Int
    BY <1>1, SMT
  <2> QED
    BY <1>1, <1>5, <2>1, SMT
<1> QED
  <2> HIDE DEF S
  <2>1. a \in 0..(S - 1) /\ b \in 0..(S - 1)
    BY <1>1, Zenon
  <2> QED
    BY <1>1, <1>6, <2>1, NoMultiple, Zenon

(* What is put on the wire is on it, and nothing else that was not.        *)
LEMMA PutOnWire ==
  ASSUME NEW M, NEW queue, Carries(queue, M), NEW segments \in Seq(M)
  PROVE  /\ Carries(Put(queue, segments), M)
         /\ OnWire(Put(queue, segments)) = OnWire(queue) \cup Range(segments)
<1>1. CASE Reliable
  BY <1>1, ConcatProperties, RangeConcatenation, ZenonT(40) DEF Carries, Put, OnWire
<1>2. CASE ~Reliable
  <2>1. Range(segments) \in SUBSET M
    BY RangeOfSeq, Zenon
  <2> QED
    BY <1>2, <2>1, Zenon DEF Carries, Put, OnWire
<1> QED
  BY <1>1, <1>2

(* Taking a segment leaves the others, and from a queue it takes the       *)
(* first.                                                                  *)
LEMMA TakenFromWire ==
  ASSUME NEW M, NEW queue, Carries(queue, M), NEW m, Arrives(queue, m)
  PROVE  /\ Carries(Taken(queue), M) /\ m \in M
         /\ OnWire(Taken(queue)) \subseteq OnWire(queue)
         /\ Reliable => /\ queue # <<>> /\ m = queue[1] /\ m = Head(queue)
                        /\ Len(Taken(queue)) = Len(queue) - 1
                        /\ \A a \in 1..Len(Taken(queue)) : Taken(queue)[a] = queue[a + 1]
<1>1. CASE Reliable
  <2>1. queue \in Seq(M) /\ m \in Range(queue) /\ m = Head(queue) /\ Taken(queue) = Tail(queue)
    BY <1>1, Zenon DEF Carries, Arrives, OnWire, Taken
  <2>2. Range(queue) = {queue[i] : i \in 1..Len(queue)}
    BY <2>1, RangeEquality, ZenonT(40)
  <2>3. queue # <<>>
    <3>1. 1..0 = {}
      BY SMT
    <3>2. Len(<<>>) = 0
      BY EmptySeq, Zenon
    <3> QED
      BY <2>1, <2>2, <3>1, <3>2, Zenon
  <2>4. Len(queue) \in Nat
    BY <2>1, LenProperties, Zenon
  <2>5. /\ Head(queue) \in M /\ Tail(queue) \in Seq(M) /\ Len(Tail(queue)) = Len(queue) - 1
        /\ \A i \in 1..Len(Tail(queue)) : Tail(queue)[i] = queue[i + 1]
    BY <2>1, <2>3, HeadTailProperties, Zenon
  <2>6. Range(Tail(queue)) \subseteq Range(queue)
    <3>1. Range(Tail(queue)) = {Tail(queue)[i] : i \in 1..Len(Tail(queue))}
      BY <2>5, RangeEquality, ZenonT(40)
    <3>2. \A i \in 1..Len(Tail(queue)) : i + 1 \in 1..Len(queue)
      BY <2>4, <2>5, SMT
    <3> QED
      BY <2>2, <2>5, <3>1, <3>2, Zenon
  <2>7. Head(queue) = queue[1]
    BY <2>1, <2>3, SMT
  <2> QED
    BY <1>1, <2>1, <2>3, <2>5, <2>6, <2>7, Zenon DEF Carries, OnWire
<1>2. CASE ~Reliable
  BY <1>2, Zenon DEF Carries, Arrives, OnWire, Taken
<1> QED
  BY <1>1, <1>2

(* A set of numbers has its least member: < is well founded.               *)
LEMMA MinIsLeast ==
  ASSUME NEW S \in SUBSET Nat, S # {}
  PROVE  Min(S) \in S /\ \A y \in S : Min(S) <= y
<1>1. PICK x \in S : \A y \in S : <<y, x>> \notin OpToRel(<, Nat)
  BY NatLessThanWellFounded, WFMin, Zenon
<1>2. \A y \in S : ~(y < x)
  BY <1>1, Zenon DEF OpToRel
<1>3. \A y \in S : x <= y
  BY <1>2, SMT
<1> QED
  BY <1>3, Zenon DEF Min

(* Found is the first socket that matches. *)
LEMMA FoundIsFirst ==
  ASSUME Len(sockets) \in Nat, NEW m, NEW r
  PROVE  IF Found(m, r) = 0 THEN \A j \in Places : ~Match(sockets[j], m, r)
         ELSE /\ Found(m, r) \in Places /\ Match(sockets[Found(m, r)], m, r)
              /\ \A j \in Places : Match(sockets[j], m, r) => Found(m, r) <= j
<1> DEFINE I == {i \in 1..Len(sockets) : Match(sockets[i], m, r)}
<1>1. Found(m, r) = IF I # {} THEN Min(I) ELSE 0
  BY Zenon DEF Found, SelectInSeq
<1>2. CASE I = {}
  BY <1>1, <1>2, Zenon DEF Places
<1>3. CASE I # {}
  <2>1. Min(I) \in I /\ \A y \in I : Min(I) <= y
    <3>1. I \in SUBSET Nat
      BY SMT
    <3> HIDE DEF I
    <3> QED
      BY <1>3, <3>1, MinIsLeast, Zenon
  <2>2. Found(m, r) # 0
    <3>1. Found(m, r) \in 1..Len(sockets)
      BY <1>1, <1>3, <2>1, Zenon
    <3> QED
      BY <3>1, SMT
  <2> QED
    BY <1>1, <1>3, <2>1, <2>2, Zenon DEF Places
<1> QED
  BY <1>2, <1>3

-----------------------------------------------------------------------------
(* Three ways the list of sockets changes *)

OnSockets == OnePerRemote /\ ListenersLast /\ PortsTell

(* A socket of the list is replaced.                                       *)
LEMMA OneChanged ==
  ASSUME sockets \in Seq(Socket), NEW k \in Places, NEW t \in Socket,
         sockets' = [sockets EXCEPT ![k] = t]
  PROVE  /\ sockets' \in Seq(Socket) /\ Len(sockets') = Len(sockets) /\ Places' = Places
         /\ sockets'[k] = t /\ \A i \in Places : i # k => sockets'[i] = sockets[i]
<1>1. k \in 1..Len(sockets)
  BY Zenon DEF Places
<1>2. /\ [sockets EXCEPT ![k] = t] \in Seq(Socket)
      /\ Len([sockets EXCEPT ![k] = t]) = Len(sockets)
      /\ \A j \in 1..Len(sockets) : [sockets EXCEPT ![k] = t][j] = IF j = k THEN t ELSE sockets[j]
  BY <1>1, ExceptSeq, SMT
<1>3. /\ sockets' \in Seq(Socket) /\ Len(sockets') = Len(sockets)
      /\ \A j \in 1..Len(sockets) : sockets'[j] = IF j = k THEN t ELSE sockets[j]
  BY <1>2, Zenon
<1> QED
  BY <1>1, <1>3, Zenon DEF Places

(* No socket gets another remote or port. *)
SameRemotes ==
  /\ Len(sockets') = Len(sockets) /\ freePort' = freePort
  /\ \A i \in Places : /\ sockets'[i].local = sockets[i].local
                       /\ sockets'[i].remote = sockets[i].remote
                       /\ HasRemote(i)' <=> HasRemote(i)

(* As long as the sockets keep their remotes, the connections are the      *)
(* same.                                                                   *)
LEMMA SameRemotesKeep ==
  ASSUME OnSockets, SameRemotes
  PROVE  OnSockets' /\ \A r, port : Has(r, port)' <=> Has(r, port)
<1>1. Places' = Places
  BY Zenon DEF Places, SameRemotes
<1>2. \A i, r, port : i \in Places => (Connects(i, r, port)' <=> Connects(i, r, port))
  BY Zenon DEF Connects, SameRemotes
<1>3. \A r, port : Has(r, port)' <=> Has(r, port)
  BY <1>1, <1>2, Zenon DEF Has
<1>4. OnePerRemote'
  <2> SUFFICES ASSUME NEW a \in Places, NEW b \in Places, HasRemote(a)', HasRemote(b)',
                      sockets'[a].remote = sockets'[b].remote
               PROVE  a = b
    BY <1>1, Zenon DEF OnePerRemote
  <2>1. HasRemote(a) /\ HasRemote(b) /\ sockets[a].remote = sockets[b].remote
    BY Zenon DEF SameRemotes
  <2> QED
    BY <2>1, Zenon DEF OnSockets, OnePerRemote
<1>5. ListenersLast'
  BY <1>1, Zenon DEF OnSockets, ListenersLast, SameRemotes
<1>6. PortsTell'
  <2> SUFFICES ASSUME NEW i \in Places
               PROVE  IF HasRemote(i)'
                        THEN /\ sockets'[i].remote \in Remotes
                             /\ sockets'[i].remote \in Clients => sockets'[i].local = ServerPort
                             /\ sockets'[i].remote \in Servers =>
                                  sockets'[i].local \in FirstPort..(freePort' - 1)
                        ELSE sockets'[i].local = ServerPort
    BY <1>1, Zenon DEF PortsTell
  <2> QED
    BY Zenon DEF OnSockets, PortsTell, SameRemotes
<1> QED
  BY <1>3, <1>4, <1>5, <1>6, Zenon DEF OnSockets

(* The first socket that listens takes a remote that has none. *)
LEMMA AcceptKeeps ==
  ASSUME OnSockets, sockets \in Seq(Socket), freePort' = freePort,
         NEW i \in Places, ~HasRemote(i), \A j \in Places : j < i => HasRemote(j),
         NEW r \in Clients, \A k \in Places : HasRemote(k) => sockets[k].remote # r,
         NEW t \in Socket, t.state # "LISTEN", t.remote = r, t.local = ServerPort,
         sockets' = [sockets EXCEPT ![i] = t]
  PROVE  /\ OnSockets' /\ Has(r, ServerPort)'
         /\ \A q, port : Has(q, port) => Has(q, port)'
<1>1. /\ Len(sockets') = Len(sockets) /\ Places' = Places
      /\ sockets'[i] = t /\ \A j \in Places : j # i => sockets'[j] = sockets[j]
  BY OneChanged, Zenon
<1>2. HasRemote(i)' /\ \A j \in Places : j # i => (HasRemote(j)' <=> HasRemote(j))
  BY <1>1, Zenon DEF HasRemote
<1>3. Has(r, ServerPort)'
  BY <1>1, <1>2, Zenon DEF Has, Connects
<1>4. \A q, port : Has(q, port) => Has(q, port)'
  BY <1>1, <1>2, Zenon DEF Has, Connects
<1>5. OnePerRemote'
  <2> SUFFICES ASSUME NEW a \in Places, NEW b \in Places, HasRemote(a)', HasRemote(b)',
                      sockets'[a].remote = sockets'[b].remote
               PROVE  a = b
    BY <1>1, Zenon DEF OnePerRemote
  <2>1. CASE a = i \/ b = i
    BY <1>1, <1>2, <2>1, Zenon
  <2>2. CASE a # i /\ b # i
    BY <1>1, <1>2, <2>2, Zenon DEF OnSockets, OnePerRemote
  <2> QED
    BY <2>1, <2>2
<1>6. ListenersLast'
  <2> SUFFICES ASSUME NEW a \in Places, NEW b \in Places, a < b, ~HasRemote(a)',
                      sockets'[b].local = ServerPort
               PROVE  ~HasRemote(b)'
    BY <1>1, Zenon DEF ListenersLast
  <2>1. a # i /\ ~HasRemote(a) /\ ~(a < i)
    BY <1>2, Zenon
  <2>2. b # i
    BY <2>1, SMT DEF Places
  <2> QED
    BY <1>1, <1>2, <2>1, <2>2, Zenon DEF OnSockets, ListenersLast
<1>7. PortsTell'
  <2>1. r \notin Servers /\ r \in Remotes
    BY TCPAssumption, Zenon DEF Remotes
  <2> SUFFICES ASSUME NEW a \in Places
               PROVE  IF HasRemote(a)'
                        THEN /\ sockets'[a].remote \in Remotes
                             /\ sockets'[a].remote \in Clients => sockets'[a].local = ServerPort
                             /\ sockets'[a].remote \in Servers =>
                                  sockets'[a].local \in FirstPort..(freePort' - 1)
                        ELSE sockets'[a].local = ServerPort
    BY <1>1, Zenon DEF PortsTell
  <2>2. CASE a = i
    BY <1>1, <1>2, <2>1, <2>2, Zenon
  <2>3. CASE a # i
    BY <1>1, <1>2, <2>3, Zenon DEF OnSockets, PortsTell
  <2> QED
    BY <2>2, <2>3
<1> QED
  BY <1>3, <1>4, <1>5, <1>6, <1>7, Zenon DEF OnSockets

(* A socket is appended to the list.                                       *)
LEMMA OneAppended ==
  ASSUME sockets \in Seq(Socket), NEW s \in Socket, sockets' = Append(sockets, s)
  PROVE  /\ sockets' \in Seq(Socket) /\ Len(sockets') = Len(sockets) + 1
         /\ Len(sockets) \in Nat /\ Len(sockets') \in Places'
         /\ sockets'[Len(sockets')] = s /\ \A i \in Places : sockets'[i] = sockets[i]
         /\ \A i \in Places' : i \in Places \/ i = Len(sockets')
         /\ \A i \in Places : i \in Places' /\ i < Len(sockets')
<1>1. Len(sockets) \in Nat
  BY LenProperties, Zenon
<1>2. /\ Append(sockets, s) \in Seq(Socket) /\ Len(Append(sockets, s)) = Len(sockets) + 1
      /\ \A i \in 1..Len(sockets) : Append(sockets, s)[i] = sockets[i]
      /\ Append(sockets, s)[Len(sockets) + 1] = s
  BY AppendProperties, SMT
<1>3. /\ sockets' \in Seq(Socket) /\ Len(sockets') = Len(sockets) + 1
      /\ \A i \in 1..Len(sockets) : sockets'[i] = sockets[i]
      /\ sockets'[Len(sockets) + 1] = s
  BY <1>2, Zenon
<1> QED
  BY <1>1, <1>3, SMT DEF Places

(* A socket behind the others: one that listens, or one for a server that  *)
(* has none, on a port nobody has.                                         *)
LEMMA AppendKeeps ==
  ASSUME OnSockets, sockets \in Seq(Socket), NEW s \in Socket, sockets' = Append(sockets, s),
         freePort \in Nat, freePort # ServerPort,
         \/ s.state = "LISTEN" /\ s.local = ServerPort /\ freePort' = freePort
         \/ /\ s.state # "LISTEN" /\ s.remote \in Servers /\ s.local = freePort
            /\ freePort >= FirstPort /\ freePort' = freePort + 1
            /\ \A k \in Places : HasRemote(k) => sockets[k].remote # s.remote
  PROVE  /\ OnSockets'
         /\ s.state # "LISTEN" => Has(s.remote, s.local)'
         /\ \A q, port : Has(q, port) => Has(q, port)'
<1>1. PICK n \in Places' : n = Len(sockets')
  BY OneAppended, Zenon
<1>2. /\ sockets'[n] = s /\ \A i \in Places : sockets'[i] = sockets[i] /\ i \in Places' /\ i < n
      /\ \A i \in Places' : i \in Places \/ i = n
  BY <1>1, OneAppended, Zenon
<1>3. /\ \A i \in Places : HasRemote(i)' <=> HasRemote(i)
      /\ HasRemote(n)' <=> s.state # "LISTEN"
  BY <1>2, Zenon DEF HasRemote
<1>4. s.state # "LISTEN" => Has(s.remote, s.local)'
  BY <1>1, <1>2, <1>3, Zenon DEF Has, Connects
<1>5. \A q, port : Has(q, port) => Has(q, port)'
  BY <1>2, <1>3, Zenon DEF Has, Connects
<1>6. OnePerRemote'
  <2> SUFFICES ASSUME NEW a \in Places', NEW b \in Places', HasRemote(a)', HasRemote(b)',
                      sockets'[a].remote = sockets'[b].remote
               PROVE  a = b
    BY Zenon DEF OnePerRemote
  <2>1. CASE a \in Places /\ b \in Places
    BY <1>2, <1>3, <2>1, Zenon DEF OnSockets, OnePerRemote
  <2>2. CASE a = n \/ b = n
    BY <1>2, <1>3, <2>2, Zenon
  <2> QED
    BY <1>2, <2>1, <2>2, Zenon
<1>7. ListenersLast'
  <2> SUFFICES ASSUME NEW a \in Places', NEW b \in Places', a < b, ~HasRemote(a)',
                      sockets'[b].local = ServerPort
               PROVE  ~HasRemote(b)'
    BY Zenon DEF ListenersLast
  <2>1. a \in Places
    <3>1. \A i \in Places' : i <= n
      BY <1>1, SMT DEF Places
    <3>2. ~(n < b)
      BY <1>1, <3>1, SMT DEF Places
    <3> QED
      BY <1>2, <3>2, Zenon
  <2>2. CASE b \in Places
    BY <1>2, <1>3, <2>1, <2>2, Zenon DEF OnSockets, ListenersLast
  <2>3. CASE b = n
    BY <1>2, <1>3, <2>3, Zenon
  <2> QED
    BY <1>2, <2>2, <2>3, Zenon
<1>8. PortsTell'
  <2> SUFFICES ASSUME NEW a \in Places'
               PROVE  IF HasRemote(a)'
                        THEN /\ sockets'[a].remote \in Remotes
                             /\ sockets'[a].remote \in Clients => sockets'[a].local = ServerPort
                             /\ sockets'[a].remote \in Servers =>
                                  sockets'[a].local \in FirstPort..(freePort' - 1)
                        ELSE sockets'[a].local = ServerPort
    BY Zenon DEF PortsTell
  <2>1. CASE a \in Places
    <3>1. IF HasRemote(a)
            THEN /\ sockets[a].remote \in Remotes
                 /\ sockets[a].remote \in Clients => sockets[a].local = ServerPort
                 /\ sockets[a].remote \in Servers => sockets[a].local \in FirstPort..(freePort - 1)
            ELSE sockets[a].local = ServerPort
      BY <2>1, Zenon DEF OnSockets, PortsTell
    <3>2. FirstPort..(freePort - 1) \subseteq FirstPort..(freePort' - 1)
      BY TCPAssumption, SMTT(40)
    <3> QED
      BY <1>2, <1>3, <2>1, <3>1, <3>2, Zenon
  <2>2. CASE a = n
    <3>1. CASE s.state = "LISTEN"
      BY <1>2, <1>3, <2>2, <3>1, Zenon
    <3>2. CASE s.state # "LISTEN"
      <4>1. s.remote \in Remotes /\ s.remote \notin Clients
        BY <3>2, TCPAssumption, Zenon DEF Remotes
      <4>2. s.local \in FirstPort..(freePort' - 1)
        BY <3>2, TCPAssumption, SMTT(40)
      <4> QED
        BY <1>2, <1>3, <2>2, <3>2, <4>1, <4>2, Zenon
    <3> QED
      BY <3>1, <3>2, Zenon
  <2> QED
    BY <1>2, <2>1, <2>2, Zenon
<1> QED
  BY <1>4, <1>5, <1>6, <1>7, <1>8, Zenon DEF OnSockets

-----------------------------------------------------------------------------
(* Which socket a segment reaches *)

(* A remote's own socket takes every segment of the remote. *)
LEMMA FoundConnected ==
  ASSUME Typed, OnSockets, NEW m, NEW r, NEW k \in Places, Connects(k, r, m.port)
  PROVE  Found(m, r) = k
<1>1. Len(sockets) \in Nat
  BY LenProperties, Zenon DEF Typed
<1>2. Match(sockets[k], m, r)
  BY Zenon DEF Connects, Match
<1>3. PICK f : f = Found(m, r)
  BY Zenon
<1>4. f \in Places /\ Match(sockets[f], m, r) /\ f <= k
  BY <1>1, <1>2, <1>3, FoundIsFirst, Zenon
<1>5. CASE HasRemote(f)
  <2>1. sockets[f].remote = r
    BY <1>4, <1>5, Zenon DEF Match, HasRemote
  <2> QED
    BY <1>3, <1>4, <1>5, <2>1, Zenon DEF OnSockets, OnePerRemote, Connects
<1>6. CASE ~HasRemote(f)
  <2>1. sockets[f].local = ServerPort /\ sockets[f].local = m.port
    BY <1>4, <1>6, Zenon DEF OnSockets, PortsTell, Match
  <2>2. sockets[k].local = ServerPort /\ HasRemote(k)
    BY <2>1, Zenon DEF Connects
  <2>3. f = k \/ f < k
    BY <1>4, SMT DEF Places
  <2> QED
    BY <1>3, <1>4, <1>6, <2>2, <2>3, Zenon DEF OnSockets, ListenersLast
<1> QED
  BY <1>5, <1>6

(* What is not a client's first SYN finds the remote's socket. *)
LEMMA FoundLater ==
  ASSUME Known, NEW r \in Remotes, NEW m \in OnWire(toUs[r]),
         m.flags # {"SYN"} \/ \E port : Has(r, port)
  PROVE  \E k \in Places : Connects(k, r, m.port)
<1>1. Sent(r, m)
  BY Zenon DEF Known, InKnown
<1>2. CASE m.flags # {"SYN"}
  <2>1. Has(r, peers[r].port) /\ m.port = peers[r].port
    BY <1>1, <1>2, Zenon DEF Sent, Known, PeersKnown
  <2> QED
    BY <2>1, Zenon DEF Has
<1>3. CASE m.flags = {"SYN"} /\ \E port : Has(r, port)
  <2>1. PICK k \in Places : HasRemote(k) /\ sockets[k].remote = r
    BY <1>3, Zenon DEF Has, Connects
  <2>2. r \in Clients /\ m.port = ServerPort
    BY <1>1, <1>3, ZenonT(40) DEF Sent, Known, PeersKnown
  <2>3. sockets[k].local = ServerPort
    BY <2>1, <2>2, Zenon DEF Known, PortsTell
  <2> QED
    BY <2>1, <2>2, <2>3, Zenon DEF Connects
<1> QED
  BY <1>2, <1>3

(* A client's first SYN finds the first socket that listens, if any. *)
LEMMA FoundFirst ==
  ASSUME Known, NEW r \in Remotes, NEW m \in OnWire(toUs[r]),
         m.flags = {"SYN"}, \A port : ~Has(r, port), Found(m, r) # 0
  PROVE  /\ Found(m, r) \in Places /\ ~HasRemote(Found(m, r))
         /\ \A j \in Places : j < Found(m, r) => HasRemote(j)
         /\ r \in Clients /\ m.port = ServerPort
<1>1. Len(sockets) \in Nat
  BY LenProperties, Zenon DEF Known, Typed
<1>2. r \in Clients /\ m.port = ServerPort
  BY ZenonT(40) DEF Known, InKnown, Sent, PeersKnown
<1>3. PICK f : f = Found(m, r)
  BY Zenon
<1>4. f \in Places /\ Match(sockets[f], m, r) /\ \A j \in Places : Match(sockets[j], m, r) => f <= j
  BY <1>1, <1>3, FoundIsFirst, Zenon
<1>5. ~HasRemote(f)
  <2> SUFFICES ASSUME HasRemote(f)
               PROVE  FALSE
    OBVIOUS
  <2>1. sockets[f].remote = r /\ sockets[f].local = m.port
    BY <1>4, Zenon DEF Match, HasRemote
  <2> QED
    BY <1>4, <2>1, Zenon DEF Has, Connects
<1>6. ASSUME NEW j \in Places, j < f, ~HasRemote(j)
      PROVE  FALSE
  <2>1. sockets[j].local = ServerPort /\ sockets[j].state = "LISTEN"
    BY <1>6, Zenon DEF Known, PortsTell, HasRemote
  <2>2. m.flags \cap {"SYN", "ACK"} = {"SYN"}
    BY SMT
  <2>3. Match(sockets[j], m, r)
    BY <1>2, <2>1, <2>2, Zenon DEF Match
  <2>4. f <= j
    BY <1>4, <2>3, Zenon
  <2> QED
    BY <1>4, <1>6, <2>4, SMT DEF Places
<1> QED
  BY <1>2, <1>3, <1>4, <1>5, <1>6, Zenon

-----------------------------------------------------------------------------
(* What a segment does to the socket it reaches *)

LEMMA SegmentTyped ==
  ASSUME NEW s \in Socket, NEW flags \in SUBSET Flags, NEW text \in {"none", "answer", "message"}
  PROVE  /\ Segment(s, flags, text) \in OwnMessage
         /\ Segment(s, flags, text).port = s.local /\ Segment(s, flags, text).flags = flags
BY SMT DEF Segment, Socket, OwnMessage, Number

(* Advance changes the sequence number only.                               *)
LEMMA AdvanceTyped ==
  ASSUME NEW s \in Socket, NEW n \in Nat
  PROVE  /\ Advance(s, n) \in Socket
         /\ Advance(s, n).local = s.local /\ Advance(s, n).remote = s.remote
         /\ Advance(s, n).bound = s.bound /\ Advance(s, n).state = s.state
         /\ Advance(s, n).acknowledgementNumber = s.acknowledgementNumber
<1>1. Plus(s.sequenceNumber, n) \in Number
  BY PlusTyped, SMT DEF Socket
<1> QED
  BY <1>1, SMT DEF Advance, Socket, Number

(* The segments in a sequence of none, of one and of two.                  *)
LEMMA NoSegment ==
  ASSUME NEW M
  PROVE  <<>> \in Seq(M) /\ Range(<<>>) = {}
<1>1. <<>> \in Seq(M)
  BY SMT
<1>2. Range(<<>>) = {<<>>[i] : i \in 1..Len(<<>>)} /\ Len(<<>>) = 0
  BY <1>1, RangeEquality, EmptySeq, ZenonT(40)
<1> QED
  BY <1>1, <1>2, SMT

LEMMA OneSegment ==
  ASSUME NEW M, NEW a \in M
  PROVE  <<a>> \in Seq(M) /\ Range(<<a>>) = {a}
<1>1. <<a>> \in Seq(M)
  BY SMT
<1>2. Range(<<a>>) = {<<a>>[i] : i \in 1..Len(<<a>>)}
  BY <1>1, RangeEquality, ZenonT(40)
<1> QED
  BY <1>1, <1>2, SMT

LEMMA TwoSegments ==
  ASSUME NEW M, NEW a \in M, NEW b \in M
  PROVE  <<a, b>> \in Seq(M) /\ Range(<<a, b>>) = {a, b}
<1>1. <<a, b>> \in Seq(M)
  BY SMT
<1>2. Range(<<a, b>>) = {<<a, b>>[i] : i \in 1..Len(<<a, b>>)}
  BY <1>1, RangeEquality, ZenonT(40)
<1> QED
  BY <1>1, <1>2, SMT

(* The segments on the wire to the remotes: to none but r, and from port,  *)
(* come more, and a FIN only if the socket is not young (or kernelMain     *)
(* disconnects).                                                           *)
WireGrows(r, port, young) ==
  /\ toPeers' = [q \in Remotes |-> toPeers'[q]]
  /\ \A q \in Remotes :
       /\ Carries(toPeers'[q], OwnMessage)
       /\ \A n \in OnWire(toPeers'[q]) :
            \/ n \in OnWire(toPeers[q])
            \/ /\ q = r /\ n.port = port
               /\ "FIN" \in n.flags => ~young \/ "disconnect" \in calls

(* What Send puts on the wire goes to the remote of a socket.              *)
LEMMA SendsGrows ==
  ASSUME Typed, NEW r \in Remotes, NEW port, NEW young \in BOOLEAN,
         NEW out \in Seq(OwnMessage), Sends(r, out),
         \A n \in Range(out) :
           n.port = port /\ ("FIN" \in n.flags => ~young \/ "disconnect" \in calls)
  PROVE  WireGrows(r, port, young)
<1>1. toPeers = [q \in Remotes |-> toPeers[q]]
  BY Zenon DEF Typed
<1>2. toPeers' = [q \in Remotes |-> IF q = r THEN Put(toPeers[q], out) ELSE toPeers[q]]
  BY <1>1, Zenon DEF Sends
<1>3. \A q \in Remotes : toPeers'[q] = IF q = r THEN Put(toPeers[q], out) ELSE toPeers[q]
  BY <1>2, Zenon
<1>4. toPeers' = [q \in Remotes |-> toPeers'[q]]
  BY <1>2, Zenon
<1>5. \A q \in Remotes : Carries(toPeers[q], OwnMessage)
  BY Zenon DEF Typed
<1>6. /\ Carries(Put(toPeers[r], out), OwnMessage)
      /\ OnWire(Put(toPeers[r], out)) = OnWire(toPeers[r]) \cup Range(out)
  BY <1>5, PutOnWire, ZenonT(40)
<1> QED
  BY <1>3, <1>4, <1>5, <1>6, Zenon DEF WireGrows

LEMMA NothingGrows ==
  ASSUME Typed, toPeers' = toPeers, NEW r, NEW port, NEW young
  PROVE  WireGrows(r, port, young)
BY Zenon DEF Typed, WireGrows

(* Socket k becomes t, and sends what it sends to its remote. *)
Changed(k, t) ==
  /\ t \in Socket /\ t.local = sockets[k].local /\ t.remote = sockets[k].remote
  /\ t.bound = sockets[k].bound /\ t.state # "LISTEN"
  /\ t.state \in Young => sockets[k].state \in Young
  /\ sockets' = [sockets EXCEPT ![k] = t]
  /\ WireGrows(t.remote, t.local, t.state \in Young)

(* The segments that must not be ignored. *)
Awaited(m, s) ==
  \/ s.state = "SYN_SENT" /\ m.flags = {"SYN", "ACK"}
  \/ s.state = "SYN_RECEIVED" /\ m.flags = {"ACK"}
  \/ s.state = "ESTABLISHED" /\ "FIN" \in m.flags
  \/ s.state = "ESTABLISHED" /\ m.flags = {"ACK", "PSH"} /\ InOrder(m, s) /\ s.bound

(* How segment m takes socket s on to t, if it brings no data. *)
Moved(m, s, t) ==
  \/ t = s /\ ~Awaited(m, s)
  \/ t.state = "CLOSED"
  \/ /\ s.state = "SYN_SENT" /\ m.flags = {"SYN", "ACK"} /\ t.state = "ESTABLISHED"
     /\ t.acknowledgementNumber = Plus(m.seq, 1)
  \/ s.state = "ESTABLISHED" /\ "FIN" \in m.flags /\ t.state = "CLOSE_WAIT"
  \/ /\ m.flags \in {{"ACK"}, {"ACK", "PSH"}}
     /\ \/ s.state = "SYN_RECEIVED" /\ t.state = "ESTABLISHED"
        \/ s.state = "FIN_WAIT1" /\ t.state = "FIN_WAIT2"
     /\ t.acknowledgementNumber = s.acknowledgementNumber

(* And if it does. *)
Brought(m, r, k, s, t) ==
  /\ m.flags = {"ACK", "PSH"} /\ InOrder(m, s)
  /\ s.state \in {"SYN_SENT", "ESTABLISHED", "FIN_WAIT2"}
  /\ delivered' = [delivered EXCEPT ![k] = Append(@, <<r, m.chunk>>)]
  /\ \/ spins' = TRUE /\ m.request /\ s.state # "ESTABLISHED" /\ t = s
     \/ /\ spins' = spins
        /\ t.acknowledgementNumber = Plus(s.acknowledgementNumber, Acked(m))
        /\ IF m.request THEN s.state = "ESTABLISHED" /\ t.state = "FIN_WAIT1"
                        ELSE t.state = s.state

(* The remotes send segments of six kinds, and the switch tells them       *)
(* apart.                                                                  *)
LEMMA SixKinds ==
  ASSUME NEW r, NEW m, Sent(r, m)
  PROVE  /\ Kind(m) = {"SYN"} => m.flags = {"SYN"}
         /\ Kind(m) = {"SYN", "ACK"} => m.flags = {"SYN", "ACK"}
         /\ Kind(m) = {"ACK"} => m.flags \in {{"ACK"}, {"ACK", "PSH"}}
         /\ Kind(m) \in {{"FIN"}, {"FIN", "ACK"}} => m.flags = {"FIN", "ACK"}
         /\ Kind(m) = {} => m.flags = {"RST"}
         /\ m.flags = {"SYN", "ACK"} => Kind(m) = {"SYN", "ACK"}
         /\ m.flags \in {{"ACK"}, {"ACK", "PSH"}} => Kind(m) = {"ACK"}
         /\ ~({"SYN", "FIN"} \subseteq m.flags)
         /\ "FIN" \in m.flags => m.flags = {"FIN", "ACK"}
         /\ {"ACK", "PSH"} # {"ACK"} /\ "FIN" \notin {"ACK"} /\ "FIN" \notin {"ACK", "PSH"}
         /\ "RST" \in {"RST"} /\ "RST" \notin {"ACK", "PSH"}
<1>0. m.flags \in {{"SYN"}, {"SYN", "ACK"}, {"ACK"}, {"ACK", "PSH"}, {"FIN", "ACK"}, {"RST"}}
  BY Zenon DEF Sent
<1>1. CASE m.flags = {"SYN"}
  BY <1>1, SMT DEF Kind
<1>2. CASE m.flags = {"SYN", "ACK"}
  BY <1>2, SMT DEF Kind
<1>3. CASE m.flags = {"ACK"}
  BY <1>3, SMT DEF Kind
<1>4. CASE m.flags = {"ACK", "PSH"}
  BY <1>4, SMT DEF Kind
<1>5. CASE m.flags = {"FIN", "ACK"}
  BY <1>5, SMT DEF Kind
<1>6. CASE m.flags = {"RST"}
  BY <1>6, SMT DEF Kind
<1> QED
  BY <1>0, <1>1, <1>2, <1>3, <1>4, <1>5, <1>6, Zenon

(* The common part of the cases: socket k is the one the segment is for. *)
LEMMA Handled ==
  ASSUME Known, NEW r \in Remotes, NEW m, NEW k \in Places, Connects(k, r, m.port),
         NEW s \in Range(sockets), NEW t \in Socket, NEW out \in Seq(OwnMessage),
         Handle(m, r, s, t, out), t.local = s.local, t.remote = s.remote, t.bound = s.bound,
         t.state # "LISTEN", t.state \in Young => s.state \in Young,
         \A n \in Range(out) :
           n.port = t.local /\ ("FIN" \in n.flags => t.state \notin Young \/ "disconnect" \in calls)
  PROVE  s = sockets[k] /\ Changed(k, t)
<1>1. Found(m, r) = k
  BY FoundConnected, Zenon DEF Known, OnSockets
<1>2. s = sockets[k] /\ sockets' = [sockets EXCEPT ![k] = t] /\ Sends(s.remote, out)
  BY <1>1, Zenon DEF Handle
<1>3. t.remote = r
  BY <1>2, Zenon DEF Connects
<1>4. PICK young \in BOOLEAN : young <=> t.state \in Young
  BY Zenon
<1>5. WireGrows(r, t.local, young)
  BY <1>2, <1>3, <1>4, SendsGrows, Zenon DEF Known
<1>6. WireGrows(t.remote, t.local, t.state \in Young)
  BY <1>3, <1>4, <1>5, Zenon DEF WireGrows
<1> QED
  BY <1>2, <1>6, Zenon DEF Changed

(* A place in the list holds a socket of the list.                         *)
LEMMA SocketAt ==
  ASSUME Known, NEW k \in Places
  PROVE  sockets[k] \in Socket /\ sockets[k] \in Range(sockets)
<1>1. sockets \in Seq(Socket) /\ k \in 1..Len(sockets)
  BY Zenon DEF Known, Typed, Places
<1>2. Range(sockets) = {sockets[i] : i \in 1..Len(sockets)}
  BY <1>1, RangeEquality, ZenonT(40)
<1> QED
  BY <1>1, <1>2, ElementOfSeq, Zenon

LEMMA InRange ==
  ASSUME Known, NEW s \in Range(sockets)
  PROVE  s \in Socket
<1>1. sockets \in Seq(Socket)
  BY Zenon DEF Known, Typed
<1> QED
  BY <1>1, RangeOfSeq, Zenon

(* Assigning the state changes nothing else.                               *)
LEMMA WithState ==
  ASSUME NEW s \in Socket,
         NEW state \in {"CLOSED", "ESTABLISHED", "FIN_WAIT1", "FIN_WAIT2", "CLOSE_WAIT"},
         NEW t, t = [s EXCEPT !.state = state]
  PROVE  /\ t \in Socket /\ t.local = s.local /\ t.remote = s.remote /\ t.bound = s.bound
         /\ t.acknowledgementNumber = s.acknowledgementNumber /\ t.state = state
         /\ t.state # "LISTEN"
BY SMT DEF Socket

(* What is sent besides our FIN, and our FIN. *)
LEMMA AckSent ==
  ASSUME NEW s \in Socket, NEW out, out = <<Segment(s, {"ACK"}, "none")>>
  PROVE  /\ out \in Seq(OwnMessage)
         /\ \A n \in Range(out) : n.port = s.local /\ "FIN" \notin n.flags
<1>1. PICK n \in OwnMessage : n = Segment(s, {"ACK"}, "none") /\ n.port = s.local /\ n.flags = {"ACK"}
  BY SegmentTyped, SMT DEF Flags
<1>2. "FIN" \notin n.flags
  BY <1>1, SMT
<1>3. out = <<n>>
  BY <1>1
<1>4. <<n>> \in Seq(OwnMessage) /\ Range(<<n>>) = {n}
  BY OneSegment, Zenon
<1> QED
  BY <1>1, <1>2, <1>3, <1>4, Zenon

(* The answer to a FIN is an ACK and a FIN.                                *)
LEMMA AckAndFinSent ==
  ASSUME NEW s \in Socket, NEW out,
         out = <<Segment(s, {"ACK"}, "none"), Segment(s, {"FIN", "ACK"}, "none")>>
  PROVE  out \in Seq(OwnMessage) /\ \A n \in Range(out) : n.port = s.local
<1>1. PICK n \in OwnMessage : n = Segment(s, {"ACK"}, "none") /\ n.port = s.local
  BY SegmentTyped, SMT DEF Flags
<1>2. PICK f \in OwnMessage : f = Segment(s, {"FIN", "ACK"}, "none") /\ f.port = s.local
  BY SegmentTyped, SMT DEF Flags
<1>3. out = <<n, f>>
  BY <1>1, <1>2
<1>4. <<n, f>> \in Seq(OwnMessage) /\ Range(<<n, f>>) = {n, f}
  BY TwoSegments, Zenon
<1> QED
  BY <1>1, <1>2, <1>3, <1>4, Zenon

(* A reset closes the socket or leaves it closed.                          *)
LEMMA ResetChanges ==
  ASSUME Known, NEW r \in Remotes, NEW m, NEW k \in Places, Connects(k, r, m.port), ReceiveReset(m, r)
  PROVE  \E t : Changed(k, t) /\ Moved(m, sockets[k], t) /\ UNCHANGED <<delivered, spins>>
<1>1. PICK s \in Range(sockets) : Handle(m, r, s, [s EXCEPT !.state = "CLOSED"], <<>>)
  BY Zenon DEF ReceiveReset
<1>2. PICK t : t = [s EXCEPT !.state = "CLOSED"]
  BY Zenon
<1>3. /\ t \in Socket /\ t.local = s.local /\ t.remote = s.remote /\ t.bound = s.bound
      /\ t.state = "CLOSED"
  BY <1>2, InRange, SMT DEF Socket
<1>4. t.state # "LISTEN" /\ t.state \notin Young
  BY <1>3, SMT DEF Young
<1>5. <<>> \in Seq(OwnMessage) /\ Range(<<>>) = {}
  BY NoSegment, Zenon
<1>6. s = sockets[k] /\ Changed(k, t)
  BY <1>1, <1>2, <1>3, <1>4, <1>5, Handled, ZenonT(40)
<1> QED
  BY <1>3, <1>6, Zenon DEF Moved, ReceiveReset

(* A SYN/ACK opens a socket that waits for it, and no other.               *)
LEMMA SynAckChanges ==
  ASSUME Known, NEW r \in Remotes, NEW m \in OnWire(toUs[r]), NEW k \in Places,
         Connects(k, r, m.port), ReceiveSynAck(m, r)
  PROVE  \E t : Changed(k, t) /\ Moved(m, sockets[k], t) /\ UNCHANGED <<delivered, spins>>
<1>1. m.flags = {"SYN", "ACK"} /\ m.seq \in Int
  <2>1. Sent(r, m)
    BY Zenon DEF Known, InKnown
  <2>2. m.flags = {"SYN", "ACK"}
    BY <2>1, SixKinds, Zenon DEF ReceiveSynAck
  <2>3. "SYN" \in m.flags
    BY <2>2, SMT
  <2>4. m.seq = PeerISN
    BY <2>1, <2>3, Zenon DEF Sent
  <2> QED
    BY <2>2, <2>4, TCPAssumption, SMT
<1>2. PICK s \in Range(sockets) : \E t \in {[Advance(s, 1) EXCEPT !.state = "ESTABLISHED", !.acknowledgementNumber = Plus(m.seq, 1)]} :
        s.state = "SYN_SENT" /\ Handle(m, r, s, t, <<Segment(t, {"ACK"}, "none")>>)
  BY Zenon DEF ReceiveSynAck
<1>3. PICK t : /\ t = [Advance(s, 1) EXCEPT !.state = "ESTABLISHED",
                                           !.acknowledgementNumber = Plus(m.seq, 1)]
               /\ s.state = "SYN_SENT" /\ Handle(m, r, s, t, <<Segment(t, {"ACK"}, "none")>>)
  BY <1>2, Zenon
<1>4. /\ t \in Socket /\ t.local = s.local /\ t.remote = s.remote /\ t.bound = s.bound
      /\ t.state = "ESTABLISHED" /\ t.acknowledgementNumber = Plus(m.seq, 1)
  <2>1. s \in Socket
    BY InRange
  <2>2. PICK a : a = Advance(s, 1)
    BY Zenon
  <2>3. a \in Socket /\ a.local = s.local /\ a.remote = s.remote /\ a.bound = s.bound
    <3>1. 1 \in Nat
      BY SMT
    <3> QED
      BY <2>1, <2>2, <3>1, AdvanceTyped, Zenon
  <2>4. PICK p \in Number : p = Plus(m.seq, 1)
    BY <1>1, PlusTyped, SMT
  <2>5. t = [a EXCEPT !.state = "ESTABLISHED", !.acknowledgementNumber = p]
    BY <1>3, <2>2, <2>4, Zenon
  <2>6. /\ t \in Socket /\ t.local = a.local /\ t.remote = a.remote /\ t.bound = a.bound
        /\ t.state = "ESTABLISHED" /\ t.acknowledgementNumber = p
    <3>1. PICK b : b = [a EXCEPT !.state = "ESTABLISHED"]
      BY Zenon
    <3>2. t = [b EXCEPT !.acknowledgementNumber = p]
      BY <2>5, <3>1
    <3>3. /\ b \in Socket /\ b.local = a.local /\ b.remote = a.remote /\ b.bound = a.bound
          /\ b.state = "ESTABLISHED"
      <4>1. a \in Socket
        BY <2>3
      <4>2. "ESTABLISHED" \in {"CLOSED", "ESTABLISHED", "FIN_WAIT1", "FIN_WAIT2", "CLOSE_WAIT"}
        BY Zenon
      <4> QED
        BY <3>1, <4>1, <4>2, WithState, ZenonT(40)
    <3> QED
      BY <3>2, <3>3, SMT DEF Socket, Number
  <2> QED
    BY <2>3, <2>4, <2>6, Zenon
<1>5. PICK out : out = <<Segment(t, {"ACK"}, "none")>>
  BY Zenon
<1>6. out \in Seq(OwnMessage) /\ \A n \in Range(out) : n.port = t.local /\ "FIN" \notin n.flags
  BY <1>4, <1>5, AckSent, Zenon
<1>7. t.state # "LISTEN" /\ (t.state \in Young => s.state \in Young)
  BY <1>3, <1>4, SMT DEF Young
<1>8. s = sockets[k] /\ Changed(k, t)
  <2>1. Handle(m, r, s, t, out)
    BY <1>3, <1>5, Zenon
  <2> QED
    BY <2>1, <1>4, <1>6, <1>7, Handled, ZenonT(40)
<1> QED
  BY <1>1, <1>3, <1>4, <1>8, Zenon DEF Moved, ReceiveSynAck

(* A FIN counts as a byte, and moves the state on.                         *)
LEMMA FinChanges ==
  ASSUME Known, NEW r \in Remotes, NEW m \in OnWire(toUs[r]), NEW k \in Places,
         Connects(k, r, m.port), ReceiveFin(m, r)
  PROVE  \E t : Changed(k, t) /\ Moved(m, sockets[k], t) /\ UNCHANGED <<delivered, spins>>
<1>1. "FIN" \in m.flags
  <2>1. "FIN" \in Kind(m)
    BY Zenon DEF ReceiveFin
  <2> QED
    BY <2>1, Zenon DEF Kind
<1>0. PICK s \in Range(sockets) : \E u :
        /\ u = [s EXCEPT !.acknowledgementNumber = Plus(@, 1)]
        /\ \/ /\ s.state = "ESTABLISHED"
              /\ Handle(m, r, s, [u EXCEPT !.state = "CLOSE_WAIT"],
                        <<Segment(u, {"ACK"}, "none"), Segment(u, {"FIN", "ACK"}, "none")>>)
           \/ /\ s.state = "CLOSE_WAIT"
              /\ Handle(m, r, s, [s EXCEPT !.state = "CLOSED"], <<>>)
           \/ /\ s.state \in {"FIN_WAIT1", "FIN_WAIT2"}
              /\ Handle(m, r, s, [u EXCEPT !.state = "CLOSED"], <<Segment(u, {"ACK"}, "none")>>)
  BY Zenon DEF ReceiveFin
<1>2. PICK u :
        /\ u = [s EXCEPT !.acknowledgementNumber = Plus(@, 1)]
        /\ \/ /\ s.state = "ESTABLISHED"
              /\ Handle(m, r, s, [u EXCEPT !.state = "CLOSE_WAIT"],
                        <<Segment(u, {"ACK"}, "none"), Segment(u, {"FIN", "ACK"}, "none")>>)
           \/ /\ s.state = "CLOSE_WAIT"
              /\ Handle(m, r, s, [s EXCEPT !.state = "CLOSED"], <<>>)
           \/ /\ s.state \in {"FIN_WAIT1", "FIN_WAIT2"}
              /\ Handle(m, r, s, [u EXCEPT !.state = "CLOSED"], <<Segment(u, {"ACK"}, "none")>>)
  BY <1>0, Zenon
<1>3. s \in Socket
  BY InRange
<1>4. u \in Socket /\ u.local = s.local /\ u.remote = s.remote /\ u.bound = s.bound
  <2>1. Plus(s.acknowledgementNumber, 1) \in Number
    BY <1>3, PlusTyped, SMT DEF Socket
  <2> QED
    BY <1>2, <1>3, <2>1, SMT DEF Socket, Number
<1>5. PICK t, out :
        /\ \/ /\ s.state = "ESTABLISHED" /\ t = [u EXCEPT !.state = "CLOSE_WAIT"]
              /\ out = <<Segment(u, {"ACK"}, "none"), Segment(u, {"FIN", "ACK"}, "none")>>
           \/ t = [s EXCEPT !.state = "CLOSED"] /\ out = <<>>
           \/ t = [u EXCEPT !.state = "CLOSED"] /\ out = <<Segment(u, {"ACK"}, "none")>>
        /\ Handle(m, r, s, t, out)
  BY <1>2, Zenon
<1>6. /\ t \in Socket /\ t.local = s.local /\ t.remote = s.remote /\ t.bound = s.bound
      /\ t.state # "LISTEN"
      /\ t.state = "CLOSED" \/ (s.state = "ESTABLISHED" /\ t.state = "CLOSE_WAIT")
  <2>3. CASE s.state = "ESTABLISHED" /\ t = [u EXCEPT !.state = "CLOSE_WAIT"]
    <3>1. u \in Socket /\ t = [u EXCEPT !.state = "CLOSE_WAIT"]
      BY <1>4, <2>3
    <3>2. /\ t \in Socket /\ t.local = u.local /\ t.remote = u.remote /\ t.bound = u.bound
          /\ t.state = "CLOSE_WAIT" /\ t.state # "LISTEN"
      BY <3>1, SMT DEF Socket
    <3> QED
      BY <1>4, <2>3, <3>2
  <2>4. CASE t = [s EXCEPT !.state = "CLOSED"]
    BY <1>3, <2>4, SMT DEF Socket
  <2>5. CASE t = [u EXCEPT !.state = "CLOSED"]
    <3>1. u \in Socket /\ t = [u EXCEPT !.state = "CLOSED"]
      BY <1>4, <2>5
    <3>2. /\ t \in Socket /\ t.local = u.local /\ t.remote = u.remote /\ t.bound = u.bound
          /\ t.state = "CLOSED" /\ t.state # "LISTEN"
      BY <3>1, SMT DEF Socket
    <3> QED
      BY <1>4, <2>5, <3>2
  <2> QED
    BY <1>5, <2>3, <2>4, <2>5, Zenon
<1>7. t.state \notin Young
  BY <1>6, SMT DEF Young
<1>8. out \in Seq(OwnMessage) /\ \A n \in Range(out) : n.port = t.local
  BY <1>4, <1>5, <1>6, NoSegment, AckSent, AckAndFinSent, Zenon
<1>9. s = sockets[k] /\ Changed(k, t)
  BY <1>5, <1>6, <1>7, <1>8, Handled, ZenonT(40)
<1> QED
  BY <1>1, <1>6, <1>9, Zenon DEF Moved, ReceiveFin

(* An ACK moves the state on and leaves the numbers.                       *)
LEMMA AckChanges ==
  ASSUME Known, NEW r \in Remotes, NEW m \in OnWire(toUs[r]), NEW k \in Places,
         Connects(k, r, m.port), ReceiveAck(m, r)
  PROVE  \E t : Changed(k, t) /\ Moved(m, sockets[k], t) /\ UNCHANGED <<delivered, spins>>
<1>1. m.flags \in {{"ACK"}, {"ACK", "PSH"}} /\ "FIN" \notin m.flags /\ m.flags # {"SYN", "ACK"}
  <2>1. Sent(r, m)
    BY Zenon DEF Known, InKnown
  <2>2. m.flags \in {{"ACK"}, {"ACK", "PSH"}}
    <3>1. Kind(m) = {"ACK"}
      BY Zenon DEF ReceiveAck
    <3> QED
      BY <2>1, <3>1, SixKinds, Zenon DEF Sent
  <2> QED
    BY <2>2, SMT
<1>0. PICK s \in Range(sockets) : \E t :
        /\ s.state \in DOMAIN AckMoves \/ m.flags = {"ACK"}
        /\ t = (IF s.state \in DOMAIN AckMoves THEN [s EXCEPT !.state = AckMoves[@]] ELSE s)
        /\ Handle(m, r, s, t, <<>>)
  BY Zenon DEF ReceiveAck
<1>2. PICK t :
        /\ s.state \in DOMAIN AckMoves \/ m.flags = {"ACK"}
        /\ t = (IF s.state \in DOMAIN AckMoves THEN [s EXCEPT !.state = AckMoves[@]] ELSE s)
        /\ Handle(m, r, s, t, <<>>)
  BY <1>0, Zenon
<1>3. s \in Socket
  BY InRange
<1>4. PICK state : state = s.state
  BY Zenon
<1>5. Found(m, r) = k /\ s = sockets[k] /\ s.state # "LISTEN"
  <2>1. Found(m, r) = k
    BY FoundConnected, Zenon DEF Known, OnSockets
  <2> QED
    BY <1>2, <2>1, Zenon DEF Handle, Connects, HasRemote
<1>6. /\ DOMAIN AckMoves = {"SYN_RECEIVED", "FIN_WAIT1", "CLOSE_WAIT"}
      /\ AckMoves["SYN_RECEIVED"] = "ESTABLISHED" /\ AckMoves["FIN_WAIT1"] = "FIN_WAIT2"
      /\ AckMoves["CLOSE_WAIT"] = "CLOSED"
  BY SMT DEF AckMoves
<1>7. <<>> \in Seq(OwnMessage) /\ Range(<<>>) = {}
  BY NoSegment, Zenon
<1>8. CASE s.state \notin DOMAIN AckMoves
  <2>1. t = s /\ m.flags = {"ACK"}
    BY <1>2, <1>8, Zenon
  <2>2. Changed(k, s)
    BY <1>2, <1>3, <1>5, <1>7, <2>1, Handled, ZenonT(40)
  <2>3. m.flags # {"ACK", "PSH"}
    BY <2>1, SMT
  <2>4. ~Awaited(m, s)
    BY <1>1, <1>6, <1>8, <2>3, Zenon DEF Awaited
  <2> QED
    BY <1>5, <2>2, <2>4, Zenon DEF Moved, ReceiveAck
<1>9. CASE s.state \in DOMAIN AckMoves
  <2>1. /\ t = [s EXCEPT !.state = AckMoves[s.state]]
        /\ \/ s.state = "SYN_RECEIVED" /\ AckMoves[s.state] = "ESTABLISHED"
           \/ s.state = "FIN_WAIT1" /\ AckMoves[s.state] = "FIN_WAIT2"
           \/ s.state = "CLOSE_WAIT" /\ AckMoves[s.state] = "CLOSED"
    BY <1>2, <1>6, <1>9, Zenon
  <2>2. PICK next : next = AckMoves[s.state]
    BY Zenon
  <2>3. /\ \/ s.state = "SYN_RECEIVED" /\ next = "ESTABLISHED"
           \/ s.state = "FIN_WAIT1" /\ next = "FIN_WAIT2"
           \/ s.state = "CLOSE_WAIT" /\ next = "CLOSED"
        /\ t = [s EXCEPT !.state = next]
    BY <2>1, <2>2, Zenon
  <2>4. /\ t \in Socket /\ t.local = s.local /\ t.remote = s.remote /\ t.bound = s.bound
        /\ t.state = next /\ t.acknowledgementNumber = s.acknowledgementNumber
        /\ next # "LISTEN" /\ (next \in Young => s.state \in Young)
    BY <1>3, <2>3, SMT DEF Socket, Young
  <2>5. Changed(k, t)
    BY <1>2, <1>5, <1>7, <2>4, Handled, ZenonT(40)
  <2> QED
    BY <1>1, <1>5, <2>3, <2>4, <2>5, Zenon DEF Moved, ReceiveAck
<1> QED
  BY <1>8, <1>9

(* A refused segment changes nothing of the socket.                        *)
LEMMA RefusedChanges ==
  ASSUME Known, NEW r \in Remotes, NEW m \in OnWire(toUs[r]), NEW k \in Places,
         Connects(k, r, m.port), ReceiveRefused(m, r)
  PROVE  \E t : Changed(k, t) /\ Moved(m, sockets[k], t) /\ UNCHANGED <<delivered, spins>>
<1>1. PICK s \in Range(sockets) : Refused(m, s) /\ Handle(m, r, s, s, <<Segment(s, {"RST"}, "none")>>)
  BY Zenon DEF ReceiveRefused
<1>2. s \in Socket
  BY InRange
<1>3. s = sockets[k] /\ s.state # "LISTEN"
  BY <1>1, FoundConnected, Zenon DEF Known, OnSockets, Handle, Connects, HasRemote
<1>4. PICK n \in OwnMessage : n = Segment(s, {"RST"}, "none") /\ n.port = s.local /\ n.flags = {"RST"}
  BY <1>2, SegmentTyped, SMT DEF Flags
<1>5. "FIN" \notin n.flags
  BY <1>4, SMT
<1>6. PICK out : out = <<n>>
  BY Zenon
<1>7. out \in Seq(OwnMessage) /\ Range(out) = {n}
  BY <1>6, OneSegment, Zenon
<1>8. Changed(k, s)
  <2>1. Handle(m, r, s, s, out)
    BY <1>1, <1>4, <1>6, Zenon
  <2>2. \A x \in Range(out) : x.port = s.local /\ "FIN" \notin x.flags
    BY <1>4, <1>5, <1>7, Zenon
  <2> QED
    BY <1>2, <1>3, <1>7, <2>1, <2>2, Handled, ZenonT(40)
<1>9. ~Awaited(m, s)
  <2>1. Sent(r, m)
    BY Zenon DEF Known, InKnown
  <2>2. CASE Kind(m) = {"SYN"}
    BY <2>1, <2>2, SixKinds, SMT DEF Awaited
  <2>3. CASE Kind(m) = {"SYN", "ACK"} /\ s.state # "SYN_SENT"
    BY <2>1, <2>3, SixKinds, SMT DEF Awaited
  <2>4. CASE "FIN" \in m.flags /\ s.state # "ESTABLISHED"
    BY <2>1, <2>4, SixKinds, SMT DEF Awaited
  <2>5. CASE IsData(m, s) /\ (~InOrder(m, s) \/ ~s.bound)
    <3>1. "RST" \notin m.flags
      BY <2>5, Zenon DEF IsData, Live
    <3>2. Kind(m) # {}
      BY <2>1, <3>1, SixKinds, Zenon
    <3>3. Kind(m) = {"ACK"} /\ m.flags # {"ACK"}
      BY <2>5, <3>2, Zenon DEF IsData
    <3>4. m.flags = {"ACK", "PSH"}
      BY <2>1, <3>3, SixKinds, Zenon
    <3>5. m.flags # {"SYN", "ACK"} /\ "FIN" \notin m.flags
      BY <3>4, SMT
    <3> QED
      BY <2>5, <3>3, <3>5, Zenon DEF Awaited
  <2> QED
    BY <1>1, <1>3, <2>1, <2>2, <2>3, <2>4, <2>5, SixKinds, Zenon DEF Refused
<1> QED
  BY <1>3, <1>8, <1>9, Zenon DEF Moved, ReceiveRefused

(* The answer to a request is two segments, the second with our FIN, and   *)
(* then comes the acknowledgement.                                         *)
LEMMA AnswerSent ==
  ASSUME NEW s \in Socket, NEW u \in Socket, u.local = s.local, NEW request,
         NEW out, out = (IF request THEN Answer(s) ELSE <<>>) \o <<Segment(u, {"ACK"}, "none")>>
  PROVE  /\ out \in Seq(OwnMessage)
         /\ \A n \in Range(out) : n.port = s.local /\ ("FIN" \in n.flags => request)
<1>1. PICK last : last = <<Segment(u, {"ACK"}, "none")>>
  BY Zenon
<1>2. last \in Seq(OwnMessage) /\ \A n \in Range(last) : n.port = s.local /\ "FIN" \notin n.flags
  BY <1>1, AckSent, Zenon
<1>3. PICK first : first = (IF request THEN Answer(s) ELSE <<>>)
  BY Zenon
<1>4. /\ first \in Seq(OwnMessage)
      /\ \A n \in Range(first) : n.port = s.local /\ ("FIN" \in n.flags => request)
  <2>1. CASE request
    <3>1. PICK a \in OwnMessage : a = Segment(s, {"PSH", "ACK"}, "answer") /\ a.port = s.local
      BY SegmentTyped, SMT DEF Flags
    <3>2. PICK v : v = Advance(s, AnswerBytes)
      BY Zenon
    <3>3. v \in Socket /\ v.local = s.local
      <4>1. AnswerBytes \in Nat
        BY TCPAssumption, Zenon
      <4> QED
        BY <3>2, <4>1, AdvanceTyped, Zenon
    <3>4. PICK f \in OwnMessage : f = Segment(v, {"FIN", "ACK"}, "none") /\ f.port = s.local
      BY <3>3, SegmentTyped, SMT DEF Flags
    <3>5. first = <<a, f>>
      BY <1>3, <2>1, <3>1, <3>2, <3>4, Zenon DEF Answer
    <3>6. <<a, f>> \in Seq(OwnMessage) /\ Range(<<a, f>>) = {a, f}
      BY TwoSegments, Zenon
    <3> QED
      BY <2>1, <3>1, <3>4, <3>5, <3>6, Zenon
  <2>2. CASE ~request
    BY <1>3, <2>2, NoSegment, Zenon
  <2> QED
    BY <2>1, <2>2
<1>5. out = first \o last
  BY <1>1, <1>3, Zenon
<1>6. first \o last \in Seq(OwnMessage) /\ Range(first \o last) = Range(first) \cup Range(last)
  BY <1>2, <1>4, ConcatProperties, RangeConcatenation, ZenonT(40)
<1> QED
  BY <1>2, <1>4, <1>5, <1>6, Zenon

(* Data is handed up and acknowledged, or the handler waits in Send.       *)
LEMMA DataChanges ==
  ASSUME Known, NEW r \in Remotes, NEW m \in OnWire(toUs[r]), m \in PeerMessage, NEW k \in Places,
         Connects(k, r, m.port), ReceiveData(m, r)
  PROVE  \E t : Changed(k, t) /\ Brought(m, r, k, sockets[k], t)
<1>1. PICK s : s = sockets[k]
  BY Zenon
<1>2. s \in Socket /\ s.state # "LISTEN" /\ s.remote = r
  BY <1>1, SocketAt, Zenon DEF Connects, HasRemote
<1>3. PICK t : t = (IF m.request THEN Answered(s) ELSE s)
  BY Zenon
<1>4. PICK u : u = [t EXCEPT !.acknowledgementNumber = Plus(@, Acked(m))]
  BY Zenon
<1>5. PICK out : out = (IF m.request THEN Answer(s) ELSE <<>>) \o <<Segment(u, {"ACK"}, "none")>>
  BY Zenon
<1>6. /\ IsData(m, s) /\ InOrder(m, s)
      /\ delivered' = [delivered EXCEPT ![k] = Append(@, <<r, m.chunk>>)]
      /\ IF m.request /\ s.state # "ESTABLISHED"
           THEN spins' = TRUE /\ UNCHANGED <<sockets, toPeers>>
           ELSE sockets' = [sockets EXCEPT ![k] = u] /\ Sends(r, out) /\ UNCHANGED spins
  <2>1. Found(m, r) = k
    BY FoundConnected, Zenon DEF Known, OnSockets
  <2> QED
    BY <1>1, <1>3, <1>4, <1>5, <2>1, Zenon DEF ReceiveData
<1>7. m.flags = {"ACK", "PSH"} /\ s.state \in {"SYN_SENT", "ESTABLISHED", "FIN_WAIT2"}
  <2>1. Sent(r, m)
    BY Zenon DEF Known, InKnown
  <2>2. "RST" \notin m.flags /\ s.state # "CLOSED"
    BY <1>6, Zenon DEF IsData, Live
  <2>3. Kind(m) # {}
    BY <2>1, <2>2, SixKinds, Zenon
  <2>4. Kind(m) = {"ACK"} /\ m.flags # {"ACK"} /\ s.state \notin DOMAIN AckMoves
    BY <1>6, <2>3, Zenon DEF IsData
  <2>5. m.flags = {"ACK", "PSH"}
    BY <2>1, <2>4, SixKinds, Zenon
  <2>6. s.state \notin {"SYN_RECEIVED", "FIN_WAIT1", "CLOSE_WAIT"}
    BY <2>4, SMT DEF AckMoves
  <2> QED
    BY <1>2, <2>2, <2>5, <2>6, SMT DEF Socket
<1>8. CASE m.request /\ s.state # "ESTABLISHED"
  <2>1. spins' = TRUE /\ sockets' = sockets /\ toPeers' = toPeers
    BY <1>6, <1>8, Zenon
  <2>2. sockets' = [sockets EXCEPT ![k] = s]
    <3>1. sockets \in Seq(Socket) /\ k \in 1..Len(sockets)
      BY Zenon DEF Known, Typed, Places
    <3> QED
      BY <1>1, <2>1, <3>1, SMT
  <2>3. WireGrows(s.remote, s.local, s.state \in Young)
    BY <2>1, NothingGrows, Zenon DEF Known
  <2>4. Changed(k, s)
    BY <1>1, <1>2, <2>2, <2>3, Zenon DEF Changed
  <2> QED
    BY <1>1, <1>6, <1>7, <1>8, <2>1, <2>4, Zenon DEF Brought
<1>9. CASE ~(m.request /\ s.state # "ESTABLISHED")
  <2>1. /\ t \in Socket /\ t.local = s.local /\ t.remote = s.remote /\ t.bound = s.bound
        /\ t.acknowledgementNumber = s.acknowledgementNumber
        /\ t.state = IF m.request THEN "FIN_WAIT1" ELSE s.state
    <3>1. CASE m.request
      <4>1. PICK v : v = Advance(s, AnswerBytes + 1)
        BY Zenon
      <4>2. AnswerBytes + 1 \in Nat
        BY TCPAssumption, SMT
      <4>3. /\ v \in Socket /\ v.local = s.local /\ v.remote = s.remote /\ v.bound = s.bound
            /\ v.acknowledgementNumber = s.acknowledgementNumber
        BY <1>2, <4>1, <4>2, AdvanceTyped, Zenon
      <4>4. t = [v EXCEPT !.state = "FIN_WAIT1"]
        BY <1>3, <3>1, <4>1, Zenon DEF Answered
      <4> QED
        BY <3>1, <4>3, <4>4, SMT DEF Socket
    <3>2. CASE ~m.request
      BY <1>2, <1>3, <3>2, SMT
    <3> QED
      BY <3>1, <3>2
  <2>2. Acked(m) \in Int
    BY TCPAssumption, SMT DEF Acked, PeerMessage
  <2>3. PICK p \in Number : p = Plus(s.acknowledgementNumber, Acked(m))
    BY <1>2, <2>2, PlusTyped, SMT DEF Socket
  <2>4. u = [t EXCEPT !.acknowledgementNumber = p]
    BY <1>4, <2>1, <2>3, Zenon
  <2>5. /\ u \in Socket /\ u.local = s.local /\ u.remote = s.remote /\ u.bound = s.bound
        /\ u.acknowledgementNumber = p
        /\ u.state = IF m.request THEN "FIN_WAIT1" ELSE s.state
    BY <2>1, <2>4, SMT DEF Socket, Number
  <2>6. u.state # "LISTEN" /\ (u.state \in Young => s.state \in Young /\ ~m.request)
    BY <1>2, <2>5, SMT DEF Young
  <2>7. out \in Seq(OwnMessage) /\ \A n \in Range(out) : n.port = u.local /\ ("FIN" \in n.flags => m.request)
    BY <1>2, <1>5, <2>5, AnswerSent, ZenonT(40)
  <2>8. sockets' = [sockets EXCEPT ![k] = u] /\ Sends(r, out) /\ spins' = spins
    BY <1>6, <1>9, Zenon
  <2>9. WireGrows(u.remote, u.local, u.state \in Young)
    <3>1. PICK young \in BOOLEAN : young <=> u.state \in Young
      BY Zenon
    <3>2. WireGrows(r, u.local, young)
      BY <2>6, <2>7, <2>8, <3>1, SendsGrows, Zenon DEF Known
    <3> QED
      BY <1>2, <2>5, <3>1, <3>2, Zenon DEF WireGrows
  <2>10. Changed(k, u)
    BY <1>1, <2>5, <2>6, <2>8, <2>9, Zenon DEF Changed
  <2>11. IF m.request THEN s.state = "ESTABLISHED" /\ u.state = "FIN_WAIT1" ELSE u.state = s.state
    BY <1>9, <2>5, Zenon
  <2> QED
    BY <1>1, <1>6, <1>7, <2>3, <2>5, <2>8, <2>10, <2>11, Zenon DEF Brought
<1> QED
  BY <1>8, <1>9

(* Whatever a remote with a socket sends, the handler changes that socket  *)
(* in one of these ways.                                                   *)
LEMMA ReceiveChanges ==
  ASSUME Known, NEW r \in Remotes, NEW m \in OnWire(toUs[r]), m \in PeerMessage, NEW k \in Places,
         Connects(k, r, m.port), Receive(m, r)
  PROVE  \E t : /\ Changed(k, t)
                /\ \/ Moved(m, sockets[k], t) /\ UNCHANGED <<delivered, spins>>
                   \/ Brought(m, r, k, sockets[k], t)
<1>1. Found(m, r) = k /\ HasRemote(k)
  BY FoundConnected, Zenon DEF Known, OnSockets, Connects
<1>2. ~ReceiveForNobody(m, r)
  <2>1. k # 0
    BY SMT DEF Places
  <2> QED
    BY <1>1, <2>1, Zenon DEF ReceiveForNobody
<1>3. ~ReceiveSyn(m, r)
  BY <1>1, Zenon DEF ReceiveSyn, HasRemote
<1>4. CASE ReceiveReset(m, r)
  BY <1>4, ResetChanges, Zenon
<1>5. CASE ReceiveSynAck(m, r)
  BY <1>5, SynAckChanges, Zenon
<1>6. CASE ReceiveFin(m, r)
  BY <1>6, FinChanges, Zenon
<1>7. CASE ReceiveAck(m, r)
  BY <1>7, AckChanges, Zenon
<1>8. CASE ReceiveData(m, r)
  BY <1>8, DataChanges, Zenon
<1>9. CASE ReceiveRefused(m, r)
  BY <1>9, RefusedChanges, Zenon
<1> QED
  BY <1>2, <1>3, <1>4, <1>5, <1>6, <1>7, <1>8, <1>9, Zenon DEF Receive

(* The first socket that listens becomes the remote's. *)
Accepts(i, t, r) ==
  /\ ~HasRemote(i) /\ \A j \in Places : j < i => HasRemote(j)
  /\ t \in Socket /\ t.state = "SYN_RECEIVED" /\ t.remote = r /\ t.local = ServerPort
  /\ t.bound = sockets[i].bound /\ t.acknowledgementNumber = Plus(PeerISN, 1)
  /\ sockets' = [sockets EXCEPT ![i] = t]
  /\ WireGrows(r, ServerPort, TRUE)

(* And a remote without one is ignored or gets one. *)
LEMMA ReceiveAccepts ==
  ASSUME Known, NEW r \in Remotes, NEW m \in OnWire(toUs[r]), Receive(m, r),
         \A port : ~Has(r, port)
  PROVE  /\ m.flags = {"SYN"} /\ r \in Clients /\ UNCHANGED <<delivered, spins>>
         /\ \/ UNCHANGED <<sockets, toPeers>>
            \/ \E i \in Places : \E t \in Socket : Accepts(i, t, r)
<1>1. Sent(r, m)
  BY Zenon DEF Known, InKnown
<1>2. m.flags = {"SYN"}
  <2> SUFFICES ASSUME m.flags # {"SYN"}
               PROVE  FALSE
    OBVIOUS
  <2>1. PICK k \in Places : Connects(k, r, m.port)
    BY FoundLater, Zenon
  <2> QED
    BY <2>1, Zenon DEF Has
<1>3. /\ Kind(m) = {"SYN"} /\ "RST" \notin m.flags /\ "FIN" \notin m.flags
      /\ Kind(m) # {"SYN", "ACK"} /\ Kind(m) \notin {{"FIN"}, {"FIN", "ACK"}}
      /\ Kind(m) # {"ACK"} /\ Kind(m) # {}
  BY <1>2, SMT DEF Kind
<1>4. r \in Clients /\ m.seq = PeerISN
  BY <1>1, <1>2, Zenon DEF Sent
<1>5. CASE Found(m, r) = 0
  BY <1>2, <1>3, <1>4, <1>5, Zenon
     DEF Receive, ReceiveForNobody, ReceiveReset, ReceiveSyn, ReceiveSynAck, ReceiveFin,
         ReceiveAck, ReceiveData, ReceiveRefused, Handle
<1>6. CASE Found(m, r) # 0
  <2>1. PICK i \in Places : /\ i = Found(m, r) /\ ~HasRemote(i) /\ m.port = ServerPort
                            /\ \A j \in Places : j < i => HasRemote(j)
    BY <1>2, <1>6, FoundFirst, Zenon
  <2>2. PICK s \in Socket : s = sockets[i] /\ s.state = "LISTEN" /\ s.local = ServerPort
    BY <2>1, SocketAt, Zenon DEF HasRemote, Known, PortsTell
  <2>3. Live(m, s) /\ ~IsData(m, s) /\ ~Refused(m, s)
    <3>1. ~({"SYN", "FIN"} \subseteq m.flags)
      BY <1>3, Zenon
    <3> QED
      BY <1>3, <2>2, <3>1, Zenon DEF Live, IsData, Refused
  <2>4. ReceiveSyn(m, r)
    BY <1>3, <1>6, <2>1, <2>2, <2>3, Zenon
       DEF Receive, ReceiveForNobody, ReceiveReset, ReceiveSynAck, ReceiveFin,
           ReceiveAck, ReceiveData, ReceiveRefused, Handle
  <2>5. PICK t : t = Accepted(s, m, r)
    BY Zenon
  <2>6. PICK a : a = Advance(t, 1)
    BY Zenon
  <2>7. /\ sockets' = [sockets EXCEPT ![i] = a] /\ UNCHANGED <<delivered, spins>>
        /\ Sends(r, <<Segment(t, {"SYN", "ACK"}, "none")>>)
    BY <2>1, <2>2, <2>4, <2>5, <2>6, Zenon DEF ReceiveSyn
  <2>8. PICK p \in Number : p = Plus(PeerISN, 1)
    BY TCPAssumption, PlusTyped, SMT
  <2>9. /\ t \in Socket /\ t.local = ServerPort /\ t.remote = r /\ t.bound = s.bound
        /\ t.state = "SYN_RECEIVED" /\ t.acknowledgementNumber = p
    <3>1. PICK q \in Number : q = OwnISN
      BY TCPAssumption, Zenon DEF Number
    <3>2. t = [s EXCEPT !.state = "SYN_RECEIVED", !.remote = r, !.sequenceNumber = q,
                        !.acknowledgementNumber = p]
      BY <1>4, <2>5, <2>8, <3>1, Zenon DEF Accepted
    <3>3. PICK b : b = [s EXCEPT !.state = "SYN_RECEIVED"]
      BY Zenon
    <3>4. PICK c : c = [b EXCEPT !.remote = r]
      BY Zenon
    <3>5. PICK d : d = [c EXCEPT !.sequenceNumber = q]
      BY Zenon
    <3>6. t = [d EXCEPT !.acknowledgementNumber = p]
      BY <3>2, <3>3, <3>4, <3>5
    <3>7. b \in Socket /\ b.local = s.local /\ b.bound = s.bound /\ b.state = "SYN_RECEIVED"
      BY <3>3, SMT DEF Socket
    <3>8. /\ c \in Socket /\ c.local = s.local /\ c.bound = s.bound /\ c.state = "SYN_RECEIVED"
          /\ c.remote = r
      BY <3>4, <3>7, SMT DEF Socket
    <3>9. /\ d \in Socket /\ d.local = s.local /\ d.bound = s.bound /\ d.state = "SYN_RECEIVED"
          /\ d.remote = r
      BY <3>5, <3>8, SMT DEF Socket, Number
    <3> QED
      BY <2>2, <3>6, <3>9, SMT DEF Socket, Number
  <2>10. /\ a \in Socket /\ a.local = ServerPort /\ a.remote = r /\ a.bound = s.bound
         /\ a.state = "SYN_RECEIVED" /\ a.acknowledgementNumber = p
    <3>1. 1 \in Nat /\ t \in Socket
      BY <2>9, SMT
    <3>2. /\ a \in Socket /\ a.local = t.local /\ a.remote = t.remote /\ a.bound = t.bound
          /\ a.state = t.state /\ a.acknowledgementNumber = t.acknowledgementNumber
      BY <2>6, <3>1, AdvanceTyped, Zenon
    <3> QED
      BY <2>9, <3>2
  <2>11. WireGrows(r, ServerPort, TRUE)
    <3>1. PICK n \in OwnMessage : /\ n = Segment(t, {"SYN", "ACK"}, "none")
                                  /\ n.port = ServerPort /\ n.flags = {"SYN", "ACK"}
      BY <2>9, SegmentTyped, SMT DEF Flags
    <3>2. "FIN" \notin n.flags
      BY <3>1, SMT
    <3>3. PICK out : out = <<n>>
      BY Zenon
    <3>4. out \in Seq(OwnMessage) /\ Range(out) = {n} /\ Sends(r, out)
      BY <2>7, <3>1, <3>3, OneSegment, Zenon
    <3>5. \A x \in Range(out) : x.port = ServerPort /\ "FIN" \notin x.flags
      BY <3>1, <3>2, <3>4, Zenon
    <3>6. TRUE \in BOOLEAN
      BY Zenon
    <3> QED
      BY <3>4, <3>5, <3>6, SendsGrows, Zenon DEF Known
  <2> QED
    BY <1>2, <1>4, <2>1, <2>2, <2>7, <2>8, <2>10, <2>11, Zenon DEF Accepts
<1> QED
  BY <1>5, <1>6

-----------------------------------------------------------------------------
(* Every step preserves what is known: a segment that is handled *)

(* What the wire and the streams are does not change. *)
LEMMA SameSetting ==
  ASSUME scenario' = scenario
  PROVE  /\ Reliable' = Reliable /\ Stream' = Stream /\ BindApart' = BindApart
         /\ \A q, M : Carries(q, M)' <=> Carries(q, M)
         /\ \A q : OnWire(q)' = OnWire(q)
BY Zenon DEF Reliable, Stream, BindApart, Carries, OnWire

(* Both wires hold segments.                                               *)
WiresTyped ==
  /\ toUs = [r \in Remotes |-> toUs[r]] /\ toPeers = [r \in Remotes |-> toPeers[r]]
  /\ \A r \in Remotes : Carries(toUs[r], PeerMessage) /\ Carries(toPeers[r], OwnMessage)

(* The segments on the wire from the remotes: from none but r come more,   *)
(* and only such as in M.                                                  *)
UsGrows(r, M) ==
  /\ toUs' = [q \in Remotes |-> toUs'[q]]
  /\ \A q \in Remotes :
       /\ Carries(toUs'[q], PeerMessage)
       /\ \A m \in OnWire(toUs'[q]) : m \in OnWire(toUs[q]) \/ (q = r /\ m \in M)

(* The wires go on holding segments.                                       *)
LEMMA WiresKeep ==
  ASSUME scenario' = scenario, NEW r, NEW port, NEW young, NEW q, NEW M,
         UsGrows(q, M), WireGrows(r, port, young)
  PROVE  WiresTyped'
<1>1. /\ Reliable' = Reliable
      /\ \A x \in Remotes : Carries(toUs'[x], PeerMessage) /\ Carries(toPeers'[x], OwnMessage)
  BY SameSetting, Zenon DEF UsGrows, WireGrows
<1>2. \A x \in Remotes : Carries(toUs[x], PeerMessage)' /\ Carries(toPeers[x], OwnMessage)'
  BY <1>1, Zenon DEF Carries
<1> QED
  BY <1>2, Zenon DEF WiresTyped, UsGrows, WireGrows

(* A segment is taken off the wire to us, and nothing is put there.        *)
LEMMA UsTaken ==
  ASSUME Typed, NEW r \in Remotes, NEW m, Arrives(toUs[r], m), toUs' = [toUs EXCEPT ![r] = Taken(@)]
  PROVE  m \in PeerMessage /\ m \in OnWire(toUs[r]) /\ UsGrows(r, {})
<1>1. /\ Carries(Taken(toUs[r]), PeerMessage) /\ m \in PeerMessage
      /\ OnWire(Taken(toUs[r])) \subseteq OnWire(toUs[r])
  BY TakenFromWire, ZenonT(40) DEF Typed
<1>2. toUs = [q \in Remotes |-> toUs[q]]
  BY Zenon DEF Typed
<1>3. toUs' = [q \in Remotes |-> IF q = r THEN Taken(toUs[r]) ELSE toUs[q]]
  BY <1>2, Zenon
<1>4. \A q \in Remotes : toUs'[q] = IF q = r THEN Taken(toUs[r]) ELSE toUs[q]
  BY <1>3, Zenon
<1>5. toUs' = [q \in Remotes |-> toUs'[q]]
  BY <1>3, Zenon
<1>6. \A q \in Remotes : Carries(toUs[q], PeerMessage)
  BY Zenon DEF Typed
<1> QED
  BY <1>1, <1>4, <1>5, <1>6, Zenon DEF UsGrows, Arrives

LEMMA UsSame ==
  ASSUME Typed, toUs' = toUs, NEW r, NEW M
  PROVE  UsGrows(r, M)
BY Zenon DEF Typed, UsGrows

(* What stays while the remotes stay as they are. *)
LEMMA PeersSame ==
  ASSUME Known, scenario' = scenario, peers' = peers,
         \A q, port : Has(q, port) => Has(q, port)'
  PROVE  PeersKnown'
BY SameSetting, Zenon DEF Known, PeersKnown

(* What the remotes have sent stays true when only the sockets change.     *)
LEMMA InSame ==
  ASSUME Known, scenario' = scenario, peers' = peers, NEW r, UsGrows(r, {})
  PROVE  InKnown'
<1> SUFFICES ASSUME NEW q \in Remotes, NEW m \in OnWire(toUs[q])'
             PROVE  Sent(q, m)'
  BY Zenon DEF InKnown
<1>1. m \in OnWire(toUs'[q])
  BY SameSetting, Zenon DEF OnWire
<1>2. Sent(q, m)
  BY <1>1, Zenon DEF UsGrows, Known, InKnown
<1> QED
  BY <1>2, SameSetting, Zenon DEF Sent, Behind

(* What we have sent goes to remotes with a socket, also what is new.      *)
LEMMA OutGrows ==
  ASSUME Known, scenario' = scenario, \A q, port : Has(q, port) => Has(q, port)',
         NEW r, NEW port, NEW young, WireGrows(r, port, young), Has(r, port)'
  PROVE  OutKnown'
<1> SUFFICES ASSUME NEW q \in Remotes, NEW m \in OnWire(toPeers[q])'
             PROVE  Has(q, m.port)'
  BY Zenon DEF OutKnown
<1>1. m \in OnWire(toPeers'[q])
  BY SameSetting, Zenon DEF OnWire
<1>2. m \in OnWire(toPeers[q]) \/ (q = r /\ m.port = port)
  BY <1>1, Zenon DEF WireGrows
<1> QED
  BY <1>2, Zenon DEF Known, OutKnown

LEMMA OutSame ==
  ASSUME Known, scenario' = scenario, \A q, port : Has(q, port) => Has(q, port)',
         toPeers' = toPeers
  PROVE  OutKnown'
<1> SUFFICES ASSUME NEW q \in Remotes, NEW m \in OnWire(toPeers[q])'
             PROVE  Has(q, m.port)'
  BY Zenon DEF OutKnown
<1>1. m \in OnWire(toPeers[q])
  BY SameSetting, Zenon DEF OnWire
<1> QED
  BY <1>1, Zenon DEF Known, OutKnown

(* kernelMain stays where it is, and its socket keeps remote and port. *)
LEMMA MainSame ==
  ASSUME Known, main' = main, calls' = calls,
         \A i \in Places : /\ i \in Places' /\ (HasRemote(i) => HasRemote(i)')
                           /\ sockets'[i].local = sockets[i].local
  PROVE  MainKnown'
BY Zenon DEF Known, MainKnown

(* A list of chunks given goes on by one. *)
LEMMA GivenTyped ==
  ASSUME Typed, NEW k \in Places, NEW x \in Remotes \X Nat,
         delivered' = [delivered EXCEPT ![k] = Append(@, x)]
  PROVE  /\ delivered' \in Seq(Seq(Remotes \X Nat)) /\ Len(delivered') = Len(delivered)
         /\ delivered[k] \in Seq(Remotes \X Nat)
         /\ delivered'[k] = Append(delivered[k], x)
         /\ \A i \in Places : i # k => delivered'[i] = delivered[i]
<1>1. PICK D : D = Seq(Remotes \X Nat)
  BY Zenon
<1>2. delivered \in Seq(D) /\ k \in 1..Len(delivered)
  BY <1>1, Zenon DEF Typed, Places
<1>3. delivered[k] \in D
  BY <1>2, ElementOfSeq, Zenon
<1>4. Append(delivered[k], x) \in D
  BY <1>1, <1>3, AppendProperties, Zenon
<1>5. /\ [delivered EXCEPT ![k] = Append(delivered[k], x)] \in Seq(D)
      /\ Len([delivered EXCEPT ![k] = Append(delivered[k], x)]) = Len(delivered)
      /\ \A j \in 1..Len(delivered) :
           [delivered EXCEPT ![k] = Append(delivered[k], x)][j] = IF j = k THEN Append(delivered[k], x) ELSE delivered[j]
  BY <1>2, <1>4, ExceptSeq, SMT
<1>6. /\ delivered' \in Seq(D) /\ Len(delivered') = Len(delivered)
      /\ \A j \in 1..Len(delivered) : delivered'[j] = IF j = k THEN Append(delivered[k], x) ELSE delivered[j]
  BY <1>5, Zenon
<1>7. Places = 1..Len(delivered)
  BY Zenon DEF Typed, Places
<1> QED
  BY <1>1, <1>3, <1>6, <1>7, Zenon

(* The socket that takes a segment keeps its remote.                       *)
LEMMA ChangedSockets ==
  ASSUME Known, NEW k \in Places, NEW t, Changed(k, t), HasRemote(k), freePort' = freePort
  PROVE  /\ sockets' \in Seq(Socket) /\ Len(sockets') = Len(sockets) /\ Places' = Places
         /\ sockets'[k] = t /\ \A i \in Places : i # k => sockets'[i] = sockets[i]
         /\ SameRemotes
<1>1. /\ sockets' \in Seq(Socket) /\ Len(sockets') = Len(sockets) /\ Places' = Places
      /\ sockets'[k] = t /\ \A i \in Places : i # k => sockets'[i] = sockets[i]
  BY OneChanged, Zenon DEF Known, Typed, Changed
<1>2. ASSUME NEW i \in Places
      PROVE  /\ sockets'[i].local = sockets[i].local /\ sockets'[i].remote = sockets[i].remote
             /\ HasRemote(i)' <=> HasRemote(i)
  <2>1. CASE i = k
    BY <1>1, <2>1, Zenon DEF Changed, HasRemote
  <2>2. CASE i # k
    BY <1>1, <1>2, <2>2, Zenon DEF HasRemote
  <2> QED
    BY <2>1, <2>2
<1> QED
  BY <1>1, <1>2, Zenon DEF SameRemotes

(* Every case of OnInternetProtocolReceived preserves what is known.       *)
LEMMA ReceiveKnown ==
  ASSUME Known, scenario' = scenario, NEW r \in Remotes, NEW m, Receive(m, r)
  PROVE  Known'
<1>1. /\ Arrives(toUs[r], m) /\ toUs' = [toUs EXCEPT ![r] = Taken(@)]
      /\ UNCHANGED <<freePort, main, calls, peers>>
  BY Zenon DEF Receive
<1>2. m \in PeerMessage /\ m \in OnWire(toUs[r]) /\ UsGrows(r, {})
  BY <1>1, UsTaken, Zenon DEF Known
<1>3. InKnown'
  BY <1>1, <1>2, InSame, Zenon
<1>4. CASE \E port : Has(r, port)
  <2>1. PICK k \in Places : Connects(k, r, m.port)
    BY <1>2, <1>4, FoundLater, Zenon
  <2>2. PICK t : /\ Changed(k, t)
                 /\ \/ Moved(m, sockets[k], t) /\ UNCHANGED <<delivered, spins>>
                    \/ Brought(m, r, k, sockets[k], t)
    BY <1>2, <2>1, ReceiveChanges, Zenon
  <2>3. /\ sockets' \in Seq(Socket) /\ Len(sockets') = Len(sockets) /\ Places' = Places
        /\ SameRemotes
    BY <1>1, <2>1, <2>2, ChangedSockets, Zenon DEF Connects
  <2>4. OnSockets' /\ \A q, port : Has(q, port)' <=> Has(q, port)
    BY <2>3, SameRemotesKeep, Zenon DEF Known, OnSockets
  <2>5. /\ delivered' \in Seq(Seq(Remotes \X Nat)) /\ Len(delivered') = Len(delivered)
        /\ spins' \in BOOLEAN
    <3>1. CASE UNCHANGED <<delivered, spins>>
      BY <3>1, Zenon DEF Known, Typed
    <3>2. CASE Brought(m, r, k, sockets[k], t)
      <4>1. <<r, m.chunk>> \in Remotes \X Nat
        BY <1>2, SMT DEF PeerMessage
      <4>2. spins' \in BOOLEAN
        BY <3>2, Zenon DEF Brought, Known, Typed
      <4> QED
        BY <3>2, <4>1, <4>2, GivenTyped, Zenon DEF Brought, Known
    <3> QED
      BY <2>2, <3>1, <3>2
  <2>6. WireGrows(t.remote, t.local, t.state \in Young)
    BY <2>2, Zenon DEF Changed
  <2>7. WiresTyped'
    BY <1>2, <2>6, WiresKeep, Zenon
  <2>8. Typed'
    BY <1>1, <2>3, <2>5, <2>7, Zenon DEF Known, Typed, WiresTyped
  <2>9. OutKnown'
    <3>1. Has(t.remote, t.local)
      BY <2>1, <2>2, Zenon DEF Changed, Has, Connects
    <3> QED
      BY <2>4, <2>6, <3>1, OutGrows, Zenon
  <2>10. PeersKnown'
    BY <1>1, <2>4, PeersSame, Zenon
  <2>11. MainKnown'
    BY <1>1, <2>3, MainSame, Zenon DEF SameRemotes
  <2> QED
    BY <1>3, <2>4, <2>8, <2>9, <2>10, <2>11, Zenon DEF Known, OnSockets
<1>5. CASE \A port : ~Has(r, port)
  <2>1. /\ r \in Clients /\ UNCHANGED <<delivered, spins>>
        /\ \/ UNCHANGED <<sockets, toPeers>>
           \/ \E i \in Places : \E t \in Socket : Accepts(i, t, r)
    BY <1>2, <1>5, ReceiveAccepts, Zenon
  <2>2. CASE UNCHANGED <<sockets, toPeers>>
    <3>1. /\ Places' = Places /\ \A i : HasRemote(i)' <=> HasRemote(i)
          /\ OnSockets' /\ \A q, port : Has(q, port)' <=> Has(q, port)
      BY <1>1, <2>2, Zenon DEF Places, HasRemote, Has, Connects, OnSockets, OnePerRemote,
                               ListenersLast, PortsTell, Known
    <3>2. WireGrows(r, ServerPort, TRUE)
      BY <2>2, NothingGrows, Zenon DEF Known
    <3>3. WiresTyped'
      BY <1>2, <3>2, WiresKeep, Zenon
    <3>4. Typed'
      BY <1>1, <2>1, <2>2, <3>3, Zenon DEF Known, Typed, WiresTyped
    <3>5. OutKnown'
      BY <2>2, <3>1, OutSame, Zenon
    <3>6. PeersKnown'
      BY <1>1, <3>1, PeersSame, Zenon
    <3>7. MainKnown'
      BY <1>1, <2>2, <3>1, MainSame, Zenon
    <3> QED
      BY <1>3, <3>1, <3>4, <3>5, <3>6, <3>7, Zenon DEF Known, OnSockets
  <2>3. CASE \E i \in Places : \E t \in Socket : Accepts(i, t, r)
    <3>1. PICK i \in Places : \E t \in Socket : Accepts(i, t, r)
      BY <2>3, Zenon
    <3>2. PICK t \in Socket : Accepts(i, t, r)
      BY <3>1, Zenon
    <3>3. /\ sockets' \in Seq(Socket) /\ Len(sockets') = Len(sockets) /\ Places' = Places
          /\ sockets'[i] = t /\ \A j \in Places : i # j => sockets'[j] = sockets[j]
      BY <3>2, OneChanged, Zenon DEF Known, Typed, Accepts
    <3>4. t.state # "LISTEN"
      BY <3>2, SMT DEF Accepts
    <3>5. \A j \in Places : HasRemote(j) => sockets[j].remote # r
      BY <1>5, Zenon DEF Has, Connects
    <3>6. OnSockets' /\ Has(r, ServerPort)' /\ \A q, port : Has(q, port) => Has(q, port)'
      BY <1>1, <2>1, <3>2, <3>4, <3>5, AcceptKeeps, Zenon DEF Accepts, Known, Typed, OnSockets
    <3>7. WireGrows(r, ServerPort, TRUE)
      BY <3>2, Zenon DEF Accepts
    <3>8. WiresTyped'
      BY <1>2, <3>7, WiresKeep, Zenon
    <3>9. Typed'
      BY <1>1, <2>1, <3>3, <3>8, Zenon DEF Known, Typed, WiresTyped
    <3>10. OutKnown'
      BY <3>6, <3>7, OutGrows, Zenon
    <3>11. PeersKnown'
      BY <1>1, <3>6, PeersSame, Zenon
    <3>12. ASSUME NEW j \in Places
           PROVE  /\ j \in Places' /\ (HasRemote(j) => HasRemote(j)')
                  /\ sockets'[j].local = sockets[j].local
      <4>1. CASE j = i
        BY <3>2, <3>3, <4>1, Zenon DEF Accepts, Known, PortsTell
      <4>2. CASE j # i
        BY <3>3, <4>2, Zenon DEF HasRemote
      <4> QED
        BY <4>1, <4>2
    <3>13. MainKnown'
      BY <1>1, <3>12, MainSame, Zenon
    <3> QED
      BY <1>3, <3>6, <3>9, <3>10, <3>11, <3>13, Zenon DEF Known, OnSockets
  <2> QED
    BY <2>1, <2>2, <2>3
<1> QED
  BY <1>4, <1>5

-----------------------------------------------------------------------------
(* kernelMain *)

LEMMA GivenNothing ==
  ASSUME Known, delivered' = Append(delivered, <<>>), Len(sockets') = Len(sockets) + 1
  PROVE  /\ delivered' \in Seq(Seq(Remotes \X Nat)) /\ Len(delivered') = Len(sockets')
         /\ delivered'[Len(sockets')] = <<>> /\ \A i \in Places : delivered'[i] = delivered[i]
<1>1. PICK D : D = Seq(Remotes \X Nat)
  BY Zenon
<1>2. delivered \in Seq(D) /\ Len(delivered) = Len(sockets)
  BY <1>1, Zenon DEF Known, Typed
<1>3. PICK e \in D : e = <<>>
  BY <1>1, NoSegment, Zenon
<1>4. /\ Append(delivered, e) \in Seq(D) /\ Len(Append(delivered, e)) = Len(delivered) + 1
      /\ \A i \in 1..Len(delivered) : Append(delivered, e)[i] = delivered[i]
      /\ Append(delivered, e)[Len(delivered) + 1] = e
  BY <1>2, AppendProperties, SMT
<1> QED
  BY <1>1, <1>2, <1>3, <1>4, Zenon DEF Places

(* A call that adds a socket. *)
LEMMA AppendKnown ==
  ASSUME Known, scenario' = scenario, Len(sockets) < MaxSockets,
         NEW s \in Socket, sockets' = Append(sockets, s), delivered' = Append(delivered, <<>>),
         \/ s.state = "LISTEN" /\ s.local = ServerPort /\ freePort' = freePort
         \/ /\ s.state # "LISTEN" /\ s.remote \in Servers /\ s.local = freePort
            /\ freePort' = freePort + 1
            /\ \A k \in Places : HasRemote(k) => sockets[k].remote # s.remote,
         main' = [main EXCEPT !.at = IF BindApart THEN "bind" ELSE "idle", !.socket = Len(sockets')],
         UNCHANGED <<calls, spins, peers, toUs>>,
         NEW young \in BOOLEAN, WireGrows(s.remote, s.local, young),
         toPeers' = toPeers \/ s.state # "LISTEN"
  PROVE  Known'
<1>1. /\ sockets \in Seq(Socket) /\ Len(sockets) \in Nat
      /\ freePort \in Nat /\ freePort >= FirstPort /\ freePort # ServerPort
      /\ freePort <= FirstPort + Len(sockets)
  <2>1. sockets \in Seq(Socket) /\ freePort \in FirstPort..(FirstPort + Len(sockets))
    BY Zenon DEF Known, Typed
  <2>2. Len(sockets) \in Nat
    BY <2>1, LenProperties, Zenon
  <2> QED
    BY <2>1, <2>2, TCPAssumption, SMTT(40)
<1>2. /\ sockets' \in Seq(Socket) /\ Len(sockets') = Len(sockets) + 1 /\ Len(sockets') \in Places'
      /\ \A i \in Places : i \in Places' /\ sockets'[i] = sockets[i]
  BY <1>1, OneAppended, Zenon
<1>3. /\ OnSockets'
      /\ s.state # "LISTEN" => Has(s.remote, s.local)'
      /\ \A q, port : Has(q, port) => Has(q, port)'
  BY <1>1, AppendKeeps, Zenon DEF Known, OnSockets
<1>4. delivered' \in Seq(Seq(Remotes \X Nat)) /\ Len(delivered') = Len(sockets')
  BY <1>2, GivenNothing, Zenon
<1>5. UsGrows(s.remote, {})
  BY UsSame, Zenon DEF Known
<1>6. WiresTyped'
  BY <1>5, WiresKeep, Zenon
<1>7. Typed'
  <2>1. freePort' \in FirstPort..(FirstPort + Len(sockets')) /\ Len(sockets') <= MaxSockets
    <3>1. freePort' = freePort \/ freePort' = freePort + 1
      BY Zenon
    <3>2. PICK n \in Nat : n = Len(sockets)
      BY <1>1, Zenon
    <3>3. /\ freePort \in Nat /\ freePort >= FirstPort /\ freePort <= FirstPort + n
          /\ n < MaxSockets /\ Len(sockets') = n + 1 /\ FirstPort \in Nat /\ MaxSockets \in Nat
      BY <1>1, <1>2, <3>2, TCPAssumption, Zenon
    <3> QED
      BY <3>1, <3>3, SMT
  <2> QED
    BY <1>2, <1>4, <1>6, <2>1, Zenon DEF Known, Typed, WiresTyped
<1>8. OutKnown'
  <2>1. CASE toPeers' = toPeers
    BY <1>3, <2>1, OutSame, Zenon
  <2>2. CASE s.state # "LISTEN"
    BY <1>3, <2>2, OutGrows, Zenon
  <2> QED
    BY <2>1, <2>2
<1>9. PeersKnown' /\ InKnown'
  BY <1>3, <1>5, PeersSame, InSame, Zenon
<1>10. MainKnown'
  <2>1. PICK at \in {"bind", "idle"} : at = IF BindApart THEN "bind" ELSE "idle"
    BY Zenon
  <2>2. main = [x \in {"at", "socket", "segment"} |-> main[x]]
    BY Zenon DEF Known, MainKnown
  <2>3. PICK n : n = Len(sockets')
    BY Zenon
  <2>4. main' = [main EXCEPT !.at = at, !.socket = n]
    BY <2>1, <2>3, Zenon
  <2>5. /\ main' = [x \in {"at", "socket", "segment"} |-> main'[x]]
        /\ main'.at = at /\ main'.socket = n
    BY <2>2, <2>4, Zenon
  <2>6. main'.at \notin {"fill", "count", "transmit", "bump"} /\ main'.at \notin {"count", "transmit"}
    BY <2>5, SMT
  <2> QED
    BY <1>2, <2>3, <2>5, <2>6, Zenon DEF MainKnown
<1> QED
  BY <1>3, <1>7, <1>8, <1>9, <1>10, Zenon DEF Known, OnSockets

(* Listen preserves what is known: nobody has a socket more.               *)
LEMMA ListenKnown ==
  ASSUME Known, scenario' = scenario, Listen
  PROVE  Known'
<1>1. PICK r \in Remotes \cup {Nobody}, n \in {PeerISN, OwnISN} :
        sockets' = Append(sockets, [local |-> ServerPort, remote |-> r, sequenceNumber |-> n,
                                    acknowledgementNumber |-> n, bound |-> ~BindApart,
                                    state |-> "LISTEN"])
  BY Zenon DEF Listen
<1>2. PICK s : s = [local |-> ServerPort, remote |-> r, sequenceNumber |-> n,
                    acknowledgementNumber |-> n, bound |-> ~BindApart, state |-> "LISTEN"]
  BY Zenon
<1>3. s \in Socket /\ s.local = ServerPort /\ s.state = "LISTEN"
  <2>1. n \in 0..(SeqSpace - 1) /\ ServerPort \in Nat
    BY TCPAssumption, Zenon
  <2> QED
    BY <1>2, <2>1, SMT DEF Socket
<1>4. WireGrows(s.remote, s.local, TRUE) /\ TRUE \in BOOLEAN
  BY NothingGrows, Zenon DEF Known, Listen, wire
<1> QED
  BY <1>1, <1>2, <1>3, <1>4, AppendKnown, Zenon DEF Listen, wire

(* Connect preserves what is known: its remote and its port are new.       *)
LEMMA ConnectKnown ==
  ASSUME Known, scenario' = scenario, NEW r \in Servers, Connect(r)
  PROVE  Known'
<1>1. PICK n \in {PeerISN, OwnISN} :
        /\ sockets' = Append(sockets, Connecting(r, n))
        /\ Sends(r, <<Segment(Connecting(r, n), {"SYN"}, "none")>>)
  BY Zenon DEF Connect
<1>2. PICK s : s = Connecting(r, n)
  BY Zenon
<1>3. /\ s \in Socket /\ s.local = freePort /\ s.state = "SYN_SENT" /\ s.remote = r
  <2>1. n \in 0..(SeqSpace - 1) /\ OwnISN \in 0..(SeqSpace - 1) /\ r \in Remotes
    BY TCPAssumption, Zenon DEF Remotes
  <2>2. freePort \in Nat
    <3>1. freePort \in FirstPort..(FirstPort + Len(sockets)) /\ Len(sockets) \in Nat
      BY LenProperties, Zenon DEF Known, Typed
    <3> QED
      BY <3>1, TCPAssumption, SMT
  <2> QED
    BY <1>2, <2>1, <2>2, SMT DEF Socket, Connecting
<1>4. s.state # "LISTEN" /\ TRUE \in BOOLEAN
  BY <1>3, SMT
<1>5. WireGrows(s.remote, s.local, TRUE)
  <2>1. PICK m \in OwnMessage : m = Segment(s, {"SYN"}, "none") /\ m.port = s.local /\ m.flags = {"SYN"}
    BY <1>3, SegmentTyped, SMT DEF Flags
  <2>2. "FIN" \notin m.flags
    BY <2>1, SMT
  <2>3. PICK out : out = <<m>>
    BY Zenon
  <2>4. out \in Seq(OwnMessage) /\ Range(out) = {m} /\ Sends(r, out)
    BY <1>1, <1>2, <2>1, <2>3, OneSegment, Zenon
  <2>5. \A x \in Range(out) : x.port = s.local /\ "FIN" \notin x.flags
    BY <2>1, <2>2, <2>4, Zenon
  <2>6. r \in Remotes
    BY Zenon DEF Remotes
  <2> QED
    BY <1>3, <1>4, <2>4, <2>5, <2>6, SendsGrows, Zenon DEF Known
<1>6. \A k \in Places : HasRemote(k) => sockets[k].remote # s.remote
  <2>1. \A x \in Range(sockets) : x.remote = r => x.state = "LISTEN"
    BY Zenon DEF Connect
  <2> QED
    BY <1>3, <2>1, SocketAt, Zenon DEF HasRemote
<1>7. /\ Len(sockets) < MaxSockets /\ freePort' = freePort + 1
      /\ delivered' = Append(delivered, <<>>)
      /\ main' = [main EXCEPT !.at = IF BindApart THEN "bind" ELSE "idle", !.socket = Len(sockets')]
      /\ UNCHANGED <<calls, spins, peers, toUs>>
  BY Zenon DEF Connect
<1> QED
  BY <1>1, <1>2, <1>3, <1>4, <1>5, <1>6, <1>7, AppendKnown, Zenon

(* A step of kernelMain that adds none. *)
LEMMA MainStep ==
  ASSUME Known, scenario' = scenario, UNCHANGED <<delivered, freePort, spins, peers, toUs>>,
         sockets' \in Seq(Socket), SameRemotes, MainKnown',
         NEW r, NEW port, NEW young, WireGrows(r, port, young),
         toPeers' = toPeers \/ Has(r, port)
  PROVE  Known'
<1>1. OnSockets' /\ \A q, p : Has(q, p)' <=> Has(q, p)
  BY SameRemotesKeep, Zenon DEF Known, OnSockets
<1>2. UsGrows(r, {})
  BY UsSame, Zenon DEF Known
<1>3. WiresTyped'
  BY <1>2, WiresKeep, Zenon
<1>4. Len(sockets') = Len(sockets)
  BY Zenon DEF SameRemotes
<1>5. Typed'
  BY <1>3, <1>4, Zenon DEF Known, Typed, WiresTyped
<1>6. OutKnown'
  BY <1>1, OutGrows, OutSame, Zenon
<1>7. PeersKnown' /\ InKnown'
  BY <1>1, <1>2, PeersSame, InSame, Zenon
<1> QED
  BY <1>1, <1>5, <1>6, <1>7, Zenon DEF Known, OnSockets

(* One that changes nothing but one socket, whose remote stays. *)
LEMMA SocketKept ==
  ASSUME Known, NEW k \in Places, NEW t \in Socket, sockets' = [sockets EXCEPT ![k] = t],
         t.local = sockets[k].local, t.remote = sockets[k].remote,
         (t.state = "LISTEN") <=> (sockets[k].state = "LISTEN"), freePort' = freePort
  PROVE  /\ sockets' \in Seq(Socket) /\ SameRemotes /\ Places' = Places
         /\ sockets'[k] = t /\ \A i \in Places : i # k => sockets'[i] = sockets[i]
<1>1. /\ sockets' \in Seq(Socket) /\ Len(sockets') = Len(sockets) /\ Places' = Places
      /\ sockets'[k] = t /\ \A i \in Places : i # k => sockets'[i] = sockets[i]
  BY OneChanged, Zenon DEF Known, Typed
<1>2. ASSUME NEW i \in Places
      PROVE  /\ sockets'[i].local = sockets[i].local /\ sockets'[i].remote = sockets[i].remote
             /\ HasRemote(i)' <=> HasRemote(i)
  <2>1. CASE i = k
    BY <1>1, <2>1, Zenon DEF HasRemote
  <2>2. CASE i # k
    BY <1>1, <1>2, <2>2, Zenon DEF HasRemote
  <2> QED
    BY <2>1, <2>2
<1> QED
  BY <1>1, <1>2, Zenon DEF SameRemotes

(* Steps of kernelMain that leave the sockets alone.                       *)
LEMMA SocketsKept ==
  ASSUME Known, sockets' = sockets, freePort' = freePort
  PROVE  sockets' \in Seq(Socket) /\ SameRemotes /\ Places' = Places
BY Zenon DEF Known, Typed, SameRemotes, HasRemote, Places

LEMMA MainIdle ==
  ASSUME Known, main' = [main EXCEPT !.at = "idle"]
  PROVE  MainKnown'
<1>1. main = [x \in {"at", "socket", "segment"} |-> main[x]]
  BY Zenon DEF Known, MainKnown
<1>2. main' = [x \in {"at", "socket", "segment"} |-> main'[x]] /\ main'.at = "idle"
  BY <1>1
<1>3. main'.at \notin {"fill", "count", "transmit", "bump"} /\ main'.at \notin {"count", "transmit"}
  BY <1>2, SMT
<1> QED
  BY <1>2, <1>3, Zenon DEF MainKnown

(* kernelMain is about to send a segment on socket k. *)
LEMMA MainSending ==
  ASSUME NEW at \in {"fill", "count", "transmit", "bump"}, NEW k, NEW segment,
         main' = [x \in {"at", "socket", "segment"} |-> main'[x]],
         main'.at = at, main'.socket = k, main'.segment = segment,
         k \in Places', HasRemote(k)', segment.flags \in SUBSET Flags,
         "FIN" \in segment.flags => "disconnect" \in calls',
         at \in {"count", "transmit"} => segment \in OwnMessage /\ segment.port = sockets'[k].local
  PROVE  MainKnown'
BY Zenon DEF MainKnown

(* The other steps of kernelMain preserve what is known, one by one.       *)
LEMMA BindKnown ==
  ASSUME Known, scenario' = scenario, Bind
  PROVE  Known'
<1>1. PICK k \in Places : k = main.socket
  <2>1. main.at # "idle"
    BY SMT DEF Bind, MainAt
  <2> QED
    BY <2>1, Zenon DEF Known, MainKnown
<1>2. PICK t : t = [sockets[k] EXCEPT !.bound = TRUE]
  BY Zenon
<1>3. sockets' = [sockets EXCEPT ![k] = t]
  BY <1>1, <1>2, Zenon DEF Bind
<1>4. sockets[k] \in Socket
  BY SocketAt, Zenon
<1>5. /\ t \in Socket /\ t.local = sockets[k].local /\ t.remote = sockets[k].remote
      /\ t.state = sockets[k].state
  <2>1. PICK s \in Socket, b \in BOOLEAN : s = sockets[k] /\ t = [s EXCEPT !.bound = b]
    BY <1>2, <1>4, Zenon
  <2>2. t \in Socket /\ t.local = s.local /\ t.remote = s.remote /\ t.state = s.state
    BY <2>1, SMT DEF Socket
  <2> QED
    BY <2>1, <2>2, Zenon
<1>6. sockets' \in Seq(Socket) /\ SameRemotes
  BY <1>3, <1>5, SocketKept, ZenonT(40) DEF Bind
<1>7. MainKnown'
  BY MainIdle, Zenon DEF Bind
<1>8. toPeers' = toPeers /\ WireGrows(Nobody, 0, TRUE)
  BY NothingGrows, Zenon DEF Known, Bind, wire
<1> QED
  BY <1>6, <1>7, <1>8, MainStep, Zenon DEF Bind, wire

LEMMA WaitedKnown ==
  ASSUME Known, scenario' = scenario, Waited
  PROVE  Known'
<1>1. PICK k \in Places : k = main.socket /\ HasRemote(k)
  <2>1. main.at # "idle" /\ sockets[main.socket].state # "LISTEN"
    BY SMT DEF Waited, MainAt
  <2> QED
    BY <2>1, Zenon DEF Known, MainKnown, HasRemote
<1>2. sockets' = sockets /\ freePort' = freePort
  BY Zenon DEF Waited
<1>3. sockets' \in Seq(Socket) /\ SameRemotes /\ Places' = Places
  BY <1>2, SocketsKept, Zenon
<1>4. MainKnown'
  <2>1. main = [x \in {"at", "socket", "segment"} |-> main[x]]
    BY Zenon DEF Known, MainKnown
  <2>2. PICK segment : segment = [flags |-> {"PSH", "ACK"}]
    BY Zenon
  <2>3. main' = [main EXCEPT !.at = "fill", !.segment = segment]
    BY <2>2, Zenon DEF Waited
  <2>4. /\ main' = [x \in {"at", "socket", "segment"} |-> main'[x]]
        /\ main'.at = "fill" /\ main'.socket = k /\ main'.segment = segment
    BY <1>1, <2>1, <2>3, Zenon
  <2>5. segment.flags \in SUBSET Flags /\ "FIN" \notin segment.flags
    BY <2>2, SMT DEF Flags
  <2>6. "fill" \in {"fill", "count", "transmit", "bump"} /\ "fill" \notin {"count", "transmit"}
    BY SMT
  <2>7. HasRemote(k)'
    BY <1>1, <1>2, Zenon DEF HasRemote
  <2> QED
    BY <1>3, <2>4, <2>5, <2>6, <2>7, MainSending, ZenonT(40)
<1>5. toPeers' = toPeers /\ WireGrows(Nobody, 0, TRUE)
  BY NothingGrows, Zenon DEF Known, Waited, wire
<1> QED
  BY <1>3, <1>4, <1>5, MainStep, Zenon DEF Waited, wire

LEMMA CallSendKnown ==
  ASSUME Known, scenario' = scenario, NEW k \in Places, CallSend(k)
  PROVE  Known'
<1>1. sockets' = sockets /\ freePort' = freePort
  BY Zenon DEF CallSend
<1>2. sockets' \in Seq(Socket) /\ SameRemotes /\ Places' = Places
  BY <1>1, SocketsKept, Zenon
<1>3. MainKnown'
  <2>1. main = [x \in {"at", "socket", "segment"} |-> main[x]]
    BY Zenon DEF Known, MainKnown
  <2>2. main' = [main EXCEPT !.at = "wait", !.socket = k]
    BY Zenon DEF CallSend
  <2>3. /\ main' = [x \in {"at", "socket", "segment"} |-> main'[x]]
        /\ main'.at = "wait" /\ main'.socket = k
    BY <2>1, <2>2, Zenon
  <2>4. main'.at \notin {"fill", "count", "transmit", "bump"} /\ main'.at \notin {"count", "transmit"}
    BY <2>3, SMT
  <2> QED
    BY <1>2, <2>3, <2>4, Zenon DEF MainKnown
<1>4. toPeers' = toPeers /\ WireGrows(Nobody, 0, TRUE)
  BY NothingGrows, Zenon DEF Known, CallSend, wire
<1> QED
  BY <1>2, <1>3, <1>4, MainStep, Zenon DEF CallSend, wire

LEMMA CallDisconnectKnown ==
  ASSUME Known, scenario' = scenario, NEW k \in Places, CallDisconnect(k)
  PROVE  Known'
<1>1. PICK t : t = [sockets[k] EXCEPT !.state = "FIN_WAIT1"]
  BY Zenon
<1>2. sockets' = [sockets EXCEPT ![k] = t] /\ HasRemote(k)
  BY <1>1, Zenon DEF CallDisconnect, HasRemote
<1>3. sockets[k] \in Socket
  BY SocketAt, Zenon
<1>4. /\ t \in Socket /\ t.local = sockets[k].local /\ t.remote = sockets[k].remote
      /\ t.state # "LISTEN"
  BY <1>1, <1>3, SMT DEF Socket
<1>5. /\ sockets' \in Seq(Socket) /\ SameRemotes /\ Places' = Places
      /\ sockets'[k] = t
  BY <1>2, <1>4, SocketKept, ZenonT(40) DEF CallDisconnect, HasRemote
<1>6. MainKnown'
  <2>1. main = [x \in {"at", "socket", "segment"} |-> main[x]]
    BY Zenon DEF Known, MainKnown
  <2>2. PICK segment : segment = [flags |-> {"FIN", "ACK"}]
    BY Zenon
  <2>3. main' = [main EXCEPT !.at = "fill", !.socket = k, !.segment = segment]
    BY <2>2, Zenon DEF CallDisconnect
  <2>4. /\ main' = [x \in {"at", "socket", "segment"} |-> main'[x]]
        /\ main'.at = "fill" /\ main'.socket = k /\ main'.segment = segment
    BY <2>1, <2>3, Zenon
  <2>5. segment.flags \in SUBSET Flags /\ "disconnect" \in calls'
    <3>1. segment.flags \in SUBSET Flags
      BY <2>2, SMT DEF Flags
    <3> QED
      BY <3>1, Zenon DEF CallDisconnect
  <2>6. "fill" \in {"fill", "count", "transmit", "bump"} /\ "fill" \notin {"count", "transmit"}
    BY SMT
  <2>7. HasRemote(k)'
    BY <1>4, <1>5, Zenon DEF HasRemote
  <2> QED
    BY <1>5, <2>4, <2>5, <2>6, <2>7, MainSending, ZenonT(40)
<1>7. toPeers' = toPeers /\ WireGrows(Nobody, 0, TRUE)
  BY NothingGrows, Zenon DEF Known, CallDisconnect, wire
<1> QED
  BY <1>5, <1>6, <1>7, MainStep, Zenon DEF CallDisconnect, wire

(* What is known of the segment that kernelMain is about to send. *)
LEMMA MainSends ==
  ASSUME Known, NEW at \in {"fill", "count", "transmit", "bump"}, main.at = at
  PROVE  \E k \in Places :
           /\ k = main.socket /\ HasRemote(k) /\ sockets[k] \in Socket
           /\ sockets[k].remote \in Remotes
           /\ main.segment.flags \in SUBSET Flags
           /\ "FIN" \in main.segment.flags => "disconnect" \in calls
           /\ main = [x \in {"at", "socket", "segment"} |-> main[x]]
<1>1. main.at # "idle" /\ main.at \in {"fill", "count", "transmit", "bump"}
  BY SMT
<1>2. PICK k \in Places : k = main.socket /\ HasRemote(k)
  BY <1>1, Zenon DEF Known, MainKnown
<1>3. sockets[k] \in Socket /\ sockets[k].remote \in Remotes
  BY <1>2, SocketAt, Zenon DEF Known, PortsTell
<1> QED
  BY <1>1, <1>2, <1>3, Zenon DEF Known, MainKnown

LEMMA FillKnown ==
  ASSUME Known, scenario' = scenario, Fill
  PROVE  Known'
<1>1. main.at = "fill" /\ "fill" \in {"fill", "count", "transmit", "bump"}
  BY Zenon DEF Fill, MainAt
<1>2. PICK k \in Places :
        /\ k = main.socket /\ HasRemote(k) /\ sockets[k] \in Socket
        /\ main.segment.flags \in SUBSET Flags
        /\ "FIN" \in main.segment.flags => "disconnect" \in calls
        /\ main = [x \in {"at", "socket", "segment"} |-> main[x]]
  BY <1>1, MainSends, Zenon
<1>3. sockets' = sockets /\ freePort' = freePort /\ calls' = calls
  BY Zenon DEF Fill
<1>4. sockets' \in Seq(Socket) /\ SameRemotes /\ Places' = Places
  BY <1>3, SocketsKept, Zenon
<1>5. MainKnown'
  <2>1. MainText \in {"none", "answer", "message"}
    BY Zenon DEF MainText
  <2>2. PICK segment \in OwnMessage :
          /\ segment = Segment(sockets[k], main.segment.flags, MainText)
          /\ segment.port = sockets[k].local /\ segment.flags = main.segment.flags
    <3>1. PICK s \in Socket, flags \in SUBSET Flags, text \in {"none", "answer", "message"} :
            s = sockets[k] /\ flags = main.segment.flags /\ text = MainText
      BY <1>2, <2>1, Zenon
    <3>2. /\ Segment(s, flags, text) \in OwnMessage
          /\ Segment(s, flags, text).port = s.local /\ Segment(s, flags, text).flags = flags
      BY SegmentTyped, Zenon
    <3> QED
      BY <3>1, <3>2, Zenon
  <2>3. main' = [main EXCEPT !.at = "count", !.segment = segment]
    BY <1>2, <2>2, Zenon DEF Fill
  <2>4. main = [x \in {"at", "socket", "segment"} |-> main[x]]
    BY <1>2, Zenon
  <2>5. /\ main' = [x \in {"at", "socket", "segment"} |-> main'[x]]
        /\ main'.at = "count" /\ main'.socket = main.socket /\ main'.segment = segment
    BY <2>3, <2>4, Zenon
  <2>6. HasRemote(k)'
    BY <1>2, <1>3, Zenon DEF HasRemote
  <2>7. "count" \in {"fill", "count", "transmit", "bump"}
    BY Zenon
  <2> QED
    BY <1>2, <1>3, <1>4, <2>2, <2>5, <2>6, <2>7, MainSending, ZenonT(40)
<1>6. toPeers' = toPeers /\ WireGrows(Nobody, 0, TRUE)
  BY NothingGrows, Zenon DEF Known, Fill, wire
<1> QED
  BY <1>4, <1>5, <1>6, MainStep, Zenon DEF Fill, wire

LEMMA CountKnown ==
  ASSUME Known, scenario' = scenario, Count
  PROVE  Known'
<1>1. main.at = "count" /\ "count" \in {"fill", "count", "transmit", "bump"}
  BY Zenon DEF Count, MainAt
<1>2. PICK k \in Places :
        /\ k = main.socket /\ HasRemote(k) /\ sockets[k] \in Socket
        /\ main.segment.flags \in SUBSET Flags
        /\ "FIN" \in main.segment.flags => "disconnect" \in calls
        /\ main = [x \in {"at", "socket", "segment"} |-> main[x]]
  BY <1>1, MainSends, Zenon
<1>3. PICK t : t = IF MainText = "message" THEN Advance(sockets[k], AnswerBytes) ELSE sockets[k]
  BY Zenon
<1>4. sockets' = [sockets EXCEPT ![k] = t] /\ calls' = calls /\ freePort' = freePort
  BY <1>2, <1>3, Zenon DEF Count
<1>5. /\ t \in Socket /\ t.local = sockets[k].local /\ t.remote = sockets[k].remote
      /\ t.state = sockets[k].state
  <2>1. AnswerBytes \in Nat /\ sockets[k] \in Socket
    BY <1>2, TCPAssumption, Zenon
  <2> QED
    BY <1>3, <2>1, AdvanceTyped, Zenon
<1>6. sockets' \in Seq(Socket) /\ SameRemotes /\ Places' = Places /\ sockets'[k] = t
  BY <1>4, <1>5, SocketKept, ZenonT(40)
<1>7. MainKnown'
  <2>1. main' = [main EXCEPT !.at = "transmit"]
    BY Zenon DEF Count
  <2>2. main = [x \in {"at", "socket", "segment"} |-> main[x]]
    BY <1>2, Zenon
  <2>3. /\ main' = [x \in {"at", "socket", "segment"} |-> main'[x]]
        /\ main'.at = "transmit" /\ main'.socket = main.socket /\ main'.segment = main.segment
    BY <2>1, <2>2
  <2>4. HasRemote(k)'
    BY <1>2, <1>5, <1>6, Zenon DEF HasRemote
  <2>5. main.segment \in OwnMessage /\ main.segment.port = sockets[k].local
    BY <1>1, <1>2, Zenon DEF Known, MainKnown
  <2>6. "transmit" \in {"fill", "count", "transmit", "bump"}
    BY Zenon
  <2> QED
    BY <1>2, <1>4, <1>5, <1>6, <2>3, <2>4, <2>5, <2>6, MainSending, ZenonT(40)
<1>8. toPeers' = toPeers /\ WireGrows(Nobody, 0, TRUE)
  BY NothingGrows, Zenon DEF Known, Count, wire
<1> QED
  BY <1>6, <1>7, <1>8, MainStep, Zenon DEF Count, wire

LEMMA TransmitKnown ==
  ASSUME Known, scenario' = scenario, Transmit
  PROVE  Known'
<1>1. main.at = "transmit" /\ "transmit" \in {"fill", "count", "transmit", "bump"}
  BY Zenon DEF Transmit, MainAt
<1>2. PICK k \in Places :
        /\ k = main.socket /\ HasRemote(k) /\ sockets[k].remote \in Remotes
        /\ main.segment.flags \in SUBSET Flags
        /\ "FIN" \in main.segment.flags => "disconnect" \in calls
        /\ main = [x \in {"at", "socket", "segment"} |-> main[x]]
  BY <1>1, MainSends, Zenon
<1>3. sockets' = sockets /\ freePort' = freePort /\ calls' = calls
  BY Zenon DEF Transmit
<1>4. sockets' \in Seq(Socket) /\ SameRemotes /\ Places' = Places
  BY <1>3, SocketsKept, Zenon
<1>5. MainKnown'
  <2>1. main = [x \in {"at", "socket", "segment"} |-> main[x]]
    BY <1>2, Zenon
  <2>2. CASE "FIN" \in main.segment.flags
    <3>1. main' = [main EXCEPT !.at = "bump"]
      BY <2>2, Zenon DEF Transmit
    <3>2. /\ main' = [x \in {"at", "socket", "segment"} |-> main'[x]]
          /\ main'.at = "bump" /\ main'.socket = main.socket /\ main'.segment = main.segment
      BY <2>1, <3>1
    <3>3. HasRemote(k)'
      BY <1>2, <1>3, Zenon DEF HasRemote
    <3>4. "bump" \in {"fill", "count", "transmit", "bump"} /\ "bump" \notin {"count", "transmit"}
      BY SMT
    <3> QED
      BY <1>2, <1>3, <1>4, <3>2, <3>3, <3>4, MainSending, ZenonT(40)
  <2>3. CASE "FIN" \notin main.segment.flags
    BY <2>3, MainIdle, Zenon DEF Transmit
  <2> QED
    BY <2>2, <2>3
<1>6. PICK m \in OwnMessage : m = main.segment /\ m.port = sockets[k].local
  BY <1>1, <1>2, Zenon DEF Known, MainKnown
<1>7. WireGrows(sockets[k].remote, sockets[k].local, TRUE)
  <2>1. PICK out : out = <<m>>
    BY Zenon
  <2>2. out \in Seq(OwnMessage) /\ Range(out) = {m} /\ Sends(sockets[k].remote, out)
    BY <1>2, <1>6, <2>1, OneSegment, Zenon DEF Transmit
  <2>3. \A x \in Range(out) : x.port = sockets[k].local /\ ("FIN" \in x.flags => "disconnect" \in calls)
    BY <1>2, <1>6, <2>2, Zenon
  <2>4. TRUE \in BOOLEAN
    BY Zenon
  <2> QED
    BY <1>2, <2>2, <2>3, <2>4, SendsGrows, Zenon DEF Known
<1>8. Has(sockets[k].remote, sockets[k].local)
  BY <1>2, Zenon DEF Has, Connects
<1> QED
  BY <1>4, <1>5, <1>7, <1>8, MainStep, Zenon DEF Transmit

LEMMA BumpKnown ==
  ASSUME Known, scenario' = scenario, Bump
  PROVE  Known'
<1>1. main.at = "bump" /\ "bump" \in {"fill", "count", "transmit", "bump"}
  BY Zenon DEF Bump, MainAt
<1>2. PICK k \in Places : k = main.socket /\ sockets[k] \in Socket
  BY <1>1, MainSends, Zenon
<1>3. PICK t : t = Advance(sockets[k], 1)
  BY Zenon
<1>4. sockets' = [sockets EXCEPT ![k] = t] /\ freePort' = freePort
  BY <1>2, <1>3, Zenon DEF Bump
<1>5. /\ t \in Socket /\ t.local = sockets[k].local /\ t.remote = sockets[k].remote
      /\ t.state = sockets[k].state
  <2>1. 1 \in Nat
    BY SMT
  <2> QED
    BY <1>2, <1>3, <2>1, AdvanceTyped, Zenon
<1>6. sockets' \in Seq(Socket) /\ SameRemotes
  BY <1>4, <1>5, SocketKept, ZenonT(40)
<1>7. MainKnown'
  BY MainIdle, Zenon DEF Bump
<1>8. toPeers' = toPeers /\ WireGrows(Nobody, 0, TRUE)
  BY NothingGrows, Zenon DEF Known, Bump, wire
<1> QED
  BY <1>6, <1>7, <1>8, MainStep, Zenon DEF Bump, wire

(* All the steps of kernelMain.                                            *)
LEMMA MainStepsKnown ==
  ASSUME Known, scenario' = scenario, Main
  PROVE  Known'
<1>1. ASSUME NEW i \in 1..Len(sockets), CallSend(i) \/ CallDisconnect(i)
      PROVE  Known'
  BY <1>1, CallSendKnown, CallDisconnectKnown, Zenon DEF Places
<1> QED
  BY <1>1, ListenKnown, BindKnown, WaitedKnown, FillKnown, CountKnown, TransmitKnown, BumpKnown,
     ConnectKnown, Zenon DEF Main

-----------------------------------------------------------------------------
(* The remotes *)

Chunk == [end : Nat, kept : Nat, request : BOOLEAN, push : BOOLEAN]

(* What is kept of a remote.                                               *)
PeerRecord == [state : Before \cup {"open", "finished", "done", "aborted"}, port : Nat, sent : Nat]

(* What a remote is when it sends no more data.                            *)
Ended == {"finished", "done", "aborted"}

(* What the setting says of a stream.                                      *)
LEMMA StreamTyped ==
  ASSUME Typed, NEW r \in Remotes
  PROVE  /\ Stream[r] \in Seq(Chunk) /\ Len(Stream[r]) \in Nat /\ Fits(Stream[r])
         /\ \A k \in 1..Len(Stream[r]) : Stream[r][k] \in Chunk
         /\ \A k \in 0..Len(Stream[r]) : EndOf(Stream[r], k) \in Nat /\ Behind(r, k) \in Number
<1>1. scenario \in Setting /\ Fits(Stream[r])
  BY TCPAssumption, Zenon DEF Typed, Stream
<1>2. Stream[r] \in Seq(Chunk)
  BY <1>1, SMT DEF Setting, Stream, Chunk
<1>3. Len(Stream[r]) \in Nat
  BY <1>2, LenProperties, Zenon
<1>4. \A k \in 1..Len(Stream[r]) : Stream[r][k] \in Chunk
  BY <1>2, ElementOfSeq, Zenon
<1>5. ASSUME NEW k \in 0..Len(Stream[r])
      PROVE  EndOf(Stream[r], k) \in Nat /\ Behind(r, k) \in Number
  <2>1. EndOf(Stream[r], k) \in Nat
    <3>1. CASE k = 0
      BY <3>1, SMT DEF EndOf
    <3>2. CASE k # 0
      <4>1. Stream[r][k] \in Chunk
        BY <1>3, <1>4, <3>2, SMT
      <4>2. Stream[r][k].end \in Nat
        BY <4>1, SMT DEF Chunk
      <4> QED
        BY <3>2, <4>2, Zenon DEF EndOf
    <3> QED
      BY <3>1, <3>2
  <2>2. PeerISN \in Int /\ 1 + EndOf(Stream[r], k) \in Int
    BY <2>1, TCPAssumption, SMT
  <2> QED
    BY <2>1, <2>2, PlusTyped, Zenon DEF Behind
<1> QED
  BY <1>1, <1>2, <1>3, <1>4, <1>5

(* While a remote is open, its number is that behind what it has sent.     *)
LEMMA PeerSeqTyped ==
  ASSUME Known, NEW r \in Remotes
  PROVE  /\ PeerSeq(r) \in Number
         /\ peers[r].state = "open" => PeerSeq(r) = Behind(r, peers[r].sent)
<1>1. peers[r].sent \in 0..Len(Stream[r])
  BY Zenon DEF Known, PeersKnown
<1>2. PICK b \in Number : b = Behind(r, peers[r].sent)
  BY <1>1, StreamTyped, Zenon DEF Known
<1>3. Plus(b, 0) \in Number /\ Plus(b, 1) \in Number
  BY PlusTyped, SMT DEF Number
<1>4. Plus(b, 0) = b
  BY TCPAssumption, SMT DEF Plus, Number
<1>5. peers[r].state = "open" => peers[r].state # "finished"
  BY SMT
<1> QED
  BY <1>2, <1>3, <1>4, <1>5, Zenon DEF PeerSeq

(* How remote o may become remote p: it keeps its port once it is not      *)
(* closed, and does not go back.                                           *)
Onward(o, p) ==
  \/ o.state = "closed"
  \/ /\ p.port = o.port /\ p.state # "closed" /\ o.sent <= p.sent
     /\ o.state \notin Before => p.state \notin Before
     /\ o.state \in Ended => p.state \in Ended

(* The remotes are sent nothing new.                                       *)
WireShrinks ==
  /\ toPeers' = [q \in Remotes |-> toPeers'[q]]
  /\ \A q \in Remotes :
       Carries(toPeers'[q], OwnMessage) /\ OnWire(toPeers'[q]) \subseteq OnWire(toPeers[q])

(* What a remote has sent stays true when it goes on.                      *)
LEMMA SentOnward ==
  ASSUME Known, scenario' = scenario, NEW r \in Remotes, NEW p \in PeerRecord, peers'[r] = p,
         Onward(peers[r], p), NEW m, Sent(r, m)
  PROVE  Sent(r, m)'
<1>1. peers[r].state # "closed"
  BY Zenon DEF Sent
<1>2. /\ p.port = peers[r].port /\ p.state # "closed" /\ peers[r].sent <= p.sent
      /\ peers[r].state \notin Before => p.state \notin Before
      /\ peers[r].state \in Ended => p.state \in Ended
  BY <1>1, Zenon DEF Onward
<1>3. m.chunk \in 0..p.sent
  <2>1. m.chunk \in 0..peers[r].sent /\ p.sent \in Nat /\ peers[r].sent \in Nat
    <3>1. peers[r].sent \in 0..Len(Stream[r]) /\ m.chunk \in 0..peers[r].sent
      BY Zenon DEF Known, PeersKnown, Sent
    <3>2. p.sent \in Nat
      BY SMT DEF PeerRecord
    <3> QED
      BY <3>1, <3>2, SMT
  <2> QED
    BY <1>2, <2>1, SMT
<1>4. "FIN" \in m.flags => p.state \in {"finished", "done", "aborted"}
  BY <1>2, Zenon DEF Sent, Ended
<1>5. /\ m.port = p.port
      /\ m.flags # {"SYN"} => p.state \notin Before
  BY <1>2, Zenon DEF Sent
<1>6. Stream' = Stream
  BY SameSetting, Zenon
<1> QED
  BY <1>2, <1>3, <1>4, <1>5, <1>6, Zenon DEF Sent, Behind

(* A step of a remote that goes on preserves what is known, if what it     *)
(* says is true.                                                           *)
LEMMA PeerStep ==
  ASSUME Known, scenario' = scenario, NEW r \in Remotes, Mine(r), NEW p \in PeerRecord,
         peers' = [peers EXCEPT ![r] = p], Onward(peers[r], p),
         p.sent \in 0..Len(Stream[r]), r \in Clients => p.port = ServerPort,
         p.state = "connecting" => r \in Clients,
         IF p.state \in Before THEN p.sent = 0 ELSE Has(r, p.port),
         NEW M, UsGrows(r, M), \A m \in M : Sent(r, m)', WireShrinks
  PROVE  Known'
<1>1. /\ sockets' = sockets /\ delivered' = delivered /\ freePort' = freePort /\ main' = main
      /\ calls' = calls /\ spins' = spins
  BY Zenon DEF Mine
<1>2. /\ Places' = Places /\ \A i : HasRemote(i)' <=> HasRemote(i)
      /\ OnSockets' /\ \A q, port : Has(q, port)' <=> Has(q, port)
  BY <1>1, Zenon DEF Places, HasRemote, Has, Connects, OnSockets, OnePerRemote,
                     ListenersLast, PortsTell, Known
<1>3. peers \in [Remotes -> PeerRecord]
  BY Zenon DEF Known, Typed, PeerRecord
<1>4. /\ peers' \in [Remotes -> PeerRecord] /\ peers'[r] = p
      /\ \A q \in Remotes : q # r => peers'[q] = peers[q]
  BY <1>3, Zenon
<1>5. WiresTyped'
  <2>1. /\ Reliable' = Reliable
        /\ \A x \in Remotes : Carries(toUs'[x], PeerMessage) /\ Carries(toPeers'[x], OwnMessage)
    BY SameSetting, Zenon DEF UsGrows, WireShrinks
  <2>2. \A x \in Remotes : Carries(toUs[x], PeerMessage)' /\ Carries(toPeers[x], OwnMessage)'
    BY <2>1, Zenon DEF Carries
  <2> QED
    BY <2>2, Zenon DEF WiresTyped, UsGrows, WireShrinks
<1>6. Typed'
  BY <1>1, <1>4, <1>5, Zenon DEF Known, Typed, WiresTyped, PeerRecord
<1>7. MainKnown'
  BY <1>1, <1>2, MainSame, Zenon
<1>8. PeersKnown'
  <2> SUFFICES ASSUME NEW q \in Remotes
               PROVE  /\ peers'[q].sent \in 0..Len(Stream[q])
                      /\ q \in Clients => peers'[q].port = ServerPort
                      /\ peers'[q].state = "connecting" => q \in Clients
                      /\ IF peers'[q].state \in Before THEN peers'[q].sent = 0
                                                       ELSE Has(q, peers'[q].port)
    BY <1>2, SameSetting, Zenon DEF PeersKnown
  <2>1. CASE q = r
    BY <1>2, <1>4, <2>1, Zenon
  <2>2. CASE q # r
    BY <1>2, <1>4, <2>2, Zenon DEF Known, PeersKnown
  <2> QED
    BY <2>1, <2>2
<1>9. InKnown'
  <2> SUFFICES ASSUME NEW q \in Remotes, NEW m \in OnWire(toUs[q])'
               PROVE  Sent(q, m)'
    BY Zenon DEF InKnown
  <2>1. m \in OnWire(toUs'[q])
    BY SameSetting, Zenon DEF OnWire
  <2>2. m \in OnWire(toUs[q]) \/ (q = r /\ m \in M)
    BY <2>1, Zenon DEF UsGrows
  <2>3. CASE q = r /\ m \in M
    BY <2>3, Zenon
  <2>4. CASE q = r /\ m \in OnWire(toUs[q])
    <3>1. Sent(r, m)
      BY <2>4, Zenon DEF Known, InKnown
    <3> QED
      BY <1>4, <2>4, <3>1, SentOnward, Zenon
  <2>5. CASE q # r
    <3>1. Sent(q, m)
      BY <2>2, <2>5, Zenon DEF Known, InKnown
    <3> QED
      BY <1>4, <2>5, <3>1, SameSetting, Zenon DEF Sent, Behind
  <2> QED
    BY <2>2, <2>3, <2>4, <2>5
<1>10. OutKnown'
  <2> SUFFICES ASSUME NEW q \in Remotes, NEW m \in OnWire(toPeers[q])'
               PROVE  Has(q, m.port)'
    BY Zenon DEF OutKnown
  <2>1. m \in OnWire(toPeers'[q])
    BY SameSetting, Zenon DEF OnWire
  <2> QED
    BY <1>2, <2>1, Zenon DEF WireShrinks, Known, OutKnown
<1> QED
  BY <1>2, <1>6, <1>7, <1>8, <1>9, <1>10, Zenon DEF Known, OnSockets

(* What a remote says is on the wire to us.                                *)
LEMMA UsPut ==
  ASSUME Typed, NEW r \in Remotes, NEW out \in Seq(PeerMessage), toUs' = [toUs EXCEPT ![r] = Put(@, out)]
  PROVE  UsGrows(r, Range(out))
<1>1. toUs = [q \in Remotes |-> toUs[q]]
  BY Zenon DEF Typed
<1>2. toUs' = [q \in Remotes |-> IF q = r THEN Put(toUs[q], out) ELSE toUs[q]]
  BY <1>1, Zenon
<1>3. \A q \in Remotes : toUs'[q] = IF q = r THEN Put(toUs[q], out) ELSE toUs[q]
  BY <1>2, Zenon
<1>4. toUs' = [q \in Remotes |-> toUs'[q]]
  BY <1>2, Zenon
<1>5. \A q \in Remotes : Carries(toUs[q], PeerMessage)
  BY Zenon DEF Typed
<1>6. /\ Carries(Put(toUs[r], out), PeerMessage)
      /\ OnWire(Put(toUs[r], out)) = OnWire(toUs[r]) \cup Range(out)
  BY <1>5, PutOnWire, ZenonT(40)
<1> QED
  BY <1>3, <1>4, <1>5, <1>6, Zenon DEF UsGrows

(* A remote takes a segment off the wire.                                  *)
LEMMA PeersTaken ==
  ASSUME Typed, NEW r \in Remotes, NEW m, Arrives(toPeers[r], m),
         toPeers' = [toPeers EXCEPT ![r] = Taken(@)]
  PROVE  m \in OwnMessage /\ WireShrinks
<1>1. /\ Carries(Taken(toPeers[r]), OwnMessage) /\ m \in OwnMessage
      /\ OnWire(Taken(toPeers[r])) \subseteq OnWire(toPeers[r])
  BY TakenFromWire, ZenonT(40) DEF Typed
<1>2. toPeers = [q \in Remotes |-> toPeers[q]]
  BY Zenon DEF Typed
<1>3. toPeers' = [q \in Remotes |-> IF q = r THEN Taken(toPeers[r]) ELSE toPeers[q]]
  BY <1>2, Zenon
<1>4. \A q \in Remotes : toPeers'[q] = IF q = r THEN Taken(toPeers[r]) ELSE toPeers[q]
  BY <1>3, Zenon
<1>5. toPeers' = [q \in Remotes |-> toPeers'[q]]
  BY <1>3, Zenon
<1>6. \A q \in Remotes : Carries(toPeers[q], OwnMessage)
  BY Zenon DEF Typed
<1> QED
  BY <1>1, <1>4, <1>5, <1>6, Zenon DEF WireShrinks

LEMMA PeersKept ==
  ASSUME Typed, toPeers' = toPeers
  PROVE  WireShrinks
BY Zenon DEF Typed, WireShrinks

(* The segments of a remote that carry no data.                            *)
LEMMA PeerSegmentTyped ==
  ASSUME Known, NEW r \in Remotes, NEW flags \in SUBSET Flags, NEW seq \in Number,
         NEW n, n = PeerSegment(r, flags, seq)
  PROVE  /\ n \in PeerMessage /\ n.port = peers[r].port /\ n.flags = flags /\ n.seq = seq
         /\ n.chunk = 0
<1>1. peers[r].port \in Nat
  <2>1. Typed
    BY Zenon DEF Known
  <2> QED
    BY <2>1, SMT DEF Typed
<1>2. FALSE \in BOOLEAN
  BY Zenon
<1>3. PICK port \in Nat, no \in BOOLEAN : port = peers[r].port /\ no = FALSE
  BY <1>1, <1>2, Zenon
<1>4. n = [port |-> port, flags |-> flags, seq |-> seq, chunk |-> 0, kept |-> 0, request |-> no]
  BY <1>3, Zenon DEF PeerSegment
<1>5. n \in PeerMessage /\ n.port = port /\ n.flags = flags /\ n.seq = seq /\ n.chunk = 0
  BY <1>4, SMT DEF PeerMessage
<1> QED
  BY <1>3, <1>5, Zenon

(* A segment without data, sent by a remote that has become p. *)
LEMMA SentBare ==
  ASSUME NEW r, NEW p, peers'[r] = p, p.state # "closed", p.sent \in Nat, NEW m,
         m.port = p.port, m.chunk = 0,
         \/ m.flags = {"SYN"} /\ m.seq = PeerISN /\ r \in Clients
         \/ m.flags = {"SYN", "ACK"} /\ m.seq = PeerISN /\ p.state \notin Before
         \/ m.flags \in {{"ACK"}, {"RST"}} /\ p.state \notin Before
         \/ m.flags = {"FIN", "ACK"} /\ p.state \in Ended
  PROVE  Sent(r, m)'
<1>1. m.chunk \in 0..p.sent
  BY SMT
<1>2. Ended \cap Before = {} /\ Ended = {"finished", "done", "aborted"}
  BY SMT DEF Ended, Before
<1>3. /\ m.flags \in {{"SYN"}, {"SYN", "ACK"}, {"ACK"}, {"ACK", "PSH"}, {"FIN", "ACK"}, {"RST"}}
      /\ "SYN" \in m.flags => m.seq = PeerISN
      /\ "FIN" \in m.flags => p.state \in {"finished", "done", "aborted"}
      /\ "PSH" \notin m.flags
      /\ m.flags = {"SYN"} => r \in Clients
      /\ m.flags # {"SYN"} => p.state \notin Before
  <2>1. CASE m.flags = {"SYN"} /\ m.seq = PeerISN /\ r \in Clients
    BY <2>1, SMT
  <2>2. CASE m.flags = {"SYN", "ACK"} /\ m.seq = PeerISN /\ p.state \notin Before
    BY <2>2, SMT
  <2>3. CASE m.flags = {"ACK"} /\ p.state \notin Before
    BY <2>3, SMT
  <2>4. CASE m.flags = {"RST"} /\ p.state \notin Before
    BY <2>4, SMT
  <2>5. CASE m.flags = {"FIN", "ACK"} /\ p.state \in Ended
    BY <1>2, <2>5, SMT
  <2> QED
    BY <2>1, <2>2, <2>3, <2>4, <2>5, Zenon
<1> QED
  BY <1>1, <1>3, Zenon DEF Sent

(* A remote gets another state and keeps the rest.                         *)
LEMMA PeerBecomes ==
  ASSUME Known, NEW r \in Remotes,
         NEW state \in {"connecting", "open", "finished", "done", "aborted"},
         NEW p, p = [peers[r] EXCEPT !.state = state]
  PROVE  /\ p \in PeerRecord /\ p.state = state /\ p.port = peers[r].port
         /\ p.sent = peers[r].sent /\ p.sent \in Nat /\ p.sent \in 0..Len(Stream[r])
         /\ r \in Clients => p.port = ServerPort
<1>1. PICK o \in PeerRecord : o = peers[r]
  BY Zenon DEF Known, Typed, PeerRecord
<1>2. p = [o EXCEPT !.state = state]
  BY <1>1, Zenon
<1>3. p \in PeerRecord /\ p.state = state /\ p.port = o.port /\ p.sent = o.sent /\ p.sent \in Nat
  BY <1>2, SMT DEF PeerRecord, Before
<1> QED
  BY <1>1, <1>3, Zenon DEF Known, PeersKnown

(* A client's SYN preserves what is known.                                 *)
LEMMA PeerConnectsKnown ==
  ASSUME Known, scenario' = scenario, NEW r \in Remotes, PeerConnects(r)
  PROVE  Known'
<1>1. PICK p : p = [peers[r] EXCEPT !.state = "connecting"]
  BY Zenon
<1>2. "connecting" \in {"connecting", "open", "finished", "done", "aborted"}
  BY Zenon
<1>3. /\ p \in PeerRecord /\ p.state = "connecting" /\ p.port = peers[r].port
      /\ p.sent = peers[r].sent /\ p.sent \in Nat /\ p.sent \in 0..Len(Stream[r])
      /\ r \in Clients => p.port = ServerPort
  BY <1>1, <1>2, PeerBecomes
<1>4. r \in Clients /\ peers[r].state = "closed" /\ peers' = [peers EXCEPT ![r] = p]
  BY <1>1, Zenon DEF PeerConnects, Becomes
<1>5. peers'[r] = p
  BY <1>4, Zenon DEF Known, Typed
<1>6. p.state \in Before /\ p.sent = 0
  <2>1. peers[r].state \in Before
    BY <1>4, Zenon DEF Before
  <2> QED
    BY <1>3, <2>1, Zenon DEF Known, PeersKnown, Before
<1>7. PICK n : /\ n = PeerSegment(r, {"SYN"}, PeerISN) /\ n \in PeerMessage /\ n.port = p.port
               /\ n.flags = {"SYN"} /\ n.seq = PeerISN /\ n.chunk = 0
  <2>1. {"SYN"} \in SUBSET Flags /\ PeerISN \in Number
    BY TCPAssumption, SMT DEF Flags, Number
  <2>2. PICK n : n = PeerSegment(r, {"SYN"}, PeerISN)
    BY Zenon
  <2>3. /\ n \in PeerMessage /\ n.port = peers[r].port /\ n.flags = {"SYN"} /\ n.seq = PeerISN
        /\ n.chunk = 0
    BY <2>1, <2>2, PeerSegmentTyped
  <2> QED
    BY <1>3, <2>2, <2>3, Zenon
<1>8. Sent(r, n)'
  <2>1. p.state # "closed"
    BY <1>3, SMT
  <2> QED
    BY <1>3, <1>4, <1>5, <1>7, <2>1, SentBare, Zenon
<1>9. PICK out : out = <<n>>
  BY Zenon
<1>10. out \in Seq(PeerMessage) /\ Range(out) = {n} /\ toUs' = [toUs EXCEPT ![r] = Put(@, out)]
  BY <1>7, <1>9, OneSegment, Zenon DEF PeerConnects, Says
<1>11. UsGrows(r, Range(out)) /\ WireShrinks /\ Mine(r)
  BY <1>10, UsPut, PeersKept, Zenon DEF PeerConnects, Known
<1>12. Onward(peers[r], p)
  BY <1>4, Zenon DEF Onward
<1> QED
  BY <1>3, <1>4, <1>6, <1>8, <1>10, <1>11, <1>12, PeerStep, Zenon

(* The next chunk of a stream preserves what is known.                     *)
LEMMA PeerSendsKnown ==
  ASSUME Known, scenario' = scenario, NEW r \in Remotes, PeerSends(r)
  PROVE  Known'
<1>1. PICK o \in PeerRecord : o = peers[r]
  BY Zenon DEF Known, Typed, PeerRecord
<1>2. o.state = "open" /\ o.sent \in 0..Len(Stream[r]) /\ o.sent \in Nat
  BY <1>1, SMT DEF PeerSends, Known, PeersKnown, PeerRecord
<1>3. PICK k \in 1..Len(Stream[r]) : k = o.sent + 1 /\ k - 1 = o.sent /\ k # 0 /\ k \in Nat
  <2>1. Len(Stream[r]) \in Nat
    BY StreamTyped, Zenon DEF Known
  <2>2. o.sent + 1 <= Len(Stream[r])
    BY <1>1, Zenon DEF PeerSends
  <2> QED
    BY <1>2, <2>1, <2>2, SMT
<1>4. PICK c \in Chunk : c = Stream[r][k]
  BY StreamTyped, Zenon DEF Known
<1>5. PICK p : p = [o EXCEPT !.sent = k]
  BY Zenon
<1>6. p \in PeerRecord /\ p.state = "open" /\ p.port = o.port /\ p.sent = k
  BY <1>2, <1>3, <1>5, SMT DEF PeerRecord
<1>7. peers' = [peers EXCEPT ![r] = p] /\ peers'[r] = p
  <2>1. peers' = [peers EXCEPT ![r] = p]
    BY <1>1, <1>3, <1>5, Zenon DEF PeerSends
  <2> QED
    BY <2>1, Zenon DEF Known, Typed
<1>8. PICK flags : flags = {"ACK"} \cup (IF c.push THEN {"PSH"} ELSE {})
  BY Zenon
<1>9. /\ flags \in SUBSET Flags
      /\ flags \in {{"ACK"}, {"ACK", "PSH"}} /\ flags # {"SYN"} /\ "SYN" \notin flags /\ "FIN" \notin flags
  BY <1>8, SMT DEF Flags
<1>10. PICK b : b = PeerSegment(r, flags, PeerSeq(r))
  BY Zenon
<1>11. /\ b \in PeerMessage /\ b.port = o.port /\ b.flags = flags /\ b.seq = Behind(r, k - 1)
       /\ b.chunk = 0
  <2>1. PICK q \in Number : q = PeerSeq(r) /\ q = Behind(r, k - 1)
    BY <1>1, <1>2, <1>3, PeerSeqTyped, Zenon
  <2>2. b = PeerSegment(r, flags, q)
    BY <1>10, <2>1, Zenon
  <2>3. b \in PeerMessage /\ b.port = peers[r].port /\ b.flags = flags /\ b.seq = q /\ b.chunk = 0
    BY <1>9, <2>2, PeerSegmentTyped
  <2> QED
    BY <1>1, <2>1, <2>3
<1>12. PICK n : n = [b EXCEPT !.chunk = k, !.kept = c.kept, !.request = c.request]
  BY Zenon
<1>13. /\ n \in PeerMessage /\ n.port = o.port /\ n.flags = flags /\ n.seq = Behind(r, k - 1)
       /\ n.chunk = k /\ n.kept = c.kept /\ n.request = c.request
  <2>1. PICK b1 : b1 = [b EXCEPT !.chunk = k]
    BY Zenon
  <2>2. b1 \in PeerMessage /\ b1.port = b.port /\ b1.flags = b.flags /\ b1.seq = b.seq /\ b1.chunk = k
    BY <1>3, <1>11, <2>1, SMT DEF PeerMessage
  <2>3. PICK kept \in Nat, request \in BOOLEAN : kept = c.kept /\ request = c.request
    BY SMT DEF Chunk
  <2>4. PICK b2 : b2 = [b1 EXCEPT !.kept = kept]
    BY Zenon
  <2>5. /\ b2 \in PeerMessage /\ b2.port = b1.port /\ b2.flags = b1.flags /\ b2.seq = b1.seq
        /\ b2.chunk = b1.chunk /\ b2.kept = kept
    BY <2>2, <2>3, <2>4, SMT DEF PeerMessage
  <2>6. n = [b2 EXCEPT !.request = request]
    BY <1>12, <2>1, <2>3, <2>4
  <2>7. /\ n \in PeerMessage /\ n.port = b2.port /\ n.flags = b2.flags /\ n.seq = b2.seq
        /\ n.chunk = b2.chunk /\ n.kept = b2.kept /\ n.request = request
    BY <2>5, <2>6, SMT DEF PeerMessage
  <2> QED
    BY <1>11, <2>2, <2>3, <2>5, <2>7
<1>14. Sent(r, n)'
  <2>1. /\ p.state # "closed" /\ p.state \notin Before /\ k \in 0..k
        /\ flags \in {{"SYN"}, {"SYN", "ACK"}, {"ACK"}, {"ACK", "PSH"}, {"FIN", "ACK"}, {"RST"}}
    BY <1>3, <1>6, <1>9, SMT DEF Before
  <2>2. Stream' = Stream
    BY SameSetting, Zenon
  <2> QED
    BY <1>3, <1>4, <1>6, <1>7, <1>8, <1>9, <1>13, <2>1, <2>2, Zenon DEF Sent, Behind
<1>15. PICK out : out = <<n>>
  BY Zenon
<1>16. out \in Seq(PeerMessage) /\ Range(out) = {n} /\ toUs' = [toUs EXCEPT ![r] = Put(@, out)]
  <2>1. toUs' = [toUs EXCEPT ![r] = Put(@, <<n>>)]
    BY <1>1, <1>3, <1>4, <1>8, <1>10, <1>12, Zenon DEF PeerSends, Says
  <2> QED
    BY <1>13, <1>15, <2>1, OneSegment, Zenon
<1>17. UsGrows(r, Range(out)) /\ WireShrinks /\ Mine(r)
  BY <1>16, UsPut, PeersKept, Zenon DEF PeerSends, Known
<1>18. p.state \notin Before /\ Has(r, p.port) /\ p.state # "connecting" /\ p.state # "closed"
  <2>1. p.state \notin Before /\ o.state \notin Before /\ p.state # "connecting" /\ p.state # "closed"
    BY <1>2, <1>6, SMT DEF Before
  <2> QED
    BY <1>1, <1>6, <2>1, Zenon DEF Known, PeersKnown
<1>19. Onward(peers[r], p)
  <2>1. o.sent <= p.sent /\ o.state \notin Ended
    BY <1>2, <1>3, <1>6, SMT DEF Ended
  <2> QED
    BY <1>1, <1>6, <1>18, <2>1, Zenon DEF Onward
<1>20. p.sent \in 0..Len(Stream[r]) /\ (r \in Clients => p.port = ServerPort)
  <2>1. p.sent \in 0..Len(Stream[r])
    BY <1>3, <1>6, SMT
  <2> QED
    BY <1>1, <1>6, <2>1, Zenon DEF Known, PeersKnown
<1> QED
  BY <1>6, <1>7, <1>14, <1>16, <1>17, <1>18, <1>19, <1>20, PeerStep, Zenon

(* A remote that has been open ends, and says so or not. *)
LEMMA PeerEnds ==
  ASSUME Known, scenario' = scenario, NEW r \in Remotes, Mine(r), WireShrinks,
         NEW state \in {"open", "finished", "done", "aborted"}, Becomes(r, state),
         peers[r].state \in Ended => state \in Ended,
         peers[r].state # "closed", Has(r, peers[r].port),
         NEW M, UsGrows(r, M),
         \A n \in M : /\ n.port = peers[r].port /\ n.chunk = 0
                      /\ n.flags \in {{"ACK"}, {"RST"}} \/ (n.flags = {"FIN", "ACK"} /\ state \in Ended)
  PROVE  Known'
<1>1. PICK p : p = [peers[r] EXCEPT !.state = state]
  BY Zenon
<1>2. /\ p \in PeerRecord /\ p.state = state /\ p.port = peers[r].port
      /\ p.sent = peers[r].sent /\ p.sent \in Nat /\ p.sent \in 0..Len(Stream[r])
      /\ r \in Clients => p.port = ServerPort
  BY <1>1, PeerBecomes
<1>3. peers' = [peers EXCEPT ![r] = p] /\ peers'[r] = p
  <2>1. peers' = [peers EXCEPT ![r] = p]
    BY <1>1, Zenon DEF Becomes
  <2> QED
    BY <2>1, Zenon DEF Known, Typed
<1>4. state \notin Before /\ state # "closed" /\ state # "connecting"
  BY SMT DEF Before
<1>5. ASSUME NEW n \in M
      PROVE  Sent(r, n)'
  <2>1. n.port = p.port /\ n.chunk = 0 /\ p.state \notin Before
    BY <1>2, <1>4, <1>5
  <2>2. n.flags \in {{"ACK"}, {"RST"}} \/ (n.flags = {"FIN", "ACK"} /\ p.state \in Ended)
    BY <1>2, <1>5
  <2>3. p.state # "closed" /\ p.sent \in Nat
    BY <1>2, <1>4
  <2> QED
    BY <1>3, <2>1, <2>2, <2>3, SentBare, Zenon
<1>6. Onward(peers[r], p)
  <2>1. p.sent <= p.sent
    BY <1>2, SMT
  <2> QED
    BY <1>2, <1>4, <2>1, Zenon DEF Onward
<1> QED
  BY <1>2, <1>3, <1>4, <1>5, <1>6, PeerStep, Zenon

(* A remote's FIN preserves what is known.                                 *)
LEMMA PeerClosesKnown ==
  ASSUME Known, scenario' = scenario, NEW r \in Remotes, PeerCloses(r)
  PROVE  Known'
<1>1. peers[r].state = "open" /\ Becomes(r, "finished") /\ Mine(r) /\ toPeers' = toPeers
  BY Zenon DEF PeerCloses
<1>2. peers[r].state \notin Before /\ peers[r].state # "closed"
  BY <1>1, SMT DEF Before
<1>3. Has(r, peers[r].port)
  BY <1>2, Zenon DEF Known, PeersKnown
<1>4. PICK n : n = PeerSegment(r, {"FIN", "ACK"}, PeerSeq(r))
  BY Zenon
<1>5. n \in PeerMessage /\ n.port = peers[r].port /\ n.flags = {"FIN", "ACK"} /\ n.chunk = 0
  <2>1. {"FIN", "ACK"} \in SUBSET Flags /\ PeerSeq(r) \in Number
    BY PeerSeqTyped, SMT DEF Flags
  <2> QED
    BY <1>4, <2>1, PeerSegmentTyped
<1>6. PICK out : out = <<n>>
  BY Zenon
<1>7. out \in Seq(PeerMessage) /\ Range(out) = {n} /\ toUs' = [toUs EXCEPT ![r] = Put(@, out)]
  BY <1>4, <1>5, <1>6, OneSegment, Zenon DEF PeerCloses, Says
<1>8. UsGrows(r, Range(out)) /\ WireShrinks
  BY <1>1, <1>7, UsPut, PeersKept, Zenon DEF Known
<1>9. "finished" \in {"open", "finished", "done", "aborted"} /\ "finished" \in Ended
  BY SMT DEF Ended
<1>10. \A x \in Range(out) : x.port = peers[r].port /\ x.chunk = 0 /\ x.flags = {"FIN", "ACK"}
  BY <1>5, <1>7, Zenon
<1> QED
  BY <1>1, <1>2, <1>3, <1>8, <1>9, <1>10, PeerEnds, Zenon

(* A remote's reset preserves what is known.                               *)
LEMMA PeerAbortsKnown ==
  ASSUME Known, scenario' = scenario, NEW r \in Remotes, PeerAborts(r), Mine(r)
  PROVE  Known'
<1>1. peers[r].state = "open" /\ Becomes(r, "aborted") /\ toPeers' = toPeers
  BY Zenon DEF PeerAborts
<1>2. peers[r].state \notin Before /\ peers[r].state # "closed"
  BY <1>1, SMT DEF Before
<1>3. Has(r, peers[r].port)
  BY <1>2, Zenon DEF Known, PeersKnown
<1>4. PICK n : n = PeerSegment(r, {"RST"}, PeerSeq(r))
  BY Zenon
<1>5. n \in PeerMessage /\ n.port = peers[r].port /\ n.flags = {"RST"} /\ n.chunk = 0
  <2>1. {"RST"} \in SUBSET Flags /\ PeerSeq(r) \in Number
    BY PeerSeqTyped, SMT DEF Flags
  <2> QED
    BY <1>4, <2>1, PeerSegmentTyped
<1>6. PICK out : out = <<n>>
  BY Zenon
<1>7. out \in Seq(PeerMessage) /\ Range(out) = {n} /\ toUs' = [toUs EXCEPT ![r] = Put(@, out)]
  BY <1>4, <1>5, <1>6, OneSegment, Zenon DEF PeerAborts, Says
<1>8. UsGrows(r, Range(out)) /\ WireShrinks
  BY <1>1, <1>7, UsPut, PeersKept, Zenon DEF Known
<1>9. "aborted" \in {"open", "finished", "done", "aborted"} /\ "aborted" \in Ended
  BY SMT DEF Ended
<1>10. \A x \in Range(out) : x.port = peers[r].port /\ x.chunk = 0 /\ x.flags \in {{"ACK"}, {"RST"}}
  BY <1>5, <1>7, Zenon
<1> QED
  BY <1>1, <1>2, <1>3, <1>8, <1>9, <1>10, PeerEnds, Zenon

(* A remote we have sent something has a socket. *)
LEMMA AddresseeHas ==
  ASSUME Known, NEW r \in Remotes, NEW n \in OnWire(toPeers[r])
  PROVE  /\ Has(r, n.port) /\ (r \in Clients => n.port = ServerPort)
         /\ peers[r].state # "closed" => Has(r, peers[r].port)
<1>1. PICK k \in Places : HasRemote(k) /\ sockets[k].remote = r /\ sockets[k].local = n.port
  BY Zenon DEF Known, OutKnown, Has, Connects
<1>2. Has(r, n.port)
  BY <1>1, Zenon DEF Has, Connects
<1>3. r \in Clients => n.port = ServerPort
  BY <1>1, Zenon DEF Known, PortsTell
<1>4. ASSUME peers[r].state # "closed"
      PROVE  Has(r, peers[r].port)
  <2>1. CASE peers[r].state = "connecting"
    BY <1>2, <1>3, <2>1, Zenon DEF Known, PeersKnown
  <2>2. CASE peers[r].state # "connecting"
    BY <1>4, <2>2, Zenon DEF Known, PeersKnown, Before
  <2> QED
    BY <2>1, <2>2
<1> QED
  BY <1>2, <1>3, <1>4

(* What a remote does with a segment: it becomes state, and says out. *)
Takes(r, m, state, out) ==
  \/ /\ "SYN" \in m.flags /\ peers[r].state = "connecting" /\ state = "open"
     /\ out = <<PeerSegment(r, {"ACK"}, Plus(PeerISN, 1))>>
  \/ /\ "FIN" \in m.flags /\ peers[r].state = "open" /\ state = "done"
     /\ out = <<PeerSegment(r, {"ACK"}, PeerSeq(r)), PeerSegment(r, {"FIN", "ACK"}, PeerSeq(r))>>
  \/ /\ "FIN" \in m.flags /\ peers[r].state = "finished" /\ state = "done"
     /\ out = <<PeerSegment(r, {"ACK"}, PeerSeq(r))>>
  \/ /\ m.text # "none" /\ peers[r].state \in {"open", "finished"} /\ state = peers[r].state
     /\ out = <<PeerSegment(r, {"ACK"}, PeerSeq(r))>>

(* A remote that we connect to takes our SYN.                              *)
Opens(r, m) ==
  /\ peers[r].state = "closed" /\ m.flags = {"SYN"}
  /\ peers' = [peers EXCEPT ![r].state = "open", ![r].port = m.port]
  /\ toUs' = [toUs EXCEPT ![r] =
       Put(@, <<[PeerSegment(r, {"SYN", "ACK"}, PeerISN) EXCEPT !.port = m.port]>>)]

(* A remote that becomes what it is does not change.                       *)
LEMMA BecomesSame ==
  ASSUME Typed, NEW r \in Remotes, peers' = peers
  PROVE  Becomes(r, peers[r].state)
<1>1. PICK o \in PeerRecord : o = peers[r]
  BY Zenon DEF Typed, PeerRecord
<1>2. [o EXCEPT !.state = o.state] = o
  BY SMT DEF PeerRecord
<1>3. peers \in [Remotes -> PeerRecord]
  BY Zenon DEF Typed, PeerRecord
<1>4. peers = [peers EXCEPT ![r] = o]
  BY <1>1, <1>3, Zenon
<1> QED
  BY <1>1, <1>2, <1>4, Zenon DEF Becomes

(* What a remote does with a segment: four answers, opening, giving up, or *)
(* nothing.                                                                *)
LEMMA PeerTakesCases ==
  ASSUME Known, NEW r \in Remotes, PeerTakes(r)
  PROVE  \E m \in OnWire(toPeers[r]) :
           /\ Arrives(toPeers[r], m)
           /\ \/ \E state, out : Takes(r, m, state, out) /\ Becomes(r, state) /\ Says(r, out)
              \/ Opens(r, m)
              \/ "RST" \in m.flags /\ peers[r].state # "closed" /\ Becomes(r, "aborted") /\ toUs' = toUs
              \/ Reliable /\ m.flags = {"ACK"} /\ peers' = peers /\ toUs' = toUs
<1>1. PICK m \in OnWire(toPeers[r]) :
        /\ Arrives(toPeers[r], m)
        /\ \/ /\ "SYN" \in m.flags /\ peers[r].state = "connecting"
              /\ Becomes(r, "open")
              /\ Says(r, <<PeerSegment(r, {"ACK"}, Plus(PeerISN, 1))>>)
           \/ Opens(r, m)
           \/ /\ "FIN" \in m.flags /\ peers[r].state = "open"
              /\ Becomes(r, "done")
              /\ Says(r, <<PeerSegment(r, {"ACK"}, PeerSeq(r)),
                           PeerSegment(r, {"FIN", "ACK"}, PeerSeq(r))>>)
           \/ /\ "FIN" \in m.flags /\ peers[r].state = "finished"
              /\ Becomes(r, "done")
              /\ Says(r, <<PeerSegment(r, {"ACK"}, PeerSeq(r))>>)
           \/ /\ "RST" \in m.flags /\ peers[r].state # "closed"
              /\ Becomes(r, "aborted") /\ UNCHANGED toUs
           \/ /\ m.text # "none" /\ peers[r].state \in {"open", "finished"}
              /\ Says(r, <<PeerSegment(r, {"ACK"}, PeerSeq(r))>>)
              /\ UNCHANGED peers
           \/ /\ Reliable /\ m.flags = {"ACK"}
              /\ UNCHANGED <<peers, toUs>>
  BY Zenon DEF PeerTakes, Opens
<1>2. peers' = peers => Becomes(r, peers[r].state)
  BY BecomesSame, Zenon DEF Known
<1> QED
  BY <1>1, <1>2, Zenon DEF Takes

(* What a remote does with a segment preserves what is known.              *)
LEMMA PeerTakesKnown ==
  ASSUME Known, scenario' = scenario, NEW r \in Remotes, PeerTakes(r)
  PROVE  Known'
<1>1. PICK m \in OnWire(toPeers[r]) :
        /\ Arrives(toPeers[r], m)
        /\ \/ \E state, out : Takes(r, m, state, out) /\ Becomes(r, state) /\ Says(r, out)
           \/ Opens(r, m)
           \/ "RST" \in m.flags /\ peers[r].state # "closed" /\ Becomes(r, "aborted") /\ toUs' = toUs
           \/ Reliable /\ m.flags = {"ACK"} /\ peers' = peers /\ toUs' = toUs
  BY PeerTakesCases, Zenon
<1>2. Mine(r) /\ toPeers' = [toPeers EXCEPT ![r] = Taken(@)]
  BY Zenon DEF PeerTakes
<1>3. m \in OwnMessage /\ WireShrinks
  BY <1>1, <1>2, PeersTaken, Zenon DEF Known
<1>4. /\ Has(r, m.port) /\ (r \in Clients => m.port = ServerPort)
      /\ peers[r].state # "closed" => Has(r, peers[r].port)
  BY AddresseeHas, Zenon
<1>5. CASE \E state, out : Takes(r, m, state, out) /\ Becomes(r, state) /\ Says(r, out)
  <2>1. PICK state, out : Takes(r, m, state, out) /\ Becomes(r, state) /\ Says(r, out)
    BY <1>5, Zenon
  <2>2. /\ state \in {"open", "finished", "done", "aborted"} /\ peers[r].state # "closed"
        /\ peers[r].state \in Ended => state \in Ended
    BY <2>1, SMT DEF Takes, Ended
  <2>3. PICK seq \in Number, first \in Number : seq = PeerSeq(r) /\ first = Plus(PeerISN, 1)
    BY PeerSeqTyped, PlusTyped, TCPAssumption, SMT
  <2>4. PICK a, b, f : /\ a = PeerSegment(r, {"ACK"}, first) /\ b = PeerSegment(r, {"ACK"}, seq)
                       /\ f = PeerSegment(r, {"FIN", "ACK"}, seq)
    BY Zenon
  <2>5. /\ a \in PeerMessage /\ a.port = peers[r].port /\ a.flags = {"ACK"} /\ a.chunk = 0
        /\ b \in PeerMessage /\ b.port = peers[r].port /\ b.flags = {"ACK"} /\ b.chunk = 0
        /\ f \in PeerMessage /\ f.port = peers[r].port /\ f.flags = {"FIN", "ACK"} /\ f.chunk = 0
    <3>1. {"ACK"} \in SUBSET Flags /\ {"FIN", "ACK"} \in SUBSET Flags
      BY SMT DEF Flags
    <3>2. a \in PeerMessage /\ a.port = peers[r].port /\ a.flags = {"ACK"} /\ a.chunk = 0
      BY <2>4, <3>1, PeerSegmentTyped
    <3>3. b \in PeerMessage /\ b.port = peers[r].port /\ b.flags = {"ACK"} /\ b.chunk = 0
      BY <2>4, <3>1, PeerSegmentTyped
    <3>4. f \in PeerMessage /\ f.port = peers[r].port /\ f.flags = {"FIN", "ACK"} /\ f.chunk = 0
      BY <2>4, <3>1, PeerSegmentTyped
    <3> QED
      BY <3>2, <3>3, <3>4
  <2>6. out \in {<<a>>, <<b>>} \/ (out = <<b, f>> /\ state = "done")
    BY <2>1, <2>3, <2>4, Zenon DEF Takes
  <2>7. /\ out \in Seq(PeerMessage)
        /\ \A n \in Range(out) : n \in {a, b} \/ (n = f /\ state \in Ended)
    <3>1. CASE out = <<a>>
      <4>1. <<a>> \in Seq(PeerMessage) /\ Range(<<a>>) = {a}
        BY <2>5, OneSegment
      <4> QED
        BY <3>1, <4>1, Zenon
    <3>2. CASE out = <<b>>
      <4>1. <<b>> \in Seq(PeerMessage) /\ Range(<<b>>) = {b}
        BY <2>5, OneSegment
      <4> QED
        BY <3>2, <4>1, Zenon
    <3>3. CASE out = <<b, f>> /\ state = "done"
      <4>1. state \in Ended
        BY <3>3, SMT DEF Ended
      <4>2. <<b, f>> \in Seq(PeerMessage) /\ Range(<<b, f>>) = {b, f}
        BY <2>5, TwoSegments
      <4> QED
        BY <3>3, <4>1, <4>2, Zenon
    <3> QED
      BY <2>6, <3>1, <3>2, <3>3
  <2>8. UsGrows(r, Range(out))
    BY <2>1, <2>7, UsPut, Zenon DEF Says, Known
  <2>9. \A n \in Range(out) : /\ n.port = peers[r].port /\ n.chunk = 0
                              /\ (n.flags \in {{"ACK"}, {"RST"}} \/ (n.flags = {"FIN", "ACK"} /\ state \in Ended))
    <3> SUFFICES ASSUME NEW n \in Range(out)
                 PROVE  /\ n.port = peers[r].port /\ n.chunk = 0
                        /\ (n.flags \in {{"ACK"}, {"RST"}} \/ (n.flags = {"FIN", "ACK"} /\ state \in Ended))
      OBVIOUS
    <3>1. CASE n \in {a, b}
      BY <2>5, <3>1, Zenon
    <3>2. CASE n = f /\ state \in Ended
      BY <2>5, <3>2, Zenon
    <3> QED
      BY <2>7, <3>1, <3>2
  <2> QED
    BY <1>2, <1>3, <1>4, <2>1, <2>2, <2>8, <2>9, PeerEnds, Zenon
<1>6. CASE Opens(r, m)
  <2>1. PICK o \in PeerRecord : o = peers[r] /\ o.state = "closed"
    BY <1>6, Zenon DEF Opens, Known, Typed, PeerRecord
  <2>2. PICK p : p = [o EXCEPT !.state = "open", !.port = m.port]
    BY Zenon
  <2>3. m.port \in Nat
    BY <1>3, SMT DEF OwnMessage
  <2>4. p \in PeerRecord /\ p.state = "open" /\ p.port = m.port /\ p.sent = o.sent /\ p.sent \in Nat
    <3>1. PICK a : a = [o EXCEPT !.state = "open"]
      BY Zenon
    <3>2. a \in PeerRecord /\ a.state = "open" /\ a.sent = o.sent /\ a.sent \in Nat
      BY <3>1, SMT DEF PeerRecord
    <3>3. p = [a EXCEPT !.port = m.port]
      BY <2>2, <3>1
    <3> QED
      BY <2>3, <3>2, <3>3, SMT DEF PeerRecord
  <2>5. peers' = [peers EXCEPT ![r] = p] /\ peers'[r] = p
    <3>1. peers' = [peers EXCEPT ![r] = p]
      BY <1>6, <2>1, <2>2, Zenon DEF Opens
    <3> QED
      BY <3>1, Zenon DEF Known, Typed
  <2>6. PICK seq \in Number : seq = PeerISN
    BY TCPAssumption, Zenon DEF Number
  <2>7. PICK b : b = PeerSegment(r, {"SYN", "ACK"}, seq)
    BY Zenon
  <2>8. /\ b \in PeerMessage /\ b.flags = {"SYN", "ACK"} /\ b.chunk = 0 /\ b.seq = seq
    <3>1. {"SYN", "ACK"} \in SUBSET Flags
      BY SMT DEF Flags
    <3> QED
      BY <2>7, <3>1, PeerSegmentTyped
  <2>9. PICK n : n = [b EXCEPT !.port = m.port]
    BY Zenon
  <2>10. /\ n \in PeerMessage /\ n.flags = {"SYN", "ACK"} /\ n.chunk = 0 /\ n.seq = PeerISN
         /\ n.port = p.port
    <3>1. n \in PeerMessage /\ n.flags = b.flags /\ n.chunk = b.chunk /\ n.seq = b.seq /\ n.port = m.port
      BY <2>3, <2>8, <2>9, SMT DEF PeerMessage
    <3> QED
      BY <2>4, <2>6, <2>8, <3>1
  <2>11. p.state # "closed" /\ p.state \notin Before /\ p.state # "connecting"
    BY <2>4, SMT DEF Before
  <2>12. Sent(r, n)'
    BY <2>4, <2>5, <2>10, <2>11, SentBare, Zenon
  <2>13. PICK out : out = <<n>>
    BY Zenon
  <2>14. out \in Seq(PeerMessage) /\ Range(out) = {n} /\ toUs' = [toUs EXCEPT ![r] = Put(@, out)]
    <3>1. toUs' = [toUs EXCEPT ![r] = Put(@, <<n>>)]
      BY <1>6, <2>6, <2>7, <2>9, Zenon DEF Opens
    <3> QED
      BY <2>10, <2>13, <3>1, OneSegment, Zenon
  <2>15. UsGrows(r, Range(out))
    BY <2>14, UsPut, Zenon DEF Known
  <2>16. Onward(peers[r], p)
    BY <2>1, Zenon DEF Onward
  <2>17. p.sent \in 0..Len(Stream[r])
    BY <2>1, <2>4, Zenon DEF Known, PeersKnown
  <2> QED
    BY <1>2, <1>3, <1>4, <2>4, <2>5, <2>11, <2>12, <2>14, <2>15, <2>16, <2>17, PeerStep, Zenon
<1>7. CASE "RST" \in m.flags /\ peers[r].state # "closed" /\ Becomes(r, "aborted") /\ toUs' = toUs
  <2>1. PICK M : M = {} /\ UsGrows(r, M)
    BY <1>7, UsSame, Zenon DEF Known
  <2>2. "aborted" \in {"open", "finished", "done", "aborted"} /\ "aborted" \in Ended
    BY SMT DEF Ended
  <2>3. \A n \in M : /\ n.port = peers[r].port /\ n.chunk = 0
                      /\ (n.flags \in {{"ACK"}, {"RST"}} \/ (n.flags = {"FIN", "ACK"} /\ "aborted" \in Ended))
    BY <2>1, Zenon
  <2> QED
    BY <1>2, <1>3, <1>4, <1>7, <2>1, <2>2, <2>3, PeerEnds, Zenon
<1>8. CASE Reliable /\ m.flags = {"ACK"} /\ peers' = peers /\ toUs' = toUs
  <2>1. CASE peers[r].state \notin Before
    <3>1. Becomes(r, peers[r].state)
      BY <1>8, BecomesSame, Zenon DEF Known
    <3>2. PICK M : M = {} /\ UsGrows(r, M)
      BY <1>8, UsSame, Zenon DEF Known
    <3>3. peers[r].state \in {"open", "finished", "done", "aborted"} /\ peers[r].state # "closed"
      <4>1. PICK o \in PeerRecord : o = peers[r]
        BY Zenon DEF Known, Typed, PeerRecord
      <4> QED
        BY <2>1, <4>1, SMT DEF PeerRecord, Before
    <3>4. PICK state : state = peers[r].state
      BY Zenon
    <3>5. \A n \in M : /\ n.port = peers[r].port /\ n.chunk = 0
                        /\ (n.flags \in {{"ACK"}, {"RST"}} \/ (n.flags = {"FIN", "ACK"} /\ state \in Ended))
      BY <3>2, Zenon
    <3>6. Becomes(r, state) /\ state \in {"open", "finished", "done", "aborted"}
      BY <3>1, <3>3, <3>4, Zenon
    <3> QED
      BY <1>2, <1>3, <1>4, <3>2, <3>3, <3>4, <3>5, <3>6, PeerEnds, Zenon
  <2>2. CASE peers[r].state \in Before
    <3>1. PICK p \in PeerRecord : p = peers[r]
      BY Zenon DEF Known, Typed, PeerRecord
    <3>2. peers' = [peers EXCEPT ![r] = p]
      BY <1>8, <3>1, Zenon DEF Known, Typed
    <3>3. PICK M : M = {} /\ UsGrows(r, M)
      BY <1>8, UsSame, Zenon DEF Known
    <3>4. Onward(peers[r], p)
      <4>1. p.sent <= p.sent
        BY SMT DEF PeerRecord
      <4> QED
        BY <3>1, <4>1, Zenon DEF Onward
    <3>5. /\ p.sent \in 0..Len(Stream[r]) /\ (r \in Clients => p.port = ServerPort)
          /\ p.state = "connecting" => r \in Clients
          /\ IF p.state \in Before THEN p.sent = 0 ELSE Has(r, p.port)
      BY <3>1, Zenon DEF Known, PeersKnown
    <3>6. \A m1 \in M : Sent(r, m1)'
      BY <3>3, Zenon
    <3> QED
      BY <1>2, <1>3, <3>2, <3>3, <3>4, <3>5, <3>6, PeerStep, Zenon
  <2> QED
    BY <2>1, <2>2
<1> QED
  BY <1>1, <1>5, <1>6, <1>7, <1>8

-----------------------------------------------------------------------------
(* What is known is known in every reachable state *)

LEMMA KnownAtFirst ==
  ASSUME Init
  PROVE  Known
<1>1. sockets = <<>> /\ Len(sockets) = 0 /\ Places = {}
  BY SMT DEF Init, Places
<1>2. \A r \in Remotes : OnWire(toUs[r]) = {} /\ OnWire(toPeers[r]) = {}
  <2>1. \A r \in Remotes : toUs[r] = NoSegments /\ toPeers[r] = NoSegments
    BY Zenon DEF Init
  <2>2. OnWire(NoSegments) = {}
    <3>1. Range(<<>>) = {}
      BY NoSegment, Zenon
    <3> QED
      BY <3>1, Zenon DEF OnWire, NoSegments
  <2> QED
    BY <2>1, <2>2, Zenon
<1>3. \A r \in Remotes : peers[r] = [state |-> "closed", port |-> ServerPort, sent |-> 0]
  BY Zenon DEF Init
<1>4. Typed
  <2>1. sockets \in Seq(Socket) /\ delivered \in Seq(Seq(Remotes \X Nat)) /\ Len(delivered) = Len(sockets)
    BY <1>1, NoSegment, Zenon DEF Init
  <2>2. Len(sockets) <= MaxSockets /\ freePort \in FirstPort..(FirstPort + Len(sockets))
    BY <1>1, TCPAssumption, SMT DEF Init
  <2>3. peers \in [Remotes -> PeerRecord]
    <3>1. ServerPort \in Nat
      BY TCPAssumption, Zenon
    <3>2. [state |-> "closed", port |-> ServerPort, sent |-> 0] \in PeerRecord
      BY <3>1, SMT DEF PeerRecord, Before
    <3>3. peers = [r \in Remotes |-> [state |-> "closed", port |-> ServerPort, sent |-> 0]]
      BY Zenon DEF Init
    <3> QED
      BY <3>2, <3>3, Zenon
  <2>4. \A r \in Remotes : Carries(toUs[r], PeerMessage) /\ Carries(toPeers[r], OwnMessage)
    <3>1. \A M : Carries(NoSegments, M)
      BY NoSegment, Zenon DEF Carries, NoSegments
    <3> QED
      BY <3>1, Zenon DEF Init
  <2>5. toUs = [r \in Remotes |-> toUs[r]] /\ toPeers = [r \in Remotes |-> toPeers[r]]
    BY Zenon DEF Init
  <2>6. spins \in BOOLEAN /\ scenario \in Scenarios
    BY Zenon DEF Init
  <2> QED
    BY <2>1, <2>2, <2>3, <2>4, <2>5, <2>6, Zenon DEF Typed, PeerRecord
<1>5. OnePerRemote /\ ListenersLast /\ PortsTell
  BY <1>1, Zenon DEF OnePerRemote, ListenersLast, PortsTell
<1>6. MainKnown
  <2>1. main = [at |-> "idle", socket |-> 0, segment |-> <<>>]
    BY Zenon DEF Init
  <2>2. main = [x \in {"at", "socket", "segment"} |-> main[x]]
    BY <2>1, SMT
  <2>3. main.at \notin {"fill", "count", "transmit", "bump"} /\ main.at \notin {"count", "transmit"} /\ main.at = "idle"
    BY <2>1, SMT
  <2> QED
    BY <2>2, <2>3, Zenon DEF MainKnown
<1>7. PeersKnown
  <2>1. ASSUME NEW r \in Remotes
        PROVE  /\ peers[r].sent = 0 /\ peers[r].state = "closed" /\ peers[r].port = ServerPort
               /\ 0 \in 0..Len(Stream[r])
    <3>1. Len(Stream[r]) \in Nat
      BY <1>4, StreamTyped, Zenon
    <3> QED
      BY <1>3, <3>1, SMT
  <2>2. "closed" \in Before /\ "closed" # "connecting"
    BY SMT DEF Before
  <2> QED
    BY <2>1, <2>2, Zenon DEF PeersKnown
<1>8. InKnown /\ OutKnown
  BY <1>2, Zenon DEF InKnown, OutKnown
<1> QED
  BY <1>4, <1>5, <1>6, <1>7, <1>8, Zenon DEF Known

(* Every step of the system preserves what is known.                       *)
LEMMA KnownStays ==
  ASSUME Known, [Next]_vars
  PROVE  Known'
<1>1. ASSUME UNCHANGED vars
      PROVE  Known'
  <2>1. /\ scenario' = scenario /\ sockets' = sockets /\ delivered' = delivered
        /\ freePort' = freePort /\ main' = main /\ calls' = calls /\ spins' = spins
        /\ peers' = peers /\ toPeers' = toPeers /\ toUs' = toUs
    BY <1>1, Zenon DEF vars, wire
  <2>2. /\ Places' = Places /\ \A i : HasRemote(i)' <=> HasRemote(i)
        /\ \A q, port : Has(q, port)' <=> Has(q, port)
    BY <2>1, Zenon DEF Places, HasRemote, Has, Connects
  <2>3. Typed'
    BY <2>1 DEF Known, Typed, Carries, Reliable
  <2>4. OnePerRemote' /\ ListenersLast' /\ PortsTell'
    BY <2>1, <2>2, Zenon DEF Known, OnePerRemote, ListenersLast, PortsTell
  <2>5. MainKnown'
    BY <2>1, <2>2, MainSame, Zenon
  <2>6. PeersKnown'
    BY <2>1, <2>2, PeersSame, Zenon
  <2>7. UsGrows(Nobody, {})
    BY <2>1, UsSame, Zenon DEF Known
  <2>8. InKnown'
    BY <2>1, <2>7, InSame, Zenon
  <2>9. OutKnown'
    BY <2>1, <2>2, OutSame, Zenon
  <2> QED
    BY <2>3, <2>4, <2>5, <2>6, <2>8, <2>9, Zenon DEF Known
<1>2. ASSUME Next
      PROVE  Known'
  <2>1. scenario' = scenario
    BY <1>2, Zenon DEF Next
  <2>2. ASSUME NEW r \in Remotes, Peer(r)
        PROVE  Known'
    BY <2>1, <2>2, PeerConnectsKnown, PeerSendsKnown, PeerClosesKnown, PeerTakesKnown, Zenon DEF Peer
  <2>3. ASSUME NEW r \in Remotes, PeerAborts(r)
        PROVE  Known'
    BY <2>1, <2>3, PeerAbortsKnown, Zenon DEF PeerAborts
  <2> QED
    BY <1>2, <2>1, <2>2, <2>3, MainStepsKnown, ReceiveKnown, Zenon DEF Next, Step
<1> QED
  BY <1>1, <1>2

(* Types, connections, the calls of kernelMain and what both wires hold    *)
(* are as Known says, for any number of remotes and sockets, any streams   *)
(* and on any wire: a remote has one socket for all of its segments, and   *)
(* what arrives was sent (tcp.cpp, all of it).                             *)
THEOREM AlwaysKnown == Spec => []Known
<1>1. Init => Known
  BY KnownAtFirst
<1>2. Known /\ [Next]_vars => Known'
  BY KnownStays
<1> QED
  BY <1>1, <1>2, PTL DEF Spec

(* A repeated or late SYN never occupies a second socket, for any number   *)
(* of remotes and sockets and on any wire: a connection has one, also      *)
(* while others listen on the same port.                                   *)
THEOREM OneConnection == Spec => []OneSocketPerConnection
<1>1. Known => OneSocketPerConnection
  <2> SUFFICES ASSUME Known, NEW i \in DOMAIN sockets, NEW j \in DOMAIN sockets, i # j,
                      sockets[i].state # "LISTEN", sockets[j].state # "LISTEN"
               PROVE  <<sockets[i].local, sockets[i].remote>> # <<sockets[j].local, sockets[j].remote>>
    BY Zenon DEF OneSocketPerConnection
  <2>1. i \in Places /\ j \in Places
    BY SMT DEF Known, Typed, Places
  <2>2. sockets[i].remote # sockets[j].remote
    BY <2>1, Zenon DEF Known, OnePerRemote, HasRemote
  <2> QED
    BY <2>2, SMT
<1> QED
  BY <1>1, AlwaysKnown, PTL

-----------------------------------------------------------------------------
(* What a step does to one socket and what its handler was given *)

(* A step leaves socket i and what its handler was given as they are.      *)
Remains(i) ==
  /\ i \in Places /\ i \in Places'
  /\ sockets'[i].state = sockets[i].state /\ sockets'[i].remote = sockets[i].remote
  /\ sockets'[i].acknowledgementNumber = sockets[i].acknowledgementNumber
  /\ sockets[i].bound => sockets'[i].bound
  /\ delivered'[i] = delivered[i]

(* A new socket's remote has not spoken yet. *)
Appears(i) ==
  /\ i \notin Places /\ delivered'[i] = <<>> /\ sockets'[i].bound = ~BindApart
  /\ \/ sockets'[i].state = "LISTEN"
     \/ /\ sockets'[i].state = "SYN_SENT" /\ sockets'[i].remote \in Servers
        /\ sockets'[i].acknowledgementNumber \in {PeerISN, OwnISN}
        /\ peers[sockets'[i].remote].state = "closed"
        /\ OnWire(toPeers[sockets'[i].remote]) = {}

(* kernelMain disconnects socket i, or has, and sends on it.               *)
Disconnected(i) ==
  /\ i \in Places /\ HasRemote(i) /\ "disconnect" \in calls'
  /\ sockets'[i].state = "FIN_WAIT1" /\ sockets'[i].remote = sockets[i].remote
  /\ sockets'[i].bound = sockets[i].bound /\ delivered'[i] = delivered[i]

(* No FIN is sent to the remotes. *)
NoFinSent ==
  \A r \in Remotes : \A n \in OnWire(toPeers'[r]) : n \in OnWire(toPeers[r]) \/ "FIN" \notin n.flags

(* All that a step of kernelMain does to sockets and wires.                *)
MainMoves ==
  /\ ~spins /\ spins' = spins /\ peers' = peers /\ toUs' = toUs /\ calls \subseteq calls'
  /\ \A i \in Places' : Remains(i) \/ Appears(i) \/ Disconnected(i)
  /\ "disconnect" \in calls' \/ NoFinSent

(* Steps that send the remotes nothing, or no FIN.                         *)
LEMMA NothingSent ==
  ASSUME toPeers' = toPeers
  PROVE  NoFinSent
BY Zenon DEF NoFinSent

LEMMA YoungSends ==
  ASSUME NEW r, NEW port, WireGrows(r, port, TRUE)
  PROVE  "disconnect" \in calls \/ NoFinSent
BY Zenon DEF NoFinSent, WireGrows

(* Four ways in which sockets stay as they are.                            *)
LEMMA SocketRemains ==
  ASSUME Known, NEW k \in Places, NEW t \in Socket, sockets' = [sockets EXCEPT ![k] = t],
         t.state = sockets[k].state, t.remote = sockets[k].remote,
         t.acknowledgementNumber = sockets[k].acknowledgementNumber,
         sockets[k].bound => t.bound, delivered' = delivered
  PROVE  \A i \in Places' : Remains(i)
<1>1. /\ Places' = Places /\ sockets'[k] = t
      /\ \A i \in Places : i # k => sockets'[i] = sockets[i]
  BY OneChanged, Zenon DEF Known, Typed
<1> SUFFICES ASSUME NEW i \in Places
             PROVE  Remains(i)
  BY <1>1, Zenon
<1>2. CASE i = k
  BY <1>1, <1>2, Zenon DEF Remains
<1>3. CASE i # k
  BY <1>1, <1>3, Zenon DEF Remains
<1> QED
  BY <1>2, <1>3

LEMMA SocketsRemain ==
  ASSUME sockets' = sockets, delivered' = delivered
  PROVE  \A i \in Places' : Remains(i)
BY Zenon DEF Places, Remains

(* A new socket listens, or waits for a server that has not spoken yet.    *)
LEMMA SocketAdded ==
  ASSUME Known, NEW s \in Socket, sockets' = Append(sockets, s), delivered' = Append(delivered, <<>>),
         s.bound = ~BindApart,
         \/ s.state = "LISTEN"
         \/ /\ s.state = "SYN_SENT" /\ s.remote \in Servers
            /\ s.acknowledgementNumber \in {PeerISN, OwnISN}
            /\ peers[s.remote].state = "closed" /\ OnWire(toPeers[s.remote]) = {}
  PROVE  \A i \in Places' : Remains(i) \/ Appears(i)
<1>1. /\ Len(sockets') = Len(sockets) + 1 /\ sockets'[Len(sockets')] = s
      /\ \A i \in Places : sockets'[i] = sockets[i] /\ i \in Places' /\ i < Len(sockets')
      /\ \A i \in Places' : i \in Places \/ i = Len(sockets')
  BY OneAppended, Zenon DEF Known, Typed
<1>2. delivered'[Len(sockets')] = <<>> /\ \A i \in Places : delivered'[i] = delivered[i]
  BY <1>1, GivenNothing, Zenon
<1>3. Len(sockets') \notin Places
  BY <1>1, SMT
<1> SUFFICES ASSUME NEW i \in Places'
             PROVE  Remains(i) \/ Appears(i)
  OBVIOUS
<1>4. CASE i \in Places
  BY <1>1, <1>2, <1>4, Zenon DEF Remains
<1>5. CASE i = Len(sockets')
  BY <1>1, <1>2, <1>3, <1>5, Zenon DEF Appears
<1> QED
  BY <1>1, <1>4, <1>5

(* The calls of kernelMain, one by one.                                    *)
LEMMA ListenMoves ==
  ASSUME Known, Listen
  PROVE  MainMoves
<1>1. PICK r \in Remotes \cup {Nobody}, n \in {PeerISN, OwnISN} :
        sockets' = Append(sockets, [local |-> ServerPort, remote |-> r, sequenceNumber |-> n,
                                    acknowledgementNumber |-> n, bound |-> ~BindApart,
                                    state |-> "LISTEN"])
  BY Zenon DEF Listen
<1>2. PICK b \in BOOLEAN : b = ~BindApart
  BY Zenon
<1>3. PICK s : s = [local |-> ServerPort, remote |-> r, sequenceNumber |-> n,
                    acknowledgementNumber |-> n, bound |-> b, state |-> "LISTEN"]
  BY Zenon
<1>4. s \in Socket /\ s.state = "LISTEN" /\ s.bound = b
  <2>1. n \in 0..(SeqSpace - 1) /\ ServerPort \in Nat
    BY TCPAssumption, Zenon
  <2> QED
    BY <1>3, <2>1, SMT DEF Socket
<1>5. sockets' = Append(sockets, s)
  BY <1>1, <1>2, <1>3, Zenon
<1>6. \A i \in Places' : Remains(i) \/ Appears(i)
  BY <1>2, <1>4, <1>5, SocketAdded, Zenon DEF Listen
<1>7. NoFinSent
  BY NothingSent, Zenon DEF Listen, wire
<1> QED
  BY <1>6, <1>7, Zenon DEF MainMoves, Listen, MainAt, wire

(* A remote we have no connection with is a client that may be connecting, *)
(* or has not spoken at all.                                               *)
LEMMA NotSpoken ==
  ASSUME Known, NEW r \in Remotes, \A k \in Places : HasRemote(k) => sockets[k].remote # r
  PROVE  /\ peers[r].state \in Before /\ (r \notin Clients => peers[r].state = "closed")
         /\ \A port : ~Has(r, port)
         /\ OnWire(toPeers[r]) = {}
<1>1. \A port : ~Has(r, port)
  BY Zenon DEF Has, Connects
<1>2. peers[r].state \in Before /\ (peers[r].state = "connecting" => r \in Clients)
  BY <1>1, Zenon DEF Known, PeersKnown
<1> QED
  BY <1>1, <1>2, Zenon DEF Known, OutKnown, Before

(* A remote that is closed has said nothing.                               *)
LEMMA ClosedSaysNothing ==
  ASSUME Known, NEW r \in Remotes, peers[r].state = "closed"
  PROVE  OnWire(toUs[r]) = {}
BY Zenon DEF Known, InKnown, Sent

LEMMA ConnectMoves ==
  ASSUME Known, NEW r \in Servers, Connect(r)
  PROVE  MainMoves
<1>1. PICK n \in {PeerISN, OwnISN} :
        /\ sockets' = Append(sockets, Connecting(r, n))
        /\ Sends(r, <<Segment(Connecting(r, n), {"SYN"}, "none")>>)
  BY Zenon DEF Connect
<1>2. PICK b \in BOOLEAN : b = ~BindApart
  BY Zenon
<1>3. r \in Remotes /\ r \notin Clients
  BY TCPAssumption, Zenon DEF Remotes
<1>4. PICK s : s = Connecting(r, n)
  BY Zenon
<1>5. /\ s \in Socket /\ s.state = "SYN_SENT" /\ s.remote = r
      /\ s.acknowledgementNumber = n /\ s.bound = b
  <2>1. n \in 0..(SeqSpace - 1) /\ OwnISN \in 0..(SeqSpace - 1)
    BY TCPAssumption, Zenon
  <2>2. freePort \in Nat
    <3>1. freePort \in FirstPort..(FirstPort + Len(sockets)) /\ Len(sockets) \in Nat
      BY LenProperties, Zenon DEF Known, Typed
    <3> QED
      BY <3>1, TCPAssumption, SMT
  <2>3. s = [local |-> freePort, remote |-> r, sequenceNumber |-> OwnISN,
             acknowledgementNumber |-> n, bound |-> b, state |-> "SYN_SENT"]
    BY <1>2, <1>4, Zenon DEF Connecting
  <2> QED
    BY <1>3, <2>1, <2>2, <2>3, SMT DEF Socket
<1>6. peers[r].state = "closed" /\ OnWire(toPeers[r]) = {}
  <2>1. \A x \in Range(sockets) : x.remote = r => x.state = "LISTEN"
    BY Zenon DEF Connect
  <2>2. \A k \in Places : HasRemote(k) => sockets[k].remote # r
    BY <2>1, SocketAt, Zenon DEF HasRemote
  <2> QED
    BY <1>3, <2>2, NotSpoken, Zenon
<1>7. \A i \in Places' : Remains(i) \/ Appears(i)
  <2>1. sockets' = Append(sockets, s) /\ delivered' = Append(delivered, <<>>)
    BY <1>1, <1>4, Zenon DEF Connect
  <2> QED
    BY <1>2, <1>5, <1>6, <2>1, SocketAdded, Zenon
<1>8. "disconnect" \in calls \/ NoFinSent
  <2>1. PICK m \in OwnMessage : m = Segment(s, {"SYN"}, "none") /\ m.flags = {"SYN"} /\ m.port = s.local
    BY <1>5, SegmentTyped, SMT DEF Flags
  <2>2. "FIN" \notin m.flags
    BY <2>1, SMT
  <2>3. PICK out : out = <<m>>
    BY Zenon
  <2>4. out \in Seq(OwnMessage) /\ Range(out) = {m} /\ Sends(r, out)
    BY <1>1, <1>4, <2>1, <2>3, OneSegment, Zenon
  <2>5. \A x \in Range(out) : x.port = s.local /\ "FIN" \notin x.flags
    BY <2>1, <2>2, <2>4, Zenon
  <2>6. TRUE \in BOOLEAN
    BY Zenon
  <2>7. WireGrows(r, s.local, TRUE)
    BY <1>3, <2>4, <2>5, <2>6, SendsGrows, Zenon DEF Known
  <2> QED
    BY <2>7, YoungSends, Zenon
<1> QED
  BY <1>7, <1>8, Zenon DEF MainMoves, Connect, MainAt

LEMMA BindMoves ==
  ASSUME Known, Bind
  PROVE  MainMoves
<1>1. PICK k \in Places : k = main.socket
  <2>1. main.at # "idle"
    BY SMT DEF Bind, MainAt
  <2> QED
    BY <2>1, Zenon DEF Known, MainKnown
<1>2. PICK s \in Socket, b \in BOOLEAN : s = sockets[k] /\ b = TRUE
  BY SocketAt, Zenon
<1>3. PICK t : t = [s EXCEPT !.bound = b]
  BY Zenon
<1>4. /\ t \in Socket /\ t.remote = s.remote /\ t.state = s.state /\ t.bound = b
      /\ t.acknowledgementNumber = s.acknowledgementNumber
  BY <1>3, SMT DEF Socket
<1>5. sockets' = [sockets EXCEPT ![k] = t]
  BY <1>1, <1>2, <1>3, Zenon DEF Bind
<1>6. \A i \in Places' : Remains(i)
  BY <1>2, <1>4, <1>5, SocketRemains, Zenon DEF Bind
<1>7. NoFinSent
  BY NothingSent, Zenon DEF Bind, wire
<1> QED
  BY <1>6, <1>7, Zenon DEF MainMoves, Bind, MainAt, wire

LEMMA UnchangedMoves ==
  ASSUME MainAt(main.at), UNCHANGED <<sockets, delivered, spins, peers, toPeers, toUs>>, calls \subseteq calls'
  PROVE  MainMoves
<1>1. \A i \in Places' : Remains(i)
  BY SocketsRemain, Zenon
<1>2. NoFinSent
  BY NothingSent, Zenon
<1> QED
  BY <1>1, <1>2, Zenon DEF MainMoves, MainAt

LEMMA CallDisconnectMoves ==
  ASSUME Known, NEW k \in Places, CallDisconnect(k)
  PROVE  MainMoves
<1>1. PICK s \in Socket : s = sockets[k]
  BY SocketAt, Zenon
<1>2. PICK t : t = [s EXCEPT !.state = "FIN_WAIT1"]
  BY Zenon
<1>3. t \in Socket /\ t.remote = s.remote /\ t.state = "FIN_WAIT1" /\ t.bound = s.bound
  BY <1>2, SMT DEF Socket
<1>4. sockets' = [sockets EXCEPT ![k] = t] /\ HasRemote(k) /\ "disconnect" \in calls'
  BY <1>1, <1>2, Zenon DEF CallDisconnect, HasRemote
<1>5. /\ Places' = Places /\ sockets'[k] = t
      /\ \A i \in Places : i # k => sockets'[i] = sockets[i]
  BY <1>3, <1>4, OneChanged, Zenon DEF Known, Typed
<1>6. delivered' = delivered
  BY Zenon DEF CallDisconnect
<1>7. Disconnected(k)
  BY <1>1, <1>3, <1>4, <1>5, <1>6, Zenon DEF Disconnected
<1>8. \A i \in Places : i # k => Remains(i)
  BY <1>5, <1>6, Zenon DEF Remains
<1>9. \A i \in Places' : Remains(i) \/ Disconnected(i)
  BY <1>5, <1>7, <1>8, Zenon
<1>10. /\ ~spins /\ spins' = spins /\ peers' = peers /\ toUs' = toUs /\ calls \subseteq calls'
       /\ "disconnect" \in calls'
  BY <1>4, Zenon DEF CallDisconnect, MainAt, wire
<1> QED
  BY <1>9, <1>10, Zenon DEF MainMoves

LEMMA CountMoves ==
  ASSUME Known, Count
  PROVE  MainMoves
<1>1. main.at = "count" /\ "count" \in {"fill", "count", "transmit", "bump"}
  BY Zenon DEF Count, MainAt
<1>2. PICK k \in Places : k = main.socket /\ sockets[k] \in Socket
  BY <1>1, MainSends, Zenon
<1>3. PICK t : t = IF MainText = "message" THEN Advance(sockets[k], AnswerBytes) ELSE sockets[k]
  BY Zenon
<1>4. sockets' = [sockets EXCEPT ![k] = t]
  BY <1>2, <1>3, Zenon DEF Count
<1>5. /\ t \in Socket /\ t.remote = sockets[k].remote /\ t.state = sockets[k].state
      /\ t.acknowledgementNumber = sockets[k].acknowledgementNumber /\ t.bound = sockets[k].bound
  <2>1. AnswerBytes \in Nat
    BY TCPAssumption, Zenon
  <2> QED
    BY <1>2, <1>3, <2>1, AdvanceTyped, Zenon
<1>6. \A i \in Places' : Remains(i)
  BY <1>4, <1>5, SocketRemains, Zenon DEF Count
<1>7. NoFinSent
  BY NothingSent, Zenon DEF Count, wire
<1> QED
  BY <1>6, <1>7, Zenon DEF MainMoves, Count, MainAt, wire

LEMMA BumpMoves ==
  ASSUME Known, Bump
  PROVE  MainMoves
<1>1. main.at = "bump" /\ "bump" \in {"fill", "count", "transmit", "bump"}
  BY Zenon DEF Bump, MainAt
<1>2. PICK k \in Places : k = main.socket /\ sockets[k] \in Socket
  BY <1>1, MainSends, Zenon
<1>3. PICK t : t = Advance(sockets[k], 1)
  BY Zenon
<1>4. sockets' = [sockets EXCEPT ![k] = t]
  BY <1>2, <1>3, Zenon DEF Bump
<1>5. /\ t \in Socket /\ t.remote = sockets[k].remote /\ t.state = sockets[k].state
      /\ t.acknowledgementNumber = sockets[k].acknowledgementNumber /\ t.bound = sockets[k].bound
  <2>1. 1 \in Nat
    BY SMT
  <2> QED
    BY <1>2, <1>3, <2>1, AdvanceTyped, Zenon
<1>6. \A i \in Places' : Remains(i)
  BY <1>4, <1>5, SocketRemains, Zenon DEF Bump
<1>7. NoFinSent
  BY NothingSent, Zenon DEF Bump, wire
<1> QED
  BY <1>6, <1>7, Zenon DEF MainMoves, Bump, MainAt, wire

LEMMA TransmitMoves ==
  ASSUME Known, Transmit
  PROVE  MainMoves
<1>1. main.at = "transmit" /\ "transmit" \in {"fill", "count", "transmit", "bump"}
  BY Zenon DEF Transmit, MainAt
<1>2. PICK k \in Places :
        /\ k = main.socket /\ sockets[k].remote \in Remotes
        /\ "FIN" \in main.segment.flags => "disconnect" \in calls
  BY <1>1, MainSends, Zenon
<1>3. PICK m \in OwnMessage : m = main.segment
  BY <1>1, Zenon DEF Known, MainKnown
<1>4. "disconnect" \in calls \/ NoFinSent
  <2>1. PICK out : out = <<m>>
    BY Zenon
  <2>2. out \in Seq(OwnMessage) /\ Range(out) = {m} /\ Sends(sockets[k].remote, out)
    BY <1>2, <1>3, <2>1, OneSegment, Zenon DEF Transmit
  <2>3. \A x \in Range(out) : x.port = m.port /\ ("FIN" \in x.flags => "disconnect" \in calls)
    BY <1>2, <1>3, <2>2, Zenon
  <2>4. TRUE \in BOOLEAN
    BY Zenon
  <2>5. WireGrows(sockets[k].remote, m.port, TRUE)
    BY <1>2, <2>2, <2>3, <2>4, SendsGrows, Zenon DEF Known
  <2> QED
    BY <2>5, YoungSends, Zenon
<1>5. \A i \in Places' : Remains(i)
  BY SocketsRemain, Zenon DEF Transmit
<1> QED
  BY <1>4, <1>5, Zenon DEF MainMoves, Transmit, MainAt

(* All the steps of kernelMain.                                            *)
LEMMA MainStepsMove ==
  ASSUME Known, Main
  PROVE  MainMoves
<1>1. ASSUME NEW i \in 1..Len(sockets), CallDisconnect(i)
      PROVE  MainMoves
  BY <1>1, CallDisconnectMoves, Zenon DEF Places
<1>2. ASSUME NEW i \in 1..Len(sockets), CallSend(i)
      PROVE  MainMoves
  <2>1. MainAt(main.at) /\ UNCHANGED <<sockets, delivered, spins, peers, toPeers, toUs>> /\ calls \subseteq calls'
    BY <1>2, Zenon DEF CallSend, MainAt, wire
  <2> QED
    BY <2>1, UnchangedMoves, Zenon
<1>3. ASSUME Waited \/ Fill
      PROVE  MainMoves
  <2>1. MainAt(main.at) /\ UNCHANGED <<sockets, delivered, spins, peers, toPeers, toUs>> /\ calls \subseteq calls'
    BY <1>3, Zenon DEF Waited, Fill, MainAt, wire
  <2> QED
    BY <2>1, UnchangedMoves, Zenon
<1> QED
  BY <1>1, <1>2, <1>3, ListenMoves, BindMoves, CountMoves, TransmitMoves, BumpMoves,
     ConnectMoves, Zenon DEF Main

-----------------------------------------------------------------------------
(* What a segment does to the socket of its remote, and to a listening one *)

(* Socket i takes a segment of its remote r.                               *)
Hears(i, m, r) ==
  /\ i \in Places /\ HasRemote(i) /\ HasRemote(i)'
  /\ sockets[i].remote = r /\ sockets'[i].remote = r /\ sockets'[i].bound = sockets[i].bound
  /\ sockets'[i].state \in Young => sockets[i].state \in Young
  /\ sockets'[i].state \in Young => "disconnect" \in calls \/ NoFinSent
  /\ \A q \in Remotes : q # r => OnWire(toPeers'[q]) \subseteq OnWire(toPeers[q])
  /\ \/ Moved(m, sockets[i], sockets'[i]) /\ delivered'[i] = delivered[i] /\ spins' = spins
     \/ Brought(m, r, i, sockets[i], sockets'[i])

(* The listening socket i takes the SYN of r.                              *)
Begins(i, r) ==
  /\ i \in Places /\ ~HasRemote(i) /\ r \in Clients /\ peers[r].state = "connecting"
  /\ \A k \in Places : HasRemote(k) => sockets[k].remote # r
  /\ OnWire(toPeers[r]) = {} /\ ("disconnect" \in calls \/ NoFinSent)
  /\ sockets'[i].state = "SYN_RECEIVED" /\ sockets'[i].remote = r
  /\ sockets'[i].bound = sockets[i].bound
  /\ sockets'[i].acknowledgementNumber = Plus(PeerISN, 1)
  /\ delivered'[i] = delivered[i] /\ spins' = spins

OthersRemain(i) == Places' = Places /\ \A k \in Places : k # i => Remains(k)

(* A segment is heard by its remote's socket, or begins a connection, or   *)
(* leaves every socket as it is.                                           *)
LEMMA ReceiveMoves ==
  ASSUME Known, NEW r \in Remotes, NEW m, Receive(m, r)
  PROVE  /\ ~spins /\ peers' = peers /\ calls' = calls /\ m \in PeerMessage /\ m \in OnWire(toUs[r])
         /\ Arrives(toUs[r], m) /\ toUs' = [toUs EXCEPT ![r] = Taken(@)] /\ Sent(r, m)
         /\ \/ \E i \in Places : Hears(i, m, r) /\ OthersRemain(i)
            \/ \E i \in Places : Begins(i, r) /\ OthersRemain(i)
            \/ /\ \A i \in Places' : Remains(i)
               /\ \A i \in Places : HasRemote(i) => sockets[i].remote # r
               /\ NoFinSent /\ spins' = spins /\ Places' = Places
<1>1. /\ ~spins /\ Arrives(toUs[r], m) /\ toUs' = [toUs EXCEPT ![r] = Taken(@)]
      /\ UNCHANGED <<freePort, main, calls, peers>>
  BY Zenon DEF Receive
<1>2. m \in PeerMessage /\ m \in OnWire(toUs[r])
  BY <1>1, UsTaken, Zenon DEF Known
<1>3. Sent(r, m)
  BY <1>2, Zenon DEF Known, InKnown
<1>4. ASSUME \E port : Has(r, port)
      PROVE  \E i \in Places : Hears(i, m, r) /\ OthersRemain(i)
  <2>1. PICK k \in Places : Connects(k, r, m.port)
    BY <1>2, <1>4, FoundLater, Zenon
  <2>2. PICK t : /\ Changed(k, t)
                 /\ \/ Moved(m, sockets[k], t) /\ UNCHANGED <<delivered, spins>>
                    \/ Brought(m, r, k, sockets[k], t)
    BY <1>2, <2>1, ReceiveChanges, Zenon
  <2>3. /\ Places' = Places /\ sockets'[k] = t /\ \A i \in Places : i # k => sockets'[i] = sockets[i]
    BY <1>1, <2>1, <2>2, ChangedSockets, Zenon DEF Connects
  <2>4. HasRemote(k) /\ HasRemote(k)' /\ sockets[k].remote = r /\ t.remote = r /\ t.bound = sockets[k].bound
        /\ (t.state \in Young => sockets[k].state \in Young)
    BY <2>1, <2>2, <2>3, Zenon DEF Changed, Connects, HasRemote
  <2>5. t.state \in Young => "disconnect" \in calls \/ NoFinSent
    <3>1. ASSUME t.state \in Young
          PROVE  WireGrows(t.remote, t.local, TRUE)
      BY <2>2, <3>1, Zenon DEF Changed, WireGrows
    <3> QED
      BY <3>1, YoungSends, Zenon
  <2>0. \A q \in Remotes : q # r => OnWire(toPeers'[q]) \subseteq OnWire(toPeers[q])
    BY <2>2, <2>4, Zenon DEF Changed, WireGrows
  <2>6. Hears(k, m, r)
    BY <2>2, <2>3, <2>4, <2>5, <2>0, Zenon DEF Hears
  <2>7. \A i \in Places : i # k => delivered'[i] = delivered[i]
    <3>1. CASE UNCHANGED <<delivered, spins>>
      BY <3>1, Zenon
    <3>2. CASE Brought(m, r, k, sockets[k], t)
      <4>1. <<r, m.chunk>> \in Remotes \X Nat
        BY <1>2, SMT DEF PeerMessage
      <4> QED
        BY <3>2, <4>1, GivenTyped, Zenon DEF Brought, Known
    <3> QED
      BY <2>2, <3>1, <3>2
  <2>8. OthersRemain(k)
    BY <2>3, <2>7, Zenon DEF OthersRemain, Remains
  <2> QED
    BY <2>6, <2>8, Zenon
<1>5. ASSUME \A port : ~Has(r, port)
      PROVE  \/ \E i \in Places : Begins(i, r) /\ OthersRemain(i)
             \/ /\ \A i \in Places' : Remains(i)
                /\ \A i \in Places : HasRemote(i) => sockets[i].remote # r
                /\ NoFinSent /\ spins' = spins /\ Places' = Places
  <2>1. /\ r \in Clients /\ UNCHANGED <<delivered, spins>>
        /\ \/ UNCHANGED <<sockets, toPeers>>
           \/ \E i \in Places : \E t \in Socket : Accepts(i, t, r)
    BY <1>2, <1>5, ReceiveAccepts, Zenon
  <2>2. \A k \in Places : HasRemote(k) => sockets[k].remote # r
    BY <1>5, Zenon DEF Has, Connects
  <2>3. CASE UNCHANGED <<sockets, toPeers>>
    <3>1. Places' = Places
      BY <2>3, Zenon DEF Places
    <3> QED
      BY <2>1, <2>2, <2>3, <3>1, SocketsRemain, NothingSent, Zenon
  <2>4. CASE \E i \in Places : \E t \in Socket : Accepts(i, t, r)
    <3>1. PICK i \in Places : \E t \in Socket : Accepts(i, t, r)
      BY <2>4, Zenon
    <3>2. PICK t \in Socket : Accepts(i, t, r)
      BY <3>1, Zenon
    <3>3. /\ Places' = Places /\ sockets'[i] = t /\ \A j \in Places : i # j => sockets'[j] = sockets[j]
      BY <3>2, OneChanged, Zenon DEF Known, Typed, Accepts
    <3>4. peers[r].state = "connecting" /\ OnWire(toPeers[r]) = {}
      BY <1>3, <2>2, NotSpoken, Zenon DEF Sent, Before
    <3>5. "disconnect" \in calls \/ NoFinSent
      BY <3>2, YoungSends, Zenon DEF Accepts
    <3>6. Begins(i, r)
      BY <2>1, <2>2, <3>2, <3>3, <3>4, <3>5, Zenon DEF Accepts, Begins
    <3>7. OthersRemain(i)
      BY <2>1, <3>3, Zenon DEF OthersRemain, Remains
    <3> QED
      BY <3>6, <3>7, Zenon
  <2> QED
    BY <2>1, <2>3, <2>4
<1> QED
  BY <1>1, <1>2, <1>3, <1>4, <1>5, Zenon

-----------------------------------------------------------------------------
(* What a remote does, and what it says to that *)

(* A single segment.                                                       *)
Lone(out, flags, chunk) ==
  \E n \in PeerMessage : out = <<n>> /\ n.flags = flags /\ n.chunk = chunk

SomeFin(segments) == \E n \in segments : "FIN" \in n.flags

(* A remote becomes p and says out: it opens its end, opens it for good,   *)
(* sends the next chunk, ends, or only answers.                            *)
Goes(r, p, out) ==
  \/ /\ peers[r].state = "closed" /\ p.sent = peers[r].sent
     /\ \/ p.state = "connecting" /\ r \in Clients /\ Lone(out, {"SYN"}, 0)
        \/ p.state = "open" /\ Lone(out, {"SYN", "ACK"}, 0)
  \/ /\ peers[r].state = "connecting" /\ p.state = "open" /\ p.sent = peers[r].sent
     /\ Lone(out, {"ACK"}, 0)
  \/ /\ peers[r].state = "open" /\ p.state = "open"
     /\ p.sent = peers[r].sent + 1 /\ p.sent \in 1..Len(Stream[r])
     /\ \E flags : Lone(out, flags, p.sent) /\ "FIN" \notin flags
  \/ /\ peers[r].state \in {"open", "finished"} /\ p.sent = peers[r].sent
     /\ p.state \in {"open", "finished", "done"}
     /\ \A n \in Range(out) : n.chunk = 0
     /\ SomeFin(Range(out)) => p.sent = Len(Stream[r]) \/ SomeFin(OnWire(toPeers[r]))
  \/ /\ p.state = peers[r].state \/ (p.state = "aborted" /\ peers[r].state # "closed")
     /\ p.sent = peers[r].sent /\ (Reliable => out = <<>>)

(* A step of remote r: it becomes p and says out.                          *)
PeerMoves(r, p, out) ==
  /\ Mine(r) /\ WireShrinks
  /\ p \in PeerRecord /\ out \in Seq(PeerMessage) /\ Goes(r, p, out)
  /\ peers' = [peers EXCEPT ![r] = p] /\ toUs' = [toUs EXCEPT ![r] = Put(@, out)]

(* A remote that leaves the wire alone says nothing.                       *)
LEMMA SaysNothing ==
  ASSUME Typed, NEW r \in Remotes, toUs' = toUs
  PROVE  toUs' = [toUs EXCEPT ![r] = Put(@, <<>>)]
<1>1. Carries(toUs[r], PeerMessage)
  BY Zenon DEF Typed
<1>2. Put(toUs[r], <<>>) = toUs[r]
  <2>1. CASE Reliable
    BY <1>1, <2>1, ConcatEmptySeq, Zenon DEF Carries, Put
  <2>2. CASE ~Reliable
    <3>1. Range(<<>>) = {}
      BY NoSegment, Zenon
    <3>2. toUs[r] \cup {} = toUs[r]
      BY Zenon
    <3> QED
      BY <2>2, <3>1, <3>2, Zenon DEF Put
  <2> QED
    BY <2>1, <2>2
<1>3. toUs = [q \in Remotes |-> toUs[q]]
  BY Zenon DEF Typed
<1> QED
  BY <1>2, <1>3, Zenon

(* One segment without data. *)
LEMMA SaysOne ==
  ASSUME Known, NEW r \in Remotes, NEW flags \in SUBSET Flags, NEW seq \in Number,
         NEW out, out = <<PeerSegment(r, flags, seq)>>
  PROVE  /\ Lone(out, flags, 0) /\ out \in Seq(PeerMessage)
         /\ \A n \in Range(out) : n.flags = flags /\ n.chunk = 0
<1>1. PICK n : n = PeerSegment(r, flags, seq)
  BY Zenon
<1>2. n \in PeerMessage /\ n.flags = flags /\ n.chunk = 0
  BY <1>1, PeerSegmentTyped
<1>3. out = <<n>>
  BY <1>1
<1>4. <<n>> \in Seq(PeerMessage) /\ Range(<<n>>) = {n}
  BY <1>2, OneSegment
<1> QED
  BY <1>2, <1>3, <1>4, Zenon DEF Lone

(* Flags that segments have.                                               *)
LEMMA FlagSets ==
  /\ {"SYN"} \in SUBSET Flags /\ {"ACK"} \in SUBSET Flags /\ {"RST"} \in SUBSET Flags
  /\ {"SYN", "ACK"} \in SUBSET Flags /\ {"FIN", "ACK"} \in SUBSET Flags
BY SMT DEF Flags

(* The steps of a remote, one by one.                                      *)
LEMMA PeerConnectsMoves ==
  ASSUME Known, NEW r \in Remotes, PeerConnects(r)
  PROVE  \E p, out : PeerMoves(r, p, out)
<1>1. PICK p : p = [peers[r] EXCEPT !.state = "connecting"]
  BY Zenon
<1>2. p \in PeerRecord /\ p.state = "connecting" /\ p.sent = peers[r].sent
  <2>1. "connecting" \in {"connecting", "open", "finished", "done", "aborted"}
    BY Zenon
  <2> QED
    BY <1>1, <2>1, PeerBecomes
<1>3. PICK seq \in Number : seq = PeerISN
  BY TCPAssumption, Zenon DEF Number
<1>4. PICK out : out = <<PeerSegment(r, {"SYN"}, seq)>>
  BY Zenon
<1>5. Lone(out, {"SYN"}, 0) /\ out \in Seq(PeerMessage)
  BY <1>4, FlagSets, SaysOne, Zenon
<1>6. /\ peers' = [peers EXCEPT ![r] = p] /\ toUs' = [toUs EXCEPT ![r] = Put(@, out)]
      /\ Mine(r) /\ toPeers' = toPeers /\ r \in Clients /\ peers[r].state = "closed"
  BY <1>1, <1>3, <1>4, Zenon DEF PeerConnects, Becomes, Says
<1>7. WireShrinks
  BY <1>6, PeersKept, Zenon DEF Known
<1>8. Goes(r, p, out)
  BY <1>2, <1>5, <1>6, Zenon DEF Goes
<1> QED
  BY <1>2, <1>5, <1>6, <1>7, <1>8, Zenon DEF PeerMoves

LEMMA PeerSendsMoves ==
  ASSUME Known, NEW r \in Remotes, PeerSends(r)
  PROVE  \E p, out : PeerMoves(r, p, out)
<1>1. PICK o \in PeerRecord : o = peers[r]
  BY Zenon DEF Known, Typed, PeerRecord
<1>2. o.state = "open" /\ o.sent \in 0..Len(Stream[r]) /\ o.sent \in Nat
  BY <1>1, SMT DEF PeerSends, Known, PeersKnown, PeerRecord
<1>3. PICK k \in 1..Len(Stream[r]) : k = o.sent + 1 /\ k \in Nat
  <2>1. Len(Stream[r]) \in Nat
    BY StreamTyped, Zenon DEF Known
  <2>2. o.sent + 1 <= Len(Stream[r])
    BY <1>1, Zenon DEF PeerSends
  <2> QED
    BY <1>2, <2>1, <2>2, SMT
<1>4. PICK c \in Chunk : c = Stream[r][k]
  BY StreamTyped, Zenon DEF Known
<1>5. PICK p : p = [o EXCEPT !.sent = k]
  BY Zenon
<1>6. p \in PeerRecord /\ p.state = "open" /\ p.sent = k
  BY <1>2, <1>3, <1>5, SMT DEF PeerRecord
<1>7. peers' = [peers EXCEPT ![r] = p]
  BY <1>1, <1>3, <1>5, Zenon DEF PeerSends
<1>8. PICK flags : flags = {"ACK"} \cup (IF c.push THEN {"PSH"} ELSE {})
  BY Zenon
<1>9. flags \in SUBSET Flags /\ "FIN" \notin flags
  BY <1>8, SMT DEF Flags
<1>10. PICK b : b = PeerSegment(r, flags, PeerSeq(r))
  BY Zenon
<1>11. b \in PeerMessage /\ b.flags = flags
  <2>1. PeerSeq(r) \in Number
    BY PeerSeqTyped, Zenon
  <2> QED
    BY <1>9, <1>10, <2>1, PeerSegmentTyped
<1>12. PICK n : n = [b EXCEPT !.chunk = k, !.kept = c.kept, !.request = c.request]
  BY Zenon
<1>13. n \in PeerMessage /\ n.flags = flags /\ n.chunk = k
  <2>1. PICK b1 : b1 = [b EXCEPT !.chunk = k]
    BY Zenon
  <2>2. b1 \in PeerMessage /\ b1.flags = b.flags /\ b1.chunk = k
    BY <1>3, <1>11, <2>1, SMT DEF PeerMessage
  <2>3. PICK kept \in Nat, request \in BOOLEAN : kept = c.kept /\ request = c.request
    BY SMT DEF Chunk
  <2>4. PICK b2 : b2 = [b1 EXCEPT !.kept = kept]
    BY Zenon
  <2>5. b2 \in PeerMessage /\ b2.flags = b1.flags /\ b2.chunk = b1.chunk
    BY <2>2, <2>3, <2>4, SMT DEF PeerMessage
  <2>6. n = [b2 EXCEPT !.request = request]
    BY <1>12, <2>1, <2>3, <2>4
  <2>7. n \in PeerMessage /\ n.flags = b2.flags /\ n.chunk = b2.chunk
    BY <2>5, <2>6, SMT DEF PeerMessage
  <2> QED
    BY <1>11, <2>2, <2>5, <2>7
<1>14. PICK out : out = <<n>>
  BY Zenon
<1>15. out \in Seq(PeerMessage) /\ toUs' = [toUs EXCEPT ![r] = Put(@, out)]
  <2>1. toUs' = [toUs EXCEPT ![r] = Put(@, <<n>>)]
    BY <1>1, <1>3, <1>4, <1>8, <1>10, <1>12, Zenon DEF PeerSends, Says
  <2> QED
    BY <1>13, <1>14, <2>1, OneSegment, Zenon
<1>16. Lone(out, flags, p.sent)
  BY <1>6, <1>13, <1>14, Zenon DEF Lone
<1>17. Goes(r, p, out)
  <2>1. p.sent = peers[r].sent + 1 /\ p.sent \in 1..Len(Stream[r])
    BY <1>1, <1>3, <1>6
  <2> QED
    BY <1>1, <1>2, <1>6, <1>9, <1>16, <2>1, Zenon DEF Goes
<1>18. WireShrinks /\ Mine(r)
  BY PeersKept, Zenon DEF PeerSends, Known
<1> QED
  BY <1>6, <1>7, <1>15, <1>17, <1>18, Zenon DEF PeerMoves

LEMMA PeerClosesMoves ==
  ASSUME Known, NEW r \in Remotes, PeerCloses(r)
  PROVE  \E p, out : PeerMoves(r, p, out)
<1>1. PICK p : p = [peers[r] EXCEPT !.state = "finished"]
  BY Zenon
<1>2. p \in PeerRecord /\ p.state = "finished" /\ p.sent = peers[r].sent
  <2>1. "finished" \in {"connecting", "open", "finished", "done", "aborted"}
    BY Zenon
  <2> QED
    BY <1>1, <2>1, PeerBecomes
<1>3. PICK seq \in Number : seq = PeerSeq(r)
  BY PeerSeqTyped, Zenon
<1>4. PICK out : out = <<PeerSegment(r, {"FIN", "ACK"}, seq)>>
  BY Zenon
<1>5. out \in Seq(PeerMessage) /\ \A n \in Range(out) : n.chunk = 0
  BY <1>4, FlagSets, SaysOne
<1>6. /\ peers' = [peers EXCEPT ![r] = p] /\ toUs' = [toUs EXCEPT ![r] = Put(@, out)]
      /\ Mine(r) /\ toPeers' = toPeers /\ peers[r].state = "open"
      /\ peers[r].sent = Len(Stream[r])
  BY <1>1, <1>3, <1>4, Zenon DEF PeerCloses, Becomes, Says
<1>7. WireShrinks
  BY <1>6, PeersKept, Zenon DEF Known
<1>8. Goes(r, p, out)
  BY <1>2, <1>5, <1>6, Zenon DEF Goes
<1> QED
  BY <1>2, <1>5, <1>6, <1>7, <1>8, Zenon DEF PeerMoves

LEMMA PeerAbortsMoves ==
  ASSUME Known, NEW r \in Remotes, PeerAborts(r)
  PROVE  \E p, out : PeerMoves(r, p, out)
<1>1. PICK p : p = [peers[r] EXCEPT !.state = "aborted"]
  BY Zenon
<1>2. p \in PeerRecord /\ p.state = "aborted" /\ p.sent = peers[r].sent
  <2>1. "aborted" \in {"connecting", "open", "finished", "done", "aborted"}
    BY Zenon
  <2> QED
    BY <1>1, <2>1, PeerBecomes
<1>3. PICK seq \in Number : seq = PeerSeq(r)
  BY PeerSeqTyped, Zenon
<1>4. PICK out : out = <<PeerSegment(r, {"RST"}, seq)>>
  BY Zenon
<1>5. out \in Seq(PeerMessage)
  BY <1>4, FlagSets, SaysOne, Zenon
<1>6. /\ peers' = [peers EXCEPT ![r] = p] /\ toUs' = [toUs EXCEPT ![r] = Put(@, out)]
      /\ Mine(r) /\ toPeers' = toPeers /\ ~Reliable
  BY <1>1, <1>3, <1>4, Zenon DEF PeerAborts, Becomes, Says
<1>7. WireShrinks
  BY <1>6, PeersKept, Zenon DEF Known
<1>8. peers[r].state # "closed"
  BY SMT DEF PeerAborts
<1>9. Goes(r, p, out)
  BY <1>2, <1>6, <1>8, Zenon DEF Goes
<1> QED
  BY <1>2, <1>5, <1>6, <1>7, <1>9, Zenon DEF PeerMoves

LEMMA PeerTakesMoves ==
  ASSUME Known, NEW r \in Remotes, PeerTakes(r)
  PROVE  \E p, out : PeerMoves(r, p, out)
<1>1. PICK m \in OnWire(toPeers[r]) :
        /\ Arrives(toPeers[r], m)
        /\ \/ \E state, out : Takes(r, m, state, out) /\ Becomes(r, state) /\ Says(r, out)
           \/ Opens(r, m)
           \/ "RST" \in m.flags /\ peers[r].state # "closed" /\ Becomes(r, "aborted") /\ toUs' = toUs
           \/ Reliable /\ m.flags = {"ACK"} /\ peers' = peers /\ toUs' = toUs
  BY PeerTakesCases, Zenon
<1>2. Mine(r) /\ toPeers' = [toPeers EXCEPT ![r] = Taken(@)]
  BY Zenon DEF PeerTakes
<1>3. m \in OwnMessage /\ WireShrinks
  BY <1>1, <1>2, PeersTaken, Zenon DEF Known
<1>4. PICK none : none = <<>>
  BY Zenon
<1>5. none \in Seq(PeerMessage)
  BY <1>4, NoSegment, Zenon
<1>6. CASE \E state, out : Takes(r, m, state, out) /\ Becomes(r, state) /\ Says(r, out)
  <2>1. PICK state, out : Takes(r, m, state, out) /\ Becomes(r, state) /\ Says(r, out)
    BY <1>6, Zenon
  <2>2. PICK seq \in Number, first \in Number : seq = PeerSeq(r) /\ first = Plus(PeerISN, 1)
    BY PeerSeqTyped, PlusTyped, TCPAssumption, SMT
  <2>3. PICK p : p = [peers[r] EXCEPT !.state = state]
    BY Zenon
  <2>4. state \in {"connecting", "open", "finished", "done", "aborted"}
    BY <2>1, Zenon DEF Takes
  <2>5. p \in PeerRecord /\ p.state = state /\ p.sent = peers[r].sent
    BY <2>3, <2>4, PeerBecomes
  <2>6. peers' = [peers EXCEPT ![r] = p] /\ toUs' = [toUs EXCEPT ![r] = Put(@, out)]
    BY <2>1, <2>3, Zenon DEF Becomes, Says
  <2>7. out \in Seq(PeerMessage) /\ Goes(r, p, out)
    <3>1. CASE /\ "SYN" \in m.flags /\ peers[r].state = "connecting" /\ state = "open"
               /\ out = <<PeerSegment(r, {"ACK"}, first)>>
      <4>1. Lone(out, {"ACK"}, 0) /\ out \in Seq(PeerMessage)
        BY <3>1, FlagSets, SaysOne, Zenon
      <4> QED
        BY <2>5, <3>1, <4>1, Zenon DEF Goes
    <3>2. CASE /\ "FIN" \in m.flags /\ peers[r].state = "open" /\ state = "done"
               /\ out = <<PeerSegment(r, {"ACK"}, seq), PeerSegment(r, {"FIN", "ACK"}, seq)>>
      <4>1. PICK a : a = PeerSegment(r, {"ACK"}, seq)
        BY Zenon
      <4>2. PICK f : f = PeerSegment(r, {"FIN", "ACK"}, seq)
        BY Zenon
      <4>3. a \in PeerMessage /\ a.chunk = 0 /\ f \in PeerMessage /\ f.chunk = 0
        <5>1. a \in PeerMessage /\ a.chunk = 0
          BY <4>1, FlagSets, PeerSegmentTyped
        <5>2. f \in PeerMessage /\ f.chunk = 0
          BY <4>2, FlagSets, PeerSegmentTyped
        <5> QED
          BY <5>1, <5>2
      <4>4. out = <<a, f>>
        BY <3>2, <4>1, <4>2
      <4>5. <<a, f>> \in Seq(PeerMessage) /\ Range(<<a, f>>) = {a, f}
        BY <4>3, TwoSegments
      <4>6. \A n \in Range(out) : n.chunk = 0
        BY <4>3, <4>4, <4>5, Zenon
      <4>7. SomeFin(OnWire(toPeers[r]))
        BY <3>2, Zenon DEF SomeFin
      <4> QED
        BY <2>5, <3>2, <4>4, <4>5, <4>6, <4>7, Zenon DEF Goes
    <3>3. CASE /\ peers[r].state \in {"open", "finished"} /\ state \in {"open", "finished", "done"}
               /\ out = <<PeerSegment(r, {"ACK"}, seq)>>
      <4>1. out \in Seq(PeerMessage) /\ \A n \in Range(out) : n.flags = {"ACK"} /\ n.chunk = 0
        <5>1. PICK flags \in SUBSET Flags : flags = {"ACK"}
          BY FlagSets, Zenon
        <5>2. out = <<PeerSegment(r, flags, seq)>>
          BY <3>3, <5>1, Zenon
        <5>3. out \in Seq(PeerMessage)
          BY <5>2, SaysOne, Zenon
        <5>4. \A n \in Range(out) : n.flags = flags /\ n.chunk = 0
          BY <5>2, SaysOne
        <5> QED
          BY <5>1, <5>3, <5>4, Zenon
      <4>2. "FIN" \notin {"ACK"}
        BY SMT
      <4>3. ~SomeFin(Range(out))
        BY <4>1, <4>2, Zenon DEF SomeFin
      <4> QED
        BY <2>5, <3>3, <4>1, <4>3, Zenon DEF Goes
    <3> QED
      BY <2>1, <2>2, <3>1, <3>2, <3>3, Zenon DEF Takes
  <2> QED
    BY <1>2, <1>3, <2>5, <2>6, <2>7, Zenon DEF PeerMoves
<1>7. CASE Opens(r, m)
  <2>1. PICK o \in PeerRecord : o = peers[r] /\ o.state = "closed"
    BY <1>7, Zenon DEF Opens, Known, Typed, PeerRecord
  <2>2. m.port \in Nat
    BY <1>3, SMT DEF OwnMessage
  <2>3. PICK a : a = [o EXCEPT !.state = "open"]
    BY Zenon
  <2>4. a \in PeerRecord /\ a.state = "open" /\ a.sent = o.sent
    BY <2>3, SMT DEF PeerRecord
  <2>5. PICK p : p = [a EXCEPT !.port = m.port]
    BY Zenon
  <2>6. p \in PeerRecord /\ p.state = "open" /\ p.sent = o.sent
    BY <2>2, <2>4, <2>5, SMT DEF PeerRecord
  <2>7. peers' = [peers EXCEPT ![r] = p]
    <3>1. p = [o EXCEPT !.state = "open", !.port = m.port]
      BY <2>3, <2>5
    <3> QED
      BY <1>7, <2>1, <3>1, Zenon DEF Opens
  <2>8. PICK seq \in Number : seq = PeerISN
    BY TCPAssumption, Zenon DEF Number
  <2>9. PICK b : b = PeerSegment(r, {"SYN", "ACK"}, seq)
    BY Zenon
  <2>10. b \in PeerMessage /\ b.flags = {"SYN", "ACK"} /\ b.chunk = 0
    BY <2>9, FlagSets, PeerSegmentTyped
  <2>11. PICK n : n = [b EXCEPT !.port = m.port]
    BY Zenon
  <2>12. n \in PeerMessage /\ n.flags = b.flags /\ n.chunk = b.chunk
    BY <2>2, <2>10, <2>11, SMT DEF PeerMessage
  <2>13. PICK out : out = <<n>>
    BY Zenon
  <2>14. out \in Seq(PeerMessage) /\ toUs' = [toUs EXCEPT ![r] = Put(@, out)]
    <3>1. toUs' = [toUs EXCEPT ![r] = Put(@, <<n>>)]
      BY <1>7, <2>8, <2>9, <2>11, Zenon DEF Opens
    <3> QED
      BY <2>12, <2>13, <3>1, OneSegment, Zenon
  <2>15. Lone(out, {"SYN", "ACK"}, 0)
    BY <2>10, <2>12, <2>13 DEF Lone
  <2>16. Goes(r, p, out)
    BY <2>1, <2>6, <2>15, Zenon DEF Goes
  <2> QED
    BY <1>2, <1>3, <2>6, <2>7, <2>14, <2>16, Zenon DEF PeerMoves
<1>8. ASSUME toUs' = toUs, NEW p \in PeerRecord, peers' = [peers EXCEPT ![r] = p],
             p.state = peers[r].state \/ (p.state = "aborted" /\ peers[r].state # "closed"),
             p.sent = peers[r].sent
      PROVE  PeerMoves(r, p, none)
  <2>1. toUs' = [toUs EXCEPT ![r] = Put(@, none)]
    BY <1>4, <1>8, SaysNothing, Zenon DEF Known
  <2>2. Goes(r, p, none)
    BY <1>4, <1>8, Zenon DEF Goes
  <2> QED
    BY <1>2, <1>3, <1>5, <1>8, <2>1, <2>2, Zenon DEF PeerMoves
<1>9. CASE "RST" \in m.flags /\ peers[r].state # "closed" /\ Becomes(r, "aborted") /\ toUs' = toUs
  <2>1. PICK p : p = [peers[r] EXCEPT !.state = "aborted"]
    BY Zenon
  <2>2. p \in PeerRecord /\ p.state = "aborted" /\ p.sent = peers[r].sent
    <3>1. "aborted" \in {"connecting", "open", "finished", "done", "aborted"}
      BY Zenon
    <3> QED
      BY <2>1, <3>1, PeerBecomes
  <2>3. peers' = [peers EXCEPT ![r] = p]
    BY <1>9, <2>1, Zenon DEF Becomes
  <2> QED
    BY <1>8, <1>9, <2>2, <2>3, Zenon
<1>10. CASE Reliable /\ m.flags = {"ACK"} /\ peers' = peers /\ toUs' = toUs
  <2>1. PICK p \in PeerRecord : p = peers[r]
    BY Zenon DEF Known, Typed, PeerRecord
  <2>2. peers' = [peers EXCEPT ![r] = p]
    BY <1>10, <2>1, Zenon DEF Known, Typed
  <2> QED
    BY <1>8, <1>10, <2>1, <2>2, Zenon
<1> QED
  BY <1>1, <1>6, <1>7, <1>9, <1>10

(* All the steps of a remote.                                              *)
LEMMA PeersMove ==
  ASSUME Known, NEW r \in Remotes, Peer(r) \/ PeerAborts(r)
  PROVE  \E p, out : PeerMoves(r, p, out)
BY PeerConnectsMoves, PeerSendsMoves, PeerClosesMoves, PeerAbortsMoves, PeerTakesMoves, Zenon DEF Peer

(* The three kinds of steps. *)
LEMMA StepsMove ==
  ASSUME Known, [Next]_vars
  PROVE  /\ scenario' = scenario
         /\ \/ MainMoves
            \/ \E r \in Remotes : \E m \in OnWire(toUs[r]) : Receive(m, r)
            \/ \E r \in Remotes : \E p, out : PeerMoves(r, p, out)
            \/ UNCHANGED vars
<1>1. CASE UNCHANGED vars
  BY <1>1, Zenon DEF vars
<1>2. CASE Next
  BY <1>2, MainStepsMove, PeersMove, Zenon DEF Next, Step
<1> QED
  BY <1>1, <1>2

(* A remote that has left Before never comes back, and takes nothing back. *)
LEMMA PeerGoesOn ==
  ASSUME Known, NEW r \in Remotes, NEW p, NEW out, PeerMoves(r, p, out), NEW q \in Remotes
  PROVE  /\ peers[q].state \notin Before => peers'[q].state \notin Before
         /\ peers[q].sent <= peers'[q].sent
<1>1. PICK o \in PeerRecord : o = peers[r]
  BY Zenon DEF Known, Typed, PeerRecord
<1>2. /\ o.state \notin Before => p.state \notin Before
      /\ o.sent <= p.sent
  <2>1. o.sent \in Nat
    BY SMT DEF PeerRecord
  <2>2. \/ p.state = o.state \/ o.state = "closed" \/ p.state \in {"open", "finished", "done", "aborted"}
    BY <1>1, Zenon DEF PeerMoves, Goes
  <2>3. p.sent = o.sent \/ p.sent = o.sent + 1
    BY <1>1, Zenon DEF PeerMoves, Goes
  <2>4. o.state = "closed" => o.state \in Before
    BY SMT DEF Before
  <2>5. p.state \in {"open", "finished", "done", "aborted"} => p.state \notin Before
    BY SMT DEF Before
  <2>6. o.sent <= p.sent
    BY <2>1, <2>3, SMT
  <2> QED
    BY <2>2, <2>4, <2>5, <2>6, Zenon
<1>3. CASE q = r
  <2>1. peers'[r] = p
    BY Zenon DEF PeerMoves, Known, Typed
  <2> QED
    BY <1>1, <1>2, <1>3, <2>1, Zenon
<1>4. CASE q # r
  <2>1. peers'[q] = peers[q]
    BY <1>4, Zenon DEF PeerMoves, Known, Typed
  <2>2. peers[q] \in PeerRecord
    BY Zenon DEF Known, Typed, PeerRecord
  <2>3. peers[q].sent <= peers[q].sent
    BY <2>2, SMT DEF PeerRecord
  <2> QED
    BY <2>1, <2>3, Zenon
<1> QED
  BY <1>3, <1>4

(* No step takes back a call, an opened end or a chunk that was sent.      *)
LEMMA AllGoesOn ==
  ASSUME Known, [Next]_vars
  PROVE  /\ calls \subseteq calls'
         /\ \A q \in Remotes : /\ peers[q].state \notin Before => peers'[q].state \notin Before
                               /\ peers[q].sent <= peers'[q].sent
<1>1. ASSUME peers' = peers, NEW q \in Remotes
      PROVE  /\ peers[q].state \notin Before => peers'[q].state \notin Before
             /\ peers[q].sent <= peers'[q].sent
  <2>1. peers[q] \in PeerRecord
    BY Zenon DEF Known, Typed, PeerRecord
  <2>2. peers[q].sent <= peers[q].sent
    BY <2>1, SMT DEF PeerRecord
  <2> QED
    BY <1>1, <2>2, Zenon
<1>2. CASE MainMoves \/ UNCHANGED vars \/ \E r \in Remotes : \E m \in OnWire(toUs[r]) : Receive(m, r)
  <2>1. peers' = peers /\ calls \subseteq calls'
    BY <1>2, ReceiveMoves, Zenon DEF MainMoves, vars
  <2> QED
    BY <1>1, <2>1
<1>3. CASE \E r \in Remotes : \E p, out : PeerMoves(r, p, out)
  <2>1. PICK r \in Remotes : \E p, out : PeerMoves(r, p, out)
    BY <1>3, Zenon
  <2>2. PICK p, out : PeerMoves(r, p, out)
    BY <2>1, Zenon
  <2>3. calls' = calls
    BY <2>2, Zenon DEF PeerMoves, Mine
  <2> QED
    BY <2>2, <2>3, PeerGoesOn, Zenon
<1> QED
  BY <1>2, <1>3, StepsMove, Zenon

(* What a step, whichever it is, does to a socket. *)
LEMMA EachSocket ==
  ASSUME Known, [Next]_vars, NEW i \in Places'
  PROVE  /\ spins => spins'
         /\ \/ Remains(i) \/ Appears(i) \/ Disconnected(i)
            \/ ~spins /\ \E r \in Remotes : \E m \in OnWire(toUs[r]) :
                 m \in PeerMessage /\ Arrives(toUs[r], m) /\ Sent(r, m) /\ Hears(i, m, r)
            \/ \E r \in Remotes : Begins(i, r)
<1>1. CASE MainMoves
  BY <1>1, Zenon DEF MainMoves
<1>2. CASE UNCHANGED vars
  BY <1>2, SocketsRemain, Zenon DEF vars
<1>3. CASE \E r \in Remotes : \E p, out : PeerMoves(r, p, out)
  <2>1. sockets' = sockets /\ delivered' = delivered /\ spins' = spins
    BY <1>3, Zenon DEF PeerMoves, Mine
  <2> QED
    BY <2>1, SocketsRemain, Zenon
<1>4. CASE \E r \in Remotes : \E m \in OnWire(toUs[r]) : Receive(m, r)
  <2>1. PICK r \in Remotes : \E m \in OnWire(toUs[r]) : Receive(m, r)
    BY <1>4, Zenon
  <2>2. PICK m \in OnWire(toUs[r]) : Receive(m, r)
    BY <2>1, Zenon
  <2>3. /\ ~spins /\ m \in PeerMessage /\ Arrives(toUs[r], m) /\ Sent(r, m)
        /\ \/ \E k \in Places : Hears(k, m, r) /\ OthersRemain(k)
           \/ \E k \in Places : Begins(k, r) /\ OthersRemain(k)
           \/ Remains(i)
    BY <2>2, ReceiveMoves, Zenon
  <2> QED
    BY <2>3, Zenon DEF OthersRemain
<1> QED
  BY <1>1, <1>2, <1>3, <1>4, StepsMove, Zenon

-----------------------------------------------------------------------------
(* Who is connected *)

LEMMA ToRemote ==
  ASSUME Known, NEW i \in Places, sockets[i].state # "LISTEN"
  PROVE  sockets[i].remote \in Remotes
BY Zenon DEF Known, PortsTell, HasRemote

(* Every step preserves Mutual: only a SYN/ACK or an ACK of the remote     *)
(* establishes a socket, and a remote sends these behind its opening only. *)
LEMMA MutualStays ==
  ASSUME Known, Mutual, [Next]_vars
  PROVE  Mutual'
<1> SUFFICES ASSUME NEW i \in Places', sockets'[i].state = "ESTABLISHED"
             PROVE  peers'[sockets'[i].remote].state \notin Before
  BY Zenon DEF Mutual
<1>0. /\ "ESTABLISHED" # "LISTEN" /\ "ESTABLISHED" # "SYN_SENT" /\ "ESTABLISHED" # "FIN_WAIT1"
      /\ "ESTABLISHED" # "SYN_RECEIVED" /\ "ESTABLISHED" # "CLOSED" /\ "ESTABLISHED" # "CLOSE_WAIT"
      /\ {"SYN"} # {"SYN", "ACK"} /\ {"SYN"} \notin {{"ACK"}, {"ACK", "PSH"}}
  BY SMT
<1>1. \A q \in Remotes : peers[q].state \notin Before => peers'[q].state \notin Before
  BY AllGoesOn, Zenon
<1>2. ASSUME i \in Places, sockets[i].state = "ESTABLISHED", sockets'[i].remote = sockets[i].remote
      PROVE  peers'[sockets'[i].remote].state \notin Before
  BY <1>0, <1>1, <1>2, ToRemote, Zenon DEF Mutual
<1>3. ASSUME NEW r \in Remotes, NEW m, Sent(r, m), Hears(i, m, r)
      PROVE  peers'[sockets'[i].remote].state \notin Before
  <2>1. CASE m.flags # {"SYN"}
    BY <1>1, <1>3, <2>1, Zenon DEF Sent, Hears
  <2>2. CASE m.flags = {"SYN"}
    <3>1. sockets'[i] = sockets[i]
      <4>1. m.flags # {"SYN", "ACK"} /\ "FIN" \notin m.flags /\ m.flags \notin {{"ACK"}, {"ACK", "PSH"}}
            /\ m.flags # {"ACK", "PSH"}
        BY <2>2, SMT
      <4> QED
        BY <1>0, <1>3, <4>1, Zenon DEF Hears, Moved, Brought
    <3> QED
      BY <1>2, <1>3, <3>1, Zenon DEF Hears
  <2> QED
    BY <2>1, <2>2
<1>4. CASE Remains(i)
  BY <1>2, <1>4, Zenon DEF Remains
<1> QED
  BY <1>0, <1>3, <1>4, EachSocket, Zenon DEF Appears, Disconnected, Begins

(* A socket of the list has a place.                                       *)
LEMMA InPlace ==
  ASSUME Known, NEW s \in Range(sockets)
  PROVE  \E i \in Places : s = sockets[i]
<1>1. sockets \in Seq(Socket)
  BY Zenon DEF Known, Typed
<1>2. Range(sockets) = {sockets[i] : i \in 1..Len(sockets)}
  BY <1>1, RangeEquality, ZenonT(40)
<1> QED
  BY <1>2, Zenon DEF Places

(* There is no socket in the beginning.                                    *)
LEMMA NoSockets ==
  ASSUME Init
  PROVE  Places = {}
<1>1. sockets = <<>>
  BY Zenon DEF Init
<1> QED
  BY <1>1, SMT DEF Places

(* A socket is established only with a remote that opened its end, on any  *)
(* wire and however the calls of kernelMain and the segments interleave.   *)
THEOREM EstablishedMutually == Spec => []EstablishedIsMutual
<1>1. Init => Mutual
  BY NoSockets, Zenon DEF Mutual
<1>2. Known /\ Mutual /\ [Next]_vars => Mutual'
  BY MutualStays
<1>3. Known /\ Mutual => EstablishedIsMutual
  <2> SUFFICES ASSUME Known, Mutual, NEW s \in Range(sockets), s.state = "ESTABLISHED"
               PROVE  peers[s.remote].state \notin {"closed", "connecting"}
    BY Zenon DEF EstablishedIsMutual
  <2>1. PICK i \in Places : s = sockets[i]
    BY InPlace
  <2> QED
    BY <2>1, Zenon DEF Mutual, Before
<1> QED
  BY <1>1, <1>2, <1>3, AlwaysKnown, PTL DEF Spec

-----------------------------------------------------------------------------
(* A queue *)

LEMMA Queued ==
  ASSUME Reliable, NEW M, NEW q, Carries(q, M), NEW out \in Seq(M)
  PROVE  /\ q \in Seq(M) /\ Put(q, out) \in Seq(M) /\ Len(Put(q, out)) = Len(q) + Len(out)
         /\ Len(q) \in Nat /\ Len(out) \in Nat
         /\ \A a \in 1..Len(q) : Put(q, out)[a] = q[a]
         /\ \A a \in 1..Len(out) : Put(q, out)[Len(q) + a] = out[a]
         /\ \A a \in 1..Len(Put(q, out)) : a \in 1..Len(q) \/ \E b \in 1..Len(out) : a = Len(q) + b
<1>1. q \in Seq(M) /\ Put(q, out) = q \o out
  BY Zenon DEF Carries, Put
<1>2. Len(q) \in Nat /\ Len(out) \in Nat
  BY <1>1, LenProperties, Zenon
<1>3. /\ q \o out \in Seq(M) /\ Len(q \o out) = Len(q) + Len(out)
      /\ \A a \in 1..Len(q) + Len(out) : (q \o out)[a] = IF a <= Len(q) THEN q[a] ELSE out[a - Len(q)]
  BY <1>1, ConcatProperties, ZenonT(40)
<1>4. ASSUME NEW a \in 1..Len(q)
      PROVE  (q \o out)[a] = q[a]
  <2>1. a \in 1..Len(q) + Len(out) /\ a <= Len(q)
    BY <1>2, SMT
  <2> QED
    BY <1>3, <2>1, Zenon
<1>5. ASSUME NEW a \in 1..Len(out)
      PROVE  (q \o out)[Len(q) + a] = out[a]
  <2>1. Len(q) + a \in 1..Len(q) + Len(out) /\ ~(Len(q) + a <= Len(q)) /\ (Len(q) + a) - Len(q) = a
    BY <1>2, SMT
  <2> QED
    BY <1>3, <2>1, Zenon
<1>6. ASSUME NEW a \in 1..(Len(q) + Len(out))
      PROVE  a \in 1..Len(q) \/ \E b \in 1..Len(out) : a = Len(q) + b
  <2>1. CASE a <= Len(q)
    BY <1>2, <2>1, SMT
  <2>2. CASE a > Len(q)
    <3>1. PICK b \in Int : b = a - Len(q)
      BY <1>2, SMT
    <3>2. b \in 1..Len(out) /\ a = Len(q) + b
      BY <1>2, <2>2, <3>1, SMT
    <3> QED
      BY <3>2, Zenon
  <2> QED
    BY <1>2, <2>1, <2>2, SMT
<1> QED
  BY <1>1, <1>2, <1>3, <1>4, <1>5, <1>6, Zenon

(* The first of a queue.                                                   *)
LEMMA HeadIsFirst ==
  ASSUME NEW M, NEW q \in Seq(M)
  PROVE  /\ q # <<>> => Head(q) = q[1] /\ 1 \in 1..Len(q)
         /\ Len(q) \in Nat /\ (q = <<>> <=> Len(q) = 0)
         /\ Range(q) = {q[a] : a \in 1..Len(q)}
<1>1. Len(q) \in Nat /\ (q = <<>> <=> Len(q) = 0)
  BY EmptySeq, LenProperties, SMT
<1>2. q # <<>> => 1 \in 1..Len(q)
  BY <1>1, SMT
<1>3. q # <<>> => Head(q) = q[1]
  BY SMT
<1> QED
  BY <1>1, <1>2, <1>3, RangeEquality, ZenonT(40)

(* Put leaves the first of a queue, or makes it.                           *)
LEMMA HeadPut ==
  ASSUME Reliable, NEW M, NEW q, Carries(q, M), NEW out \in Seq(M)
  PROVE  /\ q = <<>> => Put(q, out) = out
         /\ q # <<>> => Put(q, out) # <<>> /\ Head(Put(q, out)) = Head(q)
<1>1. q \in Seq(M) /\ Put(q, out) = q \o out
  BY Zenon DEF Carries, Put
<1>2. q = <<>> => q \o out = out
  BY ConcatEmptySeq, Zenon
<1>3. ASSUME q # <<>>
      PROVE  Put(q, out) # <<>> /\ Head(Put(q, out)) = Head(q)
  <2>1. /\ Put(q, out) \in Seq(M) /\ Len(Put(q, out)) = Len(q) + Len(out)
        /\ Len(q) \in Nat /\ Len(out) \in Nat /\ \A a \in 1..Len(q) : Put(q, out)[a] = q[a]
    BY Queued
  <2>2. Head(q) = q[1] /\ 1 \in 1..Len(q) /\ Len(q) # 0
    BY <1>1, <1>3, HeadIsFirst, Zenon
  <2>3. /\ Put(q, out) \in Seq(M) /\ Len(Put(q, out)) = Len(q) + Len(out)
        /\ Len(q) \in Nat /\ Len(out) \in Nat /\ Put(q, out)[1] = q[1] /\ Head(q) = q[1] /\ Len(q) # 0
    BY <2>1, <2>2
  <2>4. Len(Put(q, out)) # 0
    BY <2>3, SMT
  <2>5. Put(q, out) # <<>>
    BY <2>3, <2>4, HeadIsFirst, Zenon
  <2> QED
    BY <2>3, <2>5, HeadIsFirst, Zenon
<1> QED
  BY <1>1, <1>2, <1>3, Zenon

(* A single segment is the first.                                          *)
LEMMA LoneHead ==
  ASSUME NEW out, NEW flags, NEW chunk, Lone(out, flags, chunk)
  PROVE  /\ out # <<>> /\ Len(out) = 1 /\ out \in Seq(PeerMessage)
         /\ Head(out) = out[1] /\ out[1].flags = flags /\ out[1].chunk = chunk
<1>1. PICK n \in PeerMessage : out = <<n>> /\ n.flags = flags /\ n.chunk = chunk
  BY Zenon DEF Lone
<1>2. <<n>> # <<>> /\ Len(<<n>>) = 1 /\ Head(<<n>>) = n /\ <<n>>[1] = n /\ <<n>> \in Seq(PeerMessage)
  BY SMT
<1> QED
  BY <1>1, <1>2, Zenon

(* An empty wire is an empty queue.                                        *)
LEMMA SaidNothing ==
  ASSUME Reliable, Known, NEW r \in Remotes, OnWire(toUs[r]) = {}
  PROVE  toUs[r] = <<>>
<1>1. toUs[r] \in Seq(PeerMessage) /\ Range(toUs[r]) = {}
  BY Zenon DEF Known, Typed, Carries, OnWire
<1>2. Range(toUs[r]) = {toUs[r][a] : a \in 1..Len(toUs[r])}
  BY <1>1, HeadIsFirst, Zenon
<1> QED
  BY <1>1, <1>2, HeadIsFirst, Zenon

(* What a step of a remote leaves alone.                                   *)
LEMMA PeerMoved ==
  ASSUME Known, NEW r \in Remotes, NEW p, NEW out, PeerMoves(r, p, out)
  PROVE  /\ peers'[r] = p /\ toUs'[r] = Put(toUs[r], out)
         /\ \A q \in Remotes : q # r => peers'[q] = peers[q] /\ toUs'[q] = toUs[q]
         /\ Carries(toUs[r], PeerMessage) /\ out \in Seq(PeerMessage)
         /\ sockets' = sockets /\ delivered' = delivered /\ Places' = Places /\ spins' = spins
         /\ calls' = calls
BY Zenon DEF PeerMoves, Known, Typed, Mine, Places

(* What taking a segment leaves alone.                                     *)
LEMMA SegmentTaken ==
  ASSUME Known, NEW r \in Remotes, NEW m, Arrives(toUs[r], m), toUs' = [toUs EXCEPT ![r] = Taken(@)]
  PROVE  /\ toUs'[r] = Taken(toUs[r]) /\ \A q \in Remotes : q # r => toUs'[q] = toUs[q]
         /\ Reliable => /\ toUs[r] \in Seq(PeerMessage) /\ toUs[r] # <<>> /\ m = toUs[r][1]
                        /\ m = Head(toUs[r])
                        /\ toUs'[r] \in Seq(PeerMessage) /\ Len(toUs'[r]) = Len(toUs[r]) - 1
                        /\ \A a \in 1..Len(toUs'[r]) : toUs'[r][a] = toUs[r][a + 1]
<1>1. toUs'[r] = Taken(toUs[r]) /\ \A q \in Remotes : q # r => toUs'[q] = toUs[q]
  BY Zenon DEF Known, Typed
<1>2. Carries(toUs[r], PeerMessage)
  BY Zenon DEF Known, Typed
<1>3. /\ Carries(Taken(toUs[r]), PeerMessage)
      /\ Reliable => /\ toUs[r] # <<>> /\ m = toUs[r][1] /\ m = Head(toUs[r])
                     /\ Len(Taken(toUs[r])) = Len(toUs[r]) - 1
                     /\ \A a \in 1..Len(Taken(toUs[r])) : Taken(toUs[r])[a] = toUs[r][a + 1]
  BY <1>2, TakenFromWire, ZenonT(40)
<1>4. Reliable => toUs[r] \in Seq(PeerMessage) /\ Taken(toUs[r]) \in Seq(PeerMessage)
  BY <1>2, <1>3, Zenon DEF Carries
<1> QED
  BY <1>1, <1>3, <1>4

-----------------------------------------------------------------------------
(* On a wire that keeps order, the handshake comes first *)

(* What the queue q of a remote that has come to state begins with. *)
Greets(i, q, state) ==
  /\ sockets[i].state = "SYN_SENT" =>
       IF q = <<>> THEN state = "closed" ELSE Head(q).flags = {"SYN", "ACK"}
  /\ sockets[i].state = "SYN_RECEIVED" =>
       IF q = <<>> THEN state \in {"connecting", "aborted"}
       ELSE Head(q).flags = {"ACK"} /\ Head(q).chunk = 0

(* A remote that connects has sent its SYN and nothing else.               *)
OneGreeting == \A r \in Remotes : peers[r].state = "connecting" => Len(toUs[r]) <= 1

AllGreet == \A i \in Places : Greets(i, toUs[sockets[i].remote], peers[sockets[i].remote].state)

(* On a wire that keeps order, what a socket is opened with is the first   *)
(* segment it is sent.                                                     *)
HandshakeFirst == Reliable => OneGreeting /\ AllGreet

(* A socket that remains, with a remote that remains, is greeted as        *)
(* before.                                                                 *)
LEMMA GreetsSame ==
  ASSUME AllGreet, NEW i, Remains(i),
         \/ sockets[i].state \notin {"SYN_SENT", "SYN_RECEIVED"}
         \/ /\ toUs'[sockets[i].remote] = toUs[sockets[i].remote]
            /\ peers'[sockets[i].remote] = peers[sockets[i].remote]
  PROVE  Greets(i, toUs[sockets[i].remote], peers[sockets[i].remote].state)'
<1>1. i \in Places /\ sockets'[i].state = sockets[i].state /\ sockets'[i].remote = sockets[i].remote
  BY Zenon DEF Remains
<1>2. Greets(i, toUs[sockets[i].remote], peers[sockets[i].remote].state)
  BY <1>1, Zenon DEF AllGreet
<1> QED
  BY <1>1, <1>2, Zenon DEF Greets

(* kernelMain preserves the order of the handshake.                        *)
LEMMA HandshakeMain ==
  ASSUME Known, Reliable, scenario' = scenario, OneGreeting, AllGreet, MainMoves
  PROVE  OneGreeting' /\ AllGreet'
<1>1. toUs' = toUs /\ peers' = peers
  BY Zenon DEF MainMoves
<1>2. OneGreeting'
  BY <1>1, Zenon DEF OneGreeting
<1>3. ASSUME NEW i \in Places'
      PROVE  Greets(i, toUs[sockets[i].remote], peers[sockets[i].remote].state)'
  <2>1. CASE Remains(i)
    BY <1>1, <2>1, GreetsSame, Zenon
  <2>2. CASE Disconnected(i)
    <3>1. "FIN_WAIT1" # "SYN_SENT" /\ "FIN_WAIT1" # "SYN_RECEIVED"
      BY SMT
    <3> QED
      BY <2>2, <3>1, Zenon DEF Disconnected, Greets
  <2>3. CASE Appears(i)
    <3>1. "LISTEN" # "SYN_SENT" /\ "LISTEN" # "SYN_RECEIVED" /\ "SYN_SENT" # "SYN_RECEIVED"
      BY SMT
    <3>2. CASE sockets'[i].state = "LISTEN"
      BY <3>1, <3>2, Zenon DEF Greets
    <3>3. CASE sockets'[i].state = "SYN_SENT"
      <4>1. sockets'[i].remote \in Remotes /\ peers[sockets'[i].remote].state = "closed"
        BY <2>3, <3>1, <3>3, Zenon DEF Appears, Remotes
      <4>2. toUs[sockets'[i].remote] = <<>>
        BY <4>1, ClosedSaysNothing, SaidNothing, Zenon
      <4> QED
        BY <1>1, <3>1, <3>3, <4>1, <4>2, Zenon DEF Greets
    <3> QED
      BY <2>3, <3>2, <3>3, Zenon DEF Appears
  <2> QED
    BY <2>1, <2>2, <2>3, Zenon DEF MainMoves
<1> QED
  BY <1>2, <1>3, Zenon DEF AllGreet

(* The head of the queue that a socket waits for is not ignored. *)
LEMMA HandshakeHeard ==
  ASSUME Known, Reliable, AllGreet, NEW r \in Remotes, NEW m, m = Head(toUs[r]), toUs[r] # <<>>,
         NEW i, Hears(i, m, r)
  PROVE  sockets'[i].state \notin {"SYN_SENT", "SYN_RECEIVED"}
<1>1. /\ sockets[i].state = "SYN_SENT" => m.flags = {"SYN", "ACK"}
      /\ sockets[i].state = "SYN_RECEIVED" => m.flags = {"ACK"}
  BY Zenon DEF AllGreet, Greets, Hears
<1>2. /\ "SYN" \in {"SYN", "ACK"} /\ "SYN" \notin {"ACK", "PSH"}
      /\ "SYN_SENT" # "SYN_RECEIVED"
      /\ \A x \in {"CLOSED", "ESTABLISHED", "CLOSE_WAIT", "FIN_WAIT1", "FIN_WAIT2"} :
           x \notin {"SYN_SENT", "SYN_RECEIVED"}
  BY SMT
<1>3. CASE Moved(m, sockets[i], sockets'[i])
  <2>1. CASE sockets'[i] = sockets[i] /\ ~Awaited(m, sockets[i])
    BY <1>1, <2>1, Zenon DEF Awaited
  <2>2. CASE sockets'[i].state \in {"CLOSED", "ESTABLISHED", "CLOSE_WAIT", "FIN_WAIT1", "FIN_WAIT2"}
    BY <1>2, <2>2, Zenon
  <2> QED
    BY <1>3, <2>1, <2>2, Zenon DEF Moved
<1>4. CASE Brought(m, r, i, sockets[i], sockets'[i])
  <2>1. sockets[i].state # "SYN_SENT"
    BY <1>1, <1>2, <1>4, Zenon DEF Brought
  <2>2. sockets'[i].state \in {"ESTABLISHED", "FIN_WAIT1", "FIN_WAIT2"}
    BY <1>4, <2>1, Zenon DEF Brought
  <2> QED
    BY <1>2, <2>2, Zenon
<1> QED
  BY <1>3, <1>4, Zenon DEF Hears

(* So does a segment that is handled.                                      *)
LEMMA HandshakeReceives ==
  ASSUME Known, Reliable, scenario' = scenario, OneGreeting, AllGreet,
         NEW r \in Remotes, NEW m, Receive(m, r)
  PROVE  OneGreeting' /\ AllGreet'
<1>1. /\ peers' = peers /\ Arrives(toUs[r], m) /\ toUs' = [toUs EXCEPT ![r] = Taken(@)]
      /\ \/ \E i \in Places : Hears(i, m, r) /\ OthersRemain(i)
         \/ \E i \in Places : Begins(i, r) /\ OthersRemain(i)
         \/ /\ \A i \in Places' : Remains(i)
            /\ \A i \in Places : HasRemote(i) => sockets[i].remote # r
  BY ReceiveMoves, Zenon
<1>2. /\ \A q \in Remotes : q # r => toUs'[q] = toUs[q]
      /\ toUs[r] \in Seq(PeerMessage) /\ toUs[r] # <<>> /\ m = Head(toUs[r])
      /\ toUs'[r] \in Seq(PeerMessage) /\ Len(toUs'[r]) = Len(toUs[r]) - 1
  BY <1>1, SegmentTaken, Zenon
<1>3. OneGreeting'
  <2>1. Len(toUs[r]) \in Nat
    BY <1>2, LenProperties, Zenon
  <2>2. Len(toUs[r]) <= 1 => Len(toUs'[r]) <= 1
    BY <1>2, <2>1, SMT
  <2> QED
    BY <1>1, <1>2, <2>2, Zenon DEF OneGreeting
<1>4. ASSUME NEW i, Remains(i), HasRemote(i) => sockets[i].remote # r
      PROVE  Greets(i, toUs[sockets[i].remote], peers[sockets[i].remote].state)'
  <2>1. CASE sockets[i].state \in {"SYN_SENT", "SYN_RECEIVED"}
    <3>1. sockets[i].state # "LISTEN" /\ HasRemote(i)
      BY <2>1, SMT DEF HasRemote
    <3>2. sockets[i].remote \in Remotes /\ sockets[i].remote # r
      BY <1>4, <3>1, ToRemote, Zenon DEF Remains
    <3> QED
      BY <1>1, <1>2, <1>4, <3>2, GreetsSame, Zenon
  <2>2. CASE sockets[i].state \notin {"SYN_SENT", "SYN_RECEIVED"}
    BY <1>4, <2>2, GreetsSame, Zenon
  <2> QED
    BY <2>1, <2>2
<1>5. ASSUME NEW k \in Places, Hears(k, m, r), OthersRemain(k)
      PROVE  AllGreet'
  <2>1. Greets(k, toUs[sockets[k].remote], peers[sockets[k].remote].state)'
    BY <1>2, <1>5, HandshakeHeard, Zenon DEF Greets
  <2>2. ASSUME NEW i \in Places, i # k
        PROVE  Greets(i, toUs[sockets[i].remote], peers[sockets[i].remote].state)'
    <3>1. HasRemote(i) => sockets[i].remote # r
      BY <1>5, <2>2, Zenon DEF Hears, Known, OnePerRemote
    <3> QED
      BY <1>4, <1>5, <2>2, <3>1, Zenon DEF OthersRemain
  <2> QED
    BY <1>5, <2>1, <2>2, Zenon DEF AllGreet, OthersRemain
<1>6. ASSUME NEW k \in Places, Begins(k, r), OthersRemain(k)
      PROVE  AllGreet'
  <2>1. Greets(k, toUs[sockets[k].remote], peers[sockets[k].remote].state)'
    <3>1. peers[r].state = "connecting" /\ sockets'[k].state = "SYN_RECEIVED" /\ sockets'[k].remote = r
      BY <1>6, Zenon DEF Begins
    <3>2. Len(toUs[r]) <= 1 /\ Len(toUs[r]) \in Nat /\ Len(toUs'[r]) \in Nat
      BY <1>2, <3>1, LenProperties, Zenon DEF OneGreeting
    <3>3. PICK j \in Nat : j = Len(toUs'[r])
      BY <3>2, Zenon
    <3>4. PICK n \in Nat : n = Len(toUs[r])
      BY <3>2, Zenon
    <3>5. j = n - 1 /\ n <= 1
      BY <1>2, <3>2, <3>3, <3>4, Zenon
    <3>6. j = 0
      BY <3>5, SMT
    <3>7. Len(toUs'[r]) = 0
      BY <3>3, <3>6, Zenon
    <3>8. toUs'[r] = <<>>
      BY <1>2, <3>7, HeadIsFirst, Zenon
    <3>9. "SYN_RECEIVED" # "SYN_SENT"
      BY SMT
    <3> QED
      BY <1>1, <3>1, <3>8, <3>9, Zenon DEF Greets
  <2>2. ASSUME NEW i \in Places, i # k
        PROVE  Greets(i, toUs[sockets[i].remote], peers[sockets[i].remote].state)'
    BY <1>4, <1>6, <2>2, Zenon DEF Begins, OthersRemain
  <2> QED
    BY <1>6, <2>1, <2>2, Zenon DEF AllGreet, OthersRemain
<1>7. ASSUME \A i \in Places' : Remains(i), \A i \in Places : HasRemote(i) => sockets[i].remote # r
      PROVE  AllGreet'
  BY <1>4, <1>7, Zenon DEF AllGreet, Remains
<1> QED
  BY <1>1, <1>3, <1>5, <1>6, <1>7

(* A server says nothing first but its SYN with the acknowledgement, and a *)
(* client nothing behind its SYN but the acknowledgement of ours.          *)
LEMMA PeerGreets ==
  ASSUME Known, Reliable, NEW r \in Remotes, NEW p, NEW out, PeerMoves(r, p, out),
         NEW i, Greets(i, toUs[r], peers[r].state),
         sockets[i].state = "SYN_SENT" => r \in Servers,
         sockets'[i].state = sockets[i].state
  PROVE  Greets(i, toUs[r], peers[r].state)'
<1>0. /\ peers'[r] = p /\ toUs'[r] = Put(toUs[r], out)
      /\ Carries(toUs[r], PeerMessage) /\ out \in Seq(PeerMessage)
  BY PeerMoved
<1>1. CASE sockets[i].state \notin {"SYN_SENT", "SYN_RECEIVED"}
  BY <1>1, Zenon DEF Greets
<1>2. CASE sockets[i].state \in {"SYN_SENT", "SYN_RECEIVED"} /\ toUs[r] # <<>>
  <2>1. Put(toUs[r], out) # <<>> /\ Head(Put(toUs[r], out)) = Head(toUs[r])
    BY <1>0, <1>2, HeadPut
  <2> QED
    BY <1>0, <1>2, <2>1, Zenon DEF Greets
<1>3. CASE sockets[i].state \in {"SYN_SENT", "SYN_RECEIVED"} /\ toUs[r] = <<>>
  <2>0. /\ Put(toUs[r], out) = out /\ "SYN_SENT" # "SYN_RECEIVED"
        /\ "closed" # "connecting" /\ "closed" # "aborted" /\ "connecting" # "aborted"
    <3>1. Put(toUs[r], out) = out
      BY <1>0, <1>3, HeadPut
    <3> QED
      BY <3>1, SMT
  <2>1. CASE sockets[i].state = "SYN_SENT"
    <3>1. peers[r].state = "closed" /\ r \in Servers /\ r \notin Clients
      <4>1. Clients \cap Servers = {}
        BY TCPAssumption, Zenon
      <4> QED
        BY <1>3, <2>1, <4>1, Zenon DEF Greets
    <3>2. \/ Lone(out, {"SYN", "ACK"}, 0)
          \/ p.state = "closed" /\ out = <<>>
      <4>1. /\ "closed" # "open" /\ "closed" # "finished" /\ "closed" # "connecting"
        BY SMT
      <4> QED
        BY <3>1, <4>1, Zenon DEF PeerMoves, Goes
    <3>3. CASE Lone(out, {"SYN", "ACK"}, 0)
      <4>1. out # <<>> /\ Head(out).flags = {"SYN", "ACK"}
        BY <3>3, LoneHead
      <4> QED
        BY <1>0, <2>0, <2>1, <4>1, Zenon DEF Greets
    <3>4. CASE p.state = "closed" /\ out = <<>>
      BY <1>0, <2>0, <2>1, <3>4, Zenon DEF Greets
    <3> QED
      BY <3>2, <3>3, <3>4
  <2>2. CASE sockets[i].state = "SYN_RECEIVED"
    <3>1. peers[r].state \in {"connecting", "aborted"}
      BY <1>3, <2>2, Zenon DEF Greets
    <3>2. \/ Lone(out, {"ACK"}, 0)
          \/ p.state \in {"connecting", "aborted"} /\ out = <<>>
      <4>1. /\ \A x \in {"connecting", "aborted"} : x \notin {"open", "finished", "closed"}
            /\ "aborted" \in {"connecting", "aborted"}
        BY SMT
      <4>2. peers[r].state \notin {"open", "finished", "closed"}
        BY <3>1, <4>1, Zenon
      <4> QED
        BY <3>1, <4>1, <4>2, Zenon DEF PeerMoves, Goes
    <3>3. CASE Lone(out, {"ACK"}, 0)
      <4>1. out # <<>> /\ Head(out).flags = {"ACK"} /\ Head(out).chunk = 0
        BY <3>3, LoneHead
      <4> QED
        BY <1>0, <2>0, <2>2, <4>1, Zenon DEF Greets
    <3>4. CASE p.state \in {"connecting", "aborted"} /\ out = <<>>
      BY <1>0, <2>0, <2>2, <3>4, Zenon DEF Greets
    <3> QED
      BY <3>2, <3>3, <3>4
  <2> QED
    BY <1>3, <2>1, <2>2
<1> QED
  BY <1>1, <1>2, <1>3

(* So does a remote.                                                       *)
LEMMA HandshakePeers ==
  ASSUME Known, AllTold, Reliable, OneGreeting, AllGreet,
         NEW r \in Remotes, NEW p, NEW out, PeerMoves(r, p, out)
  PROVE  OneGreeting' /\ AllGreet'
<1>0. /\ peers'[r] = p /\ toUs'[r] = Put(toUs[r], out)
      /\ \A q \in Remotes : q # r => peers'[q] = peers[q] /\ toUs'[q] = toUs[q]
      /\ Carries(toUs[r], PeerMessage) /\ out \in Seq(PeerMessage)
      /\ sockets' = sockets /\ Places' = Places
  BY PeerMoved
<1>1. ASSUME p.state = "connecting"
      PROVE  Len(toUs'[r]) <= 1
  <2>1. \/ peers[r].state = "closed" /\ Lone(out, {"SYN"}, 0)
        \/ peers[r].state = "connecting" /\ out = <<>>
    <3>1. \A x \in {"open", "finished", "done", "aborted"} : x # "connecting"
      BY SMT
    <3>2. "open" # "connecting" /\ "aborted" # "connecting"
      BY SMT
    <3> QED
      BY <1>1, <3>1, <3>2, Zenon DEF PeerMoves, Goes
  <2>2. CASE peers[r].state = "closed" /\ Lone(out, {"SYN"}, 0)
    <3>1. toUs[r] = <<>>
      BY <2>2, ClosedSaysNothing, SaidNothing, Zenon
    <3>2. Put(toUs[r], out) = out
      BY <1>0, <3>1, HeadPut
    <3>3. Len(out) = 1
      BY <2>2, LoneHead
    <3>4. 1 <= 1
      BY SMT
    <3> QED
      BY <1>0, <3>2, <3>3, <3>4, Zenon
  <2>3. CASE peers[r].state = "connecting" /\ out = <<>>
    <3>1. toUs[r] \in Seq(PeerMessage) /\ toUs'[r] = toUs[r] \o <<>>
      BY <1>0, <2>3, Zenon DEF Carries, Put
    <3>2. toUs'[r] = toUs[r]
      BY <3>1, ConcatEmptySeq, Zenon
    <3> QED
      BY <2>3, <3>2, Zenon DEF OneGreeting
  <2> QED
    BY <2>1, <2>2, <2>3
<1>2. ASSUME NEW i \in Places
      PROVE  Greets(i, toUs[sockets[i].remote], peers[sockets[i].remote].state)'
  <2>0. "SYN_SENT" # "LISTEN" /\ "SYN_RECEIVED" # "LISTEN"
    BY SMT
  <2>1. CASE sockets[i].state \notin {"SYN_SENT", "SYN_RECEIVED"}
    BY <1>0, <2>1, Zenon DEF Greets
  <2>2. CASE sockets[i].state \in {"SYN_SENT", "SYN_RECEIVED"} /\ sockets[i].remote = r
    <3>1. Greets(i, toUs[r], peers[r].state)
      BY <1>2, <2>2, Zenon DEF AllGreet
    <3>2. sockets[i].state = "SYN_SENT" => r \in Servers
      BY <1>2, <2>2, Zenon DEF AllTold, Told
    <3>3. Greets(i, toUs[r], peers[r].state)'
      BY <1>0, <3>1, <3>2, PeerGreets
    <3> QED
      BY <1>0, <2>2, <3>3, Zenon
  <2>3. CASE sockets[i].state \in {"SYN_SENT", "SYN_RECEIVED"} /\ sockets[i].remote # r
    <3>1. sockets[i].remote \in Remotes
      BY <1>2, <2>0, <2>3, ToRemote, Zenon
    <3>2. Greets(i, toUs[sockets[i].remote], peers[sockets[i].remote].state)
      BY <1>2, Zenon DEF AllGreet
    <3>3. /\ peers'[sockets[i].remote] = peers[sockets[i].remote]
          /\ toUs'[sockets[i].remote] = toUs[sockets[i].remote]
      BY <1>0, <2>3, <3>1, Zenon
    <3> QED
      BY <1>0, <3>2, <3>3, Zenon DEF Greets
  <2> QED
    BY <2>1, <2>2, <2>3
<1>3. OneGreeting'
  BY <1>0, <1>1, Zenon DEF OneGreeting
<1> QED
  BY <1>0, <1>2, <1>3, Zenon DEF AllGreet

(* So does every step.                                                     *)
LEMMA HandshakeStays ==
  ASSUME Known, AllTold, HandshakeFirst, [Next]_vars
  PROVE  HandshakeFirst'
<1>1. scenario' = scenario
  BY StepsMove
<1> SUFFICES ASSUME Reliable
             PROVE  OneGreeting' /\ AllGreet'
  BY <1>1, Zenon DEF HandshakeFirst, Reliable
<1>2. OneGreeting /\ AllGreet
  BY Zenon DEF HandshakeFirst
<1>3. CASE UNCHANGED vars
  BY <1>2, <1>3, Zenon DEF OneGreeting, AllGreet, Greets, Places, vars, wire
<1> QED
  BY <1>1, <1>2, <1>3, StepsMove, HandshakeMain, HandshakeReceives, HandshakePeers

-----------------------------------------------------------------------------
(* What a socket was given *)

(* Data is a pushed chunk of the stream, at its number. *)
LEMMA DataIsChunk ==
  ASSUME Known, NEW r \in Remotes, NEW m, Sent(r, m), m.flags = {"ACK", "PSH"}
  PROVE  /\ m.chunk \in 1..Len(Stream[r]) /\ m.chunk \in 1..peers[r].sent
         /\ m.chunk - 1 \in 0..Len(Stream[r])
         /\ Stream[r][m.chunk] \in Chunk /\ Stream[r][m.chunk].push
         /\ m.seq = Behind(r, m.chunk - 1)
         /\ m.kept = Stream[r][m.chunk].kept /\ m.request = Stream[r][m.chunk].request
<1>1. PICK k : k = m.chunk
  BY Zenon
<1>2. k # 0
  <2>1. "PSH" \in {"ACK", "PSH"}
    BY SMT
  <2> QED
    BY <1>1, <2>1, Zenon DEF Sent
<1>3. PICK l \in Nat : l = Len(Stream[r])
  BY StreamTyped, Zenon DEF Known
<1>4. PICK n : n = peers[r].sent /\ n \in 0..l
  BY <1>3, Zenon DEF Known, PeersKnown
<1>5. k \in 0..n
  BY <1>1, <1>4, Zenon DEF Sent
<1>6. k \in 1..l /\ k \in 1..n /\ k - 1 \in 0..l
  BY <1>2, <1>3, <1>4, <1>5, SMT
<1>7. PICK c \in Chunk : c = Stream[r][k]
  BY <1>3, <1>6, StreamTyped, Zenon DEF Known
<1>8. /\ m.flags = {"ACK"} \cup (IF c.push THEN {"PSH"} ELSE {})
      /\ m.seq = Behind(r, k - 1) /\ m.kept = c.kept /\ m.request = c.request
  BY <1>1, <1>2, <1>7, Zenon DEF Sent
<1>9. c.push
  <2>1. "PSH" \in {"ACK", "PSH"} /\ "PSH" \notin {"ACK"} \cup {}
    BY SMT
  <2> QED
    BY <1>8, <2>1, Zenon
<1> QED
  BY <1>1, <1>3, <1>4, <1>6, <1>7, <1>8, <1>9, Zenon

(* The ends of a stream are numbers in their order. *)
LEMMA EndsGoUp ==
  ASSUME Known, NEW r \in Remotes, NEW k \in 1..Len(Stream[r])
  PROVE  /\ 1 + EndOf(Stream[r], k) \in Number /\ k \in Nat /\ Stream[r][k].kept \in Nat
         /\ EndOf(Stream[r], k - 1) \in Nat /\ EndOf(Stream[r], k) \in Nat
         /\ EndOf(Stream[r], k - 1) + Stream[r][k].kept <= EndOf(Stream[r], k)
         /\ \A j \in 0..(k - 1) : /\ 1 + EndOf(Stream[r], j) \in Number
                                  /\ EndOf(Stream[r], j) \in Nat
                                  /\ EndOf(Stream[r], j) < EndOf(Stream[r], k)
<1>1. /\ Stream[r] \in Seq(Chunk) /\ Len(Stream[r]) \in Nat /\ Fits(Stream[r])
      /\ Stream[r][k] \in Chunk
      /\ \A j \in 0..Len(Stream[r]) : EndOf(Stream[r], j) \in Nat
  BY StreamTyped, Zenon DEF Known
<1>2. k \in DOMAIN Stream[r]
  BY <1>1, SMT
<1>3. /\ \A j \in 0..(k - 1) : EndOf(Stream[r], j) < Stream[r][k].end
      /\ EndOf(Stream[r], k - 1) + Stream[r][k].kept <= Stream[r][k].end
      /\ Stream[r][k].end + 1 < SeqSpace
  BY <1>1, <1>2, Zenon DEF Fits
<1>4. k \in Nat /\ k # 0 /\ k \in 0..Len(Stream[r])
  BY <1>1, SMT
<1>5. EndOf(Stream[r], k) = Stream[r][k].end
  BY <1>4, Zenon DEF EndOf
<1>6. PICK e \in Nat : e = EndOf(Stream[r], k)
  BY <1>1, <1>4, Zenon
<1>7. PICK S \in Nat : S = SeqSpace
  BY TCPAssumption, SMT
<1>8. e + 1 < S
  BY <1>3, <1>5, <1>6, <1>7, Zenon
<1>9. 1 + e \in Number
  BY <1>7, <1>8, SMT DEF Number
<1>10. ASSUME NEW j \in 0..(k - 1)
       PROVE  /\ 1 + EndOf(Stream[r], j) \in Number
              /\ EndOf(Stream[r], j) \in Nat
              /\ EndOf(Stream[r], j) < EndOf(Stream[r], k)
  <2>1. j \in 0..Len(Stream[r])
    BY <1>1, <1>4, SMT
  <2>2. PICK d \in Nat : d = EndOf(Stream[r], j)
    BY <1>1, <2>1, Zenon
  <2>3. d < e
    BY <1>3, <1>5, <1>6, <2>2, Zenon
  <2>4. 1 + d \in Number
    BY <1>7, <1>8, <2>3, SMT DEF Number
  <2> QED
    BY <1>6, <2>2, <2>3, <2>4, Zenon
<1>11. EndOf(Stream[r], k - 1) \in Nat
  <2>1. k - 1 \in 0..Len(Stream[r])
    BY <1>1, <1>4, SMT
  <2> QED
    BY <1>1, <2>1, Zenon
<1>12. Stream[r][k].kept \in Nat
  BY <1>1, SMT DEF Chunk
<1> QED
  BY <1>3, <1>4, <1>5, <1>6, <1>9, <1>10, <1>11, <1>12, Zenon

(* Data never reaches a socket that waits for the SYN with the             *)
(* acknowledgement: a wire that keeps order has that first, and on one     *)
(* that does not the numbers differ.                                       *)
LEMMA NotBeforeSynAck ==
  ASSUME Known, AllTold, HandshakeFirst, NotMisled(scenario),
         NEW r \in Remotes, NEW m, Arrives(toUs[r], m), Sent(r, m),
         NEW i, Hears(i, m, r), sockets[i].state = "SYN_SENT"
  PROVE  ~Brought(m, r, i, sockets[i], sockets'[i])
<1> SUFFICES ASSUME m.flags = {"ACK", "PSH"}, InOrder(m, sockets[i])
             PROVE  FALSE
  BY Zenon DEF Brought
<1>1. i \in Places /\ sockets[i].remote = r
  BY Zenon DEF Hears
<1>2. r \in Servers /\ m.seq \in {PeerISN, OwnISN}
  BY <1>1, Zenon DEF AllTold, Told, InOrder
<1>3. CASE Reliable
  <2>1. toUs[r] # <<>>
    <3>1. m \in Range(toUs[r])
      BY <1>3, Zenon DEF Arrives, OnWire
    <3> QED
      BY <3>1, NoSegment, Zenon
  <2>2. m.flags = {"SYN", "ACK"}
    BY <1>1, <1>3, <2>1, Zenon DEF HandshakeFirst, AllGreet, Greets, Arrives
  <2> QED
    BY <2>2, SMT
<1>4. CASE ~Reliable
  <2>1. /\ m.chunk \in 1..Len(Stream[r]) /\ Stream[r][m.chunk].push
        /\ m.seq = Behind(r, m.chunk - 1)
    BY DataIsChunk
  <2>2. PICK k : k = m.chunk
    BY Zenon
  <2>3. PICK e \in Nat : e = EndOf(Stream[r], k - 1) /\ 1 + e \in Number /\ m.seq = Plus(PeerISN, 1 + e)
    <3>1. k \in 1..Len(Stream[r]) /\ k \in Nat
      BY <2>1, <2>2, EndsGoUp
    <3>2. k - 1 \in 0..(k - 1)
      BY <3>1, SMT
    <3>3. 1 + EndOf(Stream[r], k - 1) \in Number /\ EndOf(Stream[r], k - 1) \in Nat
      BY <3>1, <3>2, EndsGoUp
    <3> QED
      BY <2>1, <2>2, <3>3, Zenon DEF Behind
  <2>4. m.seq # OwnISN
    <3>1. k \in DOMAIN Stream[r]
      <4>1. Stream[r] \in Seq(Chunk)
        BY StreamTyped, Zenon DEF Known
      <4> QED
        BY <2>1, <2>2, <4>1, SMT
    <3> QED
      BY <1>2, <1>4, <2>1, <2>2, <2>3, <3>1, Zenon DEF NotMisled, Stream, Reliable
  <2>5. PeerISN \in Int /\ 0 \in Number /\ Plus(PeerISN, 0) = PeerISN
    BY TCPAssumption, SMT DEF Plus, Number
  <2>6. 1 + e = 0
    BY <1>2, <2>3, <2>4, <2>5, PlusInjective, Zenon
  <2> QED
    BY <2>6, SMT
<1> QED
  BY <1>3, <1>4

(* A handler is given one more.                                            *)
LEMMA GivenMore ==
  ASSUME Known, NEW r \in Remotes, NEW m, m.chunk \in Nat, NEW i \in Places,
         delivered' = [delivered EXCEPT ![i] = Append(@, <<r, m.chunk>>)]
  PROVE  /\ Len(delivered[i]) \in Nat /\ Len(delivered'[i]) = Len(delivered[i]) + 1
         /\ DOMAIN delivered[i] = 1..Len(delivered[i])
         /\ DOMAIN delivered'[i] = 1..Len(delivered'[i])
         /\ \A n \in 1..Len(delivered[i]) : delivered'[i][n] = delivered[i][n]
         /\ delivered'[i][Len(delivered[i]) + 1] = <<r, m.chunk>>
<1>1. PICK x : x = <<r, m.chunk>>
  BY Zenon
<1>2. PICK D : D = Remotes \X Nat
  BY Zenon
<1>3. x \in D
  BY <1>1, <1>2, Zenon
<1>4. delivered[i] \in Seq(D) /\ delivered'[i] = Append(delivered[i], x)
  BY <1>1, <1>2, <1>3, GivenTyped, Zenon DEF Known
<1>5. PICK d : d = delivered[i]
  BY Zenon
<1>6. d \in Seq(D)
  BY <1>4, <1>5
<1>7. /\ Append(d, x) \in Seq(D) /\ Len(Append(d, x)) = Len(d) + 1
      /\ \A n \in 1..Len(d) : Append(d, x)[n] = d[n]
      /\ Append(d, x)[Len(d) + 1] = x
  BY <1>3, <1>6, AppendProperties
<1>8. /\ Len(d) \in Nat /\ DOMAIN d = 1..Len(d)
      /\ DOMAIN Append(d, x) = 1..Len(Append(d, x))
  BY <1>6, <1>7, LenProperties, Zenon
<1> QED
  BY <1>1, <1>4, <1>5, <1>7, <1>8

(* The data that comes last is asked for if its segment is a request. *)
LEMMA GivenAsked ==
  ASSUME Known, scenario' = scenario, NEW r \in Remotes, NEW m, Sent(r, m),
         NEW i \in Places, Brought(m, r, i, sockets[i], sockets'[i])
  PROVE  /\ Len(delivered[i]) \in Nat /\ Len(delivered'[i]) = Len(delivered[i]) + 1
         /\ DOMAIN delivered[i] = 1..Len(delivered[i])
         /\ DOMAIN delivered'[i] = 1..(Len(delivered[i]) + 1)
         /\ \A n \in DOMAIN delivered[i] : Asked(i, {n}) => Asked(i, {n})'
         /\ \A n : m.request /\ n = Len(delivered[i]) + 1 => Asked(i, {n})'
<1>1. m.chunk \in 1..Len(Stream[r]) /\ m.request = Stream[r][m.chunk].request
  BY DataIsChunk, Zenon DEF Brought
<1>2. m.chunk \in Nat
  <2>1. Len(Stream[r]) \in Nat
    BY StreamTyped, Zenon DEF Known
  <2> QED
    BY <1>1, <2>1, SMT
<1>3. /\ Len(delivered[i]) \in Nat /\ Len(delivered'[i]) = Len(delivered[i]) + 1
      /\ DOMAIN delivered[i] = 1..Len(delivered[i])
      /\ DOMAIN delivered'[i] = 1..Len(delivered'[i])
      /\ \A n \in 1..Len(delivered[i]) : delivered'[i][n] = delivered[i][n]
      /\ delivered'[i][Len(delivered[i]) + 1] = <<r, m.chunk>>
  <2>1. delivered' = [delivered EXCEPT ![i] = Append(@, <<r, m.chunk>>)]
    BY Zenon DEF Brought
  <2> QED
    BY <1>2, <2>1, GivenMore, Zenon
<1>4. Stream' = Stream
  BY SameSetting
<1>5. \A n \in DOMAIN delivered[i] : Asked(i, {n}) => Asked(i, {n})'
  BY <1>3, <1>4, Zenon DEF Asked
<1>6. ASSUME m.request, NEW n, n = Len(delivered[i]) + 1
      PROVE  Asked(i, {n})'
  <2>2. delivered'[i][n] = <<r, m.chunk>>
    BY <1>3, <1>6
  <2>3. delivered'[i][n][1] = r /\ delivered'[i][n][2] = m.chunk
    BY <2>2, SMT
  <2>4. Stream'[delivered'[i][n][1]][delivered'[i][n][2]].request
    BY <1>1, <1>4, <1>6, <2>3, Zenon
  <2>5. \A k \in {n} : Stream'[delivered'[i][k][1]][delivered'[i][k][2]].request
    BY <2>4, Zenon
  <2> QED
    BY <2>5, Zenon DEF Asked
<1> QED
  BY <1>3, <1>5, <1>6, Zenon

(* A segment that is heard keeps Told: only a wire that reorders brings    *)
(* data to a socket in SYN_SENT, and there NotMisled refuses it.           *)
LEMMA ToldHears ==
  ASSUME Known, AllTold, HandshakeFirst, NotMisled(scenario), [Next]_vars,
         NEW r \in Remotes, NEW m, Arrives(toUs[r], m), Sent(r, m), NEW i, Hears(i, m, r)
  PROVE  Told(i)'
<1>0. /\ scenario' = scenario /\ calls \subseteq calls' /\ Stream' = Stream
  BY StepsMove, AllGoesOn, SameSetting
<1>1. /\ i \in Places /\ sockets[i].state # "LISTEN" /\ sockets'[i].state # "LISTEN"
      /\ sockets'[i].remote = sockets[i].remote /\ Told(i)
  BY Zenon DEF Hears, HasRemote, AllTold
<1>2. CASE Moved(m, sockets[i], sockets'[i]) /\ delivered'[i] = delivered[i]
  <2>1. CASE sockets'[i] = sockets[i]
    BY <1>0, <1>1, <1>2, <2>1, Zenon DEF Told, Asked
  <2>2. CASE sockets'[i].state \in {"CLOSED", "ESTABLISHED", "CLOSE_WAIT"}
    <3>1. \A x \in {"CLOSED", "ESTABLISHED", "CLOSE_WAIT"} :
            x \notin {"LISTEN", "SYN_SENT"} /\ x \notin {"FIN_WAIT1", "FIN_WAIT2"} /\ x # "SYN_SENT"
      BY SMT
    <3> QED
      BY <2>2, <3>1, Zenon DEF Told
  <2>3. CASE sockets[i].state = "FIN_WAIT1" /\ sockets'[i].state = "FIN_WAIT2"
    <3>1. /\ "FIN_WAIT2" \notin {"LISTEN", "SYN_SENT"} /\ "FIN_WAIT2" # "SYN_SENT"
          /\ "FIN_WAIT1" \in {"FIN_WAIT1", "FIN_WAIT2"}
      BY SMT
    <3>2. "disconnect" \in calls \/ \E n \in DOMAIN delivered[i] : Asked(i, {n})
      BY <1>1, <2>3, <3>1, Zenon DEF Told
    <3>3. "disconnect" \in calls' \/ \E n \in DOMAIN delivered'[i] : Asked(i, {n})'
      BY <1>0, <1>2, <3>2, Zenon DEF Asked
    <3> QED
      BY <2>3, <3>1, <3>3, Zenon DEF Told
  <2> QED
    BY <1>2, <2>1, <2>2, <2>3, Zenon DEF Moved
<1>3. CASE Brought(m, r, i, sockets[i], sockets'[i])
  <2>1. sockets[i].state \in {"ESTABLISHED", "FIN_WAIT2"}
    BY <1>3, NotBeforeSynAck, Zenon DEF Brought
  <2>2. /\ Len(delivered[i]) \in Nat
        /\ DOMAIN delivered[i] = 1..Len(delivered[i])
        /\ DOMAIN delivered'[i] = 1..(Len(delivered[i]) + 1)
        /\ \A n \in DOMAIN delivered[i] : Asked(i, {n}) => Asked(i, {n})'
        /\ \A n : m.request /\ n = Len(delivered[i]) + 1 => Asked(i, {n})'
    BY <1>0, <1>1, <1>3, GivenAsked, Zenon
  <2>3. /\ DOMAIN delivered[i] \subseteq DOMAIN delivered'[i]
        /\ Len(delivered[i]) + 1 \in DOMAIN delivered'[i]
    BY <2>2, SMT
  <2>4. sockets'[i].state \in {"ESTABLISHED", "FIN_WAIT1", "FIN_WAIT2"}
    BY <1>3, <2>1, Zenon DEF Brought
  <2>5. /\ \A x \in {"ESTABLISHED", "FIN_WAIT1", "FIN_WAIT2"} : x \notin {"LISTEN", "SYN_SENT"} /\ x # "SYN_SENT"
        /\ "ESTABLISHED" \notin {"FIN_WAIT1", "FIN_WAIT2"} /\ "ESTABLISHED" # "FIN_WAIT2"
        /\ "FIN_WAIT2" \in {"FIN_WAIT1", "FIN_WAIT2"}
    BY SMT
  <2>6. CASE m.request /\ sockets'[i].state = "FIN_WAIT1"
    <3>1. PICK n \in DOMAIN delivered'[i] : n = Len(delivered[i]) + 1
      BY <2>3, Zenon
    <3>2. Asked(i, {n})'
      BY <2>2, <2>6, <3>1
    <3> QED
      BY <2>4, <2>5, <2>6, <3>1, <3>2, Zenon DEF Told
  <2>7. CASE sockets'[i].state = sockets[i].state
    <3>1. sockets[i].state = "FIN_WAIT2" =>
            "disconnect" \in calls \/ \E n \in DOMAIN delivered[i] : Asked(i, {n})
      BY <1>1, <2>5, Zenon DEF Told
    <3>2. sockets[i].state = "FIN_WAIT2" =>
            "disconnect" \in calls' \/ \E n \in DOMAIN delivered'[i] : Asked(i, {n})'
      BY <1>0, <2>2, <2>3, <3>1, Zenon
    <3> QED
      BY <2>1, <2>4, <2>5, <2>7, <3>2, Zenon DEF Told
  <2> QED
    BY <1>3, <2>6, <2>7, Zenon DEF Brought
<1> QED
  BY <1>2, <1>3, Zenon DEF Hears

(* Every step preserves Told.                                              *)
LEMMA ToldStays ==
  ASSUME Known, AllTold, HandshakeFirst, NotMisled(scenario), [Next]_vars
  PROVE  AllTold'
<1> SUFFICES ASSUME NEW i \in Places'
             PROVE  Told(i)'
  BY Zenon DEF AllTold
<1>0. /\ calls \subseteq calls' /\ Stream' = Stream
  BY StepsMove, AllGoesOn, SameSetting
<1>1. CASE Remains(i)
  <2>1. Told(i)
    BY <1>1, Zenon DEF AllTold, Remains
  <2> QED
    BY <1>0, <1>1, <2>1, Zenon DEF Told, Asked, Remains
<1>2. CASE Appears(i)
  <2>1. /\ "LISTEN" \notin {"FIN_WAIT1", "FIN_WAIT2"} /\ "SYN_SENT" \notin {"FIN_WAIT1", "FIN_WAIT2"}
        /\ "LISTEN" # "SYN_SENT"
    BY SMT
  <2> QED
    BY <1>2, <2>1, Zenon DEF Told, Appears
<1>3. CASE Disconnected(i)
  <2>1. "FIN_WAIT1" \notin {"LISTEN", "SYN_SENT"} /\ "FIN_WAIT1" # "SYN_SENT"
    BY SMT
  <2> QED
    BY <1>3, <2>1, Zenon DEF Told, Disconnected
<1>4. CASE \E r \in Remotes : Begins(i, r)
  <2>1. /\ "SYN_RECEIVED" \notin {"LISTEN", "SYN_SENT"} /\ "SYN_RECEIVED" # "SYN_SENT"
        /\ "SYN_RECEIVED" \notin {"FIN_WAIT1", "FIN_WAIT2"}
    BY SMT
  <2> QED
    BY <1>4, <2>1, Zenon DEF Told, Begins
<1> QED
  BY <1>1, <1>2, <1>3, <1>4, EachSocket, ToldHears, Zenon

-----------------------------------------------------------------------------
(* When the handler waits for good *)

LEMMA ToldAtFirst ==
  ASSUME Init
  PROVE  AllTold /\ HandshakeFirst
<1>1. Places = {}
  BY NoSockets
<1>2. \A r \in Remotes : peers[r].state = "closed"
  BY SMT DEF Init
<1>3. "closed" # "connecting"
  BY SMT
<1> QED
  BY <1>1, <1>2, <1>3, Zenon DEF AllTold, HandshakeFirst, OneGreeting, AllGreet

(* The invariant of what sockets were told, on any wire.                   *)
Heard == Known /\ AllTold /\ HandshakeFirst

(* Every step preserves Heard, so it always holds.                         *)
LEMMA HeardStays ==
  ASSUME \A s \in Scenarios : NotMisled(s), Heard, [Next]_vars
  PROVE  Heard'
<1>1. NotMisled(scenario)
  BY Zenon DEF Heard, Known, Typed
<1> QED
  BY <1>1, KnownStays, ToldStays, HandshakeStays, Zenon DEF Heard

LEMMA AlwaysHeard ==
  ASSUME \A s \in Scenarios : NotMisled(s)
  PROVE  Spec => []Heard
<1>1. Init => Heard
  BY KnownAtFirst, ToldAtFirst, Zenon DEF Heard
<1>2. Heard /\ [Next]_vars => Heard'
  BY HeardStays
<1> QED
  BY <1>1, <1>2, PTL DEF Spec

(* It waits for the first time: in the handler of a second request. *)
LEMMA SpinsFirst ==
  ASSUME Heard, NotMisled(scenario), scenario' = scenario, calls \subseteq calls',
         NEW r \in Remotes, NEW m, Arrives(toUs[r], m), Sent(r, m), NEW i, Hears(i, m, r),
         ~spins, spins'
  PROVE  /\ sockets'[i].state = "FIN_WAIT2"
         /\ \/ "disconnect" \in calls'
            \/ \E n \in DOMAIN delivered'[i] : \E k \in DOMAIN delivered'[i] : n < k /\ Asked(i, {n, k})'
<1>1. Brought(m, r, i, sockets[i], sockets'[i]) /\ i \in Places
  BY Zenon DEF Hears
<1>2. sockets[i].state \in {"SYN_SENT", "FIN_WAIT2"} /\ sockets'[i] = sockets[i] /\ m.request
  BY <1>1, Zenon DEF Brought
<1>3. sockets[i].state # "SYN_SENT"
  BY <1>1, NotBeforeSynAck, Zenon DEF Heard
<1>4. sockets'[i].state = "FIN_WAIT2" /\ sockets[i].state = "FIN_WAIT2"
  BY <1>2, <1>3, Zenon
<1>5. "disconnect" \in calls \/ \E n \in DOMAIN delivered[i] : Asked(i, {n})
  <2>1. "FIN_WAIT2" \in {"FIN_WAIT1", "FIN_WAIT2"}
    BY SMT
  <2> QED
    BY <1>1, <1>4, <2>1, Zenon DEF Heard, AllTold, Told
<1>6. ASSUME NEW n \in DOMAIN delivered[i], Asked(i, {n})
      PROVE  \E o \in DOMAIN delivered'[i] : \E k \in DOMAIN delivered'[i] : o < k /\ Asked(i, {o, k})'
  <2>1. /\ Len(delivered[i]) \in Nat
        /\ DOMAIN delivered[i] = 1..Len(delivered[i])
        /\ DOMAIN delivered'[i] = 1..(Len(delivered[i]) + 1)
        /\ \A o \in DOMAIN delivered[i] : Asked(i, {o}) => Asked(i, {o})'
        /\ \A o : m.request /\ o = Len(delivered[i]) + 1 => Asked(i, {o})'
    BY <1>1, GivenAsked, Zenon DEF Heard
  <2>2. PICK k \in DOMAIN delivered'[i] : k = Len(delivered[i]) + 1 /\ n < k
    <3>1. PICK l \in Nat : l = Len(delivered[i])
      BY <2>1, Zenon
    <3>2. n \in 1..l
      BY <2>1, <3>1, Zenon
    <3>3. PICK o \in 1..(l + 1) : o = l + 1 /\ n < o
      BY <3>2, SMT
    <3>4. o \in DOMAIN delivered'[i] /\ o = Len(delivered[i]) + 1
      BY <2>1, <3>1, <3>3, Zenon
    <3> QED
      BY <3>3, <3>4, Zenon
  <2>3. n \in DOMAIN delivered'[i]
    BY <2>1, SMT
  <2>4. Asked(i, {n})' /\ Asked(i, {k})'
    BY <1>2, <1>6, <2>1, <2>2, Zenon
  <2>5. Asked(i, {n, k})'
    BY <2>4, Zenon DEF Asked
  <2> QED
    BY <2>2, <2>3, <2>5, Zenon
<1> QED
  BY <1>4, <1>5, <1>6, Zenon

(* A step that makes the handler wait is the request that came behind our  *)
(* FIN.                                                                    *)
LEMMA SpinsStays ==
  ASSUME Heard, NotMisled(scenario), SpinsOnlyBehindOwnClose, [Next]_vars
  PROVE  SpinsOnlyBehindOwnClose'
<1>0. /\ scenario' = scenario /\ Stream' = Stream /\ calls \subseteq calls'
      /\ DOMAIN sockets' = Places'
  <2>1. Known /\ Known'
    BY KnownStays, Zenon DEF Heard
  <2>2. sockets' \in Seq(Socket)
    BY <2>1, Zenon DEF Known, Typed
  <2>3. DOMAIN sockets' = Places'
    BY <2>2, LenProperties, Zenon DEF Places
  <2> QED
    BY <2>1, <2>3, StepsMove, AllGoesOn, SameSetting
<1> SUFFICES ASSUME spins'
             PROVE  \E i \in DOMAIN sockets' :
                      /\ sockets'[i].state = "FIN_WAIT2"
                      /\ \/ "disconnect" \in calls'
                         \/ \E n \in DOMAIN delivered'[i] : \E k \in DOMAIN delivered'[i] :
                              n < k /\ Asked(i, {n, k})'
  BY Zenon DEF SpinsOnlyBehindOwnClose
<1>1. CASE spins
  <2>1. sockets' = sockets /\ delivered' = delivered
    <3>1. CASE UNCHANGED vars
      BY <3>1, Zenon DEF vars
    <3>2. CASE \E r \in Remotes : \E p, out : PeerMoves(r, p, out)
      BY <3>2, Zenon DEF PeerMoves, Mine
    <3> QED
      BY <1>1, <3>1, <3>2, StepsMove, Zenon DEF Heard, MainMoves, Receive
  <2>2. PICK i \in DOMAIN sockets :
          /\ sockets[i].state = "FIN_WAIT2"
          /\ \/ "disconnect" \in calls
             \/ \E n, k \in DOMAIN delivered[i] : n < k /\ Asked(i, {n, k})
    BY <1>1, Zenon DEF SpinsOnlyBehindOwnClose
  <2>3. \A n, k : Asked(i, {n, k}) => Asked(i, {n, k})'
    BY <1>0, <2>1, Zenon DEF Asked
  <2>4. i \in DOMAIN sockets' /\ sockets'[i].state = "FIN_WAIT2"
    BY <2>1, <2>2
  <2>5. CASE "disconnect" \in calls
    BY <1>0, <2>4, <2>5, Zenon
  <2>6. CASE \E n, k \in DOMAIN delivered[i] : n < k /\ Asked(i, {n, k})
    BY <2>1, <2>3, <2>4, <2>6, Zenon
  <2> QED
    BY <2>2, <2>5, <2>6, Zenon
<1>2. CASE ~spins
  <2>1. PICK r \in Remotes : \E m \in OnWire(toUs[r]) : Receive(m, r)
    BY <1>2, StepsMove, Zenon DEF Heard, MainMoves, PeerMoves, Mine, vars
  <2>2. PICK m \in OnWire(toUs[r]) : Receive(m, r)
    BY <2>1, Zenon
  <2>3. /\ Arrives(toUs[r], m) /\ Sent(r, m)
        /\ \/ \E i \in Places : Hears(i, m, r) /\ OthersRemain(i)
           \/ \E i \in Places : Begins(i, r) /\ OthersRemain(i)
           \/ spins' = spins
    BY <2>2, ReceiveMoves, Zenon DEF Heard
  <2>4. PICK i \in Places : Hears(i, m, r) /\ OthersRemain(i)
    BY <1>2, <2>3, Zenon DEF Begins
  <2>5. i \in DOMAIN sockets'
    BY <1>0, <2>4, Zenon DEF OthersRemain
  <2> QED
    BY <1>0, <1>2, <2>3, <2>4, <2>5, SpinsFirst, Zenon
<1> QED
  BY <1>1, <1>2, Zenon

(* The interrupt handler waits in Send for good only behind our own FIN,   *)
(* where no segment that a server pushes can be taken for the answer to    *)
(* our SYN.                                                                *)
THEOREM SpinsBehindOwnClose ==
  ASSUME \A s \in Scenarios : NotMisled(s)
  PROVE  Spec => []SpinsOnlyBehindOwnClose
<1>1. Init => SpinsOnlyBehindOwnClose
  BY Zenon DEF Init, SpinsOnlyBehindOwnClose
<1>2. Heard /\ SpinsOnlyBehindOwnClose /\ [Next]_vars => SpinsOnlyBehindOwnClose'
  <2>1. Heard => NotMisled(scenario)
    BY Zenon DEF Heard, Known, Typed
  <2> QED
    BY <2>1, SpinsStays
<1>3. Spec => []Heard
  BY AlwaysHeard
<1> QED
  BY <1>1, <1>2, <1>3, PTL DEF Spec

-----------------------------------------------------------------------------
(* What is delivered, and in which order *)

(* The bytes acknowledged behind d chunks lie in chunk d. *)
LEMMA AckedInChunk ==
  ASSUME Known, NEW r \in Remotes, NEW d \in 0..Len(Stream[r]), NoBlanks(scenario)
  PROVE  /\ AckedUpTo(r, d) \in Nat /\ d \in Nat
         /\ AckedUpTo(r, d) <= EndOf(Stream[r], d)
         /\ \A k \in 0..(d - 1) : EndOf(Stream[r], k) < AckedUpTo(r, d)
         /\ d # 0 => 1 + AckedUpTo(r, d) \in Number
<1>1. Len(Stream[r]) \in Nat /\ d \in Nat
  BY StreamTyped, SMT DEF Known
<1>2. CASE d = 0
  <2>1. AckedUpTo(r, d) = 0 /\ EndOf(Stream[r], d) = 0
    BY <1>2, SMT DEF AckedUpTo, EndOf
  <2> QED
    BY <1>2, <2>1, SMT
<1>3. CASE d # 0
  <2>1. d \in 1..Len(Stream[r])
    BY <1>1, <1>3, SMT
  <2>2. /\ 1 + EndOf(Stream[r], d) \in Number /\ Stream[r][d].kept \in Nat
        /\ EndOf(Stream[r], d - 1) \in Nat /\ EndOf(Stream[r], d) \in Nat
        /\ EndOf(Stream[r], d - 1) + Stream[r][d].kept <= EndOf(Stream[r], d)
    BY <2>1, EndsGoUp, Zenon
  <2>3. PICK e \in Nat : e = EndOf(Stream[r], d)
    BY <2>2, Zenon
  <2>4. PICK b \in Nat : b = EndOf(Stream[r], d - 1)
    BY <2>2, Zenon
  <2>5. PICK n \in Nat : n = Stream[r][d].kept
    BY <2>2, Zenon
  <2>6. n > 0
    <3>1. Stream[r] \in Seq(Chunk)
      BY StreamTyped, Zenon DEF Known
    <3>2. d \in DOMAIN Stream[r]
      BY <2>1, <3>1, SMT
    <3> QED
      BY <2>5, <3>2, Zenon DEF NoBlanks, Stream
  <2>7. AckedUpTo(r, d) = b + n /\ b + n <= e
    BY <1>3, <2>2, <2>3, <2>4, <2>5, Zenon DEF AckedUpTo
  <2>8. PICK S \in Nat : S = SeqSpace
    BY TCPAssumption, SMT
  <2>9. 1 + e \in 0..(S - 1)
    BY <2>2, <2>3, <2>8, Zenon DEF Number
  <2>10. 1 + (b + n) \in 0..(S - 1) /\ b + n \in Nat /\ b < b + n
    BY <2>6, <2>7, <2>8, <2>9, SMT
  <2>11. ASSUME NEW k \in 0..(d - 1)
         PROVE  EndOf(Stream[r], k) < b + n
    <3>1. CASE k = d - 1
      BY <2>4, <2>10, <3>1, Zenon
    <3>2. CASE k # d - 1
      <4>1. d - 1 \in 1..Len(Stream[r]) /\ k \in 0..((d - 1) - 1)
        BY <1>1, <2>1, <3>2, SMT
      <4>2. EndOf(Stream[r], k) < EndOf(Stream[r], d - 1) /\ EndOf(Stream[r], k) \in Nat
        BY <4>1, EndsGoUp, Zenon
      <4> QED
        BY <2>4, <2>10, <4>2, SMT
    <3> QED
      BY <3>1, <3>2
  <2> QED
    BY <1>1, <2>3, <2>7, <2>8, <2>10, <2>11, Zenon DEF Number
<1> QED
  BY <1>2, <1>3

(* The chunk with the number that was acknowledged is the next one. *)
LEMMA NextChunk ==
  ASSUME Known, NEW r \in Remotes, NEW d \in 0..Len(Stream[r]), NEW c \in 1..Len(Stream[r]),
         NoBlanks(scenario), Behind(r, c - 1) = Plus(PeerISN, 1 + AckedUpTo(r, d))
  PROVE  c = d + 1 /\ EndOf(Stream[r], d) = AckedUpTo(r, d)
<1>1. /\ AckedUpTo(r, d) \in Nat /\ d \in Nat
      /\ AckedUpTo(r, d) <= EndOf(Stream[r], d)
      /\ \A k \in 0..(d - 1) : EndOf(Stream[r], k) < AckedUpTo(r, d)
      /\ d # 0 => 1 + AckedUpTo(r, d) \in Number
  BY AckedInChunk
<1>2. /\ c \in Nat /\ EndOf(Stream[r], c - 1) \in Nat
      /\ \A j \in 0..(c - 1) : /\ 1 + EndOf(Stream[r], j) \in Number
                               /\ EndOf(Stream[r], j) \in Nat
                               /\ EndOf(Stream[r], j) < EndOf(Stream[r], c)
  BY EndsGoUp
<1>3. c - 1 \in 0..(c - 1) /\ 0 \in 0..(c - 1) /\ Len(Stream[r]) \in Nat
  BY <1>2, StreamTyped, SMT DEF Known
<1>4. EndOf(Stream[r], 0) = 0
  BY Zenon DEF EndOf
<1>5. PICK a \in Nat : a = AckedUpTo(r, d)
  BY <1>1, Zenon
<1>6. PICK e \in Nat : e = EndOf(Stream[r], c - 1)
  BY <1>2, Zenon
<1>7. 1 + e \in Number /\ 1 + a \in Number
  <2>1. 1 + e \in Number
    BY <1>2, <1>3, <1>6, Zenon
  <2>2. CASE d = 0
    <3>1. 1 + 0 \in Number
      BY <1>2, <1>3, <1>4, Zenon
    <3>2. a = 0
      BY <1>5, <2>2, Zenon DEF AckedUpTo
    <3> QED
      BY <2>1, <3>1, <3>2
  <2> QED
    BY <1>1, <1>5, <2>1, <2>2, Zenon
<1>8. e = a
  <2>1. Plus(PeerISN, 1 + e) = Plus(PeerISN, 1 + a) /\ PeerISN \in Int
    BY <1>5, <1>6, TCPAssumption, SMT DEF Behind
  <2>2. 1 + e = 1 + a
    BY <1>7, <2>1, PlusInjective, Zenon
  <2> QED
    BY <2>2, SMT
<1>9. ~(c - 1 < d)
  <2> SUFFICES ASSUME c - 1 < d
               PROVE  FALSE
    OBVIOUS
  <2>1. c - 1 \in 0..(d - 1)
    BY <1>1, <1>2, SMT
  <2>2. e < a
    BY <1>1, <1>5, <1>6, <2>1, Zenon
  <2> QED
    BY <1>8, <2>2, SMT
<1>10. ~(d < c - 1)
  <2> SUFFICES ASSUME d < c - 1
               PROVE  FALSE
    OBVIOUS
  <2>1. c - 1 \in 1..Len(Stream[r]) /\ d \in 0..((c - 1) - 1)
    BY <1>1, <1>2, <1>3, SMT
  <2>2. EndOf(Stream[r], d) < e /\ EndOf(Stream[r], d) \in Nat
    BY <1>6, <2>1, EndsGoUp, Zenon
  <2>3. a <= EndOf(Stream[r], d)
    BY <1>1, <1>5, Zenon
  <2> QED
    BY <1>8, <2>2, <2>3, SMT
<1>11. c - 1 = d
  BY <1>1, <1>2, <1>9, <1>10, SMT
<1> QED
  BY <1>2, <1>5, <1>6, <1>8, <1>11, SMT

(* The data that a socket takes is the next chunk, and is acknowledged.    *)
LEMMA BroughtNext ==
  ASSUME Known, NoBlanks(scenario), NEW r \in Remotes, NEW m, Sent(r, m), NEW i \in Places,
         InSequence(i), HasRemote(i), sockets[i].remote = r, sockets'[i].remote = r,
         ~spins, sockets[i].state \in Open, Brought(m, r, i, sockets[i], sockets'[i])
  PROVE  /\ Len(delivered[i]) \in Nat /\ m.chunk = Len(delivered[i]) + 1
         /\ Len(delivered'[i]) = m.chunk /\ m.chunk <= peers[r].sent
         /\ \A n \in 1..m.chunk : delivered'[i][n] = <<r, n>>
         /\ sockets'[i].acknowledgementNumber = Plus(PeerISN, 1 + AckedUpTo(r, m.chunk)) \/ spins'
<1>1. /\ m.chunk \in 1..Len(Stream[r]) /\ m.chunk \in 1..peers[r].sent
      /\ m.seq = Behind(r, m.chunk - 1) /\ m.kept = Stream[r][m.chunk].kept
  BY DataIsChunk, Zenon DEF Brought
<1>2. PICK l \in Nat : l = Len(Stream[r])
  BY StreamTyped, Zenon DEF Known
<1>3. PICK p \in Nat : p = peers[r].sent /\ p <= l
  <2>1. peers[r].sent \in 0..l
    BY <1>2, Zenon DEF Known, PeersKnown
  <2> QED
    BY <2>1, SMT
<1>4. PICK c \in 1..Len(Stream[r]) : c = m.chunk
  BY <1>1, Zenon
<1>5. c \in Nat /\ c <= p /\ c # 0
  BY <1>1, <1>2, <1>3, <1>4, SMT
<1>6. /\ Len(delivered[i]) \in Nat /\ Len(delivered'[i]) = Len(delivered[i]) + 1
      /\ DOMAIN delivered[i] = 1..Len(delivered[i])
      /\ DOMAIN delivered'[i] = 1..Len(delivered'[i])
      /\ \A n \in 1..Len(delivered[i]) : delivered'[i][n] = delivered[i][n]
      /\ delivered'[i][Len(delivered[i]) + 1] = <<r, m.chunk>>
  <2>1. delivered' = [delivered EXCEPT ![i] = Append(@, <<r, m.chunk>>)]
    BY Zenon DEF Brought
  <2>2. m.chunk \in Nat
    BY <1>4, <1>5
  <2> QED
    BY <2>1, <2>2, GivenMore, Zenon
<1>7. PICK d \in Nat : d = Len(delivered[i])
  BY <1>6, Zenon
<1>8. /\ \A n \in 1..d : delivered[i][n] = <<r, n>>
      /\ d <= peers[r].sent
      /\ sockets[i].acknowledgementNumber = Plus(PeerISN, 1 + AckedUpTo(r, d))
  BY <1>7, Zenon DEF InSequence
<1>9. d \in 0..Len(Stream[r])
  BY <1>2, <1>3, <1>7, <1>8, SMT
<1>10. c = d + 1 /\ EndOf(Stream[r], d) = AckedUpTo(r, d)
  <2>1. Behind(r, c - 1) = Plus(PeerISN, 1 + AckedUpTo(r, d))
    BY <1>1, <1>4, <1>8, Zenon DEF Brought, InOrder
  <2> QED
    BY <1>9, <2>1, NextChunk
<1>11. ASSUME NEW n \in 1..c
       PROVE  delivered'[i][n] = <<r, n>>
  <2>1. n \in 1..d \/ n = d + 1
    BY <1>10, SMT
  <2> QED
    BY <1>4, <1>6, <1>7, <1>8, <1>10, <2>1, Zenon
<1>12. sockets'[i].acknowledgementNumber = Plus(PeerISN, 1 + AckedUpTo(r, c)) \/ spins'
  <2> SUFFICES ASSUME ~spins'
               PROVE  sockets'[i].acknowledgementNumber = Plus(PeerISN, 1 + AckedUpTo(r, c))
    OBVIOUS
  <2>1. sockets'[i].acknowledgementNumber = Plus(sockets[i].acknowledgementNumber, Acked(m))
    BY Zenon DEF Brought
  <2>2. PICK k \in Nat : k = m.kept
    BY <1>1, <1>4, EndsGoUp, Zenon
  <2>3. k > 0
    <3>1. Stream[r] \in Seq(Chunk)
      BY StreamTyped, Zenon DEF Known
    <3>2. c \in DOMAIN Stream[r]
      BY <3>1, SMT
    <3> QED
      BY <1>1, <1>4, <2>2, <3>2, Zenon DEF NoBlanks, Stream
  <2>4. Acked(m) = k
    BY <2>2, <2>3, SMT DEF Acked
  <2>5. PICK a \in Nat : a = AckedUpTo(r, d)
    BY <1>9, AckedInChunk, Zenon
  <2>6. AckedUpTo(r, c) = a + k
    <3>1. c - 1 = d
      BY <1>10, SMT
    <3> QED
      BY <1>1, <1>4, <1>5, <1>10, <2>2, <2>5, <3>1, Zenon DEF AckedUpTo
  <2>7. Plus(Plus(PeerISN, 1 + a), k) = Plus(PeerISN, (1 + a) + k)
    BY TCPAssumption, PlusPlus, SMT
  <2>8. (1 + a) + k = 1 + (a + k)
    BY SMT
  <2> QED
    BY <1>8, <2>1, <2>4, <2>5, <2>6, <2>7, <2>8, Zenon
<1> QED
  BY <1>3, <1>4, <1>5, <1>6, <1>7, <1>10, <1>11, <1>12, SMT

(* A segment that is heard keeps the sequence: what has the expected       *)
(* number is the next chunk.                                               *)
LEMMA InSequenceHeard ==
  ASSUME Heard, NoBlanks(scenario), NotMisled(scenario), [Next]_vars, ~spins,
         NEW r \in Remotes, NEW m, Arrives(toUs[r], m), Sent(r, m), NEW i, Hears(i, m, r), InSequence(i)
  PROVE  InSequence(i)'
<1>0. /\ scenario' = scenario /\ Stream' = Stream /\ peers[r].sent <= peers'[r].sent
      /\ \A d : AckedUpTo(r, d)' = AckedUpTo(r, d)
      /\ peers'[r].sent \in Nat /\ peers[r].sent \in Nat
  <2>1. scenario' = scenario /\ Stream' = Stream /\ peers[r].sent <= peers'[r].sent
    BY StepsMove, AllGoesOn, SameSetting, Zenon DEF Heard
  <2>2. \A d : AckedUpTo(r, d)' = AckedUpTo(r, d)
    BY <2>1, Zenon DEF AckedUpTo, EndOf
  <2>3. peers[r] \in PeerRecord
    BY Zenon DEF Heard, Known, Typed, PeerRecord
  <2>4. Known'
    BY KnownStays, Zenon DEF Heard
  <2>5. peers'[r] \in PeerRecord
    BY <2>4, Zenon DEF Known, Typed, PeerRecord
  <2> QED
    BY <2>1, <2>2, <2>3, <2>5, SMT DEF PeerRecord
<1>1. /\ i \in Places /\ HasRemote(i) /\ HasRemote(i)' /\ sockets[i].remote = r /\ sockets'[i].remote = r
      /\ sockets[i].state # "LISTEN"
  BY Zenon DEF Hears, HasRemote
<1>2. CASE Moved(m, sockets[i], sockets'[i]) /\ delivered'[i] = delivered[i]
  <2>1. Len(delivered[i]) <= peers[r].sent
    BY <1>1, Zenon DEF InSequence
  <2>2. Len(delivered[i]) \in Nat
    <3>1. delivered \in Seq(Seq(Remotes \X Nat)) /\ i \in 1..Len(delivered)
      BY <1>1, Zenon DEF Heard, Known, Typed, Places
    <3>2. delivered[i] \in Seq(Remotes \X Nat)
      BY <3>1, SMT
    <3> QED
      BY <3>2, LenProperties, Zenon
  <2>3. Len(delivered'[i]) <= peers'[r].sent
    <3>1. PICK d \in Nat : d = Len(delivered[i])
      BY <2>2, Zenon
    <3>2. d <= peers'[r].sent
      BY <1>0, <2>1, <3>1, SMT
    <3> QED
      BY <1>2, <3>1, <3>2, Zenon
  <2>4. \A n \in 1..Len(delivered'[i]) : delivered'[i][n] = <<sockets'[i].remote, n>>
    BY <1>1, <1>2, Zenon DEF InSequence
  <2>5. ASSUME sockets'[i].state \in Open
        PROVE  sockets'[i].acknowledgementNumber = Plus(PeerISN, 1 + AckedUpTo(r, Len(delivered'[i])))
    <3>0. /\ "CLOSED" \notin Open /\ "CLOSE_WAIT" \notin Open
          /\ "SYN_RECEIVED" \in Open /\ "FIN_WAIT1" \in Open
      BY SMT DEF Open
    <3>1. CASE sockets[i].state \in Open /\ sockets'[i].acknowledgementNumber = sockets[i].acknowledgementNumber
      BY <1>1, <1>2, <3>1, Zenon DEF InSequence
    <3>2. CASE /\ sockets[i].state = "SYN_SENT" /\ m.flags = {"SYN", "ACK"}
               /\ sockets'[i].acknowledgementNumber = Plus(m.seq, 1)
      <4>1. delivered[i] = <<>>
        <5>1. "SYN_SENT" \in {"LISTEN", "SYN_SENT"}
          BY SMT
        <5> QED
          BY <1>1, <3>2, <5>1, Zenon DEF Heard, AllTold, Told
      <4>2. "SYN" \in m.flags
        BY <3>2, SMT
      <4>3. m.seq = PeerISN
        BY <4>2, Zenon DEF Sent
      <4>4. AckedUpTo(r, Len(delivered'[i])) = 0
        <5>1. Len(<<>>) = 0
          BY SMT
        <5> QED
          BY <1>2, <4>1, <5>1, Zenon DEF AckedUpTo
      <4>5. 1 + 0 = 1
        BY SMT
      <4> QED
        BY <3>2, <4>3, <4>4, <4>5, Zenon
    <3> QED
      BY <1>2, <2>5, <3>0, <3>1, <3>2, Zenon DEF Moved
  <2> QED
    BY <1>0, <1>1, <2>3, <2>4, <2>5, Zenon DEF InSequence
<1>3. CASE Brought(m, r, i, sockets[i], sockets'[i])
  <2>1. sockets[i].state \in Open
    <3>1. sockets[i].state \in {"ESTABLISHED", "FIN_WAIT2"}
      BY <1>1, <1>3, NotBeforeSynAck, Zenon DEF Brought, Heard
    <3> QED
      BY <3>1, SMT DEF Open
  <2>2. /\ Len(delivered'[i]) = m.chunk /\ m.chunk <= peers[r].sent
        /\ \A n \in 1..m.chunk : delivered'[i][n] = <<r, n>>
        /\ sockets'[i].acknowledgementNumber = Plus(PeerISN, 1 + AckedUpTo(r, m.chunk)) \/ spins'
        /\ Len(delivered[i]) \in Nat /\ m.chunk = Len(delivered[i]) + 1
    BY <1>1, <1>3, <2>1, BroughtNext, Zenon DEF Heard
  <2>3. m.chunk <= peers'[r].sent
    <3>1. PICK c \in Nat : c = m.chunk
      BY <2>2, SMT
    <3>2. c <= peers'[r].sent
      BY <1>0, <2>2, <3>1, SMT
    <3> QED
      BY <3>1, <3>2
  <2> QED
    BY <1>0, <1>1, <2>2, <2>3, Zenon DEF InSequence
<1> QED
  BY <1>2, <1>3, Zenon DEF Hears

(* A connection that begins has an empty sequence.                         *)
LEMMA InSequenceBegins ==
  ASSUME Heard, [Next]_vars, NEW r \in Remotes, NEW i, Begins(i, r)
  PROVE  InSequence(i)'
<1>1. i \in Places /\ sockets[i].state = "LISTEN"
  BY Zenon DEF Begins, HasRemote
<1>2. delivered'[i] = <<>>
  <2>1. "LISTEN" \in {"LISTEN", "SYN_SENT"}
    BY SMT
  <2> QED
    BY <1>1, <2>1, Zenon DEF Heard, AllTold, Told, Begins
<1>3. Len(<<>>) = 0 /\ 1..0 = {} /\ 1 + 0 = 1
  BY SMT
<1>4. 0 <= peers'[r].sent
  <2>1. Known'
    BY KnownStays, Zenon DEF Heard
  <2>2. peers'[r] \in PeerRecord
    BY <2>1, Zenon DEF Known, Typed, PeerRecord
  <2> QED
    BY <2>2, SMT DEF PeerRecord
<1>5. AckedUpTo(r, 0)' = 0
  BY Zenon DEF AckedUpTo
<1>6. sockets'[i].remote = r /\ sockets'[i].acknowledgementNumber = Plus(PeerISN, 1)
  BY Zenon DEF Begins
<1> QED
  BY <1>2, <1>3, <1>4, <1>5, <1>6, Zenon DEF InSequence

(* Every step preserves the sequences.                                     *)
LEMMA InSequenceStays ==
  ASSUME Heard, AllInSequence, NoBlanks(scenario), NotMisled(scenario), [Next]_vars
  PROVE  AllInSequence'
<1>0. /\ scenario' = scenario /\ calls \subseteq calls' /\ Stream' = Stream /\ Known /\ Known'
  BY StepsMove, AllGoesOn, SameSetting, KnownStays, Zenon DEF Heard
<1> SUFFICES ASSUME "disconnect" \notin calls', NEW i \in Places'
             PROVE  InSequence(i)'
  BY Zenon DEF AllInSequence
<1>1. \A k \in Places : InSequence(k)
  BY <1>0, Zenon DEF AllInSequence
<1>2. spins => spins'
  BY <1>0, EachSocket
<1>3. CASE Remains(i)
  <2>1. InSequence(i)
    BY <1>1, <1>3, Zenon DEF Remains
  <2>2. ASSUME HasRemote(i)'
        PROVE  Len(delivered'[i]) <= peers'[sockets'[i].remote].sent
    <3>1. HasRemote(i)
      BY <1>3, <2>2, Zenon DEF HasRemote, Remains
    <3>2. PICK r \in Remotes : r = sockets[i].remote
      BY <1>0, <1>3, <3>1, ToRemote, Zenon DEF HasRemote, Remains
    <3>3. Len(delivered[i]) <= peers[r].sent /\ peers[r].sent <= peers'[r].sent
      BY <1>0, <2>1, <3>1, <3>2, AllGoesOn, Zenon DEF InSequence
    <3>4. peers[r] \in PeerRecord /\ peers'[r] \in PeerRecord
      BY <1>0, Zenon DEF Known, Typed, PeerRecord
    <3>5. PICK d \in Nat : d = Len(delivered[i])
      <4>1. delivered \in Seq(Seq(Remotes \X Nat)) /\ i \in 1..Len(delivered)
        BY <1>0, <1>3, Zenon DEF Known, Typed, Places, Remains
      <4>2. delivered[i] \in Seq(Remotes \X Nat)
        BY <4>1, SMT
      <4> QED
        BY <4>2, LenProperties, Zenon
    <3>6. PICK p \in Nat : p = peers[r].sent
      BY <3>4, SMT DEF PeerRecord
    <3>7. PICK q \in Nat : q = peers'[r].sent
      BY <3>4, SMT DEF PeerRecord
    <3>8. d <= q
      BY <3>3, <3>5, <3>6, <3>7, SMT
    <3> QED
      BY <1>3, <3>2, <3>5, <3>7, <3>8, Zenon DEF Remains
  <2>3. \A r, d : AckedUpTo(r, d)' = AckedUpTo(r, d)
    BY <1>0, Zenon DEF AckedUpTo, EndOf
  <2> QED
    BY <1>2, <1>3, <2>1, <2>2, <2>3, ZenonT(40) DEF InSequence, Remains
<1>4. CASE Appears(i)
  <2>1. Len(<<>>) = 0 /\ 1..0 = {} /\ "LISTEN" \notin Open /\ "SYN_SENT" \notin Open
    BY SMT DEF Open
  <2>2. ASSUME HasRemote(i)'
        PROVE  0 <= peers'[sockets'[i].remote].sent
    <3>1. PICK r \in Remotes : r = sockets'[i].remote
      BY <1>4, <2>2, Zenon DEF Appears, HasRemote, Remotes
    <3>2. peers'[r] \in PeerRecord
      BY <1>0, Zenon DEF Known, Typed, PeerRecord
    <3> QED
      BY <3>1, <3>2, SMT DEF PeerRecord
  <2> QED
    BY <1>4, <2>1, <2>2, Zenon DEF Appears, InSequence
<1>5. CASE \E r \in Remotes : Begins(i, r)
  BY <1>5, InSequenceBegins, Zenon
<1>6. CASE ~spins /\ \E r \in Remotes : \E m \in OnWire(toUs[r]) :
             m \in PeerMessage /\ Arrives(toUs[r], m) /\ Sent(r, m) /\ Hears(i, m, r)
  BY <1>1, <1>6, InSequenceHeard, Zenon DEF Hears
<1> QED
  BY <1>0, <1>3, <1>4, <1>5, <1>6, EachSocket, Zenon DEF Disconnected

(* A socket's handler is given what its remote sent, in order, once and    *)
(* without a gap, on any wire, where no chunk is all zeros and no segment  *)
(* that a server pushes can be taken for the answer to our SYN.            *)
THEOREM DeliversInOrder ==
  ASSUME \A s \in Scenarios : NoBlanks(s) /\ NotMisled(s)
  PROVE  Spec => []DeliveredInOrder
<1>1. Init => AllInSequence
  BY NoSockets, Zenon DEF AllInSequence
<1>2. Heard => NoBlanks(scenario) /\ NotMisled(scenario)
  BY Zenon DEF Heard, Known, Typed
<1>3. Heard /\ AllInSequence /\ [Next]_vars => AllInSequence'
  BY <1>2, InSequenceStays
<1>4. Heard /\ AllInSequence => DeliveredInOrder
  <2> SUFFICES ASSUME Heard, AllInSequence, "disconnect" \notin calls,
                      NEW i \in DOMAIN delivered, NEW k \in DOMAIN delivered[i]
               PROVE  delivered[i][k] = <<sockets[i].remote, k>>
    BY Zenon DEF DeliveredInOrder
  <2>1. delivered \in Seq(Seq(Remotes \X Nat)) /\ Len(delivered) = Len(sockets)
    BY Zenon DEF Heard, Known, Typed
  <2>2. i \in Places /\ delivered[i] \in Seq(Remotes \X Nat)
    BY <2>1, SMT DEF Places
  <2>3. k \in 1..Len(delivered[i])
    BY <2>2, LenProperties, Zenon
  <2> QED
    BY <2>2, <2>3, Zenon DEF AllInSequence, InSequence
<1>5. Spec => []Heard
  BY AlwaysHeard
<1> QED
  BY <1>1, <1>3, <1>4, <1>5, PTL DEF Spec

-----------------------------------------------------------------------------
(* A queue of chunks *)

(* Queue t is queue q with the segments out behind it. *)
Joined(q, out, t) ==
  /\ q \in Seq(PeerMessage) /\ t \in Seq(PeerMessage) /\ Len(t) = Len(q) + Len(out)
  /\ Len(q) \in Nat /\ Len(out) \in Nat
  /\ \A a \in 1..Len(q) : t[a] = q[a]
  /\ \A a \in 1..Len(out) : t[Len(q) + a] = out[a]
  /\ \A a \in 1..Len(t) : a \in 1..Len(q) \/ \E b \in 1..Len(out) : a = Len(q) + b

(* On a wire that keeps order, Put joins queues.                           *)
LEMMA PutJoins ==
  ASSUME Reliable, NEW q, Carries(q, PeerMessage), NEW out \in Seq(PeerMessage)
  PROVE  Joined(q, out, Put(q, out))
<1>1. PICK M : M = PeerMessage
  BY Zenon
<1>2. Carries(q, M) /\ out \in Seq(M)
  BY <1>1
<1>3. q \in Seq(M) /\ Put(q, out) \in Seq(M) /\ Len(Put(q, out)) = Len(q) + Len(out)
  BY <1>2, Queued
<1>4. Len(q) \in Nat /\ Len(out) \in Nat
  BY <1>2, Queued
<1>5. \A a \in 1..Len(q) : Put(q, out)[a] = q[a]
  BY <1>2, Queued
<1>6. ASSUME NEW a \in 1..Len(out)
      PROVE  Put(q, out)[Len(q) + a] = out[a]
  <2>1. \A b \in 1..(Len(q) + Len(out)) : (q \o out)[b] = IF b <= Len(q) THEN q[b] ELSE out[b - Len(q)]
    BY <1>2, <1>3, ConcatProperties, ZenonT(40)
  <2>2. Len(q) + a \in 1..(Len(q) + Len(out)) /\ ~(Len(q) + a <= Len(q)) /\ (Len(q) + a) - Len(q) = a
    BY <1>4, SMT
  <2>3. Put(q, out) = q \o out
    BY Zenon DEF Put
  <2> QED
    BY <2>1, <2>2, <2>3, Zenon
<1>7. \A a \in 1..Len(Put(q, out)) : a \in 1..Len(q) \/ \E b \in 1..Len(out) : a = Len(q) + b
  BY <1>2, Queued
<1> QED
  BY <1>1, <1>3, <1>4, <1>5, <1>6, <1>7, Zenon DEF Joined

(* A line stays in line when segments without data are put behind it.      *)
LEMMA LineGrows ==
  ASSUME Reliable, NEW q, Carries(q, PeerMessage), NEW out \in Seq(PeerMessage),
         NEW d, NEW n, NEW l, InLine(q, d, n, l),
         \A m \in Range(out) : m.chunk = 0, SomeFin(Range(out)) => n = l
  PROVE  InLine(Put(q, out), d, n, l)
<1>1. PICK t : t = Put(q, out)
  BY Zenon
<1>2. /\ q \in Seq(PeerMessage) /\ t \in Seq(PeerMessage) /\ Len(t) = Len(q) + Len(out)
      /\ Len(q) \in Nat /\ Len(out) \in Nat
      /\ \A a \in 1..Len(q) : t[a] = q[a]
      /\ \A a \in 1..Len(out) : t[Len(q) + a] = out[a]
      /\ \A a \in 1..Len(t) : a \in 1..Len(q) \/ \E b \in 1..Len(out) : a = Len(q) + b
  <2>1. Joined(q, out, t)
    BY <1>1, PutJoins
  <2> QED
    BY <2>1, Zenon DEF Joined
<1>3. PICK k \in Nat : k = Len(q)
  BY <1>2, Zenon
<1>4. PICK j \in Nat : j = Len(out)
  BY <1>2, Zenon
<1>5. ASSUME NEW a \in 1..Len(t)
      PROVE  \/ a \in 1..Len(q) /\ t[a] = q[a]
             \/ k < a /\ t[a].chunk = 0 /\ ("FIN" \in t[a].flags => n = l)
  <2>1. CASE a \in 1..Len(q)
    BY <1>2, <2>1, Zenon
  <2>2. CASE \E b \in 1..Len(out) : a = Len(q) + b
    <3>1. PICK b \in 1..Len(out) : a = Len(q) + b
      BY <2>2, Zenon
    <3>2. t[a] = out[b] /\ b \in 1..j /\ a = k + b
      BY <1>2, <1>3, <1>4, <3>1, Zenon
    <3>3. out[b] \in Range(out)
      BY <3>1, HeadIsFirst, ZenonT(40)
    <3>4. k < a
      BY <3>2, SMT
    <3> QED
      BY <3>2, <3>3, <3>4, Zenon DEF SomeFin
  <2> QED
    BY <1>2, <2>1, <2>2, Zenon
<1>6. \A a \in 1..Len(q) : a \in 1..Len(t)
  BY <1>2, <1>3, <1>4, SMT
<1>7. ASSUME NEW a \in 1..Len(t), NEW b \in 1..Len(t), a < b, t[a].chunk # 0, t[b].chunk # 0
      PROVE  t[a].chunk < t[b].chunk
  <2>1. a \in 1..Len(q) /\ t[a] = q[a] /\ b \in 1..Len(q) /\ t[b] = q[b]
    BY <1>5, <1>7, Zenon
  <2> QED
    BY <1>7, <2>1, Zenon DEF InLine
<1>8. ASSUME NEW a \in 1..Len(t), t[a].chunk # 0
      PROVE  d < t[a].chunk
  BY <1>5, <1>8, Zenon DEF InLine
<1>9. ASSUME NEW c \in (d + 1)..n
      PROVE  \E a \in 1..Len(t) : t[a].chunk = c
  <2>1. PICK a \in 1..Len(q) : q[a].chunk = c
    BY Zenon DEF InLine
  <2> QED
    BY <1>2, <1>6, <2>1, Zenon
<1>10. ASSUME NEW a \in 1..Len(t), NEW b \in 1..Len(t), a < b, "FIN" \in t[a].flags
       PROVE  t[b].chunk = 0
  <2>1. CASE b \in 1..Len(q) /\ t[b] = q[b]
    <3>1. ~(k < a)
      BY <1>3, <1>10, <2>1, SMT
    <3> QED
      BY <1>5, <1>10, <2>1, <3>1, Zenon DEF InLine
  <2> QED
    BY <1>5, <2>1, Zenon
<1>11. ASSUME NEW a \in 1..Len(t), "FIN" \in t[a].flags
       PROVE  n = l
  BY <1>5, <1>11, Zenon DEF InLine
<1>12. InLine(t, d, n, l)
  BY <1>7, <1>8, <1>9, <1>10, <1>11, Zenon DEF InLine
<1> QED
  BY <1>1, <1>12, Zenon

(* The remote sends its next chunk. *)
LEMMA LineNext ==
  ASSUME Reliable, NEW q, Carries(q, PeerMessage), NEW flags, "FIN" \notin flags,
         NEW d \in Nat, NEW n \in Nat, NEW l, d <= n, InLine(q, d, n, l),
         NEW out, Lone(out, flags, n + 1),
         \A m \in Range(q) : m.chunk <= n /\ "FIN" \notin m.flags
  PROVE  InLine(Put(q, out), d, n + 1, l)
<1>1. PICK t : t = Put(q, out)
  BY Zenon
<1>2. /\ Len(out) = 1 /\ out \in Seq(PeerMessage) /\ out[1].flags = flags /\ out[1].chunk = n + 1
  BY LoneHead
<1>3. /\ q \in Seq(PeerMessage) /\ t \in Seq(PeerMessage) /\ Len(t) = Len(q) + Len(out)
      /\ Len(q) \in Nat /\ Len(out) \in Nat
      /\ \A a \in 1..Len(q) : t[a] = q[a]
      /\ \A a \in 1..Len(out) : t[Len(q) + a] = out[a]
      /\ \A a \in 1..Len(t) : a \in 1..Len(q) \/ \E b \in 1..Len(out) : a = Len(q) + b
  <2>1. Joined(q, out, t)
    BY <1>1, <1>2, PutJoins
  <2> QED
    BY <2>1, Zenon DEF Joined
<1>4. PICK k \in Nat : k = Len(q)
  BY <1>3, Zenon
<1>5. Len(t) = k + 1 /\ 1 \in 1..Len(out) /\ t[k + 1] = out[1]
  <2>1. 1 \in 1..Len(out)
    BY <1>2, SMT
  <2> QED
    BY <1>2, <1>3, <1>4, <2>1, Zenon
<1>6. ASSUME NEW a \in 1..k
      PROVE  /\ t[a] = q[a] /\ t[a].chunk \in Nat /\ t[a].chunk <= n /\ "FIN" \notin t[a].flags
             /\ a \in 1..Len(q)
  <2>0. Range(q) = {q[b] : b \in 1..Len(q)}
    BY <1>3, HeadIsFirst, ZenonT(40)
  <2>1. a \in 1..Len(q) /\ q[a] \in Range(q)
    BY <1>4, <2>0, Zenon
  <2>2. q[a] \in PeerMessage
    BY <1>3, <2>1, ElementOfSeq, Zenon
  <2>3. q[a].chunk \in Nat
    BY <2>2, SMT DEF PeerMessage
  <2> QED
    BY <1>3, <2>1, <2>3, Zenon
<1>7. \A a \in 1..Len(t) : a \in 1..k \/ a = k + 1
  BY <1>5, SMT
<1>8. t[k + 1].chunk = n + 1 /\ "FIN" \notin t[k + 1].flags
  BY <1>2, <1>5, Zenon
<1>9. ASSUME NEW a \in 1..Len(t), NEW b \in 1..Len(t), a < b, t[a].chunk # 0, t[b].chunk # 0
      PROVE  t[a].chunk < t[b].chunk
  <2>1. a \in 1..k
    BY <1>5, <1>9, SMT
  <2>2. CASE b \in 1..k
    BY <1>6, <1>9, <2>1, <2>2, Zenon DEF InLine
  <2>3. CASE b = k + 1
    <3>1. PICK x \in Nat : x = t[a].chunk /\ x <= n
      BY <1>6, <2>1, Zenon
    <3>2. x < n + 1
      BY <3>1, SMT
    <3> QED
      BY <1>8, <2>3, <3>1, <3>2, Zenon
  <2> QED
    BY <1>7, <2>2, <2>3, Zenon
<1>10. ASSUME NEW a \in 1..Len(t), t[a].chunk # 0
       PROVE  d < t[a].chunk
  <2>1. CASE a \in 1..k
    BY <1>6, <1>10, <2>1, Zenon DEF InLine
  <2>2. CASE a = k + 1
    <3>1. d < n + 1
      BY SMT
    <3> QED
      BY <1>8, <2>2, <3>1, Zenon
  <2> QED
    BY <1>7, <2>1, <2>2, Zenon
<1>11. ASSUME NEW c \in (d + 1)..(n + 1)
       PROVE  \E a \in 1..Len(t) : t[a].chunk = c
  <2>1. CASE c = n + 1
    <3>1. k + 1 \in 1..Len(t)
      BY <1>5, SMT
    <3> QED
      BY <1>8, <2>1, <3>1, Zenon
  <2>2. CASE c # n + 1
    <3>1. c \in (d + 1)..n
      BY <2>2, SMT
    <3>2. PICK a \in 1..Len(q) : q[a].chunk = c
      BY <3>1, Zenon DEF InLine
    <3>3. a \in 1..k /\ a \in 1..Len(t)
      BY <1>4, <1>5, SMT
    <3> QED
      BY <1>6, <3>2, <3>3, Zenon
  <2> QED
    BY <2>1, <2>2
<1>12. \A a \in 1..Len(t) : "FIN" \notin t[a].flags
  BY <1>6, <1>7, <1>8, Zenon
<1>13. InLine(t, d, n + 1, l)
  BY <1>9, <1>10, <1>11, <1>12, Zenon DEF InLine
<1> QED
  BY <1>1, <1>13, Zenon

(* The first segment is taken; e chunks are delivered then. *)
LEMMA LineTaken ==
  ASSUME NEW q \in Seq(PeerMessage), NEW t \in Seq(PeerMessage), q # <<>>, Len(t) = Len(q) - 1,
         \A a \in 1..Len(t) : t[a] = q[a + 1],
         NEW d \in Nat, NEW e \in Nat, NEW n \in Nat, NEW l, InLine(q, d, n, l),
         (q[1].chunk = 0 /\ e = d) \/ (q[1].chunk = e /\ e = d + 1)
  PROVE  InLine(t, e, n, l)
<1>1. Len(t) \in Nat /\ Len(q) \in Nat /\ 1 \in 1..Len(q)
  BY HeadIsFirst, Zenon
<1>2. PICK k \in Nat : k = Len(t) /\ Len(q) = k + 1
  BY <1>1, SMT
<1>3. ASSUME NEW a \in 1..Len(t)
      PROVE  a \in 1..k /\ a + 1 \in 1..Len(q) /\ t[a] = q[a + 1] /\ 1 < a + 1 /\ a \in Nat
  <2>1. a \in 1..k
    BY <1>2
  <2>2. a + 1 \in 1..Len(q) /\ 1 < a + 1 /\ a \in Nat
    BY <1>2, <2>1, SMT
  <2> QED
    BY <2>1, <2>2
<1>4. ASSUME NEW a \in 1..Len(q), a # 1
      PROVE  \E b \in 1..Len(t) : a = b + 1
  <2>1. PICK b \in Nat : a = b + 1 /\ b \in 1..k
    BY <1>2, <1>4, SMT
  <2> QED
    BY <1>2, <2>1, Zenon
<1>5. ASSUME NEW a \in 1..Len(t), NEW b \in 1..Len(t), a < b
      PROVE  /\ t[a].chunk # 0 /\ t[b].chunk # 0 => t[a].chunk < t[b].chunk
             /\ "FIN" \in t[a].flags => t[b].chunk = 0
  <2>1. a + 1 < b + 1
    BY <1>3, <1>5, SMT
  <2>2. PICK x \in 1..Len(q) : x = a + 1 /\ t[a] = q[x]
    BY <1>3, <1>5, Zenon
  <2>3. PICK y \in 1..Len(q) : y = b + 1 /\ t[b] = q[y]
    BY <1>3, <1>5, Zenon
  <2>4. x < y
    BY <2>1, <2>2, <2>3, Zenon
  <2> QED
    <3>1. q[x].chunk # 0 /\ q[y].chunk # 0 => q[x].chunk < q[y].chunk
      BY <2>4, Zenon DEF InLine
    <3>2. "FIN" \in q[x].flags => q[y].chunk = 0
      BY <2>4, Zenon DEF InLine
    <3> QED
      BY <2>2, <2>3, <3>1, <3>2
<1>6. ASSUME NEW a \in 1..Len(t), t[a].chunk # 0
      PROVE  e < t[a].chunk
  <2>1. d < q[a + 1].chunk
    BY <1>3, <1>6, Zenon DEF InLine
  <2>2. CASE e = d
    BY <1>3, <2>1, <2>2, Zenon
  <2>3. CASE q[1].chunk = e /\ e = d + 1
    <3>1. e # 0
      BY <2>3, SMT
    <3>2. q[1].chunk < q[a + 1].chunk
      BY <1>1, <1>3, <1>6, <2>3, <3>1, Zenon DEF InLine
    <3> QED
      BY <1>3, <2>3, <3>2, Zenon
  <2> QED
    BY <2>2, <2>3
<1>7. ASSUME NEW c \in (e + 1)..n
      PROVE  \E a \in 1..Len(t) : t[a].chunk = c
  <2>1. c \in (d + 1)..n /\ c # e /\ c # 0
    BY SMT
  <2>2. PICK a \in 1..Len(q) : q[a].chunk = c
    BY <2>1, Zenon DEF InLine
  <2>3. a # 1
    BY <2>1, <2>2, Zenon
  <2>4. PICK b \in 1..Len(t) : a = b + 1
    BY <1>4, <2>3, Zenon
  <2> QED
    BY <1>3, <2>2, <2>4, Zenon
<1>8. ASSUME NEW a \in 1..Len(t), "FIN" \in t[a].flags
      PROVE  n = l
  BY <1>3, <1>8, Zenon DEF InLine
<1> QED
  BY <1>5, <1>6, <1>7, <1>8, Zenon DEF InLine

(* The first segment, if it is data, is the chunk behind the d delivered.  *)
LEMMA LineHead ==
  ASSUME NEW q \in Seq(PeerMessage), q # <<>>, NEW d \in Nat, NEW n \in Nat, NEW l,
         InLine(q, d, n, l), q[1].chunk # 0, q[1].chunk \in 0..n
  PROVE  q[1].chunk = d + 1
<1>1. 1 \in 1..Len(q) /\ Len(q) \in Nat
  BY HeadIsFirst, Zenon
<1>2. PICK c \in Nat : c = q[1].chunk /\ c <= n /\ d < c
  <2>1. d < q[1].chunk
    BY <1>1, Zenon DEF InLine
  <2> QED
    BY <2>1, SMT
<1>3. d + 1 \in (d + 1)..n
  BY <1>2, SMT
<1>4. PICK a \in 1..Len(q) : q[a].chunk = d + 1
  BY <1>3, Zenon DEF InLine
<1>5. a = 1 \/ 1 < a
  BY <1>1, SMT
<1>6. CASE 1 < a
  <2>1. d + 1 # 0
    BY SMT
  <2>2. c < d + 1
    <3>1. q[1].chunk # 0 /\ q[a].chunk # 0
      BY <1>4, <2>1
    <3>2. q[1].chunk < q[a].chunk
      BY <1>1, <1>6, <3>1, Zenon DEF InLine
    <3> QED
      BY <1>2, <1>4, <3>2, Zenon
  <2> QED
    BY <1>2, <2>2, SMT
<1> QED
  BY <1>4, <1>5, <1>6, Zenon

(* If it is the FIN, all of the stream is delivered. *)
LEMMA LineEnd ==
  ASSUME NEW q \in Seq(PeerMessage), q # <<>>, NEW d \in Nat, NEW n \in Nat, NEW l, d <= n,
         InLine(q, d, n, l), "FIN" \in q[1].flags, q[1].chunk = 0
  PROVE  d = l
<1>1. 1 \in 1..Len(q) /\ Len(q) \in Nat
  BY HeadIsFirst, Zenon
<1>2. n = l
  BY <1>1, Zenon DEF InLine
<1>3. ~(d < n)
  <2> SUFFICES ASSUME d < n
               PROVE  FALSE
    OBVIOUS
  <2>1. d + 1 \in (d + 1)..n /\ d + 1 # 0
    BY SMT
  <2>2. PICK a \in 1..Len(q) : q[a].chunk = d + 1
    BY <2>1, Zenon DEF InLine
  <2>3. a = 1 \/ 1 < a
    BY <1>1, SMT
  <2> QED
    BY <1>1, <2>1, <2>2, <2>3, Zenon DEF InLine
<1> QED
  BY <1>2, <1>3, SMT

-----------------------------------------------------------------------------
(* Everything a remote has sent and a young socket has not been given is   *)
(* on its way, where the wire keeps order                                  *)

(* Without padding, what is acknowledged is what was delivered. *)
LEMMA NothingLost ==
  ASSUME Known, NothingPadded(scenario), NEW r \in Remotes, NEW d \in 0..Len(Stream[r])
  PROVE  AckedUpTo(r, d) = EndOf(Stream[r], d) /\ (d # 0 => Stream[r][d].kept > 0)
<1>1. CASE d = 0
  BY <1>1, Zenon DEF AckedUpTo, EndOf
<1>2. CASE d # 0
  <2>0. Stream[r] \in Seq(Chunk) /\ Len(Stream[r]) \in Nat
    BY StreamTyped, Zenon DEF Known
  <2>1. d \in 1..Len(Stream[r]) /\ d \in DOMAIN Stream[r] /\ d - 1 \in 0..(d - 1)
    BY <1>2, <2>0, SMT
  <2>2. EndOf(Stream[r], d) \in Nat /\ EndOf(Stream[r], d - 1) \in Nat /\ EndOf(Stream[r], d - 1) < EndOf(Stream[r], d)
    BY <2>1, EndsGoUp
  <2>3. EndOf(Stream[r], d) = Stream[r][d].end
    BY <1>2, Zenon DEF EndOf
  <2>4. Stream[r][d].kept = Stream[r][d].end - EndOf(Stream[r], d - 1)
    BY <2>1, Zenon DEF NothingPadded, Stream
  <2>5. PICK e \in Nat : e = EndOf(Stream[r], d)
    BY <2>2, Zenon
  <2>6. PICK b \in Nat : b = EndOf(Stream[r], d - 1)
    BY <2>2, Zenon
  <2>7. Stream[r][d].kept = e - b /\ b < e
    BY <2>2, <2>3, <2>4, <2>5, <2>6, Zenon
  <2>8. e - b > 0 /\ b + (e - b) = e
    BY <2>7, SMT
  <2>9. AckedUpTo(r, d) = b + (e - b)
    BY <1>2, <2>6, <2>7, Zenon DEF AckedUpTo
  <2> QED
    BY <2>5, <2>7, <2>8, <2>9, Zenon
<1> QED
  BY <1>1, <1>2

(* A chunk without padding is not all zeros.                               *)
LEMMA NothingBlank ==
  ASSUME Known, NothingPadded(scenario)
  PROVE  NoBlanks(scenario)
<1> SUFFICES ASSUME NEW r \in Remotes, NEW k \in DOMAIN Stream[r]
             PROVE  Stream[r][k].kept > 0
  BY Zenon DEF NoBlanks, Stream
<1>1. Stream[r] \in Seq(Chunk)
  BY StreamTyped, Zenon DEF Known
<1>2. k \in 0..Len(Stream[r]) /\ k # 0
  BY <1>1, SMT
<1> QED
  BY <1>2, NothingLost

(* A socket that was bound stays bound.                                    *)
LEMMA BoundStays ==
  ASSUME Known, AllBound, [Next]_vars
  PROVE  AllBound'
<1>1. BindApart' = BindApart
  BY StepsMove, SameSetting
<1> SUFFICES ASSUME NEW i \in Places', ~BindApart
             PROVE  sockets'[i].bound
  BY <1>1, Zenon DEF AllBound
<1>2. i \in Places => sockets[i].bound
  BY Zenon DEF AllBound
<1> QED
  BY <1>2, EachSocket, Zenon DEF Remains, Appears, Disconnected, Hears, Begins

(* A socket that remains, with a remote that remains, stays in line.       *)
LEMMA LinedSame ==
  ASSUME scenario' = scenario, NEW i, Lined(i), Remains(i),
         sockets[i].state \in Young =>
           /\ toUs'[sockets[i].remote] = toUs[sockets[i].remote]
           /\ peers'[sockets[i].remote] = peers[sockets[i].remote]
           /\ \A m \in OnWire(toPeers'[sockets[i].remote]) :
                m \in OnWire(toPeers[sockets[i].remote]) \/ "FIN" \notin m.flags
  PROVE  Lined(i)'
<1>1. Stream' = Stream /\ Reliable' = Reliable
  BY SameSetting
<1>2. /\ sockets'[i].state = sockets[i].state /\ sockets'[i].remote = sockets[i].remote
      /\ delivered'[i] = delivered[i]
  BY Zenon DEF Remains
<1>3. sockets[i].state = "CLOSE_WAIT" => Len(delivered'[i]) = Len(Stream'[sockets'[i].remote])
  BY <1>1, <1>2, Zenon DEF Lined
<1>4. ASSUME sockets[i].state \in Young
      PROVE  /\ InLine(toUs[sockets[i].remote], Len(delivered[i]), peers[sockets[i].remote].sent, Len(Stream[sockets[i].remote]))'
             /\ \A m \in OnWire(toPeers[sockets[i].remote])' : "FIN" \notin m.flags
  <2>1. InLine(toUs[sockets[i].remote], Len(delivered[i]), peers[sockets[i].remote].sent, Len(Stream[sockets[i].remote]))'
    BY <1>1, <1>2, <1>4, Zenon DEF Lined, InLine
  <2>2. \A m \in OnWire(toPeers[sockets[i].remote])' : "FIN" \notin m.flags
    BY <1>1, <1>2, <1>4, Zenon DEF Lined, OnWire
  <2> QED
    BY <2>1, <2>2
<1> QED
  BY <1>2, <1>3, <1>4, Zenon DEF Lined

(* kernelMain preserves the line.                                          *)
LEMMA LinedMain ==
  ASSUME Known, Reliable, scenario' = scenario, "disconnect" \notin calls', MainMoves,
         \A i \in Places : Lined(i), NEW i \in Places'
  PROVE  Lined(i)'
<1>1. toUs' = toUs /\ peers' = peers /\ NoFinSent
  BY Zenon DEF MainMoves
<1>2. CASE Remains(i)
  <2>1. Lined(i) /\ i \in Places
    BY <1>2, Zenon DEF Remains
  <2>2. ASSUME sockets[i].state \in Young
        PROVE  sockets[i].remote \in Remotes
    <3>1. sockets[i].state # "LISTEN"
      BY <2>2, SMT DEF Young
    <3> QED
      BY <2>1, <3>1, ToRemote, Zenon
  <2>3. sockets[i].state \in Young =>
           /\ toUs'[sockets[i].remote] = toUs[sockets[i].remote]
           /\ peers'[sockets[i].remote] = peers[sockets[i].remote]
           /\ \A m \in OnWire(toPeers'[sockets[i].remote]) :
                m \in OnWire(toPeers[sockets[i].remote]) \/ "FIN" \notin m.flags
    BY <1>1, <2>2, Zenon DEF NoFinSent
  <2> QED
    BY <1>2, <2>1, <2>3, LinedSame
<1>3. CASE Appears(i)
  <2>0. "LISTEN" # "CLOSE_WAIT" /\ "LISTEN" \notin Young /\ "SYN_SENT" # "CLOSE_WAIT"
    BY SMT DEF Young
  <2>1. CASE sockets'[i].state = "LISTEN"
    BY <2>0, <2>1, Zenon DEF Lined
  <2>2. CASE sockets'[i].state # "LISTEN"
    <3>1. PICK r \in Remotes : r = sockets'[i].remote
      BY <1>3, <2>2, Zenon DEF Appears, Remotes
    <3>2. /\ sockets'[i].state = "SYN_SENT" /\ peers[r].state = "closed" /\ delivered'[i] = <<>>
          /\ OnWire(toPeers[r]) = {}
      BY <1>3, <2>2, <3>1, Zenon DEF Appears
    <3>3. toUs'[r] = <<>>
      BY <1>1, <3>2, ClosedSaysNothing, SaidNothing, Zenon
    <3>4. peers'[r].sent = 0
      BY <1>1, <3>2, Zenon DEF Known, PeersKnown, Before
    <3>5. InLine(<<>>, 0, 0, Len(Stream'[r]))
      BY SMT DEF InLine
    <3>6. Len(delivered'[i]) = 0
      BY <3>2, SMT
    <3>7. InLine(toUs[sockets[i].remote], Len(delivered[i]), peers[sockets[i].remote].sent, Len(Stream[sockets[i].remote]))'
      <4>1. InLine(toUs'[sockets'[i].remote], Len(delivered'[i]), peers'[sockets'[i].remote].sent,
                   Len(Stream'[sockets'[i].remote]))
        BY <3>1, <3>3, <3>4, <3>5, <3>6
      <4> QED
        BY <4>1, Zenon DEF InLine
    <3>8. \A m \in OnWire(toPeers[sockets[i].remote])' : "FIN" \notin m.flags
      <4>1. Reliable' = Reliable
        BY SameSetting
      <4> QED
        BY <1>1, <3>1, <3>2, <4>1, Zenon DEF NoFinSent, OnWire
    <3> QED
      BY <2>0, <3>2, <3>7, <3>8, Zenon DEF Lined
  <2> QED
    BY <2>1, <2>2
<1> QED
  BY <1>2, <1>3, Zenon DEF MainMoves, Disconnected

(* What the first segment on the way is to a young socket. *)
LEMMA FirstInLine ==
  ASSUME Known, Reliable, AllTaken(scenario), NEW r \in Remotes, NEW m, Sent(r, m),
         toUs[r] \in Seq(PeerMessage), toUs[r] # <<>>, m = toUs[r][1],
         NEW d \in Nat, d <= peers[r].sent, InLine(toUs[r], d, peers[r].sent, Len(Stream[r]))
  PROVE  /\ m.chunk # 0 => m.flags = {"ACK", "PSH"} /\ m.chunk = d + 1
         /\ "FIN" \in m.flags => m.chunk = 0 /\ d = Len(Stream[r])
         /\ m.chunk # 0 => m.chunk \in Nat
<1>1. PICK n \in Nat : n = peers[r].sent /\ n \in 0..Len(Stream[r])
  <2>1. peers[r].sent \in 0..Len(Stream[r])
    BY Zenon DEF Known, PeersKnown
  <2> QED
    BY <2>1, SMT
<1>2. m.chunk \in 0..n
  BY <1>1, Zenon DEF Sent
<1>3. ASSUME m.chunk # 0
      PROVE  m.flags = {"ACK", "PSH"} /\ m.chunk = d + 1 /\ m.chunk \in Nat
  <2>1. toUs[r][1].chunk = d + 1
    BY <1>1, <1>2, <1>3, LineHead, Zenon
  <2>2. m.chunk \in DOMAIN Stream[r]
    <3>1. Stream[r] \in Seq(Chunk) /\ Len(Stream[r]) \in Nat
      BY StreamTyped, Zenon DEF Known
    <3>2. PICK l \in Nat : l = Len(Stream[r])
      BY <3>1, Zenon
    <3>3. n \in 0..l
      BY <1>1, <3>2, Zenon
    <3>4. m.chunk \in 1..l
      BY <1>2, <1>3, <3>3, SMT
    <3> QED
      BY <3>1, <3>2, <3>4, SMT
  <2>3. Stream[r][m.chunk].push
    BY <2>2, Zenon DEF AllTaken, Stream, Reliable
  <2>4. m.flags = {"ACK"} \cup {"PSH"}
    BY <1>3, <2>3, Zenon DEF Sent
  <2>5. {"ACK"} \cup {"PSH"} = {"ACK", "PSH"}
    BY SMT
  <2>6. m.chunk \in Nat
    BY <1>2, SMT
  <2> QED
    BY <2>1, <2>4, <2>5, <2>6
<1>4. ASSUME "FIN" \in m.flags
      PROVE  m.chunk = 0 /\ d = Len(Stream[r])
  <2>1. m.chunk = 0
    BY <1>3, <1>4, SMT
  <2>2. d <= n /\ InLine(toUs[r], d, n, Len(Stream[r])) /\ "FIN" \in toUs[r][1].flags /\ toUs[r][1].chunk = 0
    BY <1>1, <1>4, <2>1
  <2> QED
    BY <1>1, <2>1, <2>2, LineEnd
<1> QED
  BY <1>3, <1>4

(* A young socket that stays so has taken the data, if it was data. *)
LEMMA YoungTakes ==
  ASSUME Heard, Reliable, AllBound, ~BindApart, NothingPadded(scenario), ~spins,
         NEW r \in Remotes, NEW m, Sent(r, m), Arrives(toUs[r], m), toUs[r] # <<>>, m = Head(toUs[r]),
         NEW i, Hears(i, m, r), InSequence(i), sockets'[i].state \in Young,
         m.chunk # 0 => /\ m.flags = {"ACK", "PSH"} /\ m.chunk = Len(delivered[i]) + 1 /\ m.chunk \in Nat,
         NotMisled(scenario), Len(delivered[i]) \in 0..Len(Stream[r])
  PROVE  \/ m.chunk = 0 /\ delivered'[i] = delivered[i]
         \/ m.chunk = Len(delivered[i]) + 1 /\ Len(delivered'[i]) = Len(delivered[i]) + 1
<1>1. /\ i \in Places /\ sockets[i].state \in Young /\ HasRemote(i) /\ sockets[i].remote = r
      /\ sockets'[i].remote = r
  BY Zenon DEF Hears
<1>2. /\ sockets[i].state = "SYN_SENT" => m.flags = {"SYN", "ACK"}
      /\ sockets[i].state = "SYN_RECEIVED" => m.flags = {"ACK"} /\ m.chunk = 0
  BY <1>1, Zenon DEF Heard, HandshakeFirst, AllGreet, Greets
<1>3. /\ "SYN" \in {"SYN", "ACK"} /\ "SYN" \notin {"ACK", "PSH"}
      /\ "FIN" \notin {"ACK", "PSH"} /\ "CLOSED" \notin Young /\ "CLOSE_WAIT" \notin Young
      /\ "FIN_WAIT1" \notin Young /\ "FIN_WAIT2" \notin Young
      /\ Young = {"SYN_SENT", "SYN_RECEIVED", "ESTABLISHED"}
  BY SMT DEF Young
<1>4. CASE Moved(m, sockets[i], sockets'[i]) /\ delivered'[i] = delivered[i]
  <2> SUFFICES ASSUME m.chunk # 0
               PROVE  FALSE
    BY <1>4
  <2>1. m.flags = {"ACK", "PSH"} /\ m.chunk = Len(delivered[i]) + 1
    OBVIOUS
  <2>2. sockets[i].state = "ESTABLISHED"
    BY <1>1, <1>2, <1>3, <2>1, Zenon
  <2>3. InOrder(m, sockets[i])
    <3>1. m.seq = Behind(r, m.chunk - 1)
      BY <2>1, DataIsChunk, Zenon DEF Heard
    <3>2. PICK d \in Nat : d = Len(delivered[i])
      <4>1. Len(Stream[r]) \in Nat
        BY StreamTyped, Zenon DEF Heard, Known
      <4> QED
        BY <4>1, SMT
    <3>3. m.chunk - 1 = d
      BY <2>1, <3>2, SMT
    <3>4. AckedUpTo(r, d) = EndOf(Stream[r], d)
      BY <3>2, NothingLost, Zenon DEF Heard
    <3>5. sockets[i].acknowledgementNumber = Plus(PeerISN, 1 + AckedUpTo(r, d))
      <4>1. "ESTABLISHED" \in Open
        BY SMT DEF Open
      <4> QED
        BY <1>1, <2>2, <3>2, <4>1, Zenon DEF InSequence
    <3> QED
      BY <3>1, <3>3, <3>4, <3>5, Zenon DEF InOrder, Behind
  <2>4. sockets[i].bound
    BY <1>1, Zenon DEF AllBound
  <2>5. Awaited(m, sockets[i])
    BY <2>1, <2>2, <2>3, <2>4, Zenon DEF Awaited
  <2>6. sockets[i].state # "SYN_SENT" /\ sockets[i].state # "SYN_RECEIVED" /\ sockets[i].state # "FIN_WAIT1"
    BY <2>2, SMT
  <2>7. sockets'[i].state # "CLOSED" /\ "FIN" \notin m.flags
    BY <1>3, <2>1, Zenon
  <2> QED
    BY <1>4, <2>5, <2>6, <2>7, Zenon DEF Moved
<1>5. CASE Brought(m, r, i, sockets[i], sockets'[i])
  <2>1. sockets[i].state \in Open
    <3>1. sockets[i].state # "SYN_SENT"
      BY <1>2, <1>3, <1>5, Zenon DEF Brought
    <3>2. sockets[i].state \in {"ESTABLISHED", "FIN_WAIT2"}
      BY <1>5, <3>1, Zenon DEF Brought
    <3> QED
      BY <3>2, SMT DEF Open
  <2>2. NoBlanks(scenario)
    BY NothingBlank, Zenon DEF Heard
  <2>3. m.chunk = Len(delivered[i]) + 1 /\ Len(delivered'[i]) = m.chunk
    BY <1>1, <1>5, <2>1, <2>2, BroughtNext, Zenon DEF Heard
  <2> QED
    BY <2>3
<1> QED
  BY <1>4, <1>5, Zenon DEF Hears

(* The invariant of what sockets were given, on a wire that keeps order,   *)
(* under the conditions that make acknowledged and delivered the same.     *)
Orderly ==
  /\ Heard /\ AllInSequence /\ AllBound /\ AllLined
  /\ NothingPadded(scenario) /\ NotMisled(scenario) /\ AllTaken(scenario)

(* The socket that hears the first segment of its remote's queue. *)
LEMMA LinedHears ==
  ASSUME Orderly, Reliable, scenario' = scenario, ~spins, peers' = peers, "disconnect" \notin calls,
         NEW r \in Remotes, NEW m, Sent(r, m), Arrives(toUs[r], m),
         toUs' = [toUs EXCEPT ![r] = Taken(@)], NEW i, Hears(i, m, r)
  PROVE  Lined(i)'
<1>0. Known /\ ~BindApart /\ Stream' = Stream /\ Reliable' = Reliable
  BY SameSetting, Zenon DEF Orderly, Heard, AllTaken, Reliable, BindApart
<1>1. /\ i \in Places /\ HasRemote(i) /\ sockets[i].remote = r /\ sockets'[i].remote = r
  BY Zenon DEF Hears
<1>2. Lined(i) /\ InSequence(i)
  BY <1>1, Zenon DEF Orderly, AllLined, AllInSequence
<1>3. /\ toUs[r] \in Seq(PeerMessage) /\ toUs[r] # <<>> /\ m = toUs[r][1] /\ m = Head(toUs[r])
      /\ toUs'[r] \in Seq(PeerMessage) /\ Len(toUs'[r]) = Len(toUs[r]) - 1
      /\ \A a \in 1..Len(toUs'[r]) : toUs'[r][a] = toUs[r][a + 1]
  BY <1>0, SegmentTaken, Zenon
<1>4. PICK d \in Nat : d = Len(delivered[i])
  <2>1. delivered \in Seq(Seq(Remotes \X Nat)) /\ i \in 1..Len(delivered)
    BY <1>0, <1>1, Zenon DEF Known, Typed, Places
  <2>2. delivered[i] \in Seq(Remotes \X Nat)
    BY <2>1, SMT
  <2> QED
    BY <2>2, LenProperties, Zenon
<1>5. PICK n \in Nat : n = peers[r].sent /\ n \in 0..Len(Stream[r])
  <2>1. peers[r].sent \in 0..Len(Stream[r])
    BY <1>0, Zenon DEF Known, PeersKnown
  <2> QED
    BY <2>1, SMT
<1>6. d <= n
  BY <1>1, <1>2, <1>4, <1>5, Zenon DEF InSequence
<1>7. ASSUME sockets[i].state \in Young
      PROVE  /\ m.chunk # 0 => m.flags = {"ACK", "PSH"} /\ m.chunk = d + 1
             /\ "FIN" \in m.flags => m.chunk = 0 /\ d = Len(Stream[r])
             /\ m.chunk # 0 => m.chunk \in Nat
  <2>1. InLine(toUs[r], d, peers[r].sent, Len(Stream[r]))
    BY <1>1, <1>2, <1>4, <1>7, Zenon DEF Lined
  <2>2. AllTaken(scenario) /\ d <= peers[r].sent
    BY <1>5, <1>6, Zenon DEF Orderly
  <2> QED
    BY <1>0, <1>3, <2>1, <2>2, FirstInLine, Zenon
<1>8. ASSUME sockets'[i].state = "CLOSE_WAIT"
      PROVE  Len(delivered'[i]) = Len(Stream[r])
  <2>0. /\ "CLOSE_WAIT" # "CLOSED" /\ "CLOSE_WAIT" # "ESTABLISHED" /\ "CLOSE_WAIT" # "FIN_WAIT1"
        /\ "CLOSE_WAIT" # "FIN_WAIT2" /\ "CLOSE_WAIT" \notin {"SYN_SENT", "ESTABLISHED", "FIN_WAIT2"}
        /\ "ESTABLISHED" \in Young
    BY SMT DEF Young
  <2>1. Moved(m, sockets[i], sockets'[i]) /\ delivered'[i] = delivered[i]
    BY <1>8, <2>0, Zenon DEF Hears, Brought
  <2>2. CASE sockets'[i] = sockets[i]
    BY <1>1, <1>2, <1>8, <2>1, <2>2, Zenon DEF Lined
  <2>3. CASE sockets[i].state = "ESTABLISHED" /\ "FIN" \in m.flags
    BY <1>4, <1>7, <2>0, <2>1, <2>3, Zenon
  <2> QED
    BY <1>8, <2>0, <2>1, <2>2, <2>3, Zenon DEF Moved
<1>9. ASSUME sockets'[i].state \in Young
      PROVE  /\ InLine(toUs'[r], Len(delivered'[i]), n, Len(Stream[r]))
             /\ \A x \in OnWire(toPeers[r])' : "FIN" \notin x.flags
  <2>1. sockets[i].state \in Young /\ NoFinSent
    BY <1>9, Zenon DEF Hears
  <2>2. InLine(toUs[r], d, n, Len(Stream[r])) /\ \A x \in OnWire(toPeers[r]) : "FIN" \notin x.flags
    BY <1>1, <1>2, <1>4, <1>5, <2>1, Zenon DEF Lined
  <2>3. \A x \in OnWire(toPeers[r])' : "FIN" \notin x.flags
    BY <1>0, <2>1, <2>2, Zenon DEF NoFinSent, OnWire
  <2>4. d \in 0..Len(Stream[r])
    <3>1. Len(Stream[r]) \in Nat
      BY <1>0, StreamTyped, Zenon DEF Known
    <3> QED
      BY <1>5, <1>6, <3>1, SMT
  <2>5. \/ m.chunk = 0 /\ delivered'[i] = delivered[i]
        \/ m.chunk = Len(delivered[i]) + 1 /\ Len(delivered'[i]) = Len(delivered[i]) + 1
    <3>1. m.chunk # 0 => /\ m.flags = {"ACK", "PSH"} /\ m.chunk = Len(delivered[i]) + 1 /\ m.chunk \in Nat
      BY <1>4, <1>7, <2>1, Zenon
    <3>2. /\ Heard /\ AllBound /\ NothingPadded(scenario) /\ NotMisled(scenario)
          /\ Len(delivered[i]) \in 0..Len(Stream[r])
      BY <1>4, <2>4, Zenon DEF Orderly
    <3> QED
      BY <1>0, <1>2, <1>3, <1>9, <3>1, <3>2, YoungTakes
  <2>6. PICK e : e = Len(delivered'[i])
    BY Zenon
  <2>7. e \in Nat /\ ((m.chunk = 0 /\ e = d) \/ (m.chunk = e /\ e = d + 1))
    <3>1. (m.chunk = 0 /\ e = d) \/ (m.chunk = e /\ e = d + 1)
      BY <1>4, <2>5, <2>6, Zenon
    <3>2. d + 1 \in Nat
      BY SMT
    <3> QED
      BY <3>1, <3>2, Zenon
  <2>8. InLine(toUs'[r], e, n, Len(Stream[r]))
    BY <1>3, <2>2, <2>7, LineTaken, Zenon
  <2> QED
    BY <2>3, <2>6, <2>8, Zenon
<1>10. sockets'[i].state \in Young =>
         InLine(toUs[sockets[i].remote], Len(delivered[i]), peers[sockets[i].remote].sent, Len(Stream[sockets[i].remote]))'
  <2>1. ASSUME sockets'[i].state \in Young
        PROVE  InLine(toUs'[sockets'[i].remote], Len(delivered'[i]), peers'[sockets'[i].remote].sent,
                      Len(Stream'[sockets'[i].remote]))
    BY <1>0, <1>1, <1>5, <1>9, <2>1
  <2> QED
    BY <2>1, Zenon DEF InLine
<1> QED
  BY <1>0, <1>1, <1>8, <1>9, <1>10, Zenon DEF Lined

(* A connection that begins has its whole stream before it.                *)
LEMMA LinedBegins ==
  ASSUME Orderly, Reliable, scenario' = scenario, peers' = peers, "disconnect" \notin calls,
         NEW r \in Remotes, NEW m, Arrives(toUs[r], m),
         toUs' = [toUs EXCEPT ![r] = Taken(@)], NEW i, Begins(i, r)
  PROVE  Lined(i)'
<1>0. Known /\ Stream' = Stream /\ Reliable' = Reliable
  BY SameSetting, Zenon DEF Orderly, Heard
<1>1. /\ i \in Places /\ sockets[i].state = "LISTEN" /\ sockets'[i].remote = r
      /\ sockets'[i].state = "SYN_RECEIVED" /\ delivered'[i] = delivered[i]
      /\ peers[r].state = "connecting" /\ OnWire(toPeers[r]) = {} /\ NoFinSent
  BY Zenon DEF Begins, HasRemote
<1>2. Len(delivered'[i]) = 0
  <2>1. "LISTEN" \in {"LISTEN", "SYN_SENT"} /\ Len(<<>>) = 0
    BY SMT
  <2> QED
    BY <1>1, <2>1, Zenon DEF Orderly, Heard, AllTold, Told
<1>3. peers'[r].sent = 0
  BY <1>0, <1>1, Zenon DEF Known, PeersKnown, Before
<1>4. toUs'[r] = <<>>
  <2>1. /\ toUs[r] \in Seq(PeerMessage) /\ toUs[r] # <<>>
        /\ toUs'[r] \in Seq(PeerMessage) /\ Len(toUs'[r]) = Len(toUs[r]) - 1
    BY <1>0, SegmentTaken, Zenon
  <2>2. Len(toUs[r]) <= 1
    BY <1>1, Zenon DEF Orderly, Heard, HandshakeFirst, OneGreeting
  <2>3. PICK n \in Nat : n = Len(toUs[r])
    BY <2>1, LenProperties, Zenon
  <2>4. PICK k \in Nat : k = Len(toUs'[r])
    BY <2>1, LenProperties, Zenon
  <2>5. k = n - 1 /\ n <= 1
    BY <2>1, <2>2, <2>3, <2>4, Zenon
  <2>6. k = 0
    BY <2>5, SMT
  <2> QED
    BY <2>1, <2>4, <2>6, HeadIsFirst, Zenon
<1>5. InLine(<<>>, 0, 0, Len(Stream'[r]))
  BY SMT DEF InLine
<1>6. InLine(toUs[sockets[i].remote], Len(delivered[i]), peers[sockets[i].remote].sent, Len(Stream[sockets[i].remote]))'
  <2>1. InLine(toUs'[sockets'[i].remote], Len(delivered'[i]), peers'[sockets'[i].remote].sent,
               Len(Stream'[sockets'[i].remote]))
    BY <1>1, <1>2, <1>3, <1>4, <1>5
  <2> QED
    BY <2>1, Zenon DEF InLine
<1>7. \A x \in OnWire(toPeers[sockets[i].remote])' : "FIN" \notin x.flags
  BY <1>0, <1>1, Zenon DEF NoFinSent, OnWire
<1>8. "SYN_RECEIVED" # "CLOSE_WAIT"
  BY SMT
<1> QED
  BY <1>1, <1>6, <1>7, <1>8, Zenon DEF Lined

(* A segment that is handled preserves the line.                           *)
LEMMA LinedReceive ==
  ASSUME Orderly, Reliable, scenario' = scenario, "disconnect" \notin calls,
         NEW r \in Remotes, NEW m, Receive(m, r), NEW i \in Places'
  PROVE  Lined(i)'
<1>1. /\ ~spins /\ peers' = peers /\ Arrives(toUs[r], m) /\ toUs' = [toUs EXCEPT ![r] = Taken(@)]
      /\ Sent(r, m) /\ Known
      /\ \/ \E k \in Places : Hears(k, m, r) /\ OthersRemain(k)
         \/ \E k \in Places : Begins(k, r) /\ OthersRemain(k)
         \/ /\ \A k \in Places' : Remains(k)
            /\ \A k \in Places : HasRemote(k) => sockets[k].remote # r
            /\ NoFinSent
  BY ReceiveMoves, Zenon DEF Orderly, Heard
<1>2. \A q \in Remotes : q # r => toUs'[q] = toUs[q]
  BY <1>1, SegmentTaken
<1>3. ASSUME Remains(i), HasRemote(i) => sockets[i].remote # r,
             NoFinSent \/ \A q \in Remotes : q # r => OnWire(toPeers'[q]) \subseteq OnWire(toPeers[q])
      PROVE  Lined(i)'
  <2>1. Lined(i) /\ i \in Places
    BY <1>3, Zenon DEF Remains, Orderly, AllLined
  <2>2. ASSUME sockets[i].state \in Young
        PROVE  sockets[i].remote \in Remotes /\ sockets[i].remote # r
    <3>1. sockets[i].state # "LISTEN"
      BY <2>2, SMT DEF Young
    <3> QED
      BY <1>1, <1>3, <2>1, <3>1, ToRemote, Zenon DEF HasRemote
  <2>3. sockets[i].state \in Young =>
           /\ toUs'[sockets[i].remote] = toUs[sockets[i].remote]
           /\ peers'[sockets[i].remote] = peers[sockets[i].remote]
           /\ \A x \in OnWire(toPeers'[sockets[i].remote]) :
                x \in OnWire(toPeers[sockets[i].remote]) \/ "FIN" \notin x.flags
    BY <1>1, <1>2, <1>3, <2>2, Zenon DEF NoFinSent
  <2> QED
    BY <1>3, <2>1, <2>3, LinedSame
<1>4. CASE \E k \in Places : Hears(k, m, r) /\ OthersRemain(k)
  <2>1. PICK k \in Places : Hears(k, m, r) /\ OthersRemain(k)
    BY <1>4, Zenon
  <2>2. CASE i = k
    BY <1>1, <2>1, <2>2, LinedHears, Zenon
  <2>3. CASE i # k
    <3>1. Remains(i) /\ i \in Places
      BY <2>1, <2>3, Zenon DEF OthersRemain
    <3>2. HasRemote(i) => sockets[i].remote # r
      BY <1>1, <2>1, <2>3, <3>1, Zenon DEF Hears, Known, OnePerRemote
    <3>3. \A q \in Remotes : q # r => OnWire(toPeers'[q]) \subseteq OnWire(toPeers[q])
      BY <2>1, Zenon DEF Hears
    <3> QED
      BY <1>3, <3>1, <3>2, <3>3
  <2> QED
    BY <2>2, <2>3
<1>5. CASE \E k \in Places : Begins(k, r) /\ OthersRemain(k)
  <2>1. PICK k \in Places : Begins(k, r) /\ OthersRemain(k)
    BY <1>5, Zenon
  <2>2. CASE i = k
    BY <1>1, <2>1, <2>2, LinedBegins, Zenon
  <2>3. CASE i # k
    <3>1. Remains(i) /\ i \in Places
      BY <2>1, <2>3, Zenon DEF OthersRemain
    <3>2. (HasRemote(i) => sockets[i].remote # r) /\ NoFinSent
      BY <2>1, <3>1, Zenon DEF Begins
    <3> QED
      BY <1>3, <3>1, <3>2
  <2> QED
    BY <2>2, <2>3
<1>6. CASE /\ \A k \in Places' : Remains(k)
           /\ \A k \in Places : HasRemote(k) => sockets[k].remote # r
           /\ NoFinSent
  BY <1>3, <1>6, Zenon DEF Remains
<1> QED
  BY <1>1, <1>4, <1>5, <1>6

(* A single segment without data.                                          *)
LEMMA BareRange ==
  ASSUME NEW out, NEW flags, "FIN" \notin flags, Lone(out, flags, 0)
  PROVE  (\A m \in Range(out) : m.chunk = 0) /\ ~SomeFin(Range(out))
<1>1. PICK n \in PeerMessage : out = <<n>> /\ n.flags = flags /\ n.chunk = 0
  BY Zenon DEF Lone
<1>2. Range(<<n>>) = {n}
  BY OneSegment, Zenon
<1> QED
  BY <1>1, <1>2, Zenon DEF SomeFin

(* A remote says something without data, or sends its next chunk. *)
LEMMA BareOrNext ==
  ASSUME Known, Reliable, NEW r \in Remotes, NEW p, NEW out, PeerMoves(r, p, out),
         \A m \in OnWire(toPeers[r]) : "FIN" \notin m.flags
  PROVE  \/ /\ p.sent = peers[r].sent /\ \A m \in Range(out) : m.chunk = 0
            /\ SomeFin(Range(out)) => p.sent = Len(Stream[r])
         \/ /\ peers[r].state = "open" /\ p.sent = peers[r].sent + 1
            /\ \E flags : Lone(out, flags, p.sent) /\ "FIN" \notin flags
<1>1. "FIN" \notin {"SYN"} /\ "FIN" \notin {"SYN", "ACK"} /\ "FIN" \notin {"ACK"}
  BY SMT
<1>2. ASSUME p.sent = peers[r].sent,
             Lone(out, {"SYN"}, 0) \/ Lone(out, {"SYN", "ACK"}, 0) \/ Lone(out, {"ACK"}, 0)
      PROVE  /\ p.sent = peers[r].sent /\ \A m \in Range(out) : m.chunk = 0
             /\ SomeFin(Range(out)) => p.sent = Len(Stream[r])
  BY <1>1, <1>2, BareRange, Zenon
<1>3. ASSUME p.sent = peers[r].sent, out = <<>>
      PROVE  /\ p.sent = peers[r].sent /\ \A m \in Range(out) : m.chunk = 0
             /\ SomeFin(Range(out)) => p.sent = Len(Stream[r])
  BY <1>3, NoSegment, Zenon DEF SomeFin
<1>4. ~SomeFin(OnWire(toPeers[r]))
  BY Zenon DEF SomeFin
<1>5. Goes(r, p, out)
  BY Zenon DEF PeerMoves
<1> QED
  BY <1>2, <1>3, <1>4, <1>5, Zenon DEF Goes

(* A remote preserves the line: what it sends next comes last.             *)
LEMMA LinedPeer ==
  ASSUME Orderly, Reliable, scenario' = scenario, "disconnect" \notin calls,
         NEW r \in Remotes, NEW p, NEW out, PeerMoves(r, p, out), NEW i \in Places'
  PROVE  Lined(i)'
<1>0. /\ peers'[r] = p /\ toUs'[r] = Put(toUs[r], out)
      /\ \A q \in Remotes : q # r => peers'[q] = peers[q] /\ toUs'[q] = toUs[q]
      /\ Carries(toUs[r], PeerMessage) /\ out \in Seq(PeerMessage)
      /\ sockets' = sockets /\ delivered' = delivered /\ i \in Places /\ Known
      /\ Stream' = Stream /\ Reliable' = Reliable
  <2>1. Known
    BY Zenon DEF Orderly, Heard
  <2> QED
    BY <2>1, PeerMoved, SameSetting
<1>1. Remains(i) /\ Lined(i) /\ InSequence(i)
  BY <1>0, Zenon DEF Remains, Orderly, AllLined, AllInSequence, Places
<1>2. \A q \in Remotes : OnWire(toPeers'[q]) \subseteq OnWire(toPeers[q])
  BY Zenon DEF PeerMoves, WireShrinks
<1>3. ASSUME sockets[i].state \in Young
      PROVE  HasRemote(i) /\ sockets[i].remote \in Remotes
  <2>1. sockets[i].state # "LISTEN"
    BY <1>3, SMT DEF Young
  <2> QED
    BY <1>0, <2>1, ToRemote, Zenon DEF HasRemote
<1>4. CASE sockets[i].state \notin Young \/ sockets[i].remote # r
  <2>1. sockets[i].state \in Young =>
           /\ toUs'[sockets[i].remote] = toUs[sockets[i].remote]
           /\ peers'[sockets[i].remote] = peers[sockets[i].remote]
           /\ \A x \in OnWire(toPeers'[sockets[i].remote]) :
                x \in OnWire(toPeers[sockets[i].remote]) \/ "FIN" \notin x.flags
    BY <1>0, <1>2, <1>3, <1>4, Zenon
  <2> QED
    BY <1>1, <2>1, LinedSame
<1>5. CASE sockets[i].state \in Young /\ sockets[i].remote = r
  <2>1. PICK d \in Nat : d = Len(delivered[i])
    <3>1. delivered \in Seq(Seq(Remotes \X Nat)) /\ i \in 1..Len(delivered)
      BY <1>0, Zenon DEF Known, Typed, Places
    <3>2. delivered[i] \in Seq(Remotes \X Nat)
      BY <3>1, SMT
    <3> QED
      BY <3>2, LenProperties, Zenon
  <2>2. PICK n \in Nat : n = peers[r].sent
    <3>1. peers[r] \in PeerRecord
      BY <1>0, Zenon DEF Known, Typed, PeerRecord
    <3> QED
      BY <3>1, SMT DEF PeerRecord
  <2>3. PICK l : l = Len(Stream[r])
    BY Zenon
  <2>4. d <= n
    BY <1>1, <1>3, <1>5, <2>1, <2>2, Zenon DEF InSequence
  <2>5. InLine(toUs[r], d, n, l) /\ \A x \in OnWire(toPeers[r]) : "FIN" \notin x.flags
    BY <1>1, <1>5, <2>1, <2>2, <2>3, Zenon DEF Lined
  <2>6. InLine(toUs'[r], d, p.sent, l)
    <3>1. CASE /\ p.sent = n /\ \A m \in Range(out) : m.chunk = 0
               /\ SomeFin(Range(out)) => n = l
      BY <1>0, <2>5, <3>1, LineGrows
    <3>2. CASE /\ peers[r].state = "open" /\ p.sent = n + 1
               /\ \E flags : Lone(out, flags, n + 1) /\ "FIN" \notin flags
      <4>1. PICK flags : Lone(out, flags, n + 1) /\ "FIN" \notin flags
        BY <3>2, Zenon
      <4>2. ASSUME NEW m \in Range(toUs[r])
            PROVE  m.chunk <= n /\ "FIN" \notin m.flags
        <5>1. Sent(r, m)
          BY <1>0, Zenon DEF Known, InKnown, OnWire
        <5>2. m.chunk \in 0..n
          BY <2>2, <5>1, Zenon DEF Sent
        <5>3. "open" \notin {"finished", "done", "aborted"}
          BY SMT
        <5>4. "FIN" \notin m.flags
          BY <3>2, <5>1, <5>3, Zenon DEF Sent
        <5> QED
          BY <5>2, <5>4, SMT
      <4>3. InLine(Put(toUs[r], out), d, n + 1, l)
        BY <1>0, <2>4, <2>5, <4>1, <4>2, LineNext
      <4> QED
        BY <1>0, <3>2, <4>3
    <3> QED
      BY <1>0, <2>2, <2>3, <2>5, <3>1, <3>2, BareOrNext
  <2>7. InLine(toUs[sockets[i].remote], Len(delivered[i]), peers[sockets[i].remote].sent, Len(Stream[sockets[i].remote]))'
    <3>1. InLine(toUs'[sockets'[i].remote], Len(delivered'[i]), peers'[sockets'[i].remote].sent,
                 Len(Stream'[sockets'[i].remote]))
      BY <1>0, <1>5, <2>1, <2>3, <2>6
    <3> QED
      BY <3>1, Zenon DEF InLine
  <2>8. \A x \in OnWire(toPeers[sockets[i].remote])' : "FIN" \notin x.flags
    BY <1>0, <1>2, <1>5, <2>5, Zenon DEF OnWire
  <2>9. sockets'[i].state # "CLOSE_WAIT"
    BY <1>0, <1>5, SMT DEF Young
  <2> QED
    BY <2>7, <2>8, <2>9, Zenon DEF Lined
<1> QED
  BY <1>4, <1>5

(* Every step preserves the line.                                          *)
LEMMA LinedStays ==
  ASSUME Orderly, [Next]_vars
  PROVE  AllLined'
<1>1. scenario' = scenario /\ calls \subseteq calls' /\ Known
  BY StepsMove, AllGoesOn, Zenon DEF Orderly, Heard
<1> SUFFICES ASSUME Reliable, "disconnect" \notin calls', NEW i \in Places'
             PROVE  Lined(i)'
  BY <1>1, SameSetting, Zenon DEF AllLined
<1>2. "disconnect" \notin calls
  BY <1>1, Zenon
<1>3. CASE MainMoves
  <2>1. \A k \in Places : Lined(k)
    BY <1>2, Zenon DEF Orderly, AllLined
  <2> QED
    BY <1>1, <1>3, <2>1, LinedMain
<1>4. CASE \E r \in Remotes : \E m \in OnWire(toUs[r]) : Receive(m, r)
  <2>1. PICK r \in Remotes : \E m \in OnWire(toUs[r]) : Receive(m, r)
    BY <1>4, Zenon
  <2>2. PICK m \in OnWire(toUs[r]) : Receive(m, r)
    BY <2>1, Zenon
  <2> QED
    BY <1>1, <1>2, <2>2, LinedReceive
<1>5. CASE \E r \in Remotes : \E p, out : PeerMoves(r, p, out)
  <2>1. PICK r \in Remotes : \E p, out : PeerMoves(r, p, out)
    BY <1>5, Zenon
  <2>2. PICK p, out : PeerMoves(r, p, out)
    BY <2>1, Zenon
  <2> QED
    BY <1>1, <1>2, <2>2, LinedPeer
<1>6. CASE UNCHANGED vars
  <2>1. /\ sockets' = sockets /\ delivered' = delivered /\ toUs' = toUs /\ peers' = peers
        /\ toPeers' = toPeers /\ Places' = Places
    BY <1>6, Zenon DEF vars, wire, Places
  <2>2. Remains(i) /\ Lined(i)
    BY <1>2, <2>1, Zenon DEF Remains, Orderly, AllLined
  <2> QED
    BY <1>1, <2>1, <2>2, LinedSame
<1> QED
  BY <1>1, <1>3, <1>4, <1>5, <1>6, StepsMove

(* The acknowledgement number stands behind the last byte that is not zero *)
(* of what the socket was given, where no chunk is all zeros and no        *)
(* segment that a server pushes can be taken for the answer to our SYN;    *)
(* and on a wire that keeps order the end is accepted behind the whole     *)
(* stream only, where pushed data finds a handler and ends in no zeros.    *)
THEOREM AcknowledgesDelivered ==
  ASSUME \A s \in Scenarios : NotMisled(s) /\ NoBlanks(s)
  PROVE  Spec => []AcknowledgementFollowsDelivery
<1> DEFINE Whole == NothingPadded(scenario) /\ AllTaken(scenario)
           Inv == Heard /\ AllInSequence /\ (Whole => Orderly)
<1>1. Heard => Known /\ NotMisled(scenario) /\ NoBlanks(scenario)
  BY Zenon DEF Heard, Known, Typed
<1>2. Init => Inv
  <2> SUFFICES ASSUME Init
               PROVE  Inv
    OBVIOUS
  <2>1. Heard
    BY KnownAtFirst, ToldAtFirst, Zenon DEF Heard
  <2> QED
    BY <1>1, <2>1, NoSockets, Zenon DEF Orderly, AllInSequence, AllBound, AllLined
<1>3. Inv /\ [Next]_vars => Inv'
  <2> SUFFICES ASSUME Inv, [Next]_vars
               PROVE  Inv'
    OBVIOUS
  <2>1. Heard'
    BY HeardStays, Zenon
  <2>2. AllInSequence'
    BY <1>1, InSequenceStays, Zenon
  <2>3. scenario' = scenario
    BY StepsMove, Zenon DEF Heard
  <2>4. ASSUME Whole'
        PROVE  Orderly'
    <3>1. NothingPadded(scenario') /\ AllTaken(scenario')
      BY <2>4, Zenon DEF NothingPadded, AllTaken, EndOf
    <3>2. Orderly
      BY <2>3, <3>1, Zenon
    <3>3. AllBound'
      BY <3>2, BoundStays, Zenon DEF Orderly, Heard
    <3>4. AllLined'
      BY <3>2, LinedStays
    <3>5. NotMisled(scenario')
      BY <2>3, <3>2, Zenon DEF Orderly
    <3>6. NotMisled(scenario)'
      BY <3>5, Zenon DEF NotMisled, Plus, EndOf
    <3> QED
      BY <2>1, <2>2, <2>4, <3>3, <3>4, <3>6, Zenon DEF Orderly
  <2> QED
    BY <2>1, <2>2, <2>4, Zenon
<1>4. Inv => AcknowledgementFollowsDelivery
  <2> SUFFICES ASSUME Inv, ~spins, "disconnect" \notin calls, NEW i \in DOMAIN sockets
               PROVE  /\ sockets[i].state \in Open =>
                           sockets[i].acknowledgementNumber =
                             Plus(PeerISN, 1 + AckedUpTo(sockets[i].remote, Len(delivered[i])))
                      /\ Reliable /\ Whole /\ sockets[i].state = "CLOSE_WAIT" =>
                           Len(delivered[i]) = Len(Stream[sockets[i].remote])
    BY Zenon DEF AcknowledgementFollowsDelivery, Open
  <2>1. i \in Places
    <3>1. sockets \in Seq(Socket)
      BY Zenon DEF Heard, Known, Typed
    <3> QED
      BY <3>1, LenProperties, Zenon DEF Places
  <2>2. InSequence(i)
    BY <2>1, Zenon DEF AllInSequence
  <2>3. Whole => Lined(i) \/ ~Reliable
    BY <2>1, Zenon DEF Orderly, AllLined
  <2> QED
    BY <2>2, <2>3, Zenon DEF Lined, InSequence
<1>5. Spec => []Inv
  BY <1>2, <1>3, PTL DEF Spec
<1> QED
  BY <1>4, <1>5, PTL

=============================================================================
