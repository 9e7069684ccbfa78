-------------------- MODULE UserDatagramProtocolProofs ----------------------
(***************************************************************************)
(* Which socket a datagram goes to, for any number of sockets, ports and   *)
(* remotes, and what the checksum of any text is.                          *)
(***************************************************************************)
EXTENDS UserDatagramProtocol, SequenceTheorems, WellFoundedInduction, TLAPS

(* A set of numbers has its least member: < is well founded.               *)
LEMMA MinIsLeast ==
  ASSUME NEW S \in SUBSET Nat, S # {}
  PROVE  Min(S) \in S /\ \A y \in S : Min(S) <= y
<1>1. PICK x \in S : \A y \in S : <<y, x>> \notin OpToRel(<, Nat)
  BY NatLessThanWellFounded, WFMin, Zenon
<1>2. \A y \in S : ~(y < x)
  BY <1>1, Zenon DEF OpToRel
<1>3. \A y \in S : x <= y
  BY <1>2, SMT
<1> QED
  BY <1>3, Zenon DEF Min

(* Found returns the first socket that matches, or there is none.          *)
LEMMA FoundIsFirst ==
  ASSUME Len(sockets) \in Nat, NEW port, NEW r, Found(port, r) # 0
  PROVE  /\ Found(port, r) \in 1..Len(sockets)
         /\ Match(sockets[Found(port, r)], port, r)
         /\ \A j \in 1..Len(sockets) : j < Found(port, r) => ~Match(sockets[j], port, r)
<1> DEFINE I == {i \in 1..Len(sockets) : Match(sockets[i], port, r)}
<1>1. Found(port, r) = IF I # {} THEN Min(I) ELSE 0
  BY DEF Found, SelectInSeq
<1>2. I # {} /\ Found(port, r) = Min(I)
  BY <1>1
<1>3. Min(I) \in I /\ \A y \in I : Min(I) <= y
  <2>1. I \in SUBSET Nat
    BY SMT
  <2> HIDE DEF I
  <2> QED
    BY <1>2, <2>1, MinIsLeast, Zenon
<1>4. PICK m \in I : m = Found(port, r) /\ \A y \in I : m <= y
  BY <1>2, <1>3, Zenon
<1>5. \A j \in 1..Len(sockets) : j < m => j \notin I
  <2> HIDE DEF I
  <2>1. m \in 1..Len(sockets)
    BY DEF I
  <2> QED
    BY <1>4, <2>1, SMT
<1> QED
  BY <1>4, <1>5, Zenon

-----------------------------------------------------------------------------
(* The inductive invariant.  A socket is made by Listen on one of Ports or *)
(* by Connect with the next free port; of the sockets with one local port  *)
(* the first that listens takes the next remote, so that those before it   *)
(* have other remotes already.                                             *)

Socket == [local : Nat, remote : Remotes \cup {Nobody}, listening : BOOLEAN, bound : BOOLEAN]

SocketsTyped ==
  /\ sockets \in Seq(Socket) /\ heard \in Seq(SUBSET Remotes)
  /\ Len(heard) = Len(sockets)
  /\ freePort \in Nat /\ freePort >= FirstPort
  /\ binding \in 0..Len(sockets)

LocalsGivenOut ==
  \A i \in 1..Len(sockets) :
    sockets[i].local \in Ports \/ sockets[i].local < freePort

EarlierTaken ==
  (\A port \in Ports : port < FirstPort) =>
    \A i, j \in 1..Len(sockets) :
      i < j /\ sockets[i].local = sockets[j].local /\ ~sockets[j].listening =>
        ~sockets[i].listening /\ sockets[i].remote # sockets[j].remote

Heard ==
  \A i \in 1..Len(sockets) : \A r \in heard[i] :
    ~sockets[i].listening /\ sockets[i].remote = r

IInv == SocketsTyped /\ LocalsGivenOut /\ EarlierTaken /\ Heard

LEMMA InitIInv == Init => IInv
<1> SUFFICES ASSUME Init
             PROVE  IInv
  OBVIOUS
<1>1. Len(sockets) = 0
  BY SMT DEF Init
<1>2. SocketsTyped
  BY <1>1, UDPAssumption, SMT DEF Init, SocketsTyped
<1> QED
  BY <1>1, <1>2, SMT DEF IInv, LocalsGivenOut, EarlierTaken, Heard

(* A socket added behind the others.                                       *)
LEMMA NewSocketKeeps ==
  ASSUME IInv, NEW s \in Socket, NewSocket(s), freePort' \in Nat, freePort' >= freePort,
         s.local \in Ports \/ s.local < freePort',
         s.listening \/ s.local = freePort
  PROVE  IInv'
<1> DEFINE n == Len(sockets)
<1>1. /\ sockets' = Append(sockets, s) /\ heard' = Append(heard, {})
      /\ binding' = Len(sockets')
  BY Zenon DEF NewSocket
<1>2. /\ n \in Nat /\ sockets' \in Seq(Socket) /\ Len(sockets') = n + 1
      /\ sockets'[n + 1] = s
      /\ \A i \in 1..n : sockets'[i] = sockets[i]
  BY <1>1, AppendProperties, SMT DEF IInv, SocketsTyped
<1>3. /\ heard' \in Seq(SUBSET Remotes) /\ Len(heard') = n + 1
      /\ heard'[n + 1] = {}
      /\ \A i \in 1..n : heard'[i] = heard[i]
  BY <1>1, AppendProperties, SMT DEF IInv, SocketsTyped
<1> HIDE DEF n
<1>4. SocketsTyped'
  BY <1>1, <1>2, <1>3, UDPAssumption, SMT DEF IInv, SocketsTyped
<1>5. \A i \in 1..n + 1 : i \in 1..n \/ i = n + 1
  BY <1>2, SMT
<1>6. LocalsGivenOut'
  <2> SUFFICES ASSUME NEW i \in 1..n + 1
               PROVE  sockets'[i].local \in Ports \/ sockets'[i].local < freePort'
    BY <1>2, Zenon DEF LocalsGivenOut
  <2>1. CASE i = n + 1
    BY <1>2, <2>1, Zenon
  <2>2. CASE i \in 1..n
    <3>1. sockets[i] \in Socket
      BY <2>2, ElementOfSeq, Zenon DEF IInv, SocketsTyped, n
    <3>2. sockets[i].local \in Ports \/ sockets[i].local < freePort
      BY <2>2, Zenon DEF IInv, LocalsGivenOut, n
    <3> QED
      BY <1>2, <2>2, <3>1, <3>2, SMT DEF IInv, SocketsTyped, Socket
  <2> QED
    BY <1>5, <2>1, <2>2
<1>7. EarlierTaken'
  <2> SUFFICES ASSUME \A port \in Ports : port < FirstPort,
                      NEW i \in 1..n + 1, NEW j \in 1..n + 1, i < j,
                      sockets'[i].local = sockets'[j].local, ~sockets'[j].listening
               PROVE  ~sockets'[i].listening /\ sockets'[i].remote # sockets'[j].remote
    BY <1>2, Zenon DEF EarlierTaken
  <2>1. i \in 1..n
    BY <1>2, SMT
  <2>2. CASE j \in 1..n
    BY <1>2, <2>1, <2>2, Zenon DEF IInv, EarlierTaken, n
  <2>3. CASE j = n + 1
    <3>1. sockets[i].local = freePort
      BY <1>2, <2>1, <2>3, Zenon
    <3>2. sockets[i].local \in Ports \/ sockets[i].local < freePort
      BY <2>1, Zenon DEF IInv, LocalsGivenOut, n
    <3> QED
      BY <3>1, <3>2, UDPAssumption, SMT DEF IInv, SocketsTyped
  <2> QED
    BY <1>5, <2>2, <2>3
<1>8. Heard'
  <2> SUFFICES ASSUME NEW i \in 1..n + 1, NEW r \in heard'[i]
               PROVE  ~sockets'[i].listening /\ sockets'[i].remote = r
    BY <1>2, Zenon DEF Heard
  <2>1. i \in 1..n
    BY <1>3, <1>5, Zenon
  <2> QED
    BY <1>2, <1>3, <2>1, Zenon DEF IInv, Heard, n
<1> QED
  BY <1>4, <1>6, <1>7, <1>8 DEF IInv

(* A datagram for a socket that is connected with its sender changes       *)
(* nothing; one for a socket that listens connects it, and no socket before*)
(* it listens or has the sender.                                           *)
LEMMA ReceiveKeeps ==
  ASSUME IInv, NEW frame, frame.srcIP \in Remotes, Receive(frame), UNCHANGED <<freePort, binding>>
  PROVE  IInv'
<1>1. PICK port, r, i, n : port = frame.port /\ r = frame.srcIP /\ i = Found(port, r) /\ n = Len(sockets)
  BY Zenon
<1>2. CASE i = 0
  <2>1. UNCHANGED <<sockets, heard>>
    BY <1>1, <1>2, Zenon DEF Receive
  <2> QED
    BY <2>1, Zenon DEF IInv, SocketsTyped, LocalsGivenOut, EarlierTaken, Heard
<1>3. CASE i # 0
  <2>1. /\ sockets' = [sockets EXCEPT ![i] = IF @.listening THEN Taken(@, r) ELSE @]
        /\ heard' = [heard EXCEPT ![i] = IF sockets[i].bound THEN @ \cup {r} ELSE @]
    BY <1>1, <1>3, Zenon DEF Receive
  <2>2. /\ n \in Nat /\ i \in 1..n
        /\ Match(sockets[i], port, r)
        /\ \A j \in 1..n : j < i => ~Match(sockets[j], port, r)
    BY <1>1, <1>3, FoundIsFirst, SMT DEF IInv, SocketsTyped
  <2>3. PICK old \in Socket : old = sockets[i]
    BY <1>1, <2>2, ElementOfSeq, Zenon DEF IInv, SocketsTyped
  <2>4. PICK new \in Socket :
          /\ new = IF old.listening THEN Taken(old, r) ELSE old
          /\ new.local = old.local /\ new.bound = old.bound
          /\ ~new.listening /\ new.remote = r
    <3>1. CASE old.listening
      <4>1. r \in Remotes \cup {Nobody}
        BY <1>1, Zenon
      <4>2. Taken(old, r) \in Socket
        BY <4>1, Zenon DEF Taken, Socket
      <4>3. /\ Taken(old, r).local = old.local /\ Taken(old, r).bound = old.bound
            /\ ~Taken(old, r).listening /\ Taken(old, r).remote = r
        BY Zenon DEF Taken, Socket
      <4> QED
        BY <3>1, <4>2, <4>3, Zenon
    <3>2. CASE ~old.listening
      BY <1>1, <2>2, <2>3, <3>2, Zenon DEF Match
    <3> QED
      BY <3>1, <3>2
  <2>5. sockets' = [sockets EXCEPT ![i] = new]
    BY <2>1, <2>3, <2>4, Zenon
  <2>6. /\ sockets' \in Seq(Socket) /\ Len(sockets') = n /\ sockets'[i] = new
        /\ \A j \in 1..n : j # i => sockets'[j] = sockets[j]
    BY <1>1, <2>2, <2>4, <2>5, ExceptSeq, SMT DEF IInv, SocketsTyped
  <2>7. /\ heard[i] \in SUBSET Remotes /\ i \in 1..Len(heard) /\ heard \in Seq(SUBSET Remotes)
        /\ Len(heard) = n
    BY <1>1, <2>2, ElementOfSeq, SMT DEF IInv, SocketsTyped
  <2>8. PICK h \in SUBSET Remotes :
          heard' = [heard EXCEPT ![i] = h] /\ (h = heard[i] \/ h = heard[i] \cup {r})
    BY <1>1, <2>1, <2>7, Zenon
  <2>9. /\ heard' \in Seq(SUBSET Remotes) /\ Len(heard') = n /\ heard'[i] = h
        /\ \A j \in 1..n : j # i => heard'[j] = heard[j]
    BY <2>7, <2>8, ExceptSeq, SMT
  <2>10. SocketsTyped'
    BY <1>1, <2>6, <2>9, SMT DEF IInv, SocketsTyped
  <2>11. LocalsGivenOut'
    BY <1>1, <2>2, <2>3, <2>4, <2>6, Zenon DEF IInv, LocalsGivenOut
  <2>12. EarlierTaken'
    <3> SUFFICES ASSUME \A p \in Ports : p < FirstPort,
                        NEW j \in 1..n, NEW k \in 1..n, j < k,
                        sockets'[j].local = sockets'[k].local, ~sockets'[k].listening
                 PROVE  ~sockets'[j].listening /\ sockets'[j].remote # sockets'[k].remote
      BY <2>6, Zenon DEF EarlierTaken
    <3>1. sockets'[j].local = sockets[j].local /\ sockets'[k].local = sockets[k].local
      BY <2>3, <2>4, <2>6, Zenon
    <3>2. CASE ~old.listening
      <4>1. sockets'[j] = sockets[j] /\ sockets'[k] = sockets[k]
        BY <2>3, <2>4, <2>6, <3>2, Zenon
      <4> QED
        BY <1>1, <3>2, <4>1, Zenon DEF IInv, EarlierTaken
    <3>3. CASE old.listening /\ k = i
      <4>1. j # i /\ ~Match(sockets[j], port, r)
        BY <2>2, <3>3, SMT
      <4>2. sockets[j].local = port
        BY <2>2, <3>1, <3>3, Zenon DEF Match
      <4>3. ~sockets[j].listening /\ sockets[j].remote # r
        BY <4>1, <4>2, Zenon DEF Match
      <4> QED
        BY <2>4, <2>6, <3>3, <4>1, <4>3, Zenon
    <3>4. CASE old.listening /\ k # i
      <4>1. ~sockets[k].listening /\ sockets[j].local = sockets[k].local
        BY <2>6, <3>1, <3>4, Zenon
      <4>2. ~sockets[j].listening /\ sockets[j].remote # sockets[k].remote
        BY <1>1, <4>1, Zenon DEF IInv, EarlierTaken
      <4>3. j # i
        BY <2>3, <3>4, <4>2, Zenon
      <4> QED
        BY <2>6, <3>4, <4>2, <4>3, Zenon
    <3> QED
      BY <3>2, <3>3, <3>4
  <2>13. Heard'
    <3> SUFFICES ASSUME NEW j \in 1..n, NEW q \in heard'[j]
                 PROVE  ~sockets'[j].listening /\ sockets'[j].remote = q
      BY <2>6, Zenon DEF Heard
    <3>1. CASE j # i
      BY <1>1, <2>6, <2>9, <3>1, Zenon DEF IInv, Heard
    <3>2. CASE j = i
      <4>1. q \in heard[i] \/ q = r
        BY <2>8, <2>9, <3>2, Zenon
      <4>2. q \in heard[i] => ~old.listening /\ old.remote = q
        BY <1>1, <2>2, <2>3, Zenon DEF IInv, Heard
      <4>3. q = r
        BY <2>4, <4>1, <4>2, Zenon
      <4> QED
        BY <2>4, <2>6, <3>2, <4>3, Zenon
    <3> QED
      BY <3>1, <3>2
  <2> QED
    BY <2>10, <2>11, <2>12, <2>13 DEF IInv
<1> QED
  BY <1>2, <1>3

LEMMA BindKeeps ==
  ASSUME IInv, Bind
  PROVE  IInv'
<1>1. PICK b, n : b = binding /\ n = Len(sockets)
  BY Zenon
<1>2. /\ sockets' = [sockets EXCEPT ![b].bound = TRUE]
      /\ binding' = 0 /\ UNCHANGED <<freePort, heard>>
  BY <1>1, Zenon DEF Bind
<1>3. n \in Nat /\ b \in 1..n
  BY <1>1, SMT DEF IInv, SocketsTyped, Bind
<1>4. PICK old \in Socket : old = sockets[b]
  BY <1>1, <1>3, ElementOfSeq, Zenon DEF IInv, SocketsTyped
<1>5. PICK new \in Socket :
        /\ new = [old EXCEPT !.bound = TRUE]
        /\ new.local = old.local /\ new.listening = old.listening /\ new.remote = old.remote
  <2>1. [old EXCEPT !.bound = TRUE] \in Socket
    BY Zenon DEF Socket
  <2>2. /\ [old EXCEPT !.bound = TRUE].local = old.local
        /\ [old EXCEPT !.bound = TRUE].listening = old.listening
        /\ [old EXCEPT !.bound = TRUE].remote = old.remote
    BY Zenon DEF Socket
  <2> QED
    BY <2>1, <2>2, Zenon
<1>6. sockets' = [sockets EXCEPT ![b] = new]
  BY <1>2, <1>4, <1>5, Zenon
<1>7. /\ sockets' \in Seq(Socket) /\ Len(sockets') = n /\ sockets'[b] = new
      /\ \A j \in 1..n : j # b => sockets'[j] = sockets[j]
  BY <1>1, <1>3, <1>5, <1>6, ExceptSeq, SMT DEF IInv, SocketsTyped
<1>8. \A j \in 1..n : /\ sockets'[j].local = sockets[j].local
                      /\ sockets'[j].listening = sockets[j].listening
                      /\ sockets'[j].remote = sockets[j].remote
  BY <1>4, <1>5, <1>7, Zenon
<1>9. SocketsTyped'
  BY <1>1, <1>2, <1>3, <1>7, SMT DEF IInv, SocketsTyped
<1>10. LocalsGivenOut'
  <2> SUFFICES ASSUME NEW i \in 1..n
               PROVE  sockets'[i].local \in Ports \/ sockets'[i].local < freePort'
    BY <1>7, Zenon DEF LocalsGivenOut
  <2> QED
    BY <1>1, <1>2, <1>8, Zenon DEF IInv, LocalsGivenOut
<1>11. EarlierTaken'
  <2> SUFFICES ASSUME \A port \in Ports : port < FirstPort,
                      NEW i \in 1..n, NEW j \in 1..n, i < j,
                      sockets'[i].local = sockets'[j].local, ~sockets'[j].listening
               PROVE  ~sockets'[i].listening /\ sockets'[i].remote # sockets'[j].remote
    BY <1>7, Zenon DEF EarlierTaken
  <2>1. sockets[i].local = sockets[j].local /\ ~sockets[j].listening
    BY <1>8, Zenon
  <2>2. ~sockets[i].listening /\ sockets[i].remote # sockets[j].remote
    BY <1>1, <2>1, Zenon DEF IInv, EarlierTaken
  <2> QED
    BY <1>8, <2>2, Zenon
<1>12. Heard'
  <2> SUFFICES ASSUME NEW i \in 1..n, NEW r \in heard[i]
               PROVE  ~sockets'[i].listening /\ sockets'[i].remote = r
    BY <1>2, <1>7, Zenon DEF Heard
  <2> QED
    BY <1>1, <1>8, Zenon DEF IInv, Heard
<1> QED
  BY <1>9, <1>10, <1>11, <1>12 DEF IInv

(* The invariant holds whatever frames arrive and whatever kernelMain asks *)
(* for, in any order.                                                      *)
THEOREM Invariance == Spec => []IInv
<1>1. IInv /\ [Next]_vars => IInv'
  <2> SUFFICES ASSUME IInv, [Next]_vars
               PROVE  IInv'
    OBVIOUS
  <2>1. ASSUME NEW frame \in Frames, FrameArrives(frame)
        PROVE  IInv'
    <3>1. frame.srcIP \in Remotes
      BY SMT DEF Frames
    <3>2. CASE Receive(frame)
      BY <2>1, <3>1, <3>2, ReceiveKeeps, Zenon DEF FrameArrives
    <3>3. CASE UNCHANGED <<sockets, heard>>
      BY <2>1, <3>3, Zenon
         DEF FrameArrives, IInv, SocketsTyped, LocalsGivenOut, EarlierTaken, Heard
    <3> QED
      BY <2>1, <3>2, <3>3, Zenon DEF FrameArrives
  <2>2. ASSUME NEW port \in Ports, Listen(port)
        PROVE  IInv'
    <3>1. PICK s : s = [local |-> port, remote |-> Nobody, listening |-> TRUE, bound |-> FALSE]
      BY Zenon
    <3>2. /\ s \in Socket /\ s.local \in Ports /\ s.listening
          /\ freePort' = freePort /\ freePort' \in Nat /\ freePort' >= freePort
      BY <2>2, <3>1, UDPAssumption, SMT DEF Socket, Listen, IInv, SocketsTyped
    <3> QED
      BY <2>2, <3>1, <3>2, NewSocketKeeps, Zenon DEF Listen
  <2>3. ASSUME NEW r \in Remotes, Connect(r)
        PROVE  IInv'
    <3>1. PICK s : s = [local |-> freePort, remote |-> r, listening |-> FALSE, bound |-> FALSE]
      BY Zenon
    <3>2. /\ s \in Socket /\ s.local = freePort /\ s.local < freePort'
          /\ freePort' \in Nat /\ freePort' >= freePort
      BY <2>3, <3>1, SMT DEF Socket, Connect, IInv, SocketsTyped
    <3> QED
      BY <2>3, <3>1, <3>2, NewSocketKeeps, Zenon DEF Connect
  <2>4. CASE Bind
    BY <2>4, BindKeeps
  <2>5. CASE UNCHANGED <<sockets, freePort, binding, heard>>
    BY <2>5, Zenon DEF IInv, SocketsTyped, LocalsGivenOut, EarlierTaken, Heard
  <2> QED
    BY <2>1, <2>2, <2>3, <2>4, <2>5, Zenon DEF Next, Unsummed, Ping, Send, Sum, SumUsed, vars
<1> QED
  BY InitIInv, <1>1, PTL DEF Spec

(* A socket's handler hears one remote only, and if kernelMain listens     *)
(* below the ports Connect gives out, no two sockets share a remote and a  *)
(* port.                                                                   *)
THEOREM SocketsArePaired == Spec => []SocketsPaired
<1>1. IInv => SocketsPaired
  <2> SUFFICES ASSUME IInv
               PROVE  SocketsPaired
    OBVIOUS
  <2>1. DOMAIN heard = 1..Len(sockets)
    BY LenProperties, SMT DEF IInv, SocketsTyped
  <2>2. HearsOnePeer
    BY <2>1, Zenon DEF HearsOnePeer, IInv, Heard
  <2>3. ASSUME \A port \in Ports : port < FirstPort,
               NEW i \in 1..Len(sockets), NEW j \in 1..Len(sockets), i # j,
               ~sockets[i].listening, ~sockets[j].listening,
               sockets[i].local = sockets[j].local, sockets[i].remote = sockets[j].remote
        PROVE  FALSE
    <3>1. i < j \/ j < i
      BY <2>3, SMT DEF IInv, SocketsTyped
    <3> QED
      BY <2>3, <3>1, Zenon DEF IInv, EarlierTaken
  <2>4. DOMAIN sockets = 1..Len(sockets)
    BY LenProperties, SMT DEF IInv, SocketsTyped
  <2>5. ASSUME \A port \in Ports : port < FirstPort,
               NEW i \in DOMAIN heard, NEW j \in DOMAIN heard, i # j,
               ~sockets[i].listening, ~sockets[j].listening
        PROVE  <<sockets[i].local, sockets[i].remote>> # <<sockets[j].local, sockets[j].remote>>
    BY <2>1, <2>3, <2>5, SMT
  <2>6. DOMAIN sockets = DOMAIN heard
    BY <2>1, <2>4, Zenon
  <2> QED
    BY <2>2, <2>5, <2>6, Zenon DEF SocketsPaired
<1> QED
  BY Invariance, <1>1, PTL

(* An echo reply, turned round layer by layer in the buffer it came in,    *)
(* goes to who asked, from our addresses, whatever the request's were.     *)
THEOREM EchoesGoBack == Spec => []EchoGoesBack
<1>1. Init => EchoGoesBack
  BY SMT DEF Init, NoFrame, EchoGoesBack
<1>2. EchoGoesBack /\ [Next]_vars => EchoGoesBack'
  <2> SUFFICES ASSUME EchoGoesBack, [Next]_vars
               PROVE  EchoGoesBack'
    OBVIOUS
  <2>1. ASSUME NEW frame \in Frames, IsEcho(frame), out' = SentBack(frame)
        PROVE  EchoGoesBack'
    <3>1. /\ frame.srcIP \in Remotes /\ frame.srcMAC = MACOf(Route(frame.srcIP))
          /\ frame.dstIP = OwnIP
      BY <2>1, Zenon DEF Frames, IsEcho, Handles, ForUs
    <3>2. /\ EchoReply(frame).srcIP = frame.srcIP /\ EchoReply(frame).dstIP = frame.dstIP
          /\ EchoReply(frame).srcMAC = frame.srcMAC /\ EchoReply(frame).rest = frame.rest
          /\ EchoReply(frame).valid = (frame.rest = 0)
          /\ DOMAIN EchoReply(frame) = DOMAIN frame
      BY Zenon DEF Frames, EchoReply
    <3>3. /\ SentBack(frame).dstIP = frame.srcIP /\ SentBack(frame).dstMAC = frame.srcMAC
          /\ SentBack(frame).srcIP = frame.dstIP /\ SentBack(frame).srcMAC = OwnMAC
          /\ SentBack(frame).rest = frame.rest /\ SentBack(frame).valid = (frame.rest = 0)
      BY <3>2, Zenon DEF Frames, SentBack, EtherSentBack, IPSentBack
    <3> QED
      BY <2>1, <3>1, <3>3, Zenon DEF EchoGoesBack
  <2>2. ASSUME NEW dst, NEW bytes, NEW port, out' = Outgoing(dst, "UDP", bytes, 0, port)
        PROVE  EchoGoesBack'
    BY <2>2, SMT DEF Outgoing, EchoGoesBack
  <2>3. ASSUME NEW dst, out' = RequestEchoReply(dst)
        PROVE  EchoGoesBack'
    BY <2>3, SMT DEF RequestEchoReply, Outgoing, EchoGoesBack
  <2>4. CASE out' = NoFrame
    BY <2>4, SMT DEF NoFrame, EchoGoesBack
  <2>5. CASE out' = out
    BY <2>5, Zenon DEF EchoGoesBack
  <2> QED
    BY <2>1, <2>2, <2>3, <2>4, <2>5, Zenon
       DEF Next, Unsummed, FrameArrives, Listen, Connect, NewSocket, Ping, Send, Bind, Sum,
           SumUsed, vars
<1> QED
  BY <1>1, <1>2, PTL DEF Spec

(* A datagram is not larger than the frame it came in.                     *)
LEMMA PayloadSizeBounds ==
  ASSUME NEW total \in Nat, total < ShortRange
  PROVE  /\ TotalLength(total) \in Int /\ PayloadSize(total) \in Int
         /\ total <= PayloadSize(total) /\ PayloadSize(total) < ShortRange
<1>1. PICK padded : padded = IF EtherHeader + total < 60 THEN 60 ELSE EtherHeader + total
  BY SMT
<1>2. /\ padded \in Int /\ padded >= 60 /\ padded >= 14 + total
      /\ padded = 60 \/ padded = 14 + total
  BY <1>1, SMT DEF EtherHeader
<1>3. PICK size : size = (IF padded + 4 > 64 THEN padded ELSE padded + 4) - EtherHeader
  BY SMT
<1>4. size = PayloadSize(total)
  BY <1>1, <1>3, SMT DEF PayloadSize, ReceivedSize
<1>5. size \in Int /\ total <= size /\ size < ShortRange
  BY <1>2, <1>3, SMT DEF EtherHeader, ShortRange
<1>6. TotalLength(total) \in Int
  BY SMT DEF TotalLength
<1> QED
  BY <1>4, <1>5, <1>6, Zenon

(* What is left of a datagram behind its headers when OnRawDataReceived    *)
(* has cut it to the frame, in 16 bits, if it is not less than nothing.    *)
LEMMA PayloadBetween ==
  ASSUME NEW total \in Nat, NEW header \in Nat, header + HeaderOfMessage <= total,
         NEW length \in Int, length >= header,
         NEW size \in Int, total <= size, size < ShortRange,
         NEW given, given = (IF length > size THEN size ELSE length) - header,
         ~Below(given, HeaderOfMessage)
  PROVE  /\ (given - HeaderOfMessage) % ShortRange <= size - (header + HeaderOfMessage)
         /\ length >= total =>
              total - (header + HeaderOfMessage) <= (given - HeaderOfMessage) % ShortRange
<1>1. /\ given \in Int
      /\ given - HeaderOfMessage <= size - (header + HeaderOfMessage)
      /\ 0 <= given - HeaderOfMessage /\ given - HeaderOfMessage < ShortRange
      /\ length >= total => total - (header + HeaderOfMessage) <= given - HeaderOfMessage
  BY SMT DEF HeaderOfMessage, ShortRange, Below
<1>2. (given - HeaderOfMessage) % ShortRange = given - HeaderOfMessage
  BY <1>1, SMT DEF HeaderOfMessage, ShortRange
<1> QED
  BY <1>1, <1>2, Zenon

(* What a socket's handler is given ends within the frame, in 16 bits as   *)
(* in 32, unless the swapped length is less than the IP header, and covers *)
(* the datagram unless the swapped length is less than the length.         *)
THEOREM PayloadsInFrame == Spec => []PayloadInFrame
<1>1. Init => PayloadInFrame
  BY SMT DEF Init, Nowhere, PayloadInFrame
<1>2. PayloadInFrame /\ [Next]_vars => PayloadInFrame'
  <2> SUFFICES ASSUME PayloadInFrame, [Next]_vars
               PROVE  PayloadInFrame'
    OBVIOUS
  <2>1. ASSUME NEW frame \in Frames, NEW i, Handles(frame, "UDP"),
               last' = [socket |-> i, total |-> frame.total, header |-> frame.header,
                        size |-> Payload(frame)]
        PROVE  PayloadInFrame'
    <3>1. PICK total, header : /\ total \in Totals /\ header \in Headers
                               /\ total = frame.total /\ header = frame.header
      BY Zenon DEF Frames
    <3>2. PICK given, length, size, payload :
            /\ given = Given(frame) /\ length = TotalLength(total) /\ size = PayloadSize(total)
            /\ payload = Payload(frame)
      BY Zenon
    <3>3. /\ given = (IF length > size THEN size ELSE length) - header
          /\ payload = (given - HeaderOfMessage) % ShortRange
          /\ ~Below(given, HeaderOfMessage)
      BY <2>1, <3>1, <3>2, Zenon DEF Given, Payload, Handles, LargeEnough
    <3>4. /\ total \in Nat /\ header \in Nat /\ total < ShortRange
          /\ header + HeaderOfMessage <= total
      <4>1. header + 8 <= total /\ total < ShortRange
        BY <3>1, SizesAssumption, Zenon
      <4>2. total \in Nat /\ header \in Nat
        BY <3>1, SizesAssumption, Zenon
      <4> QED
        BY <4>1, <4>2, Zenon DEF HeaderOfMessage
    <3>5. length \in Int /\ size \in Int /\ total <= size /\ size < ShortRange
      BY <3>2, <3>4, PayloadSizeBounds, Zenon
    <3>6. ASSUME length >= header
          PROVE  /\ payload <= size - (header + HeaderOfMessage)
                 /\ length >= total => total - (header + HeaderOfMessage) <= payload
      BY <3>3, <3>4, <3>5, <3>6, PayloadBetween, Zenon
    <3>7. length >= total => length >= header
      BY <3>4, <3>5, SMT DEF HeaderOfMessage
    <3>8. PICK new : /\ new = [socket |-> i, total |-> total, header |-> header, size |-> payload]
                     /\ new = last'
      BY <2>1, <3>1, <3>2, Zenon
    <3>9. new.total = total /\ new.header = header /\ new.size = payload
      BY <3>8, SMT
    <3> QED
      BY <3>2, <3>6, <3>7, <3>8, <3>9, Zenon DEF PayloadInFrame
  <2>2. CASE last' = Nowhere
    BY <2>2, Zenon DEF Nowhere, PayloadInFrame
  <2>3. CASE last' = last
    BY <2>3, Zenon DEF PayloadInFrame
  <2> QED
    BY <2>1, <2>2, <2>3, Zenon
       DEF Next, Unsummed, FrameArrives, Receive, Listen, Connect, NewSocket, Ping, Send, Bind,
           Sum, SumUsed, vars
<1> QED
  BY <1>1, <1>2, PTL DEF Spec

-----------------------------------------------------------------------------
(* Checksums *)

(* What holds at 0 and is passed on holds up to n: there is no first       *)
(* number at which it does not.                                            *)
LEMMA UpTo ==
  ASSUME NEW n \in Nat, NEW P, 0 \in P, \A k \in 0..(n - 1) : k \in P => k + 1 \in P
  PROVE  \A k \in 0..n : k \in P
<1> SUFFICES ASSUME NEW j \in 0..n, j \notin P PROVE FALSE
  OBVIOUS
<1>1. PICK T : T = {k \in 0..n : k \notin P} OBVIOUS
<1>2. T \in SUBSET Nat /\ T # {} BY <1>1
<1>3. PICK m \in T : \A k \in T : m <= k BY <1>2, MinIsLeast
<1>4. m \in 0..n /\ m \notin P /\ m # 0 BY <1>1, <1>3
<1>5. m - 1 \in 0..(n - 1) /\ m - 1 \in 0..n /\ m - 1 + 1 = m /\ ~(m <= m - 1) BY <1>4
<1>6. m - 1 \in P BY <1>1, <1>3, <1>5
<1> QED BY <1>4, <1>5, <1>6

(* The rounds of a loop, each from the one before.                         *)
Rounds(h, n, base, f) ==
  h[0] = base /\ \A i \in 1..n : h[i] = f[<<h[i - 1], i>>]

(* A loop of n rounds has a value in each.                                 *)
LEMMA RoundsExist ==
  ASSUME NEW C, NEW base \in C, NEW n \in Nat, NEW f \in [C \X (1..n) -> C]
  PROVE  \E h \in [0..n -> C] : Rounds(h, n, base, f)
<1> DEFINE P == {k \in 0..n : \E h \in [0..k -> C] : Rounds(h, k, base, f)}
<1>1. 0 \in P
  <2>1. PICK h : h = [i \in 0..0 |-> base] OBVIOUS
  <2>2. h \in [0..0 -> C] /\ Rounds(h, 0, base, f) BY <2>1 DEF Rounds
  <2> QED BY <2>2
<1>2. ASSUME NEW k \in 0..(n - 1), k \in P PROVE k + 1 \in P
  <2>1. PICK g \in [0..k -> C] : Rounds(g, k, base, f) BY <1>2
  <2>2. PICK m : m = k + 1 OBVIOUS
  <2>3. m \in 1..n /\ k = m - 1 /\ k \in 0..k /\ m \notin 0..k BY <2>2
  <2>4. PICK h : h = [i \in 0..m |-> IF i = m THEN f[<<g[k], m>>] ELSE g[i]] OBVIOUS
  <2>5. h \in [0..m -> C]
    <3>1. f[<<g[k], m>>] \in C BY <2>1, <2>3
    <3>2. \A i \in 0..m : i # m => i \in 0..k BY <2>3
    <3> QED BY <2>1, <2>4, <3>1, <3>2
  <2>6. Rounds(h, m, base, f)
    <3>1. h[0] = base
      <4>1. 0 \in 0..m /\ 0 # m BY <2>3
      <4> QED BY <2>1, <2>4, <4>1, Zenon DEF Rounds
    <3>2. ASSUME NEW i \in 1..m PROVE h[i] = f[<<h[i - 1], i>>]
      <4>1. i \in 0..m /\ i - 1 \in 0..m /\ i - 1 # m /\ (i # m => i \in 1..k) BY <2>3
      <4>2. h[i - 1] = g[i - 1] BY <2>4, <4>1, Zenon
      <4>3. CASE i = m BY <2>3, <2>4, <4>1, <4>2, <4>3, Zenon
      <4>4. CASE i # m
        <5>1. h[i] = g[i] BY <2>4, <4>1, <4>4, Zenon
        <5> QED BY <2>1, <4>1, <4>2, <4>4, <5>1, Zenon DEF Rounds
      <4> QED BY <4>3, <4>4
    <3> QED BY <3>1, <3>2, Zenon DEF Rounds
  <2> QED BY <2>2, <2>3, <2>5, <2>6
<1> HIDE DEF P
<1>3. \A k \in 0..n : k \in P BY <1>1, <1>2, UpTo
<1>4. n \in P BY <1>3
<1> QED BY <1>4, Zenon DEF P

(* The bytes of a text.                                                    *)
LEMMA BytesAre ==
  ASSUME NEW bytes \in Seq(Byte)
  PROVE  Len(bytes) \in Nat /\ \A i \in 1..Len(bytes) : bytes[i] \in Byte /\ bytes[i] \in Nat
<1>1. Len(bytes) \in Nat OBVIOUS
<1>2. \A i \in 1..Len(bytes) : bytes[i] \in Byte BY ElementOfSeq, Zenon
<1>3. \A b \in Byte : b \in Nat BY DEF Byte
<1> QED BY <1>1, <1>2, <1>3, Zenon

LEMMA WordIs ==
  ASSUME NEW high \in Int, NEW low \in Byte
  PROVE  Word(high, low) \in Int /\ (high \in Nat => Word(high, low) \in Nat)
BY DEF Word, Byte

(* What the loop over the words has in each round.                         *)
Sums(h, bytes) ==
  h = [i \in 0..(Len(bytes) \div 2) |->
         IF i = 0 THEN 0 ELSE h[i - 1] + Word(bytes[2 * i - 1], bytes[2 * i])]

(* The recursion that defines the code's sum has a solution.               *)
LEMMA WordsRounds ==
  ASSUME NEW bytes \in Seq(Byte)
  PROVE  \E h : Sums(h, bytes) /\ WordsSummed(bytes) = h[Len(bytes) \div 2]
<1>1. PICK n : n = Len(bytes) \div 2 OBVIOUS
<1>2. n \in Nat BY <1>1
<1>3. PICK f : f = [t \in Nat \X (1..n) |->
                      t[1] + Word(bytes[2 * t[2] - 1], bytes[2 * t[2]])]
  OBVIOUS
<1>4. f \in [Nat \X (1..n) -> Nat]
  <2> SUFFICES ASSUME NEW s \in Nat, NEW i \in 1..n
               PROVE  s + Word(bytes[2 * i - 1], bytes[2 * i]) \in Nat
    BY <1>3
  <2>1. PICK a, b : a = bytes[2 * i - 1] /\ b = bytes[2 * i] OBVIOUS
  <2>2. 2 * i - 1 \in 1..Len(bytes) /\ 2 * i \in 1..Len(bytes) BY <1>1
  <2>3. a \in Nat /\ b \in Byte BY <2>1, <2>2, BytesAre
  <2>4. Word(a, b) \in Nat BY <2>3, WordIs
  <2> QED BY <2>1, <2>4
<1>5. PICK h \in [0..n -> Nat] : Rounds(h, n, 0, f)
  <2>1. 0 \in Nat OBVIOUS
  <2> QED BY <1>2, <1>4, <2>1, RoundsExist
<1>6. \A i \in 1..n : h[i] = h[i - 1] + Word(bytes[2 * i - 1], bytes[2 * i])
  <2> TAKE i \in 1..n
  <2>1. i - 1 \in 0..n BY <1>2
  <2>2. h[i - 1] \in Nat BY <1>5, <2>1
  <2>3. f[<<h[i - 1], i>>] = h[i - 1] + Word(bytes[2 * i - 1], bytes[2 * i])
    BY <1>3, <2>2, Zenon
  <2> QED BY <1>5, <2>3, Zenon DEF Rounds
<1>7. Sums(h, bytes)
  <2>1. PICK d : d = [i \in 0..n |-> IF i = 0 THEN 0
                                     ELSE h[i - 1] + Word(bytes[2 * i - 1], bytes[2 * i])]
    OBVIOUS
  <2>2. \A i \in 0..n : h[i] = d[i]
    <3>1. \A i \in 0..n : i = 0 \/ i \in 1..n BY <1>2
    <3> QED BY <1>5, <1>6, <2>1, <3>1, Zenon DEF Rounds
  <2>3. h = d
    <3>1. h = [i \in 0..n |-> h[i]] BY <1>5, Zenon
    <3>2. d = [i \in 0..n |-> d[i]] BY <2>1, Zenon
    <3> QED BY <2>2, <3>1, <3>2, Zenon
  <2> QED BY <1>1, <2>1, <2>3, Zenon DEF Sums
<1>8. PICK g : g = CHOOSE d : Sums(d, bytes) OBVIOUS
<1>9. Sums(g, bytes) BY <1>7, <1>8, Zenon
<1>10. WordsSummed(bytes) = g[Len(bytes) \div 2] BY <1>8, Zenon DEF WordsSummed, Sums
<1> QED BY <1>9, <1>10

(* What a word, and the byte left over, add at most.                       *)
LEMMA WordBounds ==
  ASSUME NEW a \in Byte, NEW b \in Byte
  PROVE  Word(a, b) \in Nat /\ Word(a, b) <= Ones
<1>1. a \in Int /\ a <= 255 /\ a >= 0 /\ b \in Int /\ b <= 255 /\ b >= 0 BY DEF Byte
<1> QED BY <1>1 DEF Word, Ones, ShortRange

LEMMA SignBounds ==
  ASSUME NEW byte \in Byte
  PROVE  SignExtended(byte) \in Nat /\ SignExtended(byte) < ShortRange
<1>1. byte \in Int /\ byte <= 255 /\ byte >= 0 BY DEF Byte
<1> QED BY <1>1 DEF SignExtended, ShortRange

(* The sum that the code keeps in a uint32_t fits into one, as long as the *)
(* length is a uint16_t: so the model needs no width.                      *)
THEOREM SumsFit ==
  ASSUME NEW text \in Seq(Byte), Len(text) < ShortRange
  PROVE  WordsSummed(text) + LastSummed(text) < ShortRange * ShortRange
<1>1. PICK m : m = Len(text) \div 2 OBVIOUS
<1>2. /\ m \in Nat /\ 2 * m < ShortRange
      /\ \A i \in 1..m : 2 * i - 1 \in 1..Len(text) /\ 2 * i \in 1..Len(text)
  BY <1>1 DEF ShortRange
<1>3. PICK g : Sums(g, text) /\ WordsSummed(text) = g[m] BY <1>1, WordsRounds, Zenon
<1>4. \A i \in 0..m : g[i] = IF i = 0 THEN 0
                             ELSE g[i - 1] + Word(text[2 * i - 1], text[2 * i])
  BY <1>1, <1>3, Zenon DEF Sums
<1> DEFINE P == {i \in 0..m : g[i] \in Nat /\ g[i] <= Ones * i}
<1>5. 0 \in P
  <2>1. 0 \in 0..m BY <1>2
  <2>2. g[0] = 0 BY <1>4, <2>1
  <2> QED BY <2>1, <2>2 DEF Ones, ShortRange
<1>6. ASSUME NEW k \in 0..(m - 1), k \in P PROVE k + 1 \in P
  <2>1. PICK i : i = k + 1 OBVIOUS
  <2>2. i \in 1..m /\ i \in 0..m /\ i # 0 /\ i - 1 = k BY <1>2, <2>1
  <2>3. PICK a, b, w : a = text[2 * i - 1] /\ b = text[2 * i] /\ w = Word(a, b) OBVIOUS
  <2>4. a \in Byte /\ b \in Byte BY <1>2, <2>2, <2>3, BytesAre, Zenon
  <2>5. w \in Nat /\ w <= Ones BY <2>3, <2>4, WordBounds, Zenon
  <2>6. g[i] = g[k] + w BY <1>4, <2>2, <2>3, Zenon
  <2>7. g[i] \in Nat /\ g[i] <= Ones * i BY <1>6, <2>1, <2>5, <2>6 DEF Ones, ShortRange
  <2> QED BY <2>1, <2>2, <2>7
<1> HIDE DEF P
<1>7. \A i \in 0..m : i \in P BY <1>2, <1>5, <1>6, UpTo
<1>8. m \in P BY <1>2, <1>7
<1>9. PICK s, t : s = WordsSummed(text) /\ t = LastSummed(text) OBVIOUS
<1>10. s \in Nat /\ s <= Ones * m BY <1>3, <1>8, <1>9, Zenon DEF P
<1>11. t \in Nat /\ t <= Word(ShortRange, 0)
  <2>1. PICK n : n = Len(text) OBVIOUS
  <2>2. CASE n % 2 = 1
    <3>1. n \in 1..Len(text) BY <2>1, <2>2
    <3>2. PICK c, d : c = text[n] /\ d = SignExtended(c) OBVIOUS
    <3>3. c \in Byte BY <3>1, <3>2, BytesAre, Zenon
    <3>4. d \in Nat /\ d < ShortRange BY <3>2, <3>3, SignBounds, Zenon
    <3>5. t = Word(d, 0) BY <1>9, <2>1, <2>2, <3>2, Zenon DEF LastSummed
    <3> QED BY <3>4, <3>5 DEF Word, ShortRange
  <2>3. CASE n % 2 # 1
    <3>1. t = 0 BY <1>9, <2>1, <2>3, Zenon DEF LastSummed
    <3> QED BY <3>1 DEF Word, ShortRange
  <2> QED BY <2>2, <2>3
<1>12. s + t < ShortRange * ShortRange
  BY <1>2, <1>10, <1>11 DEF Word, Ones, ShortRange
<1> QED BY <1>9, <1>12

(* What Residue has in each round.                                         *)
Residues(h, bytes) ==
  h = [i \in 0..Len(bytes) |-> IF i = 0 THEN 0 ELSE Word(h[i - 1], bytes[i]) % Ones]

(* The recursion that defines the reference has a solution.                *)
LEMMA ResidueRounds ==
  ASSUME NEW bytes \in Seq(Byte)
  PROVE  \E h : Residues(h, bytes) /\ Residue(bytes) = h[Len(bytes)]
<1>1. PICK n : n = Len(bytes) OBVIOUS
<1>2. n \in Nat /\ \A i \in 1..n : bytes[i] \in Byte BY <1>1, BytesAre, Zenon
<1>3. PICK f : f = [t \in Int \X (1..n) |-> Word(t[1], bytes[t[2]]) % Ones]
  OBVIOUS
<1>4. f \in [Int \X (1..n) -> Int]
  <2>1. \A s \in Int, i \in 1..n : Word(s, bytes[i]) \in Int
    <3>1. \A s \in Int, b \in Byte : Word(s, b) \in Int BY WordIs
    <3> QED BY <1>2, <3>1, Zenon
  <2>2. \A d \in Int : d % Ones \in Int BY DEF Ones, ShortRange
  <2>3. \A s \in Int, i \in 1..n : Word(s, bytes[i]) % Ones \in Int BY <2>1, <2>2, Zenon
  <2> QED BY <1>3, <2>3
<1>5. PICK h \in [0..n -> Int] : Rounds(h, n, 0, f)
  <2>1. 0 \in Int OBVIOUS
  <2> QED BY <1>2, <1>4, <2>1, RoundsExist
<1>6. \A i \in 1..n : h[i] = Word(h[i - 1], bytes[i]) % Ones
  <2> TAKE i \in 1..n
  <2>1. i - 1 \in 0..n BY <1>2
  <2>2. h[i - 1] \in Int BY <1>5, <2>1
  <2>3. f[<<h[i - 1], i>>] = Word(h[i - 1], bytes[i]) % Ones
    BY <1>3, <2>2, Zenon
  <2> QED BY <1>5, <2>3, Zenon DEF Rounds
<1>7. Residues(h, bytes)
  <2>1. PICK d : d = [i \in 0..n |-> IF i = 0 THEN 0 ELSE Word(h[i - 1], bytes[i]) % Ones]
    OBVIOUS
  <2>2. \A i \in 0..n : h[i] = d[i]
    <3>1. \A i \in 0..n : i = 0 \/ i \in 1..n BY <1>2
    <3> QED BY <1>5, <1>6, <2>1, <3>1, Zenon DEF Rounds
  <2>3. h = d
    <3>1. h = [i \in 0..n |-> h[i]] BY <1>5, Zenon
    <3>2. d = [i \in 0..n |-> d[i]] BY <2>1, Zenon
    <3> QED BY <2>2, <3>1, <3>2, Zenon
  <2> QED BY <1>1, <2>1, <2>3, Zenon DEF Residues
<1>8. PICK g : g = CHOOSE d : Residues(d, bytes) OBVIOUS
<1>9. Residues(g, bytes) BY <1>7, <1>8, Zenon
<1>10. Residue(bytes) = g[Len(bytes)] BY <1>8, Zenon DEF Residue, Residues
<1> QED BY <1>9, <1>10

(* Two more bytes: 256 times 256 is 1 in ones' complement.                 *)
LEMMA WordAdded ==
  ASSUME NEW s \in Nat, NEW a \in Byte, NEW b \in Byte
  PROVE  Word(Word(s % Ones, a) % Ones, b) % Ones = (s + Word(a, b)) % Ones
<1>1. PICK q, r : q = s \div Ones /\ r = s % Ones OBVIOUS
<1>2. q \in Int /\ r \in Int /\ s = Ones * q + r BY <1>1 DEF Ones, ShortRange
<1>3. PICK p, m : p = Word(r, a) \div Ones /\ m = Word(r, a) % Ones OBVIOUS
<1>4. Word(r, a) \in Int BY <1>2, WordIs
<1>5. p \in Int /\ m \in Int /\ Word(r, a) = Ones * p + m BY <1>3, <1>4 DEF Ones, ShortRange
<1>6. PICK c \in Int : c = 256 * p - r + q BY <1>2, <1>5
<1>7. s + Word(a, b) = Word(m, b) + Ones * c
  <2>1. r * 256 + a = 65535 * p + m BY <1>5 DEF Word, Ones, ShortRange
  <2>2. s + (a * 256 + b) = (m * 256 + b) + 65535 * c
    BY <1>2, <1>5, <1>6, <2>1 DEF Byte, Ones, ShortRange
  <2> QED BY <2>2 DEF Word, Ones, ShortRange
<1>8. Word(m, b) \in Int BY <1>5, WordIs
<1>9. PICK t, w : t = s + Word(a, b) /\ w = Word(m, b) OBVIOUS
<1>10. t \in Int /\ w \in Int /\ t = w + Ones * c BY <1>6, <1>7, <1>8, <1>9 DEF Ones, ShortRange
<1>11. t % Ones = w % Ones BY <1>6, <1>10 DEF Ones, ShortRange
<1> QED BY <1>1, <1>3, <1>9, <1>11, Zenon

(* Adding the carries keeps the sum in ones' complement and ends in 16     *)
(* bits.                                                                   *)
LEMMA FoldedKeeps ==
  ASSUME NEW temp \in Nat
  PROVE  Folded(temp) \in Nat /\ Folded(temp) < ShortRange /\ Folded(temp) % Ones = temp % Ones
<1> DEFINE Folds(h) ==
      h = [t \in Nat |-> IF t < ShortRange THEN t ELSE h[(t % ShortRange) + t \div ShortRange]]
<1>1. PICK h : h = [t \in Nat |-> IF t = 0 THEN 0 ELSE ((t - 1) % Ones) + 1] OBVIOUS
<1>2. \A t \in Nat : /\ (t % ShortRange) + t \div ShortRange \in Nat
                     /\ t >= ShortRange => /\ (t % ShortRange) + t \div ShortRange < t
                                      /\ (t % ShortRange) + t \div ShortRange > 0
                     /\ ((t % ShortRange) + t \div ShortRange) % Ones = t % Ones
  <2> TAKE t \in Nat
  <2>1. PICK m, q : m = t % ShortRange /\ q = t \div ShortRange OBVIOUS
  <2>2. m \in Nat /\ q \in Nat /\ t = ShortRange * q + m BY <2>1 DEF ShortRange
  <2>3. t = (m + q) + Ones * q BY <2>2 DEF Ones, ShortRange
  <2>4. t % Ones = (m + q) % Ones BY <2>2, <2>3 DEF Ones, ShortRange
  <2> QED BY <2>1, <2>2, <2>4 DEF ShortRange
<1>3. Folds(h)
  <2>1. PICK d : d = [t \in Nat |-> IF t < ShortRange THEN t
                                    ELSE h[(t % ShortRange) + t \div ShortRange]]
    OBVIOUS
  <2>2. ASSUME NEW t \in Nat PROVE h[t] = d[t]
    <3>1. CASE t < ShortRange
      <4>1. t # 0 => (t - 1) % Ones = t - 1 BY <3>1 DEF Ones, ShortRange
      <4>2. h[t] = t BY <1>1, <4>1
      <4> QED BY <2>1, <3>1, <4>2
    <3>2. CASE t >= ShortRange
      <4>1. PICK u : u = (t % ShortRange) + t \div ShortRange OBVIOUS
      <4>2. u \in Nat /\ u > 0 /\ u % Ones = t % Ones BY <1>2, <3>2, <4>1
      <4>3. (u - 1) % Ones = (t - 1) % Ones BY <3>2, <4>2 DEF Ones, ShortRange
      <4>4. d[t] = h[u] BY <2>1, <3>2, <4>1 DEF ShortRange
      <4>5. h[u] = ((u - 1) % Ones) + 1 /\ h[t] = ((t - 1) % Ones) + 1
        BY <1>1, <3>2, <4>2 DEF ShortRange
      <4> QED BY <4>3, <4>4, <4>5
    <3> QED BY <3>1, <3>2 DEF ShortRange
  <2>3. h = d BY <1>1, <2>1, <2>2, Zenon
  <2> QED BY <2>1, <2>3, Zenon
<1>4. PICK g : g = CHOOSE d : Folds(d) OBVIOUS
<1>5. Folds(g) BY <1>3, <1>4, Zenon
<1>6. Folded(temp) = g[temp] BY <1>4, Zenon DEF Folded
<1>7. \A t \in Nat : g[t] = IF t < ShortRange THEN t ELSE g[(t % ShortRange) + t \div ShortRange]
  BY <1>5, Zenon
<1> HIDE DEF Folds
<1> DEFINE Wrong == {t \in Nat : ~(g[t] \in Nat /\ g[t] < ShortRange /\ g[t] % Ones = t % Ones)}
<1>8. Wrong = {}
  <2> SUFFICES ASSUME Wrong # {} PROVE FALSE
    OBVIOUS
  <2>1. PICK t \in Wrong : \A u \in Wrong : t <= u
    <3>1. Wrong \in SUBSET Nat OBVIOUS
    <3> HIDE DEF Wrong
    <3> QED BY <3>1, MinIsLeast
  <2>2. t \in Nat /\ ~(g[t] \in Nat /\ g[t] < ShortRange /\ g[t] % Ones = t % Ones) OBVIOUS
  <2>3. t >= ShortRange BY <1>7, <2>2 DEF ShortRange
  <2>4. PICK u : u = (t % ShortRange) + t \div ShortRange OBVIOUS
  <2>5. u \in Nat /\ u < t /\ u % Ones = t % Ones BY <1>2, <2>2, <2>3, <2>4
  <2>6. u \notin Wrong BY <2>1, <2>2, <2>5
  <2>7. g[t] = g[u] BY <1>7, <2>2, <2>3, <2>4
  <2> QED BY <2>2, <2>5, <2>6, <2>7 DEF ShortRange
<1> QED BY <1>6, <1>8

(* The sum over the words of a text is its residue: word by word, what the *)
(* loop has added is what two more bytes leave.                            *)
LEMMA WordsLeave ==
  ASSUME NEW text \in Seq(Byte), NEW m, m = Len(text) \div 2,
         NEW rest \in Seq(Byte), Len(rest) >= 2 * m,
         \A i \in 1..(2 * m) : rest[i] = text[i],
         NEW h, Residues(h, rest)
  PROVE  WordsSummed(text) \in Nat /\ h[2 * m] = WordsSummed(text) % Ones
<1>1. m \in Nat /\ 2 * m \in Nat /\ 2 * m <= Len(text) /\ Len(rest) \in Nat OBVIOUS
<1>2. PICK g : Sums(g, text) /\ WordsSummed(text) = g[m] BY WordsRounds
<1>3. \A i \in 0..m : g[i] = IF i = 0 THEN 0
                             ELSE g[i - 1] + Word(text[2 * i - 1], text[2 * i])
  BY <1>2, Zenon DEF Sums
<1>4. \A i \in 0..Len(rest) : h[i] = IF i = 0 THEN 0 ELSE Word(h[i - 1], rest[i]) % Ones
  BY Zenon DEF Residues
<1> DEFINE P == {i \in 0..m : g[i] \in Nat /\ h[2 * i] = g[i] % Ones}
<1>5. 0 \in P
  <2>1. 0 \in 0..m /\ 2 * 0 = 0 /\ 0 \in 0..Len(rest) BY <1>1
  <2>2. g[0] = 0 /\ h[0] = 0 BY <1>3, <1>4, <2>1
  <2>3. 0 % Ones = 0 BY DEF Ones, ShortRange
  <2> QED BY <2>1, <2>2, <2>3
<1>6. ASSUME NEW k \in 0..(m - 1), k \in P PROVE k + 1 \in P
  <2>1. PICK i : i = k + 1 OBVIOUS
  <2>2. PICK u, v : u = 2 * i - 1 /\ v = 2 * i OBVIOUS
  <2>3. /\ i \in 0..m /\ i # 0 /\ i - 1 = k
        /\ v \in 1..(2 * m) /\ u \in 1..(2 * m) /\ v - 1 = u /\ u - 1 = 2 * k
    BY <1>1, <2>1, <2>2
  <2>4. u \in 1..Len(rest) /\ v \in 1..Len(rest) BY <1>1, <2>3
  <2>5. PICK a, b : a = text[u] /\ b = text[v] OBVIOUS
  <2>6. a = rest[u] /\ b = rest[v] BY <2>3, <2>5
  <2>7. a \in Byte /\ b \in Byte BY <2>4, <2>6, BytesAre, Zenon
  <2>8. g[i] = g[k] + Word(a, b) BY <1>3, <2>2, <2>3, <2>5
  <2>9. PICK s : s = g[k] OBVIOUS
  <2>10. s \in Nat /\ h[2 * k] = s % Ones BY <1>6, <2>9
  <2>11. h[u] = Word(h[2 * k], a) % Ones
    <3>1. u \in 0..Len(rest) /\ u # 0 BY <2>4
    <3> QED BY <1>4, <2>3, <2>6, <3>1, Zenon
  <2>12. h[v] = Word(h[u], b) % Ones
    <3>1. v \in 0..Len(rest) /\ v # 0 BY <2>4
    <3> QED BY <1>4, <2>3, <2>6, <3>1, Zenon
  <2>13. Word(Word(s % Ones, a) % Ones, b) % Ones = (s + Word(a, b)) % Ones
    BY <2>7, <2>10, WordAdded, Zenon
  <2>14. h[2 * i] = g[i] % Ones
    BY <2>2, <2>8, <2>9, <2>10, <2>11, <2>12, <2>13, Zenon
  <2>15. g[i] \in Nat
    <3>1. a \in Nat BY <2>7 DEF Byte
    <3>2. PICK w : w = Word(a, b) OBVIOUS
    <3>3. w \in Nat BY <2>7, <3>1, <3>2, WordIs
    <3> QED BY <2>8, <2>9, <2>10, <3>2, <3>3
  <2> QED BY <2>1, <2>3, <2>14, <2>15
<1> HIDE DEF P
<1>7. \A i \in 0..m : i \in P BY <1>1, <1>5, <1>6, UpTo
<1>8. m \in P BY <1>1, <1>7
<1> QED BY <1>2, <1>8, Zenon DEF P

(* The byte left over, if its sign is not extended.                        *)
LEMMA LastIs ==
  ASSUME NEW text \in Seq(Byte), NEW n, n = Len(text), n % 2 = 0 \/ text[n] < 128
  PROVE  /\ n % 2 = 0 => LastSummed(text) = 0
         /\ n % 2 = 1 => text[n] \in Byte /\ LastSummed(text) = Word(text[n], 0)
<1>1. n \in Nat /\ (n % 2 = 1 => n \in 1..Len(text) /\ n % 2 # 0) OBVIOUS
<1>2. n % 2 = 1 => text[n] \in Byte BY <1>1, BytesAre, Zenon
<1>3. n % 2 = 1 => SignExtended(text[n]) = text[n] BY <1>1 DEF SignExtended
<1>4. n % 2 = 0 => n % 2 # 1 BY <1>1
<1> QED BY <1>2, <1>3, <1>4, Zenon DEF LastSummed

(* A 16-bit number is its two bytes.                                       *)
LEMMA BytesOf ==
  ASSUME NEW sum \in Nat, sum < ShortRange
  PROVE  sum \div 256 \in Byte /\ sum % 256 \in Byte /\ Word(sum \div 256, sum % 256) = sum
BY DEF Byte, Word, ShortRange

(* What is missing to the full number completes the sum to zero.           *)
LEMMA Complement ==
  ASSUME NEW t \in Nat, NEW f \in Nat, f % Ones = t % Ones
  PROVE  (t + (Ones - f)) % Ones = 0
<1>1. PICK p, q, r : p = f \div Ones /\ q = t \div Ones /\ r = t % Ones OBVIOUS
<1>2. p \in Int /\ q \in Int /\ r \in Int BY <1>1 DEF Ones, ShortRange
<1>3. t = Ones * q + r BY <1>1 DEF Ones, ShortRange
<1>4. f = Ones * p + r
  <2>1. PICK d : d = f % Ones OBVIOUS
  <2>2. f = Ones * p + d BY <1>1, <2>1 DEF Ones, ShortRange
  <2> QED BY <1>1, <2>1, <2>2, Zenon
<1>5. PICK c \in Int : c = q - p + 1 BY <1>2
<1>6. t + (Ones - f) = Ones * c BY <1>2, <1>3, <1>4, <1>5 DEF Ones, ShortRange
<1>7. (Ones * c) % Ones = 0 BY <1>5 DEF Ones, ShortRange
<1> QED BY <1>6, <1>7, Zenon

(* What Checksum stores is what the sum of the text lacks.                 *)
LEMMA ChecksumIs ==
  ASSUME NEW text \in Seq(Byte), NEW t \in Nat, t = WordsSummed(text) + LastSummed(text)
  PROVE  \E a, b \in Byte : Checksum(text) = <<a, b>> /\ (t + Word(a, b)) % Ones = 0
<1>1. PICK f : f = Folded(t) OBVIOUS
<1>2. f \in Nat /\ f < ShortRange /\ f % Ones = t % Ones BY <1>1, FoldedKeeps, Zenon
<1>3. PICK sum : sum = (ShortRange - 1) - (f % ShortRange) OBVIOUS
<1>4. sum \in Nat /\ sum < ShortRange /\ sum = Ones - f BY <1>2, <1>3 DEF Ones, ShortRange
<1>5. PICK a, b : a = sum \div 256 /\ b = sum % 256 OBVIOUS
<1>6. a \in Byte /\ b \in Byte /\ Word(a, b) = sum BY <1>4, <1>5, BytesOf
<1>7. Checksum(text) = <<a, b>> BY <1>1, <1>3, <1>5, Zenon DEF Checksum
<1>8. (t + sum) % Ones = 0 BY <1>2, <1>4, Complement
<1> QED BY <1>6, <1>7, <1>8, Zenon

(* A text with its checksum behind it sums up to zero.                     *)
LEMMA ChecksumCompletes ==
  ASSUME NEW text \in Seq(Byte), NEW n, n = Len(text), n % 2 = 0 \/ text[n] < 128,
         NEW whole, whole = IF n % 2 = 0 THEN text ELSE Append(text, 0)
  PROVE  Residue(whole \o Checksum(text)) = 0
<1>1. PICK m : m = n \div 2 OBVIOUS
<1>2. PICK k : k = IF n % 2 = 0 THEN 2 * m ELSE 2 * m + 2 OBVIOUS
<1>3. /\ n \in Nat /\ m \in Nat /\ k \in Nat /\ k >= 2 * m
      /\ n % 2 = 0 => n = 2 * m /\ k = 2 * m
      /\ n % 2 # 0 => n = 2 * m + 1 /\ k = 2 * m + 2 /\ n % 2 = 1
  BY <1>1, <1>2
<1>4. /\ whole \in Seq(Byte) /\ Len(whole) = k /\ \A i \in 1..n : whole[i] = text[i]
      /\ n % 2 # 0 => whole[k] = 0
  <2>1. CASE n % 2 = 0
    <3>1. whole = text BY <2>1
    <3> QED BY <1>3, <2>1, <3>1
  <2>2. CASE n % 2 # 0
    <3>1. whole = Append(text, 0) BY <2>2
    <3>2. 0 \in Byte BY DEF Byte
    <3>3. /\ Append(text, 0) \in Seq(Byte) /\ Len(Append(text, 0)) = n + 1
          /\ \A i \in 1..n : Append(text, 0)[i] = text[i]
          /\ Append(text, 0)[n + 1] = 0
      BY <3>2, AppendProperties
    <3>4. n + 1 = k BY <1>3, <2>2
    <3> QED BY <3>1, <3>3, <3>4, Zenon
  <2> QED BY <2>1, <2>2
<1>5. PICK t : t = WordsSummed(text) + LastSummed(text) OBVIOUS
<1>6. WordsSummed(text) \in Nat
  <2>1. \A i \in 1..(2 * m) : text[i] = text[i] OBVIOUS
  <2>2. Len(text) >= 2 * m BY <1>3
  <2>3. PICK h : Residues(h, text)
    BY ResidueRounds, Zenon
  <2> QED BY <1>1, <2>1, <2>2, <2>3, WordsLeave, Zenon
<1>7. t \in Nat
  <2>1. CASE n % 2 = 0
    <3>1. LastSummed(text) = 0 BY <2>1, LastIs, Zenon
    <3> QED BY <1>5, <1>6, <3>1
  <2>2. CASE n % 2 # 0
    <3>1. n % 2 = 1 BY <1>3, <2>2
    <3>2. PICK c : c = text[n] OBVIOUS
    <3>3. c \in Byte /\ LastSummed(text) = Word(c, 0) BY <3>1, <3>2, LastIs, Zenon
    <3>4. Word(c, 0) \in Nat BY <3>3 DEF Word, Byte
    <3> QED BY <1>5, <1>6, <3>3, <3>4
  <2> QED BY <2>1, <2>2
<1>8. PICK a, b \in Byte : Checksum(text) = <<a, b>> /\ (t + Word(a, b)) % Ones = 0
  BY <1>5, <1>7, ChecksumIs, Zenon
<1>9. PICK rest : rest = whole \o <<a, b>> OBVIOUS
<1>10. /\ rest \in Seq(Byte) /\ Len(rest) = k + 2
       /\ \A i \in 1..k : rest[i] = whole[i]
       /\ rest[k + 1] = a /\ rest[k + 2] = b
  <2>1. PICK pair : pair = <<a, b>> OBVIOUS
  <2>2. pair \in Seq(Byte) /\ Len(pair) = 2 /\ pair[1] = a /\ pair[2] = b BY <2>1
  <2>3. /\ rest \in Seq(Byte) /\ Len(rest) = k + 2
        /\ \A i \in 1..k : rest[i] = whole[i]
        /\ \A i \in (k + 1)..(k + 2) : rest[i] = pair[i - k]
    BY <1>3, <1>4, <1>9, <2>1, <2>2
  <2>4. /\ k + 1 \in (k + 1)..(k + 2) /\ k + 2 \in (k + 1)..(k + 2)
        /\ (k + 1) - k = 1 /\ (k + 2) - k = 2
    BY <1>3
  <2>5. rest[k + 1] = pair[1] /\ rest[k + 2] = pair[2] BY <2>3, <2>4, Zenon
  <2> QED BY <2>2, <2>3, <2>5, Zenon
<1>11. PICK h : Residues(h, rest) /\ Residue(rest) = h[Len(rest)]
  BY <1>10, ResidueRounds, Zenon
<1>12. \A i \in 0..Len(rest) : h[i] = IF i = 0 THEN 0 ELSE Word(h[i - 1], rest[i]) % Ones
  BY <1>11, Zenon DEF Residues
<1>13. h[2 * m] = WordsSummed(text) % Ones
  <2>1. \A i \in 1..(2 * m) : rest[i] = text[i]
    <3>1. \A i \in 1..(2 * m) : i \in 1..k /\ i \in 1..n BY <1>3
    <3> QED BY <1>4, <1>10, <3>1, Zenon
  <2>2. Len(rest) >= 2 * m BY <1>3, <1>10
  <2> QED BY <1>1, <1>10, <1>11, <2>1, <2>2, WordsLeave, Zenon
<1>14. \A i \in Nat : i + 2 <= Len(rest) =>
         /\ i + 1 \in 1..Len(rest) /\ i + 2 \in 1..Len(rest)
         /\ h[i + 2] = Word(Word(h[i], rest[i + 1]) % Ones, rest[i + 2]) % Ones
  <2> TAKE i \in Nat
  <2> HAVE i + 2 <= Len(rest)
  <2>1. PICK u, v : u = i + 1 /\ v = i + 2 OBVIOUS
  <2>2. /\ u \in 1..Len(rest) /\ v \in 1..Len(rest) /\ u \in 0..Len(rest) /\ v \in 0..Len(rest)
        /\ u # 0 /\ v # 0 /\ u - 1 = i /\ v - 1 = u
    BY <1>3, <1>10, <2>1
  <2>3. h[u] = Word(h[i], rest[u]) % Ones BY <1>12, <2>2, Zenon
  <2>4. h[v] = Word(h[u], rest[v]) % Ones BY <1>12, <2>2, Zenon
  <2> QED BY <2>1, <2>2, <2>3, <2>4, Zenon
<1>15. h[k] = t % Ones
  <2>1. CASE n % 2 = 0
    <3>1. LastSummed(text) = 0 /\ k = 2 * m BY <1>3, <2>1, LastIs, Zenon
    <3>2. t = WordsSummed(text) BY <1>5, <1>6, <3>1
    <3> QED BY <1>13, <3>1, <3>2
  <2>2. CASE n % 2 # 0
    <3>1. n = 2 * m + 1 /\ k = 2 * m + 2 /\ n % 2 = 1 BY <1>3, <2>2
    <3>2. PICK c : c = text[n] OBVIOUS
    <3>3. c \in Byte /\ LastSummed(text) = Word(c, 0) BY <3>1, <3>2, LastIs, Zenon
    <3>4. rest[2 * m + 1] = c /\ rest[2 * m + 2] = 0
      <4>1. n \in 1..n /\ n \in 1..k /\ k \in 1..k BY <1>3, <3>1
      <4>2. rest[n] = c BY <1>4, <1>10, <3>2, <4>1, Zenon
      <4>3. rest[k] = 0 BY <1>4, <1>10, <2>2, <4>1, Zenon
      <4> QED BY <3>1, <4>2, <4>3, Zenon
    <3>5. 2 * m \in Nat /\ 2 * m + 2 <= Len(rest) BY <1>3, <1>10, <3>1
    <3>6. h[k] = Word(Word(h[2 * m], c) % Ones, 0) % Ones
      BY <1>14, <3>1, <3>4, <3>5, Zenon
    <3>7. PICK s : s = WordsSummed(text) OBVIOUS
    <3>8. s \in Nat /\ h[2 * m] = s % Ones BY <1>6, <1>13, <3>7, Zenon
    <3>9. 0 \in Byte BY DEF Byte
    <3>10. Word(Word(s % Ones, c) % Ones, 0) % Ones = (s + Word(c, 0)) % Ones
      BY <3>3, <3>8, <3>9, WordAdded, Zenon
    <3> QED BY <1>5, <3>3, <3>6, <3>7, <3>8, <3>10, Zenon
  <2> QED BY <2>1, <2>2
<1>16. h[k + 2] = (t + Word(a, b)) % Ones
  <2>1. k + 2 <= Len(rest) BY <1>3, <1>10
  <2>2. h[k + 2] = Word(Word(h[k], a) % Ones, b) % Ones
    BY <1>3, <1>10, <1>14, <2>1, Zenon
  <2>3. Word(Word(t % Ones, a) % Ones, b) % Ones = (t + Word(a, b)) % Ones
    BY <1>7, <1>8, WordAdded, Zenon
  <2> QED BY <1>15, <2>2, <2>3, Zenon
<1>17. Residue(rest) = 0 BY <1>8, <1>10, <1>11, <1>16, Zenon
<1> QED BY <1>8, <1>9, <1>17, Zenon

(* Checksum, for a text of any length: the sum of all words, odd byte and  *)
(* carries included, and what is stored for it are zero together.          *)
THEOREM ChecksumsAreInternetChecksums == Spec => []ChecksumIsInternetChecksum
<1>1. ASSUME NEW text \in Seq(Byte), summed = [text |-> text, sum |-> Checksum(text)]
      PROVE  ChecksumIsInternetChecksum
  <2>1. summed.text = text /\ summed.sum = Checksum(text) BY <1>1, Zenon
  <2>2. PICK n : n = Len(text) OBVIOUS
  <2>3. PICK whole : whole = IF n % 2 = 0 THEN text ELSE Append(text, 0) OBVIOUS
  <2>4. SUFFICES ASSUME ~(n % 2 = 1 /\ text[n] >= 128)
                 PROVE  Residue(whole \o Checksum(text)) = 0
    BY <2>1, <2>2, <2>3, Zenon DEF ChecksumIsInternetChecksum
  <2>5. n % 2 = 0 \/ text[n] < 128
    <3>1. n \in Nat /\ (n % 2 # 0 => n % 2 = 1 /\ n \in 1..Len(text)) BY <2>2
    <3>2. CASE n % 2 # 0
      <4>1. PICK c : c = text[n] OBVIOUS
      <4>2. c \in Byte /\ ~(c >= 128) BY <2>4, <3>1, <3>2, <4>1, BytesAre, Zenon
      <4>3. c < 128 BY <4>2 DEF Byte
      <4> QED BY <4>1, <4>3
    <3> QED BY <3>2
  <2> QED BY <2>2, <2>3, <2>5, ChecksumCompletes, Zenon
<1>2. ASSUME summed = Nothing
      PROVE  ChecksumIsInternetChecksum
  <2>1. PICK rest : rest = <<255, 255>> OBVIOUS
  <2>2. rest \in Seq(Byte) /\ Len(rest) = 2 /\ rest[1] = 255 /\ rest[2] = 255
    BY <2>1 DEF Byte
  <2>3. PICK h : Residues(h, rest) /\ Residue(rest) = h[Len(rest)] BY <2>2, ResidueRounds, Zenon
  <2>4. \A i \in 0..2 : h[i] = IF i = 0 THEN 0 ELSE Word(h[i - 1], rest[i]) % Ones
    <3>1. PICK l : l = Len(rest) OBVIOUS
    <3>2. \A i \in 0..l : h[i] = IF i = 0 THEN 0 ELSE Word(h[i - 1], rest[i]) % Ones
      BY <2>3, <3>1, Zenon DEF Residues
    <3> QED BY <2>2, <3>1, <3>2
  <2>5. h[0] = 0 /\ h[1] = Word(h[0], rest[1]) % Ones /\ h[2] = Word(h[1], rest[2]) % Ones
    BY <2>4
  <2>6. h[1] = 255 BY <2>2, <2>5 DEF Word, Ones, ShortRange
  <2>7. h[2] = 0 BY <2>2, <2>5, <2>6 DEF Word, Ones, ShortRange
  <2>8. PICK none : none = <<>> OBVIOUS
  <2>9. Len(none) % 2 = 0 /\ none \o rest = rest BY <2>2, <2>8
  <2>10. summed.text = none /\ summed.sum = rest BY <1>2, <2>1, <2>8, Zenon DEF Nothing
  <2>11. Residue(rest) = 0 BY <2>2, <2>3, <2>7
  <2> QED BY <2>9, <2>10, <2>11, Zenon DEF ChecksumIsInternetChecksum
<1> DEFINE Summed == \/ summed = Nothing
                     \/ \E text \in Seq(Byte) :
                          summed = [text |-> text, sum |-> Checksum(text)]
<1>3. Summed => ChecksumIsInternetChecksum BY <1>1, <1>2, Zenon
<1>4. Init => Summed BY Zenon DEF Init
<1>5. Summed /\ [Next]_vars => Summed'
  <2> SUFFICES ASSUME Summed, [Next]_vars PROVE Summed'
    OBVIOUS
  <2>1. ASSUME NEW text \in Texts, Sum(text) PROVE Summed'
    <3>1. text \in Seq(Byte) BY TextsAssumption, Zenon
    <3> QED BY <2>1, <3>1, Zenon DEF Sum
  <2>2. CASE SumUsed BY <2>2, Zenon DEF SumUsed
  <2>3. CASE UNCHANGED summed BY <2>3, Zenon
  <2> QED BY <2>1, <2>2, <2>3, Zenon DEF Next, vars
<1> HIDE DEF Summed
<1> QED BY <1>3, <1>4, <1>5, PTL DEF Spec

=============================================================================
