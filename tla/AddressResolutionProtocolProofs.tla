------------------ MODULE AddressResolutionProtocolProofs ------------------
(***************************************************************************)
(* What Resolve returns, and whom the protocol answers, for any number of  *)
(* peers, any size of the cache and every wire.                            *)
(***************************************************************************)
EXTENDS AddressResolutionProtocol, WellFoundedInduction, TLAPS

(* A set of numbers has its least member: < is well founded.               *)
LEMMA MinIsLeast ==
  ASSUME NEW S \in SUBSET Nat, S # {}
  PROVE  Min(S) \in S /\ \A y \in S : Min(S) <= y
<1>1. PICK x \in S : \A y \in S : <<y, x>> \notin OpToRel(<, Nat)
  BY NatLessThanWellFounded, WFMin, Zenon
<1>2. \A y \in S : ~(y < x)
  BY <1>1, Zenon DEF OpToRel
<1>3. \A y \in S : x <= y
  BY <1>2, SMT
<1> QED
  BY <1>3, Zenon DEF Min

(* GetMACFromCache returns what some entry for the address says, or the    *)
(* broadcast address.                                                      *)
LEMMA CacheHit ==
  ASSUME NEW ip, Len(cache) \in Nat, GetMACFromCache(ip) # Broadcast
  PROVE  \E i \in 1 .. Len(cache) :
           cache[i].ip = ip /\ cache[i].mac = GetMACFromCache(ip)
<1> DEFINE I == {i \in 1 .. Len(cache) : cache[i].ip = ip}
<1>1. SelectInSeq(cache, LAMBDA entry : entry.ip = ip) = IF I # {} THEN Min(I) ELSE 0
  BY DEF SelectInSeq
<1>2. I # {}
  BY <1>1 DEF GetMACFromCache, MACIn
<1>3. Min(I) \in I
  <2>1. I \in SUBSET Nat
    BY SMT
  <2> HIDE DEF I
  <2> QED
    BY <1>2, <2>1, MinIsLeast, Zenon
<1> QED
  BY <1>1, <1>2, <1>3, Zenon DEF GetMACFromCache, MACIn

(* An entry behind the last one hides none: what is found for an address   *)
(* stays the same.                                                         *)
LEMMA HitOfLonger ==
  ASSUME NEW Entries, NEW entries \in Seq(Entries), NEW entry, NEW ip,
         MACIn(entries, ip) # Broadcast
  PROVE  MACIn(Append(entries, entry), ip) = MACIn(entries, ip)
<1> DEFINE longer == Append(entries, entry)
           I == {i \in 1 .. Len(entries) : entries[i].ip = ip}
           J == {i \in 1 .. Len(longer) : longer[i].ip = ip}
<1>1. SelectInSeq(entries, LAMBDA e : e.ip = ip) = IF I # {} THEN Min(I) ELSE 0
  BY DEF SelectInSeq
<1>2. SelectInSeq(longer, LAMBDA e : e.ip = ip) = IF J # {} THEN Min(J) ELSE 0
  BY DEF SelectInSeq
<1>3. I # {}
  BY <1>1 DEF MACIn
<1>4. /\ Len(entries) \in Nat /\ I \in SUBSET Nat /\ J \in SUBSET Nat /\ I \subseteq J
      /\ \A j \in J : j \in I \/ j = Len(entries) + 1
      /\ \A i \in I : i > 0 /\ i <= Len(entries) /\ longer[i] = entries[i]
  BY SMT
<1>5. MACIn(entries, ip) = IF I # {} THEN entries[Min(I)].mac ELSE Broadcast
  <2>1. Min(I) \in I
    <3> HIDE DEF I
    <3> QED
      BY <1>3, <1>4, MinIsLeast, Zenon
  <2>2. Min(I) # 0
    BY <1>4, <2>1
  <2> HIDE DEF I
  <2> QED
    BY <1>1, <1>3, <2>2 DEF MACIn
<1> HIDE DEF I, J, longer
<1>6. Min(I) \in I /\ \A i \in I : Min(I) <= i
  BY <1>3, <1>4, MinIsLeast, Zenon
<1>7. J # {}
  BY <1>3, <1>4, Zenon
<1>8. Min(J) \in J /\ \A j \in J : Min(J) <= j
  BY <1>4, <1>7, MinIsLeast, Zenon
<1>9. Min(J) = Min(I)
  <2>1. Min(J) <= Min(I) /\ Min(I) <= Len(entries) /\ Min(I) \in Nat /\ Min(J) \in Nat
    BY <1>4, <1>6, <1>8, Zenon
  <2>2. Min(J) # Len(entries) + 1
    BY <1>4, <2>1, SMT
  <2>3. Min(J) \in I
    BY <1>4, <1>8, <2>2, Zenon
  <2>4. Min(I) <= Min(J)
    BY <1>6, <2>3, Zenon
  <2> QED
    BY <2>1, <2>4, SMT
<1>10. Min(I) # 0 /\ longer[Min(I)] = entries[Min(I)]
  <2>1. Min(I) > 0 /\ longer[Min(I)] = entries[Min(I)]
    BY <1>4, <1>6, Zenon
  <2> QED
    BY <2>1
<1>11. MACIn(longer, ip) = longer[Min(I)].mac
  BY <1>2, <1>7, <1>9, <1>10 DEF MACIn
<1> QED
  BY <1>3, <1>5, <1>10, <1>11 DEF longer

LEMMA HitStays ==
  ASSUME NEW entry, NEW Entries, cache \in Seq(Entries), NEW ip, GetMACFromCache(ip) # Broadcast,
         cache' = cache \/ cache' = Append(cache, entry)
  PROVE  GetMACFromCache(ip)' = GetMACFromCache(ip)
<1>1. GetMACFromCache(ip) = MACIn(cache, ip) /\ GetMACFromCache(ip)' = MACIn(cache', ip)
  BY Zenon DEF GetMACFromCache
<1> QED
  BY <1>1, HitOfLonger, Zenon

-----------------------------------------------------------------------------
(* The inductive invariant: every entry of the cache was told in an answer *)
(* to our address, every message on its way to it is recorded, and every   *)
(* result is still what the cache gives.                                   *)

Answered == {[ip |-> t[2], mac |-> t[3]] : t \in {u \in told : u[1] = "response"}}

CacheTold ==
  /\ cache \in Seq(Answered)
  /\ \A t \in told : t = <<t[1], t[2], t[3]>> /\ t[1] \in {"request", "response"}

CallsWellFormed ==
  resolve = [c \in Contexts |-> [at |-> resolve[c].at, ip |-> resolve[c].ip,
                                 result |-> resolve[c].result]]

MessagesTold ==
  \A m \in toUs :
    /\ m = Message(m.command, m.srcIP, m.srcMAC, m.dstIP, m.dstMAC)
    /\ m.dstIP = OwnIP => <<m.command, m.srcIP, m.srcMAC>> \in told

IInv ==
  /\ CacheTold
  /\ CallsWellFormed
  /\ FirstAnswerIsKept
  /\ MessagesTold
  /\ AnswersGoToAskers

(* What the cache gives for an address was told of it in an answer.        *)
LEMMA HitWasTold ==
  ASSUME CacheTold, NEW ip, GetMACFromCache(ip) # Broadcast
  PROVE  <<"response", ip, GetMACFromCache(ip)>> \in told
<1>1. Len(cache) \in Nat /\ \A i \in 1 .. Len(cache) : cache[i] \in Answered
  BY SMT DEF CacheTold
<1>2. PICK i \in 1 .. Len(cache) : cache[i].ip = ip /\ cache[i].mac = GetMACFromCache(ip)
  BY <1>1, CacheHit
<1>3. PICK t \in told : t[1] = "response" /\ cache[i] = [ip |-> t[2], mac |-> t[3]]
  BY <1>1, Zenon DEF Answered
<1>4. t = <<"response", ip, GetMACFromCache(ip)>>
  <2>1. t = <<t[1], t[2], t[3]>>
    BY Zenon DEF CacheTold
  <2>2. t[2] = cache[i].ip /\ t[3] = cache[i].mac
    BY <1>3, SMT
  <2> QED
    BY <1>2, <1>3, <2>1, <2>2, Zenon
<1> QED
  BY <1>4

(* A cache filled from what was told stays so when more is told.           *)
LEMMA ToldGrows ==
  ASSUME CacheTold, cache' = cache, told \subseteq told',
         \A t \in told' : t = <<t[1], t[2], t[3]>> /\ t[1] \in {"request", "response"}
  PROVE  CacheTold'
<1>1. Answered \subseteq Answered'
  BY Zenon DEF Answered
<1> QED
  BY <1>1, SMT DEF CacheTold

LEMMA ToldStays ==
  ASSUME CacheTold, UNCHANGED <<cache, told>>
  PROVE  CacheTold'
BY DEF CacheTold, Answered

(* So do the other parts: they only ask for what was told, and for what    *)
(* the cache gives.                                                        *)
LEMMA OthersGrow ==
  ASSUME IInv, told \subseteq told'
  PROVE  /\ UNCHANGED resolve => CallsWellFormed'
         /\ UNCHANGED <<resolve, cache>> => FirstAnswerIsKept'
         /\ toUs' \subseteq toUs => MessagesTold'
         /\ toPeers' \subseteq toPeers => AnswersGoToAskers'
<1>1. UNCHANGED resolve => CallsWellFormed'
  BY Zenon DEF IInv, CallsWellFormed
<1>2. UNCHANGED <<resolve, cache>> => FirstAnswerIsKept'
  <2> SUFFICES ASSUME UNCHANGED <<resolve, cache>>
               PROVE  FirstAnswerIsKept'
    OBVIOUS
  <2>1. \A ip : GetMACFromCache(ip)' = GetMACFromCache(ip)
    BY Zenon DEF GetMACFromCache
  <2> QED
    BY <2>1, Zenon DEF IInv, FirstAnswerIsKept
<1>3. toUs' \subseteq toUs => MessagesTold'
  BY Zenon DEF IInv, MessagesTold
<1>4. toPeers' \subseteq toPeers => AnswersGoToAskers'
  BY Zenon DEF IInv, AnswersGoToAskers
<1> QED
  BY <1>1, <1>2, <1>3, <1>4

LEMMA InitIInv == Init => IInv
<1> SUFFICES ASSUME Init
             PROVE  IInv
  OBVIOUS
<1>1. CacheTold
  BY SMT DEF Init, CacheTold
<1>2. CallsWellFormed /\ FirstAnswerIsKept
  BY SMT DEF Init, CallsWellFormed, FirstAnswerIsKept
<1>3. MessagesTold /\ AnswersGoToAskers
  BY Zenon DEF Init, MessagesTold, AnswersGoToAskers
<1> QED
  BY <1>1, <1>2, <1>3 DEF IInv

LEMMA CallKeeps ==
  ASSUME IInv, NEW c \in Contexts, NEW ip \in Peers, Call(c, ip)
  PROVE  IInv'
<1>1. UNCHANGED <<cache, toUs, told>>
  BY DEF Call, environment
<1>2. CacheTold' /\ MessagesTold'
  BY <1>1, ToldStays, OthersGrow DEF IInv
<1>3. resolve' = [resolve EXCEPT ![c] = [at |-> "wait", ip |-> ip,
                                         result |-> GetMACFromCache(ip)]]
  BY Zenon DEF Call
<1>4. CallsWellFormed'
  BY <1>3, SMT DEF IInv, CallsWellFormed
<1>5. FirstAnswerIsKept'
  <2> SUFFICES ASSUME NEW d \in Contexts, resolve'[d].result # Broadcast
               PROVE  /\ <<"response", resolve'[d].ip, resolve'[d].result>> \in told
                      /\ GetMACFromCache(resolve'[d].ip) = resolve'[d].result
    BY <1>1, Zenon DEF FirstAnswerIsKept, GetMACFromCache
  <2>1. CASE d = c
    <3>1. resolve'[d].ip = ip /\ resolve'[d].result = GetMACFromCache(ip)
      BY <1>3, <2>1, SMT DEF IInv, CallsWellFormed
    <3> QED
      BY <3>1, HitWasTold DEF IInv
  <2>2. CASE d # c
    BY <1>3, <2>2, SMT DEF IInv, CallsWellFormed, FirstAnswerIsKept
  <2> QED
    BY <2>1, <2>2
<1>6. AnswersGoToAskers'
  <2>1. toPeers' = toPeers \/ toPeers' = toPeers \cup {Request(ip)}
    BY Zenon DEF Call
  <2>2. Request(ip).command = "request"
    BY DEF Request, Message
  <2> QED
    BY <1>1, <2>1, <2>2, SMT DEF IInv, AnswersGoToAskers
<1> QED
  BY <1>2, <1>4, <1>5, <1>6 DEF IInv

LEMMA LookKeeps ==
  ASSUME IInv, NEW c \in Contexts, Look(c)
  PROVE  IInv'
<1>1. UNCHANGED <<cache, toUs, toPeers, told>>
  BY DEF Look, environment, wire
<1>2. CacheTold' /\ MessagesTold' /\ AnswersGoToAskers'
  BY <1>1, ToldStays, OthersGrow DEF IInv
<1>3. resolve' = [resolve EXCEPT ![c].result = GetMACFromCache(resolve[c].ip)]
  BY Zenon DEF Look
<1>4. CallsWellFormed'
  BY <1>3, SMT DEF IInv, CallsWellFormed
<1>5. FirstAnswerIsKept'
  <2> SUFFICES ASSUME NEW d \in Contexts, resolve'[d].result # Broadcast
               PROVE  /\ <<"response", resolve'[d].ip, resolve'[d].result>> \in told
                      /\ GetMACFromCache(resolve'[d].ip) = resolve'[d].result
    BY <1>1, Zenon DEF FirstAnswerIsKept, GetMACFromCache
  <2>1. CASE d = c
    <3>1. resolve'[d].ip = resolve[c].ip /\ resolve'[d].result = GetMACFromCache(resolve[c].ip)
      BY <1>3, <2>1, SMT DEF IInv, CallsWellFormed
    <3> QED
      BY <3>1, HitWasTold DEF IInv
  <2>2. CASE d # c
    BY <1>3, <2>2, SMT DEF IInv, CallsWellFormed, FirstAnswerIsKept
  <2> QED
    BY <2>1, <2>2
<1> QED
  BY <1>2, <1>4, <1>5 DEF IInv

(* Finish sends the answer kernelMain broadcasts to the address Resolve    *)
(* gave it.                                                                *)
LEMMA FinishKeeps ==
  ASSUME IInv, NEW c \in Contexts, Finish(c)
  PROVE  IInv'
<1>1. UNCHANGED <<cache, toUs, told>>
  BY DEF Finish, environment
<1>2. CacheTold' /\ MessagesTold'
  BY <1>1, ToldStays, OthersGrow DEF IInv
<1>3. resolve' = [resolve EXCEPT ![c].at = "idle"]
  BY Zenon DEF Finish
<1>4. CallsWellFormed'
  BY <1>3, SMT DEF IInv, CallsWellFormed
<1>5. FirstAnswerIsKept'
  <2>1. \A d \in Contexts : resolve'[d].ip = resolve[d].ip /\ resolve'[d].result = resolve[d].result
    BY <1>3, SMT DEF IInv, CallsWellFormed
  <2> QED
    BY <1>1, <2>1, Zenon DEF IInv, FirstAnswerIsKept, GetMACFromCache
<1>6. AnswersGoToAskers'
  <2> DEFINE answer == Message("response", OwnIP, OwnMAC, resolve[c].ip, resolve[c].result)
  <2>1. toPeers' = toPeers \/ toPeers' = toPeers \cup {answer}
    BY Zenon DEF Finish
  <2>2. /\ answer.srcIP = OwnIP /\ answer.srcMAC = OwnMAC
        /\ answer.dstIP = resolve[c].ip /\ answer.dstMAC = resolve[c].result
    BY DEF Message
  <2>3. <<"response", resolve[c].ip, resolve[c].result>> \in told
    BY Zenon DEF Finish, IInv, FirstAnswerIsKept
  <2> HIDE DEF answer
  <2> QED
    BY <1>1, <2>1, <2>2, <2>3, SMT DEF IInv, AnswersGoToAskers
<1> QED
  BY <1>2, <1>4, <1>5, <1>6 DEF IInv

(* An entry is what an answer said, an answer of ours goes where the       *)
(* request came from, and what the cache knew it still gives.              *)
LEMMA ReceiveKeeps ==
  ASSUME IInv, NEW m \in toUs, Receive(m)
  PROVE  IInv'
<1> DEFINE entry == [ip |-> m.srcIP, mac |-> m.srcMAC]
<1>1. UNCHANGED <<resolve, told>> /\ toUs' \subseteq toUs
  BY Zenon DEF Receive, environment
<1>2. CallsWellFormed' /\ MessagesTold'
  BY <1>1, OthersGrow
<1>3. /\ m = Message(m.command, m.srcIP, m.srcMAC, m.dstIP, m.dstMAC)
      /\ m.dstIP = OwnIP => <<m.command, m.srcIP, m.srcMAC>> \in told
  BY Zenon DEF IInv, MessagesTold
<1>4. \/ cache' = cache
      \/ cache' = Append(cache, entry) /\ m.dstIP = OwnIP /\ m.command = "response"
  BY Zenon DEF Receive, Insert
<1>5. CacheTold'
  <2>1. m.dstIP = OwnIP /\ m.command = "response" => entry \in Answered
    BY <1>3, SMT DEF Answered
  <2> HIDE DEF entry
  <2>2. cache' \in Seq(Answered)
    BY <1>4, <2>1, SMT DEF IInv, CacheTold
  <2> QED
    BY <1>1, <2>2, Zenon DEF IInv, CacheTold, Answered
<1>6. FirstAnswerIsKept'
  <2> HIDE DEF entry
  <2>1. \A ip : GetMACFromCache(ip) # Broadcast => GetMACFromCache(ip)' = GetMACFromCache(ip)
    <3>1. cache \in Seq(Answered)
      BY DEF IInv, CacheTold
    <3> QED
      BY <1>4, <3>1, HitStays
  <2> QED
    BY <1>1, <2>1, Zenon DEF IInv, FirstAnswerIsKept
<1>7. AnswersGoToAskers'
  <2>1. toPeers' = toPeers \/ (toPeers' = toPeers \cup {Answer(m)} /\ m.dstIP = OwnIP /\ m.command = "request")
    BY Zenon DEF Receive
  <2>2. /\ Answer(m).srcIP = OwnIP /\ Answer(m).srcMAC = OwnMAC
        /\ Answer(m).dstIP = m.srcIP /\ Answer(m).dstMAC = m.srcMAC
    BY <1>3, SMT DEF Answer, Message
  <2> HIDE DEF entry
  <2>3. SUFFICES ASSUME NEW a \in toPeers', a.command = "response"
                 PROVE  /\ a.srcIP = OwnIP /\ a.srcMAC = OwnMAC
                        /\ \E command \in {"request", "response"} : <<command, a.dstIP, a.dstMAC>> \in told
    BY <1>1, Zenon DEF AnswersGoToAskers
  <2>4. CASE a \in toPeers
    BY <2>3, <2>4, Zenon DEF IInv, AnswersGoToAskers
  <2>5. CASE a = Answer(m) /\ m.dstIP = OwnIP /\ m.command = "request"
    BY <1>3, <2>2, <2>5
  <2> QED
    BY <2>1, <2>3, <2>4, <2>5
<1> QED
  BY <1>2, <1>5, <1>6, <1>7 DEF IInv

(* A message from another machine, recorded if it is to our address.       *)
LEMMA TellsKeeps ==
  ASSUME IInv, NEW command \in {"request", "response"}, NEW p, NEW mac, NEW ip, NEW dst,
         Tells(command, p, mac, ip, dst),
         UNCHANGED <<cache, resolve>>, toPeers' \subseteq toPeers
  PROVE  IInv'
<1>1. told' = told \cup {<<command, p, mac>>} \/ told' = told
  BY Zenon DEF Tells
<1>2. told \subseteq told' /\ \A t \in told' : t = <<t[1], t[2], t[3]>> /\ t[1] \in {"request", "response"}
  BY <1>1, SMT DEF IInv, CacheTold
<1>3. CacheTold'
  BY <1>2, ToldGrows DEF IInv
<1>4. CallsWellFormed' /\ FirstAnswerIsKept' /\ AnswersGoToAskers'
  BY <1>2, OthersGrow
<1>5. MessagesTold'
  <2> SUFFICES ASSUME NEW m \in toUs'
               PROVE  /\ m = Message(m.command, m.srcIP, m.srcMAC, m.dstIP, m.dstMAC)
                      /\ m.dstIP = OwnIP => <<m.command, m.srcIP, m.srcMAC>> \in told'
    BY Zenon DEF MessagesTold
  <2>1. CASE m \in toUs
    BY <1>2, <2>1, Zenon DEF IInv, MessagesTold
  <2>2. CASE m = Message(command, p, mac, ip, dst)
    <3>1. /\ m = Message(m.command, m.srcIP, m.srcMAC, m.dstIP, m.dstMAC)
          /\ m.command = command /\ m.srcIP = p /\ m.srcMAC = mac /\ m.dstIP = ip
      BY <2>2, SMT DEF Message
    <3>2. ip = OwnIP => <<command, p, mac>> \in told'
      BY Zenon DEF Tells
    <3> QED
      BY <3>1, <3>2, Zenon
  <2> QED
    BY <2>1, <2>2, Zenon DEF Tells
<1> QED
  BY <1>3, <1>4, <1>5 DEF IInv

(* Everything else only takes messages away.                               *)
LEMMA TakingKeeps ==
  ASSUME IInv, UNCHANGED <<cache, resolve, told>>,
         toUs' \subseteq toUs, toPeers' \subseteq toPeers
  PROVE  IInv'
BY ToldStays, OthersGrow DEF IInv

-----------------------------------------------------------------------------
(* The invariant holds of every machine on every wire.                     *)
THEOREM Invariance == Spec => []IInv
<1>1. IInv /\ [Next]_vars => IInv'
  <2> SUFFICES ASSUME IInv, [Next]_vars
               PROVE  IInv'
    OBVIOUS
  <2>1. ASSUME NEW c \in Contexts, NEW ip \in Peers, Call(c, ip)
        PROVE  IInv'
    BY <2>1, CallKeeps
  <2>2. ASSUME NEW c \in Contexts, Look(c) \/ Finish(c)
        PROVE  IInv'
    BY <2>2, LookKeeps, FinishKeeps
  <2>3. ASSUME NEW m \in toUs, Receive(m)
        PROVE  IInv'
    BY <2>3, ReceiveKeeps
  <2>4. ASSUME NEW p \in Peers, PeerAnswers(p)
        PROVE  IInv'
    <3>1. PICK m \in toPeers :
            /\ toPeers' = toPeers \ {m}
            /\ Tells("response", p, macOf[p], m.srcIP, m.srcMAC)
            /\ UNCHANGED <<cache, resolve>>
      BY <2>4, Zenon DEF PeerAnswers
    <3>2. toPeers' \subseteq toPeers
      BY <3>1, Zenon
    <3> QED
      BY <3>1, <3>2, TellsKeeps, Zenon
  <2>5. ASSUME NEW p \in Peers, NEW mac \in MACs, PeerAnnounces(p, mac)
        PROVE  IInv'
    BY <2>5, TellsKeeps, Zenon DEF PeerAnnounces
  <2>6. ASSUME NEW p \in Peers, NEW mac \in MACs, NEW ip \in Peers \cup {OwnIP},
               PeerAsks(p, mac, ip)
        PROVE  IInv'
    BY <2>6, TellsKeeps, Zenon DEF PeerAsks
  <2>7. ASSUME NEW p \in Peers, NEW mac \in MACs, PeerMoves(p, mac)
        PROVE  IInv'
    BY <2>7, TakingKeeps, Zenon DEF PeerMoves, wire
  <2>8. ASSUME NEW m \in toPeers, PeerTakes(m)
        PROVE  IInv'
    BY <2>8, TakingKeeps, Zenon DEF PeerTakes, environment
  <2>9. CASE Lose
    BY <2>9, TakingKeeps, Zenon DEF Lose, environment
  <2>10. CASE UNCHANGED vars
    BY <2>10, TakingKeeps, Zenon DEF vars, wire, environment
  <2> QED
    BY <2>1, <2>2, <2>3, <2>4, <2>5, <2>6, <2>7, <2>8, <2>9, <2>10, Zenon DEF Next
<1> QED
  BY InitIInv, <1>1, PTL DEF Spec

(* What Resolve returns to its caller was told, for the address it asked   *)
(* for, in an answer to us, and later answers leave it as it is, however   *)
(* the loop in it and the interrupts that fill the cache alternate and     *)
(* whoever answers.                                                        *)
THEOREM FirstAnswersAreKept == Spec => []FirstAnswerIsKept
<1>1. IInv => FirstAnswerIsKept
  BY DEF IInv
<1> QED
  BY Invariance, <1>1, PTL

(* Answers, to requests and to kernelMain's broadcast, go to a pair of     *)
(* addresses that a message to us gave.                                    *)
THEOREM AnswersReachAskers == Spec => []AnswersGoToAskers
<1>1. IInv => AnswersGoToAskers
  BY DEF IInv
<1> QED
  BY Invariance, <1>1, PTL

=============================================================================
