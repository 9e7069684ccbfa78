--------------------- MODULE AddressResolutionProtocol ---------------------
(***************************************************************************)
(* The address cache and its protocol (src/src/net/arp.cpp).               *)
(*                                                                         *)
(* Resolve waits for an entry of the cache in a loop, in kernelMain or, if *)
(* a protocol sends from its receive handler, inside the interrupt         *)
(* handler.  Only the interrupt handler fills the cache, one frame after   *)
(* the other and with interrupts off, and kernelMain stands still while it *)
(* runs.  The peers and the wire between are the environment: any machine  *)
(* may say of any address that it is any peer's, and nobody checks ("vul-  *)
(* nerable to ARP spoofing", arp.cpp:49).                                  *)
(***************************************************************************)
EXTENDS Naturals, Sequences, FiniteSets, SequencesExt

CONSTANTS
  Peers,          \* the IP addresses of the other machines
  OwnIP, OwnMAC,
  MACs,           \* the hardware addresses the peers may have
  Broadcast,      \* 0xFFFFFFFFFFFF
  MaxEntries,     \* entries of the cache (128)
  Announcements,  \* bound on the answers nobody asked for, on messages with an
                  \* address that is not the peer's, and on replaced peers
  MaxWire         \* bound on the messages to us that are under way at once

VARIABLES
  cache,          \* IPcache and MACcache up to numCacheEntries
  resolve,        \* the call of Resolve in each context
  toPeers, toUs,  \* the messages on the wire
  macOf,          \* the hardware address each peer has now
  told,           \* what messages to our address said: whether they ask or
                  \* answer, and of which peer which address (history)
  announcements,
  trouble         \* a frame was lost, an answer found the cache full, or a
                  \* receive handler called Resolve (history)

ASSUME ARPAssumption ==
  /\ Broadcast \notin MACs /\ OwnIP \notin Peers
  /\ {MaxEntries, Announcements, MaxWire} \subseteq Nat

wire == <<toPeers, toUs>>
environment == <<macOf, told, announcements>>
vars == <<cache, resolve, wire, environment, trouble>>

Contexts == {"main", "irq"}

Message(command, srcIP, srcMAC, dstIP, dstMAC) ==
  [command |-> command, srcIP |-> srcIP, srcMAC |-> srcMAC, dstIP |-> dstIP, dstMAC |-> dstMAC]

Messages == [command : {"request", "response"}, srcIP : Peers, srcMAC : MACs,
             dstIP : Peers \cup {OwnIP}, dstMAC : {OwnMAC, Broadcast}]

(* The peers have different hardware addresses; which ones is all the same. *)
FirstMACs == CHOOSE f \in [Peers -> MACs] : \A p, q \in Peers : p # q => f[p] # f[q]

Init ==
  /\ cache = <<>>
  /\ resolve = [c \in Contexts |-> [at |-> "idle", ip |-> OwnIP, result |-> Broadcast]]
  /\ toPeers = {} /\ toUs = {}
  /\ macOf = FirstMACs
  /\ told = {} /\ announcements = 0
  /\ trouble = FALSE

-----------------------------------------------------------------------------
GetMACFromCacheAny(ip) == IF cache = <<>> THEN Broadcast ELSE cache[1].mac

(* GetMACFromCache: the first entry for the address, or the broadcast      *)
(* address.                                                                *)
MACIn(entries, ip) ==
  LET i == SelectInSeq(entries, LAMBDA entry : entry.ip = ip)
  IN  IF i = 0 THEN Broadcast ELSE entries[i].mac

GetMACFromCache(ip) == MACIn(cache, ip)

(* The context is not interrupted. *)
Runs(c) == c = "main" => resolve["irq"].at = "idle"

RequestToSelf(ip) == Message("request", OwnIP, OwnMAC, OwnIP, Broadcast)

Request(ip) == Message("request", OwnIP, OwnMAC, ip, Broadcast)

(* Resolve asks once if the cache does not know the address.  The handler  *)
(* calls it when a datagram has arrived that its protocol answers.         *)
Call(c, ip) ==
  LET mac == GetMACFromCache(ip) IN
  /\ Runs(c) /\ resolve[c].at = "idle"
  /\ resolve' = [resolve EXCEPT ![c] = [at |-> "wait", ip |-> ip, result |-> mac]]
  /\ toPeers' = IF mac = Broadcast
                  THEN toPeers \cup {Request(ip)}
                  ELSE toPeers
  /\ trouble' = (trouble \/ c = "irq")
  /\ UNCHANGED <<cache, toUs, environment>>

(* The loop looks again until it finds the address. *)
Look(c) ==
  /\ Runs(c) /\ resolve[c].at = "wait" /\ resolve[c].result = Broadcast
  /\ GetMACFromCache(resolve[c].ip) # Broadcast
  /\ resolve' = [resolve EXCEPT ![c].result = GetMACFromCache(resolve[c].ip)]
  /\ UNCHANGED <<cache, wire, environment, trouble>>

(* The caller goes on: BroadcastMACAddress sends its answer to the address *)
(* it got, InternetProtocolProvider::Send its datagram.                    *)
Finish(c) ==
  /\ Runs(c) /\ resolve[c].at = "wait" /\ resolve[c].result # Broadcast
  /\ resolve' = [resolve EXCEPT ![c].at = "idle"]
  /\ toPeers' = IF c = "main"
                  THEN toPeers \cup {Message("response", OwnIP, OwnMAC,
                                             resolve[c].ip, resolve[c].result)}
                  ELSE toPeers
  /\ UNCHANGED <<cache, toUs, environment, trouble>>

-----------------------------------------------------------------------------
(* OnEtherFrameReceived *)

(* The assignments turn the message round in place, in this order. *)
AnswerTooLate(m) ==
  LET m1 == [m EXCEPT !.command = "response", !.srcIP = OwnIP, !.srcMAC = OwnMAC]
  IN  [m1 EXCEPT !.dstIP = m1.srcIP, !.dstMAC = m1.srcMAC]

Answer(m) ==
  LET m1 == [m EXCEPT !.command = "response", !.dstIP = m.srcIP, !.dstMAC = m.srcMAC]
  IN  [m1 EXCEPT !.srcIP = OwnIP, !.srcMAC = OwnMAC]

InsertInFront(entry) == IF Len(cache) < MaxEntries THEN <<entry>> \o cache ELSE cache

Insert(entry) == IF Len(cache) < MaxEntries THEN Append(cache, entry) ELSE cache

Receive(m) ==
  /\ m \in toUs /\ resolve["irq"].at = "idle"
  /\ toUs' = toUs \ {m}
  /\ \/ m.dstIP # OwnIP /\ UNCHANGED <<cache, toPeers>>
     \/ /\ m.dstIP = OwnIP /\ m.command = "request"
        /\ toPeers' = toPeers \cup {Answer(m)}
        /\ UNCHANGED cache
     \/ /\ m.dstIP = OwnIP /\ m.command = "response"
        /\ cache' = Insert([ip |-> m.srcIP, mac |-> m.srcMAC])
        /\ UNCHANGED toPeers
  /\ trouble' = (trouble \/ (m.command = "response" /\ m.dstIP = OwnIP /\ cache' = cache))
  /\ UNCHANGED <<resolve, environment>>

-----------------------------------------------------------------------------
(* The peers (external) *)

(* A message to us, or to all, that names p and mac as its sender.         *)
Tells(command, p, mac, dstIP, dstMAC) ==
  /\ toUs' = toUs \cup {Message(command, p, mac, dstIP, dstMAC)}
  /\ told' = IF dstIP = OwnIP THEN told \cup {<<command, p, mac>>} ELSE told

PeerAnswers(p) ==
  \E m \in toPeers :
    /\ m.dstIP = p /\ m.command = "request"
    /\ toPeers' = toPeers \ {m}
    /\ Tells("response", p, macOf[p], m.srcIP, m.srcMAC)
    /\ UNCHANGED <<cache, resolve, macOf, announcements, trouble>>

(* A request in the name of p, for our address or for another machine's.   *)
(* The hardware address it gives need not be p's.                          *)
PeerAsks(p, mac, ip) ==
  /\ ip # p /\ Cardinality(toUs) < MaxWire
  /\ \/ mac = macOf[p] /\ UNCHANGED announcements
     \/ mac # macOf[p] /\ announcements < Announcements /\ announcements' = announcements + 1
  /\ Tells("request", p, mac, ip, Broadcast)
  /\ UNCHANGED <<cache, resolve, toPeers, macOf, trouble>>

(* An answer in the name of p that nobody asked for, or that comes before  *)
(* or behind p's own, from p or from any other machine.                    *)
PeerAnnounces(p, mac) ==
  /\ announcements < Announcements /\ Cardinality(toUs) < MaxWire
  /\ announcements' = announcements + 1
  /\ Tells("response", p, mac, OwnIP, OwnMAC)
  /\ UNCHANGED <<cache, resolve, toPeers, macOf, trouble>>

(* A peer takes a frame that is addressed to it; nobody takes one with an  *)
(* address that is out of date.                                            *)
PeerTakes(m) ==
  /\ m \in toPeers /\ m.command = "response"
  /\ toPeers' = toPeers \ {m}
  /\ UNCHANGED <<cache, resolve, toUs, environment, trouble>>

(* The machine with the address p is replaced; the new one may announce    *)
(* itself.                                                                 *)
PeerMoves(p, mac) ==
  /\ announcements < Announcements
  /\ announcements' = announcements + 1
  /\ \A q \in Peers : macOf[q] # mac
  /\ macOf' = [macOf EXCEPT ![p] = mac]
  /\ UNCHANGED <<cache, resolve, wire, told, trouble>>

Lose ==
  /\ trouble' = TRUE
  /\ \/ \E m \in toUs : toUs' = toUs \ {m} /\ UNCHANGED toPeers
     \/ \E m \in toPeers : toPeers' = toPeers \ {m} /\ UNCHANGED toUs
  /\ UNCHANGED <<cache, resolve, environment>>

-----------------------------------------------------------------------------
Next ==
  \/ \E c \in Contexts, ip \in Peers : Call(c, ip)
  \/ \E c \in Contexts : Look(c) \/ Finish(c)
  \/ \E m \in toUs : Receive(m)
  \/ \E p \in Peers : PeerAnswers(p)
  \/ \E p \in Peers, mac \in MACs :
       \/ \E ip \in Peers \cup {OwnIP} : PeerAsks(p, mac, ip)
       \/ PeerAnnounces(p, mac)
       \/ PeerMoves(p, mac)
  \/ \E m \in toPeers : PeerTakes(m)
  \/ Lose

(* The loop of Resolve runs, every frame that arrives is handled, and the  *)
(* peers answer: the machine is connected.                                 *)
Fairness ==
  /\ \A c \in Contexts : WF_vars(Look(c)) /\ WF_vars(Finish(c))
  /\ \A m \in Messages : WF_vars(Receive(m))
  /\ \A p \in Peers : WF_vars(PeerAnswers(p))

Spec == Init /\ [][Next]_vars /\ Fairness

-----------------------------------------------------------------------------
(* Properties *)

TypeOK ==
  /\ cache \in Seq([ip : Peers, mac : MACs]) /\ Len(cache) <= MaxEntries
  /\ resolve \in [Contexts -> [at : {"idle", "wait"}, ip : Peers \cup {OwnIP},
                               result : MACs \cup {Broadcast}]]
  /\ toUs \subseteq Messages
  /\ macOf \in [Peers -> MACs] /\ told \subseteq {"request", "response"} \X Peers \X MACs

(* What Resolve returns was told in an answer to our own address, and of   *)
(* the address that was asked for; and no answer that comes later, from    *)
(* the peer itself, its successor or anybody else, changes it for the next *)
(* call, in whichever context.  Whether it is true nobody checks: the      *)
(* first answer is kept, whoever gave it (arp.cpp:49).                     *)
FirstAnswerIsKept ==
  \A c \in Contexts :
    resolve[c].result # Broadcast =>
      /\ <<"response", resolve[c].ip, resolve[c].result>> \in told
      /\ GetMACFromCache(resolve[c].ip) = resolve[c].result

(* An answer of ours says our addresses, and goes to a pair of addresses   *)
(* that a message to our own address gave: to nobody who asked for another *)
(* machine, and never to a mixture of two peers.                           *)
AnswersGoToAskers ==
  \A m \in toPeers : m.command = "response" =>
    /\ m.srcIP = OwnIP /\ m.srcMAC = OwnMAC
    /\ \E command \in {"request", "response"} : <<command, m.dstIP, m.dstMAC>> \in told

(* On a wire that loses nothing, with room in the cache and nobody sending *)
(* from a handler, Resolve returns.                                        *)
ResolveReturns ==
  \A c \in Contexts : resolve[c].at = "wait" ~> (resolve[c].at = "idle" \/ trouble)

=============================================================================
