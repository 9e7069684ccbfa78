------------------- MODULE MCTransmissionControlProtocol -------------------
(***************************************************************************)
(* What the remotes send.  Sequence numbers are counted modulo a number so *)
(* small that they wrap round within a connection.                         *)
(***************************************************************************)
EXTENDS TransmissionControlProtocol

CONSTANTS c1, c2, s1

Text(end) == [end |-> end, kept |-> 2, request |-> FALSE, push |-> TRUE]
Get(end) == [end |-> end, kept |-> 3, request |-> TRUE, push |-> TRUE]
Padded(end) == [Text(end) EXCEPT !.kept = 1]
Unpushed(end) == [Text(end) EXCEPT !.push = FALSE]

(* A client that sends text and closes, a browser, and a server that       *)
(* speaks first.                                                           *)
Ordinary == [r \in Remotes |-> IF r = c2 THEN <<Text(2), Get(5)>>
                               ELSE IF r = c1 THEN <<Text(2)>> ELSE <<Text(2), Text(4)>>]

(* For the wire that reorders: a client that asks twice, one whose text    *)
(* ends in zeros, and a server that pushes only the end of what it says.   *)
Mixed == [r \in Remotes |-> IF r = c2 THEN <<Get(3), Get(6)>>
                            ELSE IF r = c1 THEN <<Padded(2)>> ELSE <<Unpushed(2), Text(4)>>]

(* Segments are lost, repeated and reordered while kernelMain calls; and a *)
(* wire that keeps order, with listening and connecting at once.           *)
Lossy == [stream |-> Mixed, mainCalls |-> {"send", "disconnect"}, together |-> FALSE,
          bindApart |-> TRUE, reliable |-> FALSE]

Ordered == [stream |-> Ordinary, mainCalls |-> {}, together |-> TRUE,
            bindApart |-> FALSE, reliable |-> TRUE]

BothScenarios == {Lossy, Ordered}

(* They are such settings as the proofs about the delivered data are for. *)
ASSUME MCAssumption ==
  /\ \A s \in BothScenarios : NoBlanks(s) /\ NotMisled(s)
  /\ NothingPadded(Ordered) /\ AllTaken(Ordered)

=============================================================================
