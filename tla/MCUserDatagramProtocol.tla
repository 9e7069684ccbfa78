----------------------- MODULE MCUserDatagramProtocol -----------------------
(***************************************************************************)
(* A remote in our network, another one behind the gateway.                *)
(* Texts up to the length at which a sum is folded twice.                  *)
(***************************************************************************)
EXTENDS UserDatagramProtocol

CONSTANTS near, far, gateway, ether1, ether2

MACs(ip) == IF ip = near THEN ether1 ELSE ether2

SomeTexts ==
  UNION {[1..n -> {0, 1, 127, 128, 255}] : n \in 0..3}
    \cup [1..4 -> {1, 128, 255}] \cup [1..5 -> {1, 127, 255}] \cup [1..6 -> {0, 1, 255}]

=============================================================================
