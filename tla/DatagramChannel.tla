--------------------------- MODULE DatagramChannel --------------------------
(***************************************************************************)
(* What a UDP-like transport promises one direction of a WireGuard peer:   *)
(* each datagram handed to it arrives at most once, as it was handed over, *)
(* or not at all, and in any order.                                        *)
(***************************************************************************)
EXTENDS Sequences

CONSTANT Datagram

VARIABLES
    sent,        \* datagrams handed to the transport
    delivered    \* datagrams that arrived, in their order

Init == sent = {} /\ delivered = <<>>

Send(d) == /\ d \notin sent
           /\ sent' = sent \cup {d}
           /\ UNCHANGED delivered

Deliver(d) == /\ \A i \in DOMAIN delivered : delivered[i] # d
              /\ delivered' = Append(delivered, d)
              /\ UNCHANGED sent

Next == \/ \E d \in Datagram : Send(d)
        \/ \E d \in sent : Deliver(d)

Spec == Init /\ [][Next]_<<sent, delivered>>
=============================================================================
