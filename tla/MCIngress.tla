------------------------------ MODULE MCIngress ------------------------------
(***************************************************************************)
(* Packets for model checking Ingress, with room for two payload bytes.    *)
(***************************************************************************)
EXTENDS Ingress

P(id, tcp4, port, len) == [id |-> id, tcp4 |-> tcp4, port |-> port, len |-> len]

\* Payloads below, at and above the limit, and a bare ACK.
Matching == {P(1, TRUE, 9090, 2), P(2, TRUE, 9090, 1), P(3, TRUE, 9090, 3), P(4, TRUE, 9090, 0)}

\* The same with a packet for another port and one of another protocol.
Mixed == Matching \cup {P(5, TRUE, 8443, 1), P(6, FALSE, 9090, 1)}

=============================================================================
