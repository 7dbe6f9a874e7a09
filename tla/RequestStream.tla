---------------------------- MODULE RequestStream ----------------------------
(***************************************************************************)
(* What the TCP tracker promises the mirror for a connection that keeps    *)
(* within the reassembly window: requests are handed on as they become     *)
(* complete, in order, once each, and all of them before more data of the  *)
(* connection is looked at.                                                *)
(***************************************************************************)
EXTENDS Integers, Sequences

CONSTANTS Conn, Request   \* Request[k]: the requests of connection k, in order

VARIABLES
  whole,   \* whole[k]: how many requests of k have arrived completely
  out      \* out[k]: the requests handed on

vars == <<whole, out>>

Init ==
  /\ whole = [k \in Conn |-> 0]
  /\ out = [k \in Conn |-> <<>>]

Owed(k) == SubSeq(Request[k], 1, whole[k])

Arrive(k) ==
  /\ out[k] = Owed(k)
  /\ \E n \in whole[k] + 1 .. Len(Request[k]) : whole' = [whole EXCEPT ![k] = n]
  /\ out' = out

Hand(k) ==
  /\ out' = [out EXCEPT ![k] = Owed(k)]
  /\ whole' = whole

Next == \E k \in Conn : Arrive(k) \/ Hand(k)

Spec == Init /\ [][Next]_vars

=============================================================================
