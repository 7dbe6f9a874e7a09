---------------------------- MODULE LossyChannel ----------------------------
(***************************************************************************)
(* What the capture path promises the TCP tracker: a first-in first-out    *)
(* channel that may refuse a packet, and that delivers of an accepted one  *)
(* the first MaxPayload bytes, or none, and never a byte of another.       *)
(***************************************************************************)
EXTENDS Integers, Sequences

CONSTANTS Packet, MaxPayload

VARIABLES
  queue,    \* packets accepted and not delivered
  taken,    \* packets accepted so far
  events    \* what was delivered, oldest first

vars == <<queue, taken, events>>

\* The bytes of a packet, told apart by their owner and position.
Bytes(p, n) == [i \in 1 .. n |-> <<p.id, i>>]

Captured(p) == IF p.len > MaxPayload THEN MaxPayload ELSE p.len

Init == queue = <<>> /\ taken = {} /\ events = <<>>

Accept(p) ==
  /\ p \notin taken
  /\ queue' = Append(queue, p)
  /\ taken' = taken \cup {p}
  /\ events' = events

Deliver(n) ==
  /\ queue # <<>>
  /\ n \in {0, Captured(Head(queue))}
  /\ queue' = Tail(queue)
  /\ events' = Append(events, [pkt |-> Head(queue), data |-> Bytes(Head(queue), n)])
  /\ taken' = taken

Next == (\E p \in Packet : Accept(p)) \/ (\E n \in 0 .. MaxPayload : Deliver(n))

Spec == Init /\ [][Next]_vars

=============================================================================
