------------------------------- MODULE Ingress -------------------------------
(***************************************************************************)
(* kernel/mirror.bpf.c and the reading side of mirror-agent/loader.go: the *)
(* TC hook runs on several CPUs at a time and copies TCP payload into the  *)
(* shared ring buffer; one goroutine, ReadEvents, takes the records out.   *)
(*                                                                         *)
(* A record is reserved, filled in place and submitted.  Its memory keeps  *)
(* what earlier records left in it, and the reader sees the records in the *)
(* order of reservation, waiting for the oldest one to be submitted.       *)
(***************************************************************************)
EXTENDS Integers, Sequences, FiniteSets

CONSTANTS
  Packet,       \* packets that reach the interface
  Cpu,          \* CPUs that run the hook
  TargetPort,   \* the port of the -port flag
  Slots,        \* records the ring buffer holds (8 MB)
  MaxPayload    \* MAX_PAYLOAD_SIZE (1500)

\* tcp4: long enough, IPv4 and TCP.  len: skb->len - hdr_offset.
ASSUME PacketAssumption ==
  /\ IsFiniteSet(Packet)
  /\ Packet \subseteq [id : Nat, tcp4 : BOOLEAN, port : Nat, len : Int]

ASSUME CpuAssumption == IsFiniteSet(Cpu)

ASSUME SizeAssumption ==
  Slots \in Nat \ {0} /\ MaxPayload \in Nat \ {0} /\ TargetPort \in Nat

VARIABLES
  lpc,        \* loader: next step of NewLoader, main or Close
  target,     \* map cfg_target_port
  matched,    \* map counters[0]
  drops,      \* map counters[1]
  arrived,    \* packets the hook has seen
  hook,       \* hook[c]: mirror_ingress on CPU c, its packet and its record
  prod,       \* ring buffer: records reserved so far
  cons,       \* ring buffer: records the reader has taken
  ring,       \* ring[s]: the record in slot s
  events,     \* events ReadEvents has passed to Feed
  shown,      \* the counters logged by PrintStats
  reserved    \* history: the packet of each record, in order of reservation

vars == <<lpc, target, matched, drops, arrived, hook, prod, cons, ring, events,
          shown, reserved>>

Slot(i) == i % Slots

AnyPacket == CHOOSE p \in Packet : TRUE

Idle == [pc |-> "idle", pkt |-> AnyPacket, pos |-> 0]

\* ready: submitted.  pkt: the packet its header fields are from.
Blank == [ready |-> FALSE, pkt |-> AnyPacket, len |-> 0,
          mem |-> [i \in 1 .. MaxPayload |-> <<0, 0>>]]

Init ==
  /\ lpc = "port"
  /\ target = 0 /\ matched = 0 /\ drops = 0
  /\ arrived = {}
  /\ hook = [c \in Cpu |-> Idle]
  /\ prod = 0 /\ cons = 0
  /\ ring = [s \in 0 .. Slots - 1 |-> Blank]
  /\ events = <<>> /\ reserved = <<>>
  /\ shown = [matched |-> 0, drops |-> 0]

(***************************************************************************)
(* The loader: the order of the calls that the hook and the reader notice  *)
(***************************************************************************)

Load(from, to) == lpc = from /\ lpc' = to

PutPort ==
  /\ Load("port", "attach")
  /\ target' = TargetPort
  /\ UNCHANGED <<matched, drops, arrived, hook, prod, cons, ring, events, shown, reserved>>

\* FilterAdd, after which main starts ReadEvents.
Attach ==
  /\ Load("attach", "run")
  /\ UNCHANGED <<target, matched, drops, arrived, hook, prod, cons, ring, events,
                 shown, reserved>>

\* The calls of Close that end both, reader.Close before FilterDel.
Close ==
  /\ Load("closeReader", "filterDel") \/ Load("filterDel", "off")
  /\ UNCHANGED <<target, matched, drops, arrived, hook, prod, cons, ring, events,
                 shown, reserved>>

\* The two lookups with which Close starts.  Nothing else calls PrintStats.
PrintStats ==
  /\ \/ Load("run", "stats") /\ shown' = [shown EXCEPT !.matched = matched]
     \/ Load("stats", "closeReader") /\ shown' = [shown EXCEPT !.drops = drops]
  /\ UNCHANGED <<target, matched, drops, arrived, hook, prod, cons, ring, events, reserved>>

Attached == lpc \in {"run", "stats", "closeReader", "filterDel"}

Reading == lpc \in {"run", "stats", "closeReader"}

(***************************************************************************)
(* mirror_ingress                                                          *)
(***************************************************************************)

Matches(p) == p.tcp4 /\ p.port = target

\* TC_ACT_OK before anything is counted.
Pass(c, p) ==
  /\ hook[c].pc = "idle" /\ Attached /\ p \notin arrived
  /\ ~Matches(p)
  /\ arrived' = arrived \cup {p}
  /\ UNCHANGED <<lpc, target, matched, drops, hook, prod, cons, ring, events, shown, reserved>>

\* Count the packet, then return if it has no payload.
Match(c, p) ==
  /\ hook[c].pc = "idle" /\ Attached /\ p \notin arrived
  /\ Matches(p)
  /\ arrived' = arrived \cup {p}
  /\ matched' = matched + 1
  /\ hook' = [hook EXCEPT ![c] =
                IF p.len <= 0 THEN Idle ELSE [Idle EXCEPT !.pc = "reserve", !.pkt = p]]
  /\ UNCHANGED <<lpc, target, drops, prod, cons, ring, events, shown, reserved>>

Room == prod - cons < Slots

\* bpf_ringbuf_reserve finds room.
Reserve(c) ==
  /\ hook[c].pc = "reserve" /\ Room
  /\ hook' = [hook EXCEPT ![c].pc = "fill", ![c].pos = prod]
  /\ ring' = [ring EXCEPT ![Slot(prod)].ready = FALSE]
  /\ prod' = prod + 1
  /\ reserved' = Append(reserved, hook[c].pkt)
  /\ UNCHANGED <<lpc, target, matched, drops, arrived, cons, events, shown>>

\* Mutant of DropFull: the drop is not counted.
DropFullSilent(c) ==
  /\ hook[c].pc = "reserve" /\ ~Room
  /\ hook' = [hook EXCEPT ![c] = Idle]
  /\ UNCHANGED <<lpc, target, matched, drops, arrived, prod, cons, ring, events,
                 shown, reserved>>

\* It finds none.
DropFull(c) ==
  /\ hook[c].pc = "reserve" /\ ~Room
  /\ drops' = drops + 1
  /\ hook' = [hook EXCEPT ![c] = Idle]
  /\ UNCHANGED <<lpc, target, matched, arrived, prod, cons, ring, events, shown, reserved>>

Captured(p) == IF p.len > MaxPayload THEN MaxPayload ELSE p.len

\* Mutant of PayloadLen: not set to 0 when the payload could not be copied.
PayloadLenKept(p, loaded) == Captured(p)

PayloadLen(p, loaded) == IF loaded THEN Captured(p) ELSE 0

\* Write the header fields and the payload; bpf_skb_load_bytes may fail.
Fill(c, loaded) ==
  LET p == hook[c].pkt
      old == ring[Slot(hook[c].pos)]
      copied == [i \in 1 .. MaxPayload |->
                   IF loaded /\ i <= Captured(p) THEN <<p.id, i>> ELSE old.mem[i]]
  IN  /\ hook[c].pc = "fill"
      /\ ring' = [ring EXCEPT ![Slot(hook[c].pos)] =
                    [old EXCEPT !.pkt = p, !.len = PayloadLen(p, loaded), !.mem = copied]]
      /\ hook' = [hook EXCEPT ![c].pc = "submit"]
      /\ UNCHANGED <<lpc, target, matched, drops, arrived, prod, cons, events, shown, reserved>>

Submit(c) ==
  /\ hook[c].pc = "submit"
  /\ ring' = [ring EXCEPT ![Slot(hook[c].pos)].ready = TRUE]
  /\ hook' = [hook EXCEPT ![c] = Idle]
  /\ UNCHANGED <<lpc, target, matched, drops, arrived, prod, cons, events, shown, reserved>>

HookStep(c) ==
  Reserve(c) \/ DropFull(c) \/ (\E loaded \in BOOLEAN : Fill(c, loaded)) \/ Submit(c)

(***************************************************************************)
(* ReadEvents                                                              *)
(***************************************************************************)

\* Mutant of Decode: the whole array is handed on, whatever payload_len says.
DecodeWhole(r) == [pkt |-> r.pkt, data |-> r.mem]

\* The payload handed on is no longer than the array.
Decode(r) ==
  [pkt  |-> r.pkt,
   data |-> SubSeq(r.mem, 1, IF r.len > MaxPayload THEN MaxPayload ELSE r.len)]

\* Mutant of ReadEvent: an event without payload ends the loop.
ReadEventReturns ==
  /\ Reading /\ \A i \in 1 .. Len(events) : events[i].data # <<>>
  /\ cons < prod /\ ring[Slot(cons)].ready
  /\ events' = Append(events, Decode(ring[Slot(cons)]))
  /\ cons' = cons + 1
  /\ UNCHANGED <<lpc, target, matched, drops, arrived, hook, prod, ring, shown, reserved>>

\* Read returns the oldest record once it is submitted, and frees its space.
ReadEvent ==
  /\ Reading
  /\ cons < prod /\ ring[Slot(cons)].ready
  /\ events' = Append(events, Decode(ring[Slot(cons)]))
  /\ cons' = cons + 1
  /\ UNCHANGED <<lpc, target, matched, drops, arrived, hook, prod, ring, shown, reserved>>

-----------------------------------------------------------------------------

Next ==
  \/ PutPort \/ Attach \/ PrintStats \/ Close
  \/ \E c \in Cpu, p \in Packet : Pass(c, p) \/ Match(c, p)
  \/ \E c \in Cpu : HookStep(c)
  \/ ReadEvent

\* A hook that has started runs to its end and the reader goroutine is
\* scheduled.  Packets need not come, and nobody need stop the agent.
Fairness == (\A c \in Cpu : WF_vars(HookStep(c))) /\ WF_vars(ReadEvent)

Spec == Init /\ [][Next]_vars

FairSpec == Spec /\ Fairness

-----------------------------------------------------------------------------
(***************************************************************************)
(* Properties                                                              *)
(***************************************************************************)

\* The counters of the hook, updated on several CPUs, account for every
\* packet: a matched packet had no payload, was dropped for lack of room, has
\* a record in the ring buffer or is about to ask for one.
HookBalance ==
  matched = drops + prod
            + Cardinality({p \in arrived : Matches(p) /\ p.len <= 0})
            + Cardinality({c \in Cpu : hook[c].pc = "reserve"})

\* ReadEvents never passes on a byte that another packet left in a record: the
\* payload of an event is the beginning of its own packet's, cut at MaxPayload,
\* or empty if the hook could not read it.
OwnBytes ==
  \A i \in 1 .. Len(events) :
    LET e == events[i]
    IN  \E n \in {0, Captured(e.pkt)} : e.data = [j \in 1 .. n |-> <<e.pkt.id, j>>]

Channel == INSTANCE LossyChannel
             WITH queue <- SubSeq(reserved, cons + 1, prod),
                  taken <- {reserved[i] : i \in 1 .. Len(reserved)}

\* The ring buffer with its slots, positions and concurrent writers implements
\* a FIFO channel that loses whole packets only before it accepts them.
ChannelSpec == Channel!Spec

\* A record that was reserved is read unless the agent closes the reader: the
\* reader waits for the oldest record while younger ones are ready, and no
\* record, not even an empty one, ends its loop.
EventuallyRead ==
  \A n \in 1 .. Cardinality({p \in Packet : p.tcp4 /\ p.port = TargetPort /\ p.len > 0}) :
    prod >= n ~> cons >= n \/ ~Reading

=============================================================================
