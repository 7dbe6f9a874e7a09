--------------------------- MODULE Ingress_proofs ---------------------------
(***************************************************************************)
(* Theorems about Ingress, for any number of packets, CPUs and slots.      *)
(***************************************************************************)
EXTENDS Ingress, FiniteSetTheorems, SequenceTheorems, TLAPS

Pkts == Packet \cup {AnyPacket}

Byte == Nat \X Nat

HookState == [pc : {"idle", "reserve", "fill", "submit"}, pkt : Pkts, pos : Nat]

Record == [ready : BOOLEAN, pkt : Pkts, len : Nat, mem : [1 .. MaxPayload -> Byte]]

Event == [pkt : Pkts, data : Seq(Byte)]

CountersOK ==
  /\ target \in Nat /\ matched \in Nat /\ drops \in Nat /\ prod \in Nat /\ cons \in Nat
  /\ arrived \subseteq Packet
  /\ lpc = "port" => arrived = {}

HooksOK == hook \in [Cpu -> HookState]

MemoryOK ==
  /\ ring \in [0 .. Slots - 1 -> Record]
  /\ events \in Seq(Event)
  /\ reserved \in Seq(Packet)

(***************************************************************************)
(* Slots                                                                   *)
(***************************************************************************)

\* A position of the ring buffer and its slot.
LEMMA SlotType ==
  ASSUME NEW i \in Nat
  PROVE  Slot(i) \in 0 .. Slots - 1 /\ i = Slots * (i \div Slots) + Slot(i)
BY SizeAssumption DEF Slot

\* A multiple of Slots that is smaller than Slots is not positive.
LEMMA NoMultipleBetween ==
  ASSUME NEW a \in Int, NEW b \in Int, Slots * a - Slots * b > 0
  PROVE  Slots * a - Slots * b >= Slots
<1> DEFINE d == a - b
<1>1. d \in Int /\ Slots \in Nat /\ Slots * a - Slots * b = Slots * d
  BY SizeAssumption
<1> HIDE DEF d
<1>2. CASE d <= 0
  BY <1>1, <1>2
<1>3. CASE d >= 1
  BY <1>1, <1>3
<1> QED
  BY <1>1, <1>2, <1>3

\* Two positions of the ring buffer that are in use at a time have different
\* slots.
LEMMA SlotsDiffer ==
  ASSUME NEW i \in Nat, NEW j \in Nat, i < j, j - i < Slots
  PROVE  Slot(i) # Slot(j)
<1> SUFFICES ASSUME Slot(i) = Slot(j)
             PROVE  FALSE
  OBVIOUS
<1> DEFINE a == j \div Slots
           b == i \div Slots
<1>1. /\ a \in Int /\ b \in Int
      /\ Slots \in Nat /\ Slots * a \in Int /\ Slots * b \in Int /\ Slot(i) \in Int
  BY SizeAssumption, SlotType
<1>2. i = Slots * b + Slot(i) /\ j = Slots * a + Slot(j)
  BY SlotType
<1> HIDE DEF a, b
<1>3. Slots * a - Slots * b = j - i
  BY <1>1, <1>2
<1>4. Slots * a - Slots * b > 0 /\ ~(Slots * a - Slots * b >= Slots)
  BY <1>1, <1>3
<1> QED
  BY <1>1, <1>4, NoMultipleBetween

(***************************************************************************)
(* Types                                                                   *)
(***************************************************************************)

\* The fields of a packet.
LEMMA PacketFields ==
  ASSUME NEW p \in Packet
  PROVE  p.id \in Nat /\ p.port \in Nat /\ p.len \in Int
BY PacketAssumption

\* A CPU that runs no hook has a well-typed state.
LEMMA IdleType == Idle \in HookState
BY DEF Idle, HookState, Pkts

\* So has a slot that was never written.
LEMMA BlankType == Blank \in Record
<1>1. \A b \in BOOLEAN : [ready |-> b, pkt |-> AnyPacket, len |-> 0,
                          mem |-> [i \in 1 .. MaxPayload |-> <<0, 0>>]] \in Record
  BY DEF Record, Pkts, Byte
<1>2. FALSE \in BOOLEAN
  BY Zenon
<1> QED
  BY <1>1, <1>2, Zenon DEF Blank

\* What the kernel's and the loader's counters may be, and that the hook sees
\* no packet before the port is set.
LEMMA CountersStep ==
  ASSUME CountersOK, [Next]_vars
  PROVE  CountersOK'
<1> USE DEF CountersOK
<1>1. CASE PutPort \/ Attach \/ PrintStats \/ Close
  BY <1>1, SizeAssumption DEF PutPort, Attach, PrintStats, Close, Load
<1>2. ASSUME NEW c \in Cpu, NEW p \in Packet, Pass(c, p) \/ Match(c, p)
      PROVE  CountersOK'
  BY <1>2 DEF Pass, Match, Attached
<1>3. ASSUME NEW c \in Cpu, HookStep(c)
      PROVE  CountersOK'
  <2>1. /\ UNCHANGED <<lpc, target, matched, arrived, cons>>
        /\ prod' \in {prod, prod + 1} /\ drops' \in {drops, drops + 1}
    <3>1. CASE Reserve(c) \/ DropFull(c) \/ Submit(c)
      BY <3>1 DEF Reserve, DropFull, Submit
    <3>2. ASSUME NEW loaded \in BOOLEAN, Fill(c, loaded)
          PROVE  UNCHANGED <<lpc, target, matched, arrived, cons, prod, drops>>
      BY <3>2 DEF Fill
    <3> QED
      BY <1>3, <3>1, <3>2 DEF HookStep
  <2> QED
    BY <2>1
<1>4. CASE ReadEvent
  BY <1>4 DEF ReadEvent
<1>5. CASE UNCHANGED vars
  BY <1>5 DEF vars
<1> QED
  BY <1>1, <1>2, <1>3, <1>4, <1>5 DEF Next

\* Every step of the hook keeps the type of its state.
LEMMA HooksStep ==
  ASSUME CountersOK, HooksOK, [Next]_vars
  PROVE  HooksOK'
<1> USE DEF HooksOK
<1>1. CASE PutPort \/ Attach \/ PrintStats \/ Close \/ ReadEvent \/ UNCHANGED vars
  BY <1>1 DEF PutPort, Attach, PrintStats, Close, ReadEvent, vars
<1>2. ASSUME NEW c \in Cpu, NEW p \in Packet, Pass(c, p) \/ Match(c, p)
      PROVE  HooksOK'
  <2>1. [Idle EXCEPT !.pc = "reserve", !.pkt = p] \in HookState
    BY IdleType DEF HookState, Pkts
  <2> QED
    BY <1>2, <2>1, IdleType DEF Pass, Match
<1>3. ASSUME NEW c \in Cpu, HookStep(c)
      PROVE  HooksOK'
  <2>1. CASE Reserve(c)
    BY <2>1 DEF Reserve, HookState, CountersOK
  <2>2. CASE DropFull(c) \/ Submit(c)
    BY <2>2, IdleType DEF DropFull, Submit
  <2>3. CASE \E loaded \in BOOLEAN : Fill(c, loaded)
    BY <2>3 DEF Fill, HookState
  <2> QED
    BY <1>3, <2>1, <2>2, <2>3 DEF HookStep
<1> QED
  BY <1>1, <1>2, <1>3 DEF Next

\* A record stays a record whatever is written into it.
LEMMA CapturedType ==
  ASSUME NEW p \in Packet, p.len > 0
  PROVE  Captured(p) \in 1 .. MaxPayload
BY SizeAssumption, PacketFields DEF Captured

\* Filling a record over whatever it held before gives a record.
LEMMA FillType ==
  ASSUME NEW r \in Record, NEW p \in Packet, p.len > 0, NEW loaded \in BOOLEAN
  PROVE  [r EXCEPT !.pkt = p, !.len = PayloadLen(p, loaded),
                   !.mem = [i \in 1 .. MaxPayload |->
                              IF loaded /\ i <= Captured(p) THEN <<p.id, i>> ELSE r.mem[i]]]
           \in Record
<1> DEFINE m == [i \in 1 .. MaxPayload |->
                   IF loaded /\ i <= Captured(p) THEN <<p.id, i>> ELSE r.mem[i]]
<1>1. m \in [1 .. MaxPayload -> Byte]
  <2>1. ASSUME NEW i \in 1 .. MaxPayload
        PROVE  <<p.id, i>> \in Byte /\ r.mem[i] \in Byte
    BY PacketFields, SizeAssumption DEF Record, Byte
  <2> QED
    BY <2>1, Zenon
<1>2. PayloadLen(p, loaded) \in Nat
  BY CapturedType, SizeAssumption DEF PayloadLen
<1> HIDE DEF m
<1>3. [r EXCEPT !.pkt = p, !.len = PayloadLen(p, loaded), !.mem = m] \in Record
  BY <1>1, <1>2 DEF Record, Pkts
<1> QED
  BY <1>3 DEF m

\* What ReadEvents makes of a record is an event.
LEMMA DecodeType ==
  ASSUME NEW r \in Record
  PROVE  Decode(r) \in Event
<1> DEFINE n == IF r.len > MaxPayload THEN MaxPayload ELSE r.len
<1>1. n \in 0 .. MaxPayload
  BY SizeAssumption DEF Record
<1>2. r.mem \in Seq(Byte) /\ Len(r.mem) = MaxPayload
  BY SizeAssumption DEF Record
<1> HIDE DEF n
<1>3. SubSeq(r.mem, 1, n) \in Seq(Byte)
  BY <1>1, <1>2, SizeAssumption, SubSeqProperties
<1>4. [pkt |-> r.pkt, data |-> SubSeq(r.mem, 1, n)] \in Event
  BY <1>3 DEF Event, Record
<1> QED
  BY <1>4 DEF Decode, n

(***************************************************************************)
(* The inductive invariant                                                 *)
(***************************************************************************)

Writing(c) == hook[c].pc \in {"fill", "submit"}

\* r holds the payload of p, or none.
Own(r, p) ==
  /\ r.pkt = p
  /\ r.len \in {0, Captured(p)}
  /\ \A j \in 1 .. r.len : r.mem[j] = <<p.id, j>>

\* A hook that has not returned works on a packet with payload.
HookInv == \A c \in Cpu : hook[c].pc # "idle" => hook[c].pkt \in arrived /\ hook[c].pkt.len > 0

\* The positions of the ring buffer and its history agree.
PosInv == Len(reserved) = prod /\ cons <= prod /\ prod - cons <= Slots

\* A hook that writes has a record of its own between the positions, which is
\* not ready, and has filled it before it submits it.
Holds(c) ==
  /\ hook[c].pos \in cons .. prod - 1
  /\ reserved[hook[c].pos + 1] = hook[c].pkt
  /\ ~ring[Slot(hook[c].pos)].ready
  /\ hook[c].pc = "submit" => Own(ring[Slot(hook[c].pos)], hook[c].pkt)

WriterInv ==
  /\ \A c \in Cpu : Writing(c) => Holds(c)
  /\ \A c, d \in Cpu : Writing(c) /\ Writing(d) /\ c # d => hook[c].pos # hook[d].pos

\* What is ready to be read is the packet's own.
ReadyInv ==
  \A i \in cons .. prod - 1 : ring[Slot(i)].ready => Own(ring[Slot(i)], reserved[i + 1])

\* No packet is reserved twice.
FreshInv ==
  /\ \A i \in 1 .. Len(reserved) : reserved[i] \in arrived /\ reserved[i].len > 0
  /\ \A c \in Cpu : hook[c].pc = "reserve" =>
       \A i \in 1 .. Len(reserved) : reserved[i] # hook[c].pkt
  /\ \A c, d \in Cpu : hook[c].pc = "reserve" /\ hook[d].pc = "reserve" /\ c # d =>
       hook[c].pkt # hook[d].pkt

Types == CountersOK /\ HooksOK /\ MemoryOK

RingInv == HookInv /\ PosInv /\ WriterInv /\ ReadyInv /\ FreshInv

\* Writers keep their records when no record moves.
LEMMA WritersKept ==
  ASSUME WriterInv, UNCHANGED <<prod, cons, ring, reserved>>,
         \A d \in Cpu : Writing(d)' => Writing(d) /\ hook'[d] = hook[d]
  PROVE  WriterInv'
<1>1. ASSUME NEW d \in Cpu, Writing(d)'
      PROVE  Holds(d)'
  <2>1. Holds(d) /\ hook'[d] = hook[d]
    BY <1>1 DEF WriterInv
  <2> QED
    BY <2>1 DEF Holds
<1>2. ASSUME NEW c \in Cpu, NEW d \in Cpu, Writing(c)', Writing(d)', c # d
      PROVE  hook'[c].pos # hook'[d].pos
  BY <1>2 DEF WriterInv
<1> QED
  BY <1>1, <1>2 DEF WriterInv

\* A packet reaches the hook, or passes it.
LEMMA MatchStep ==
  ASSUME Types, RingInv, NEW c \in Cpu, NEW p \in Packet, Pass(c, p) \/ Match(c, p)
  PROVE  MemoryOK' /\ RingInv'
<1>1. UNCHANGED <<prod, cons, ring, events, reserved>> /\ arrived' = arrived \cup {p}
  BY DEF Pass, Match
<1>2. MemoryOK' /\ PosInv' /\ ReadyInv'
  BY <1>1 DEF Types, MemoryOK, RingInv, PosInv, ReadyInv, Own
<1>3. CASE hook' = hook
  <2>1. WriterInv'
    BY <1>1, <1>3, WritersKept DEF RingInv, Writing
  <2>2. HookInv' /\ FreshInv'
    BY <1>1, <1>3 DEF RingInv, HookInv, FreshInv
  <2> QED
    BY <1>2, <2>1, <2>2 DEF RingInv
<1>4. ASSUME NEW h, hook' = [hook EXCEPT ![c] = h], p \notin arrived,
             h.pc = "idle" \/ (h.pc = "reserve" /\ h.pkt = p /\ p.len > 0)
      PROVE  RingInv'
  <2>1. hook'[c] = h /\ \A d \in Cpu \ {c} : hook'[d] = hook[d]
    BY <1>4 DEF Types, HooksOK
  <2>2. HookInv'
    BY <1>1, <1>4, <2>1 DEF RingInv, HookInv
  <2>3. WriterInv'
    <3>1. \A d \in Cpu : Writing(d)' => Writing(d) /\ hook'[d] = hook[d]
      BY <1>4, <2>1 DEF Writing
    <3> QED
      BY <1>1, <3>1, WritersKept DEF RingInv
  <2>4. FreshInv'
    BY <1>1, <1>4, <2>1 DEF RingInv, FreshInv, HookInv
  <2> QED
    BY <1>2, <2>2, <2>3, <2>4 DEF RingInv
<1>5. CASE Match(c, p) /\ p.len <= 0
  BY <1>2, <1>4, <1>5 DEF Match, Idle
<1>6. CASE Match(c, p) /\ ~(p.len <= 0)
  <2> DEFINE h == [Idle EXCEPT !.pc = "reserve", !.pkt = p]
  <2>1. h.pc = "reserve" /\ h.pkt = p /\ p.len > 0
    BY <1>6, PacketFields DEF Idle
  <2>2. hook' = [hook EXCEPT ![c] = h] /\ p \notin arrived
    BY <1>6 DEF Match
  <2> HIDE DEF h
  <2> QED
    BY <1>2, <1>4, <2>1, <2>2
<1> QED
  BY <1>2, <1>3, <1>5, <1>6 DEF Pass

\* A hook that finds no room leaves the ring buffer as it was.
LEMMA DropStep ==
  ASSUME Types, RingInv, NEW c \in Cpu, DropFull(c)
  PROVE  MemoryOK' /\ RingInv'
<1>1. UNCHANGED <<prod, cons, ring, events, reserved, arrived>>
  BY DEF DropFull
<1>2. hook'[c].pc = "idle" /\ \A d \in Cpu \ {c} : hook'[d] = hook[d]
  BY DEF DropFull, Idle, Types, HooksOK
<1>3. MemoryOK' /\ PosInv' /\ ReadyInv'
  BY <1>1 DEF Types, MemoryOK, RingInv, PosInv, ReadyInv, Own
<1>4. HookInv' /\ FreshInv'
  BY <1>1, <1>2 DEF RingInv, HookInv, FreshInv
<1>5. WriterInv'
  <2>1. \A d \in Cpu : Writing(d)' => Writing(d) /\ hook'[d] = hook[d]
    BY <1>2 DEF Writing
  <2> QED
    BY <1>1, <2>1, WritersKept DEF RingInv
<1> QED
  BY <1>3, <1>4, <1>5 DEF RingInv

\* A record is reserved: its slot is none that is in use.
LEMMA ReserveStep ==
  ASSUME Types, RingInv, NEW c \in Cpu, Reserve(c)
  PROVE  MemoryOK' /\ RingInv'
<1> DEFINE p == hook[c].pkt
<1>1. /\ UNCHANGED <<cons, events, arrived>>
      /\ prod' = prod + 1 /\ reserved' = Append(reserved, p)
      /\ hook[c].pc = "reserve" /\ prod - cons < Slots
  BY DEF Reserve, Room
<1>2. p \in arrived /\ p.len > 0 /\ p \in Packet
  BY <1>1 DEF RingInv, HookInv, Types, CountersOK
<1>3. /\ hook'[c].pc = "fill" /\ hook'[c].pkt = p /\ hook'[c].pos = prod
      /\ \A d \in Cpu \ {c} : hook'[d] = hook[d]
  BY DEF Reserve, Types, HooksOK, HookState
<1>4. /\ Len(reserved') = prod + 1 /\ reserved'[prod + 1] = p
      /\ \A i \in 1 .. prod : reserved'[i] = reserved[i]
      /\ reserved' \in Seq(Packet)
  BY <1>1, <1>2 DEF Types, MemoryOK, RingInv, PosInv
<1>5. ~ring'[Slot(prod)].ready /\ \A i \in cons .. prod - 1 : ring'[Slot(i)] = ring[Slot(i)]
  <2>1. Slot(prod) \in 0 .. Slots - 1
    BY SlotType DEF Types, CountersOK
  <2>2. ASSUME NEW i \in cons .. prod - 1
        PROVE  Slot(i) \in 0 .. Slots - 1 /\ Slot(i) # Slot(prod)
    <3>1. i \in Nat /\ prod \in Nat /\ i < prod /\ prod - i < Slots
      BY <1>1, SizeAssumption DEF Types, CountersOK
    <3> QED
      BY <3>1, SlotType, SlotsDiffer
  <2> QED
    BY <2>1, <2>2 DEF Reserve, Types, MemoryOK, Record
<1> HIDE DEF p
<1>6. MemoryOK'
  <2>1. ring' \in [0 .. Slots - 1 -> Record]
    <3>1. \A b \in BOOLEAN : \A r \in Record : [r EXCEPT !.ready = b] \in Record
      BY DEF Record
    <3>2. FALSE \in BOOLEAN
      BY Zenon
    <3>3. Slot(prod) \in 0 .. Slots - 1
      BY SlotType DEF Types, CountersOK
    <3>4. ring' = [ring EXCEPT ![Slot(prod)] = [@ EXCEPT !.ready = FALSE]]
      BY DEF Reserve
    <3>5. [ring[Slot(prod)] EXCEPT !.ready = FALSE] \in Record
      BY <3>1, <3>2, <3>3, Zenon DEF Types, MemoryOK
    <3> QED
      BY <3>4, <3>5 DEF Types, MemoryOK
  <2> QED
    BY <1>1, <1>4, <2>1 DEF Types, MemoryOK
<1>7. HookInv' /\ PosInv'
  BY <1>1, <1>2, <1>3, <1>4, SizeAssumption DEF RingInv, HookInv, PosInv, Types, CountersOK
<1>8. WriterInv'
  <2>1. Holds(c)'
    BY <1>1, <1>3, <1>4, <1>5 DEF Holds, RingInv, PosInv, Types, CountersOK
  <2>2. ASSUME NEW d \in Cpu \ {c}, Writing(d)'
        PROVE  Writing(d) /\ Holds(d)' /\ hook'[d].pos # prod
    <3>1. Writing(d) /\ hook'[d] = hook[d] /\ hook[d].pos \in cons .. prod - 1
      BY <1>3, <2>2 DEF Writing, RingInv, WriterInv, Holds
    <3> QED
      <4>1. Holds(d) /\ ring'[Slot(hook[d].pos)] = ring[Slot(hook[d].pos)]
        BY <1>5, <3>1 DEF RingInv, WriterInv
      <4>2. hook[d].pos + 1 \in 1 .. prod /\ hook[d].pos # prod
        BY <3>1 DEF Types, CountersOK
      <4>3. reserved'[hook[d].pos + 1] = hook[d].pkt
        BY <1>4, <4>1, <4>2 DEF Holds
      <4>4. hook'[d].pos \in cons' .. prod' - 1
        BY <1>1, <3>1 DEF Types, CountersOK
      <4> QED
        BY <3>1, <4>1, <4>2, <4>3, <4>4 DEF Holds
  <2> QED
    BY <1>3, <2>1, <2>2 DEF RingInv, WriterInv
<1>9. ReadyInv'
  BY <1>1, <1>3, <1>4, <1>5 DEF RingInv, ReadyInv, Own, PosInv, Types, CountersOK
<1>10. FreshInv'
  BY <1>1, <1>2, <1>3, <1>4 DEF RingInv, FreshInv, PosInv, Types, CountersOK, p
<1> QED
  BY <1>6, <1>7, <1>8, <1>9, <1>10 DEF RingInv

\* Another position in use lies in another slot than the one c writes.
LEMMA OtherSlot ==
  ASSUME Types, RingInv, NEW i \in cons .. prod - 1, NEW j \in cons .. prod - 1, i # j
  PROVE  Slot(i) \in 0 .. Slots - 1 /\ Slot(i) # Slot(j)
<1>1. /\ i \in Nat /\ j \in Nat
      /\ (i < j /\ j - i < Slots) \/ (j < i /\ i - j < Slots)
  BY SizeAssumption DEF Types, CountersOK, RingInv, PosInv
<1> QED
  BY <1>1, SlotType, SlotsDiffer

\* What the steps of a writer that changes only its own record leave alone.
LEMMA RecordStep ==
  ASSUME Types, RingInv, NEW c \in Cpu, Writing(c), NEW h, NEW r \in Record,
         hook' = [hook EXCEPT ![c] = h],
         ring' = [ring EXCEPT ![Slot(hook[c].pos)] = r],
         UNCHANGED <<prod, cons, events, reserved, arrived>>,
         h.pc = "idle" \/ (h.pc = "submit" /\ h.pkt = hook[c].pkt /\ h.pos = hook[c].pos
                           /\ ~r.ready /\ Own(r, hook[c].pkt)),
         r.ready => Own(r, hook[c].pkt)
  PROVE  MemoryOK' /\ RingInv'
<1> DEFINE n == hook[c].pos
<1>1. /\ n \in cons .. prod - 1 /\ reserved[n + 1] = hook[c].pkt
      /\ n \in Nat /\ Slot(n) \in 0 .. Slots - 1
  BY SlotType DEF RingInv, WriterInv, Holds, Types, CountersOK
<1>2. hook'[c] = h /\ \A d \in Cpu \ {c} : hook'[d] = hook[d]
  BY DEF Types, HooksOK
<1>3. ring'[Slot(n)] = r /\ ring' \in [0 .. Slots - 1 -> Record]
  BY <1>1 DEF Types, MemoryOK
<1>4. ASSUME NEW i \in cons .. prod - 1, i # n
      PROVE  ring'[Slot(i)] = ring[Slot(i)]
  <2>1. Slot(i) \in 0 .. Slots - 1 /\ Slot(i) # Slot(n)
    BY <1>1, <1>4, OtherSlot
  <2> QED
    BY <1>1, <2>1 DEF Types, MemoryOK
<1> HIDE DEF n
<1>5. MemoryOK' /\ PosInv'
  BY <1>3 DEF Types, MemoryOK, RingInv, PosInv
<1>6. HookInv' /\ FreshInv'
  <2>1. hook[c].pc # "idle"
    BY DEF Writing
  <2> QED
    BY <1>2, <2>1 DEF RingInv, HookInv, FreshInv
<1>7. ReadyInv'
  <2>1. ASSUME NEW i \in cons .. prod - 1, ring'[Slot(i)].ready
        PROVE  Own(ring'[Slot(i)], reserved[i + 1])
    <3>1. CASE i = n
      BY <1>1, <1>3, <2>1, <3>1
    <3>2. CASE i # n
      BY <1>4, <2>1, <3>2 DEF RingInv, ReadyInv
    <3> QED
      BY <3>1, <3>2
  <2> QED
    BY <2>1 DEF ReadyInv
<1>8. WriterInv'
  <2>1. ASSUME Writing(c)'
        PROVE  Holds(c)' /\ hook'[c].pos = n
    BY <1>1, <1>2, <1>3, <2>1 DEF Writing, Holds, n
  <2>2. ASSUME NEW d \in Cpu \ {c}, Writing(d)'
        PROVE  Writing(d) /\ Holds(d)' /\ hook'[d].pos # n
    <3>1. Writing(d) /\ hook'[d] = hook[d]
      BY <1>2, <2>2 DEF Writing
    <3>2. Holds(d) /\ hook[d].pos # n
      BY <3>1 DEF RingInv, WriterInv, n
    <3>3. ring'[Slot(hook[d].pos)] = ring[Slot(hook[d].pos)]
      BY <1>4, <3>2 DEF Holds
    <3> QED
      BY <3>1, <3>2, <3>3 DEF Holds
  <2> QED
    BY <1>2, <2>1, <2>2 DEF RingInv, WriterInv
<1> QED
  BY <1>5, <1>6, <1>7, <1>8 DEF RingInv

\* The header fields and the payload are written: the record is the packet's.
LEMMA FillStep ==
  ASSUME Types, RingInv, NEW c \in Cpu, NEW loaded \in BOOLEAN, Fill(c, loaded)
  PROVE  MemoryOK' /\ RingInv'
<1> DEFINE p == hook[c].pkt
           old == ring[Slot(hook[c].pos)]
           m == [i \in 1 .. MaxPayload |->
                   IF loaded /\ i <= Captured(p) THEN <<p.id, i>> ELSE old.mem[i]]
           r == [old EXCEPT !.pkt = p, !.len = PayloadLen(p, loaded), !.mem = m]
           h == [hook[c] EXCEPT !.pc = "submit"]
<1>1. hook[c].pc = "fill" /\ Writing(c)
  BY DEF Fill, Writing
<1>2. p \in Packet /\ p.len > 0
  BY <1>1 DEF RingInv, HookInv, Types, CountersOK
<1>3. Slot(hook[c].pos) \in 0 .. Slots - 1 /\ old \in Record /\ ~old.ready
  <2>1. Holds(c) /\ hook[c].pos \in Nat
    BY <1>1 DEF RingInv, WriterInv, Types, HooksOK, HookState
  <2> QED
    BY <2>1, SlotType DEF Holds, Types, MemoryOK
<1>4. r \in Record
  BY <1>2, <1>3, FillType
<1>5. /\ hook' = [hook EXCEPT ![c] = h]
      /\ ring' = [ring EXCEPT ![Slot(hook[c].pos)] = r]
      /\ UNCHANGED <<prod, cons, events, reserved, arrived>>
  <2>1. hook' = [hook EXCEPT ![c] = h]
    BY Zenon DEF Fill
  <2>2. ring' = [ring EXCEPT ![Slot(hook[c].pos)] = r]
    BY DEF Fill
  <2>3. UNCHANGED <<prod, cons, events, reserved, arrived>>
    BY DEF Fill
  <2> QED
    BY <2>1, <2>2, <2>3
<1>6. h.pc = "submit" /\ h.pkt = hook[c].pkt /\ h.pos = hook[c].pos
  BY DEF Types, HooksOK, HookState
<1>7. r.pkt = p /\ r.len = PayloadLen(p, loaded) /\ r.mem = m /\ r.ready = old.ready
  BY <1>3 DEF Record
<1> HIDE DEF r, h, old
<1>8. Own(r, p)
  <2>1. CASE loaded
    <3>1. r.len = Captured(p) /\ Captured(p) \in 1 .. MaxPayload
      BY <1>2, <1>7, <2>1, CapturedType DEF PayloadLen
    <3>2. ASSUME NEW j \in 1 .. r.len
          PROVE  r.mem[j] = <<p.id, j>>
      <4>1. j \in 1 .. MaxPayload /\ j <= Captured(p)
        BY <3>1, SizeAssumption
      <4>2. m[j] = <<p.id, j>>
        BY <2>1, <4>1, Zenon
      <4> QED
        BY <1>7, <4>2, Zenon
    <3> QED
      BY <1>7, <3>1, <3>2 DEF Own
  <2>2. CASE ~loaded
    BY <1>7, <2>2 DEF Own, PayloadLen
  <2> QED
    BY <2>1, <2>2
<1> HIDE DEF p, m
<1>9. ~r.ready
  BY <1>3, <1>7
<1> QED
  BY <1>1, <1>4, <1>5, <1>6, <1>8, <1>9, RecordStep DEF p

\* The record becomes readable and the hook returns.
LEMMA SubmitStep ==
  ASSUME Types, RingInv, NEW c \in Cpu, Submit(c)
  PROVE  MemoryOK' /\ RingInv'
<1> DEFINE old == ring[Slot(hook[c].pos)]
           r == [old EXCEPT !.ready = TRUE]
<1>1. hook[c].pc = "submit" /\ Writing(c)
  BY DEF Submit, Writing
<1>2. Holds(c) /\ old \in Record
  <2>1. Holds(c) /\ hook[c].pos \in Nat
    BY <1>1 DEF RingInv, WriterInv, Types, HooksOK, HookState
  <2> QED
    BY <2>1, SlotType DEF Types, MemoryOK
<1>3. /\ hook' = [hook EXCEPT ![c] = Idle]
      /\ ring' = [ring EXCEPT ![Slot(hook[c].pos)] = r]
      /\ UNCHANGED <<prod, cons, events, reserved, arrived>>
  BY DEF Submit
<1>4. r \in Record /\ r.pkt = old.pkt /\ r.len = old.len /\ r.mem = old.mem
  <2>1. \A b \in BOOLEAN : [old EXCEPT !.ready = b] \in Record
    BY <1>2 DEF Record
  <2>2. TRUE \in BOOLEAN
    BY Zenon
  <2>3. r \in Record
    BY <2>1, <2>2, Zenon
  <2> QED
    BY <1>2, <2>3 DEF Record
<1> HIDE DEF r
<1>5. Own(r, hook[c].pkt)
  BY <1>1, <1>2, <1>4 DEF Holds, Own
<1>6. Idle.pc = "idle"
  BY DEF Idle
<1> QED
  BY <1>1, <1>3, <1>4, <1>5, <1>6, RecordStep

\* What ReadEvents makes of a record that holds its packet's payload.
LEMMA DecodeOwn ==
  ASSUME NEW r \in Record, NEW p \in Packet, p.len > 0, Own(r, p)
  PROVE  /\ r.len \in {0, Captured(p)} /\ r.len \in 0 .. MaxPayload
         /\ Decode(r) = [pkt |-> p, data |-> [j \in 1 .. r.len |-> <<p.id, j>>]]
<1>1. r.len \in {0, Captured(p)} /\ r.len \in 0 .. MaxPayload /\ MaxPayload \in Nat
  BY CapturedType, SizeAssumption DEF Own
<1>2. r.mem \in Seq(Byte) /\ Len(r.mem) = MaxPayload
  BY <1>1 DEF Record
<1> DEFINE data == SubSeq(r.mem, 1, r.len)
<1>3. data = [j \in 1 .. r.len |-> r.mem[j]]
  BY <1>1, <1>2
<1>4. data = [j \in 1 .. r.len |-> <<p.id, j>>]
  BY <1>3, Zenon DEF Own
<1> HIDE DEF data
<1>5. Decode(r) = [pkt |-> r.pkt, data |-> data]
  <2>1. (IF r.len > MaxPayload THEN MaxPayload ELSE r.len) = r.len
    BY <1>1
  <2> QED
    BY <2>1, Zenon DEF Decode, data
<1> QED
  BY <1>1, <1>4, <1>5 DEF Own

\* The record at cons, when it is read.
LEMMA OldestRecord ==
  ASSUME Types, RingInv, ReadEvent
  PROVE  /\ cons \in 0 .. prod - 1 /\ cons + 1 \in 1 .. Len(reserved)
         /\ ring[Slot(cons)] \in Record
         /\ reserved[cons + 1] \in Packet /\ reserved[cons + 1].len > 0
         /\ Own(ring[Slot(cons)], reserved[cons + 1])
<1>1. cons \in cons .. prod - 1 /\ cons \in Nat /\ prod \in Nat
  BY DEF ReadEvent, Types, CountersOK
<1>2. cons + 1 \in 1 .. Len(reserved)
  BY <1>1 DEF RingInv, PosInv
<1>3. Slot(cons) \in 0 .. Slots - 1
  BY <1>1, SlotType
<1>4. Own(ring[Slot(cons)], reserved[cons + 1])
  BY <1>1 DEF ReadEvent, RingInv, ReadyInv
<1> QED
  BY <1>1, <1>2, <1>3, <1>4 DEF Types, MemoryOK, RingInv, FreshInv

\* Reading frees a slot that no writer holds.
LEMMA ReadStep ==
  ASSUME Types, RingInv, ReadEvent
  PROVE  MemoryOK' /\ RingInv'
<1>1. /\ UNCHANGED <<hook, prod, ring, reserved, arrived>> /\ cons' = cons + 1
      /\ events' = Append(events, Decode(ring[Slot(cons)])) /\ cons < prod
      /\ ring[Slot(cons)].ready
  BY DEF ReadEvent
<1>2. MemoryOK'
  BY <1>1, OldestRecord, DecodeType DEF Types, MemoryOK
<1>3. HookInv' /\ PosInv' /\ FreshInv'
  BY <1>1, SizeAssumption DEF RingInv, HookInv, PosInv, FreshInv, Types, CountersOK
<1>4. ReadyInv'
  BY <1>1 DEF RingInv, ReadyInv, Types, CountersOK
<1>5. WriterInv'
  <2>1. ASSUME NEW c \in Cpu, Writing(c)
        PROVE  Holds(c)'
    <3>1. Holds(c)
      BY <2>1 DEF RingInv, WriterInv
    <3>2. hook[c].pos # cons
      BY <1>1, <3>1 DEF Holds
    <3>3. hook[c].pos \in cons + 1 .. prod - 1
      BY <3>1, <3>2 DEF Holds, Types, CountersOK
    <3> QED
      BY <1>1, <3>1, <3>3 DEF Holds
  <2> QED
    BY <1>1, <2>1 DEF RingInv, WriterInv, Writing
<1> QED
  BY <1>2, <1>3, <1>4, <1>5 DEF RingInv

\* The steps of NewLoader, main and Close leave it as it was, too.
LEMMA QuietStep ==
  ASSUME Types, RingInv, PutPort \/ Attach \/ PrintStats \/ Close \/ UNCHANGED vars
  PROVE  MemoryOK' /\ RingInv'
<1>1. UNCHANGED <<hook, prod, cons, ring, events, reserved, arrived>>
  BY DEF PutPort, Attach, PrintStats, Close, vars
<1>2. MemoryOK' /\ HookInv' /\ PosInv' /\ ReadyInv' /\ FreshInv'
  BY <1>1 DEF Types, MemoryOK, RingInv, HookInv, PosInv, ReadyInv, FreshInv
<1>3. WriterInv'
  BY <1>1, WritersKept DEF RingInv, Writing
<1> QED
  BY <1>2, <1>3 DEF RingInv

\* The ring buffer's invariant holds throughout.
LEMMA RingInvariant == Spec => [](Types /\ RingInv)
<1>1. Init => Types /\ RingInv
  <2> SUFFICES ASSUME Init
               PROVE  Types /\ RingInv
    OBVIOUS
  <2>1. CountersOK /\ HooksOK
    BY IdleType DEF Init, CountersOK, HooksOK
  <2>2. MemoryOK
    BY BlankType DEF Init, MemoryOK
  <2>3. \A c \in Cpu : hook[c].pc = "idle"
    BY DEF Init, Idle
  <2>4. HookInv /\ WriterInv /\ FreshInv
    BY <2>3 DEF Init, HookInv, WriterInv, FreshInv, Writing
  <2>5. PosInv /\ ReadyInv
    BY SizeAssumption DEF Init, PosInv, ReadyInv
  <2> QED
    BY <2>1, <2>2, <2>4, <2>5 DEF Types, RingInv
<1>2. Types /\ RingInv /\ [Next]_vars => (Types /\ RingInv)'
  <2> SUFFICES ASSUME Types, RingInv, [Next]_vars
               PROVE  Types' /\ RingInv'
    OBVIOUS
  <2>1. CountersOK' /\ HooksOK'
    BY CountersStep, HooksStep DEF Types
  <2>2. MemoryOK' /\ RingInv'
    BY MatchStep, DropStep, ReserveStep, FillStep, SubmitStep, ReadStep, QuietStep
       DEF Next, HookStep
  <2> QED
    BY <2>1, <2>2 DEF Types
<1> QED
  BY <1>1, <1>2, PTL DEF Spec

(***************************************************************************)
(* The theorems                                                            *)
(***************************************************************************)

\* However many CPUs write and however short a payload is that lies over a
\* longer one, ReadEvents passes on no byte that another packet left in the
\* ring buffer: an event holds the beginning of its own packet's payload, or
\* nothing.
THEOREM NoForeignBytes == Spec => []OwnBytes
<1>1. Init => OwnBytes
  BY DEF Init, OwnBytes
<1>2. Types /\ RingInv /\ OwnBytes /\ [Next]_vars => OwnBytes'
  <2> SUFFICES ASSUME Types, RingInv, OwnBytes, [Next]_vars
               PROVE  OwnBytes'
    OBVIOUS
  <2>1. CASE ReadEvent
    <3> DEFINE p == reserved[cons + 1]
               r == ring[Slot(cons)]
               e == Decode(r)
    <3>1. /\ r.len \in {0, Captured(p)}
          /\ e = [pkt |-> p, data |-> [j \in 1 .. r.len |-> <<p.id, j>>]]
      BY <2>1, OldestRecord, DecodeOwn
    <3>2. events' = Append(events, e) /\ events \in Seq(Event)
      BY <2>1 DEF ReadEvent, Types, MemoryOK
    <3>3. \E n \in {0, Captured(e.pkt)} : e.data = [j \in 1 .. n |-> <<e.pkt.id, j>>]
      BY <3>1
    <3> HIDE DEF e
    <3>4. ASSUME NEW i \in 1 .. Len(events')
          PROVE  \E n \in {0, Captured(events'[i].pkt)} :
                   events'[i].data = [j \in 1 .. n |-> <<events'[i].pkt.id, j>>]
      <4>1. CASE i = Len(events) + 1
        <5>1. events'[i] = e
          BY <3>2, <4>1
        <5> QED
          BY <3>3, <5>1
      <4>2. CASE i \in 1 .. Len(events)
        <5>1. events'[i] = events[i]
          BY <3>2, <4>2
        <5> QED
          BY <4>2, <5>1 DEF OwnBytes
      <4>3. i = Len(events) + 1 \/ i \in 1 .. Len(events)
        BY <3>2
      <4> QED
        BY <4>1, <4>2, <4>3
    <3> QED
      BY <3>4 DEF OwnBytes
  <2>2. CASE events' = events
    BY <2>2 DEF OwnBytes
  <2>3. ReadEvent \/ events' = events
    BY DEF Next, vars, PutPort, Attach, PrintStats, Close, Pass, Match, HookStep, Reserve,
           DropFull, Fill, Submit
  <2> QED
    BY <2>1, <2>2, <2>3
<1> QED
  BY <1>1, <1>2, RingInvariant, PTL DEF Spec

\* The sets HookBalance counts.
NoPayload == {p \in arrived : Matches(p) /\ p.len <= 0}

Asking == {c \in Cpu : hook[c].pc = "reserve"}

\* Both are finite, so that one more or less can be counted.
LEMMA CountedFinite ==
  ASSUME Types
  PROVE  IsFiniteSet(NoPayload) /\ IsFiniteSet(Asking)
<1>1. NoPayload \subseteq Packet /\ Asking \subseteq Cpu
  BY DEF Types, CountersOK, NoPayload, Asking
<1> QED
  BY <1>1, PacketAssumption, CpuAssumption, FS_Subset

\* One packet is counted and accounted for in the same step.
LEMMA BalanceStep ==
  ASSUME Types, Types', HookBalance, [Next]_vars
  PROVE  HookBalance'
<1> DEFINE N == Cardinality(NoPayload)
           A == Cardinality(Asking)
<1>1. /\ IsFiniteSet(NoPayload) /\ IsFiniteSet(Asking)
      /\ N \in Nat /\ A \in Nat
      /\ matched \in Nat /\ drops \in Nat /\ prod \in Nat
  BY CountedFinite, FS_CardinalityType DEF Types, CountersOK
<1>2. matched = drops + prod + N + A
  BY DEF HookBalance, NoPayload, Asking
<1>3. SUFFICES matched' = drops' + prod' + Cardinality(NoPayload') + Cardinality(Asking')
  BY DEF HookBalance, NoPayload, Asking
<1> HIDE DEF N, A
<1>4. CASE PutPort
  <2>1. UNCHANGED <<matched, drops, prod, hook, arrived>> /\ arrived = {}
    BY <1>4 DEF PutPort, Load, Types, CountersOK
  <2>2. NoPayload' = NoPayload /\ Asking' = Asking
    BY <2>1 DEF NoPayload, Asking
  <2> QED
    BY <1>2, <2>1, <2>2 DEF N, A
<1>5. CASE UNCHANGED <<matched, drops, prod, arrived, target>> /\ Asking' = Asking
  <2>1. NoPayload' = NoPayload
    BY <1>5 DEF NoPayload, Matches
  <2> QED
    BY <1>2, <1>5, <2>1 DEF N, A
<1>6. CASE Attach \/ PrintStats \/ Close \/ ReadEvent \/ UNCHANGED vars
  BY <1>5, <1>6 DEF Attach, PrintStats, Close, ReadEvent, vars, Asking
<1>7. ASSUME NEW c \in Cpu, NEW p \in Packet, Pass(c, p)
      PROVE  matched' = drops' + prod' + Cardinality(NoPayload') + Cardinality(Asking')
  <2>1. NoPayload' = NoPayload /\ Asking' = Asking
    BY <1>7 DEF Pass, NoPayload, Asking, Matches
  <2> QED
    BY <1>2, <1>7, <2>1 DEF Pass, N, A
<1>8. ASSUME NEW c \in Cpu, NEW p \in Packet, Match(c, p), p.len <= 0
      PROVE  matched' = drops' + prod' + Cardinality(NoPayload') + Cardinality(Asking')
  <2>1. NoPayload' = NoPayload \cup {p} /\ p \notin NoPayload
    BY <1>8 DEF Match, NoPayload, Matches
  <2>2. Asking' = Asking
    BY <1>8 DEF Match, Asking, Idle, Types, HooksOK
  <2>3. Cardinality(NoPayload') = N + 1
    BY <1>1, <2>1, FS_AddElement DEF N
  <2> QED
    BY <1>1, <1>2, <1>8, <2>2, <2>3 DEF Match, A
<1>9. ASSUME NEW c \in Cpu, NEW p \in Packet, Match(c, p), ~(p.len <= 0)
      PROVE  matched' = drops' + prod' + Cardinality(NoPayload') + Cardinality(Asking')
  <2>1. NoPayload' = NoPayload
    BY <1>9 DEF Match, NoPayload, Matches
  <2>2. Asking' = Asking \cup {c} /\ c \notin Asking
    BY <1>9 DEF Match, Asking, Idle, Types, HooksOK
  <2>3. Cardinality(Asking') = A + 1
    BY <1>1, <2>2, FS_AddElement DEF A
  <2> QED
    BY <1>1, <1>2, <1>9, <2>1, <2>3 DEF Match, N
<1>10. ASSUME NEW c \in Cpu, Reserve(c) \/ DropFull(c)
      PROVE  matched' = drops' + prod' + Cardinality(NoPayload') + Cardinality(Asking')
  <2>1. NoPayload' = NoPayload
    BY <1>10 DEF Reserve, DropFull, NoPayload, Matches
  <2>2. Asking' = Asking \ {c} /\ c \in Asking
    BY <1>10 DEF Reserve, DropFull, Asking, Idle, Types, HooksOK, HookState
  <2>3. Cardinality(Asking') = A - 1
    BY <1>1, <2>2, FS_RemoveElement DEF A
  <2>4. matched' = matched /\ drops' + prod' = drops + prod + 1
    BY <1>1, <1>10 DEF Reserve, DropFull
  <2>5. Cardinality(NoPayload') = N /\ drops' \in Nat /\ prod' \in Nat
    BY <2>1 DEF N, Types, CountersOK
  <2>6. drops + prod + N + A = (drops + prod + 1) + N + (A - 1)
    BY <1>1
  <2> QED
    BY <1>2, <2>3, <2>4, <2>5, <2>6
<1>11. ASSUME NEW c \in Cpu, Submit(c) \/ \E loaded \in BOOLEAN : Fill(c, loaded)
      PROVE  matched' = drops' + prod' + Cardinality(NoPayload') + Cardinality(Asking')
  <2>1. Asking' = Asking
    <3>1. CASE Submit(c)
      BY <3>1 DEF Submit, Asking, Idle, Types, HooksOK
    <3>2. ASSUME NEW loaded \in BOOLEAN, Fill(c, loaded)
          PROVE  Asking' = Asking
      <4>1. hook[c].pc = "fill" /\ hook' = [hook EXCEPT ![c].pc = "submit"]
        BY <3>2 DEF Fill
      <4> QED
        BY <4>1 DEF Asking, Types, HooksOK, HookState
    <3> QED
      BY <1>11, <3>1, <3>2
  <2>2. UNCHANGED <<matched, drops, prod, arrived, target>>
    BY <1>11 DEF Submit, Fill
  <2> QED
    BY <1>5, <2>1, <2>2
<1> QED
  BY <1>4, <1>6, <1>7, <1>8, <1>9, <1>10, <1>11 DEF Next, HookStep

\* The counters of the hook account for every packet on every CPU: nothing that
\* matched is lost without being counted as dropped.
THEOREM HooksBalance == Spec => []HookBalance
<1>1. Init => HookBalance
  <2> SUFFICES ASSUME Init
               PROVE  HookBalance
    OBVIOUS
  <2>1. NoPayload = {} /\ Asking = {}
    BY DEF Init, NoPayload, Asking, Idle
  <2>2. Cardinality(NoPayload) = 0 /\ Cardinality(Asking) = 0
    BY <2>1, FS_EmptySet
  <2> QED
    BY <2>2 DEF Init, HookBalance, NoPayload, Asking
<1>2. Types /\ Types' /\ HookBalance /\ [Next]_vars => HookBalance'
  BY BalanceStep
<1> QED
  BY <1>1, <1>2, RingInvariant, PTL DEF Spec

\* Every step of hooks and reader is a step of the channel or none: a packet is
\* accepted when its record is reserved and delivered when it is read.
LEMMA ChannelStep ==
  ASSUME Types, RingInv, RingInv', [Next]_vars
  PROVE  [Channel!Next]_(Channel!vars)
<1> DEFINE queue == SubSeq(reserved, cons + 1, prod)
           taken == {reserved[i] : i \in 1 .. Len(reserved)}
<1>1. reserved \in Seq(Packet) /\ Len(reserved) = prod /\ cons \in Nat /\ cons <= prod
      /\ prod \in Nat
  BY DEF Types, MemoryOK, CountersOK, RingInv, PosInv
<1>2. ASSUME NEW c \in Cpu, Reserve(c)
      PROVE  Channel!Next
  <2> PICK p \in Packet : p = hook[c].pkt
    BY <1>2 DEF Reserve, RingInv, HookInv, Types, CountersOK
  <2>1. \A i \in 1 .. Len(reserved) : reserved[i] # p
    BY <1>2 DEF Reserve, RingInv, FreshInv
  <2>2. reserved' = Append(reserved, p) /\ prod' = prod + 1 /\ cons' = cons /\ events' = events
    BY <1>2 DEF Reserve
  <2>3. SubSeq(reserved', cons' + 1, prod') = Append(SubSeq(reserved, cons + 1, prod), p)
    BY <1>1, <2>1, <2>2
  <2>4. {reserved'[i] : i \in 1 .. Len(reserved')} = taken \cup {p}
    BY <1>1, <2>1, <2>2
  <2> QED
    BY <2>1, <2>2, <2>3, <2>4 DEF Channel!Accept, Channel!Next
<1>3. CASE ReadEvent
  <2> DEFINE p == reserved[cons + 1]
             r == ring[Slot(cons)]
  <2>1. /\ r.len \in {0, Captured(p)} /\ r.len \in 0 .. MaxPayload
        /\ Decode(r) = [pkt |-> p, data |-> [j \in 1 .. r.len |-> <<p.id, j>>]]
    BY <1>3, OldestRecord, DecodeOwn
  <2>2. /\ events' = Append(events, Decode(r)) /\ cons' = cons + 1 /\ cons < prod
        /\ UNCHANGED <<prod, reserved>>
    BY <1>3 DEF ReadEvent
  <2>3. queue # <<>> /\ Head(queue) = p /\ Tail(queue) = SubSeq(reserved, cons + 2, prod)
    BY <1>1, <2>2
  <2>4. Captured(p) = Channel!Captured(p)
    BY DEF Captured, Channel!Captured
  <2> HIDE DEF p, r
  <2>5. SubSeq(reserved', cons' + 1, prod') = Tail(queue)
    BY <1>1, <2>2, <2>3
  <2>6. r.len \in {0, Channel!Captured(Head(queue))}
    BY <2>1, <2>3, <2>4
  <2>7. events' = Append(events, [pkt |-> Head(queue), data |-> Channel!Bytes(Head(queue), r.len)])
    BY <2>1, <2>2, <2>3 DEF Channel!Bytes
  <2>8. taken' = taken
    BY <2>2
  <2>9. ASSUME NEW n \in 0 .. MaxPayload, n = r.len
        PROVE  Channel!Deliver(n)
    BY <2>3, <2>5, <2>6, <2>7, <2>8, <2>9 DEF Channel!Deliver
  <2> QED
    BY <2>1, <2>9 DEF Channel!Next
<1>4. CASE UNCHANGED <<reserved, cons, prod, events>>
  BY <1>4 DEF Channel!vars
<1>5. \/ ReadEvent \/ UNCHANGED <<reserved, cons, prod, events>>
      \/ \E c \in Cpu : Reserve(c)
  BY DEF Next, vars, PutPort, Attach, PrintStats, Close, Pass, Match, HookStep,
         DropFull, Fill, Submit
<1> QED
  BY <1>2, <1>3, <1>4, <1>5

\* For any number of CPUs, slots and packets the ring buffer between the hook
\* and ReadEvents is a FIFO channel that loses packets only before it accepts
\* them, and never mixes them.
THEOREM RingIsChannel == Spec => ChannelSpec
<1>1. Init => Channel!Init
  BY DEF Init, Channel!Init
<1>2. Types /\ RingInv /\ RingInv' /\ [Next]_vars => [Channel!Next]_(Channel!vars)
  BY ChannelStep
<1> QED
  BY <1>1, <1>2, RingInvariant, PTL DEF Spec, ChannelSpec, Channel!Spec

=============================================================================
