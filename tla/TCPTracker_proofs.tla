------------------------- MODULE TCPTracker_proofs --------------------------
(***************************************************************************)
(* Theorems about TCPTracker, for every set of connections, every wire     *)
(* contents and all timing constants.                                      *)
(***************************************************************************)
EXTENDS TCPTracker, FiniteSetTheorems, SequenceTheorems, WellFoundedInduction, TLAPS

(***************************************************************************)
(* Slices                                                                  *)
(***************************************************************************)

\* Least picks the smallest element of a non-empty set of naturals.
LEMMA LeastIsLeast ==
  ASSUME NEW S, S \subseteq Nat, S # {}
  PROVE  Least(S) \in S /\ \A j \in S : Least(S) <= j
<1> DEFINE R == {ss \in Nat \X Nat : ss[1] < ss[2]}
<1>1. R = OpToRel(<, Nat)
  BY DEF OpToRel
<1>2. IsWellFoundedOn(R, Nat)
  BY <1>1, NatLessThanWellFounded
<1>3. PICK m \in S : \A y \in S : ~(<<y, m>> \in R)
  BY <1>2, WFMin
<1>4. ASSUME NEW y \in S PROVE m <= y
  <2>1. y \in Nat /\ m \in Nat
    OBVIOUS
  <2>2. y < m => <<y, m>> \in R
    BY <2>1
  <2> QED
    BY <1>3, <2>1, <2>2
<1> QED
  BY <1>4 DEF Least

\* A slice of a byte stream is a byte stream.
LEMMA DropType ==
  ASSUME NEW s \in Seq(Unit), NEW n \in Nat, n <= Len(s)
  PROVE  Drop(s, n) \in Seq(Unit) /\ Len(Drop(s, n)) = Len(s) - n
  BY DEF Drop

\* Dropping nothing, and dropping everything.
LEMMA DropEnds ==
  ASSUME NEW s \in Seq(Unit)
  PROVE  Drop(s, 0) = s /\ Drop(s, Len(s)) = <<>>
  BY DEF Drop

\* Appending to a stream appends to every slice that runs to its end.
LEMMA DropConcat ==
  ASSUME NEW s \in Seq(Unit), NEW t \in Seq(Unit), NEW n \in Nat, n <= Len(s)
  PROVE  Drop(s \o t, n) = Drop(s, n) \o t
  BY DropType DEF Drop

\* Slicing a slice: what parseHTTPRequests has left after two requests.
LEMMA DropDrop ==
  ASSUME NEW s \in Seq(Unit), NEW n \in Nat, NEW m \in Nat, n + m <= Len(s)
  PROVE  Drop(Drop(s, n), m) = Drop(s, n + m)
  BY DropType DEF Drop

(***************************************************************************)
(* parseOneRequest                                                         *)
(***************************************************************************)

\* A request that is found is not empty and lies within the data.
LEMMA ParseType ==
  ASSUME NEW data \in Seq(Unit)
  PROVE  LET p == parseOneRequest(data)
         IN  /\ p.st \in {"incomplete", "error", "panic", "ok"}
             /\ p.n \in Nat
             /\ p.req \in CapturedRequest
             /\ p.st = "ok" => p.n \in 1 .. Len(data)
<1> DEFINE h == Least(HeaderEnds(data))
           c == ContentLength(data, h)
           f == FirstLineEnd(data)
<1>1. CASE HeaderEnds(data) = {}
  BY <1>1 DEF parseOneRequest, Incomplete, CapturedRequest
<1>2. CASE HeaderEnds(data) # {}
  <2>1. h \in 1 .. Len(data) /\ h + 1 <= Len(data) /\ EndsLine(data[h])
    <3>1. HeaderEnds(data) \subseteq Nat
      BY DEF HeaderEnds
    <3>2. h \in HeaderEnds(data)
      BY <1>2, <3>1, LeastIsLeast
    <3> QED
      BY <3>2 DEF HeaderEnds
  <2>2. f \in 1 .. Len(data)
    <3> DEFINE L == {i \in 1 .. Len(data) : EndsLine(data[i])}
    <3>1. h \in L
      BY <2>1
    <3>2. L \subseteq Nat /\ L # {}
      BY <3>1
    <3>3. Least(L) \in L
      <4> HIDE DEF L
      <4> QED  BY <3>2, LeastIsLeast
    <3> QED
      BY <3>3 DEF FirstLineEnd
  <2>3. c \in Nat
    <3>1. ASSUME ContentLengths(data, h) # {}
          PROVE  data[Least(ContentLengths(data, h))] \in Unit
      <4>1. Least(ContentLengths(data, h)) \in ContentLengths(data, h)
        <5>1. ContentLengths(data, h) \subseteq Nat
          BY <2>1 DEF ContentLengths
        <5> QED
          BY <3>1, <5>1, LeastIsLeast
      <4> QED
        BY <4>1, <2>1 DEF ContentLengths
    <3> QED
      BY <3>1 DEF ContentLength, Unit
  <2> HIDE DEF h, c, f
  <2>4. SubSeq(data, 1, f) \in Seq(Unit)
    BY <2>2
  <2>5. CASE ~HasTwoParts(data) \/ IsWild(data, h) \/ Len(data) < h + 1 + c
    BY <1>2, <2>5 DEF h, c, parseOneRequest, ParseError, MakePanics, Incomplete,
                      CapturedRequest
  <2>6. CASE HasTwoParts(data) /\ ~IsWild(data, h) /\ ~(Len(data) < h + 1 + c)
    <3>1. SubSeq(data, h + 2, h + 1 + c) \in Seq(Unit)
      BY <2>1, <2>3, <2>6
    <3>2. parseOneRequest(data) =
            [st |-> "ok", n |-> h + 1 + c,
             req |-> [line |-> SubSeq(data, 1, f),
                      body |-> SubSeq(data, h + 2, h + 1 + c)]]
      BY <1>2, <2>6 DEF h, c, f, parseOneRequest
    <3> QED
      BY <2>1, <2>3, <2>4, <2>6, <3>1, <3>2 DEF CapturedRequest
  <2> QED
    BY <2>5, <2>6
<1> QED
  BY <1>1, <1>2

(***************************************************************************)
(* Type correctness                                                        *)
(***************************************************************************)

\* What a Feed call reads next: a slice of Wire[k], or of its own copy.
LEMMA SegmentType ==
  ASSUME TypeOK, NEW k \in Key, NEW i \in Nat, NEW n \in Nat,
         i + n <= Len(Wire[k])
  PROVE  Segment(k, i, n) \in Seq(Unit) /\ Segment(k, i, n) \in Seq(Wrote(k))
<1>1. PICK w \in Seq(Unit) : w = Wire[k]
  BY WireAssumption
<1>2. SubSeq(w, i + 1, i + n) \in Seq(Unit)
  BY <1>1
<1>3. \A j \in 1 .. Len(w) : w[j] \in Wrote(k)
  BY <1>1 DEF Wrote
<1>4. w \in Seq(Wrote(k))
  BY <1>3
<1>5. SubSeq(w, i + 1, i + n) \in Seq(Wrote(k))
  BY <1>1, <1>4
<1> QED
  BY <1>1, <1>2, <1>5 DEF Segment

\* While a Feed call parses, parseOneRequest returns a well-typed result that
\* consumes no more than what is left of the copy.
LEMMA ParseInFeed ==
  ASSUME TypeOK
  PROVE  LET p == parseOneRequest(Drop(snapshot, consumed))
         IN  /\ p.req \in CapturedRequest
             /\ p.st = "ok" => consumed + p.n \in 1 .. Len(snapshot)
<1>1. Drop(snapshot, consumed) \in Seq(Unit)
      /\ Len(Drop(snapshot, consumed)) = Len(snapshot) - consumed
  BY DropType DEF TypeOK
<1>2. parseOneRequest(Drop(snapshot, consumed)).st = "ok" =>
        parseOneRequest(Drop(snapshot, consumed)).n \in 1 .. (Len(snapshot) - consumed)
  BY <1>1, ParseType
<1>3. parseOneRequest(Drop(snapshot, consumed)).req \in CapturedRequest
  BY <1>1, ParseType
<1> QED
  BY <1>2, <1>3 DEF TypeOK

\* The part of TypeOK about the clients.
ClientOK ==
  /\ sent \in [Key -> Nat]
  /\ \A k \in Key : sent[k] <= Len(Wire[k])
  /\ gone \subseteq Key
  /\ faults \in Nat

\* Sending stays within what the client has to send.
LEMMA SentStep ==
  ASSUME TypeOK, NEW k \in Key, NEW n \in Nat, sent[k] + n <= Len(Wire[k]),
         sent' = [sent EXCEPT ![k] = sent[k] + n]
  PROVE  sent' \in [Key -> Nat] /\ \A j \in Key : sent'[j] <= Len(Wire[j])
<1>1. sent \in [Key -> Nat] /\ sent[k] + n \in Nat
  <2>1. sent \in [Key -> Nat]
    BY Zenon DEF TypeOK
  <2> QED
    BY <2>1
<1>2. \A j \in Key : sent'[j] = IF j = k THEN sent[k] + n ELSE sent[j]
  BY <1>1
<1>3. sent' \in [Key -> Nat]
  BY <1>1
<1> QED
  BY <1>2, <1>3 DEF TypeOK

\* Counters stay natural numbers.
LEMMA StatsStep ==
  ASSUME NEW st \in Stats, NEW a \in Nat, NEW b \in Nat
  PROVE  /\ [st EXCEPT !.recv = @ + a] \in Stats
         /\ [st EXCEPT !.recv = @ + a, !.drop = @ + b] \in Stats
         /\ [st EXCEPT !.perr = @ + a, !.assm = @ + b] \in Stats
         /\ [st EXCEPT !.reap = @ + a] \in Stats
<1>1. /\ st.recv + a \in Nat /\ st.drop + b \in Nat /\ st.perr + a \in Nat
      /\ st.assm + b \in Nat /\ st.reap + a \in Nat
  BY DEF Stats
<1>2. [st EXCEPT !.recv = @ + a] \in Stats
  BY <1>1 DEF Stats
<1>3. [st EXCEPT !.recv = @ + a, !.drop = @ + b] \in Stats
  BY <1>1 DEF Stats
<1>4. [st EXCEPT !.perr = @ + a, !.assm = @ + b] \in Stats
  BY <1>1 DEF Stats
<1>5. [st EXCEPT !.reap = @ + a] \in Stats
  BY <1>1 DEF Stats
<1> QED
  BY <1>2, <1>3, <1>4, <1>5

\* The next-state relation, one disjunct per action, with the data Feed reads.
LEMMA NextCases ==
  ASSUME TypeOK, Next
  PROVE  /\ ~panicked
         /\ \/ \E k \in Key, data \in Seq(Unit) :
                 /\ FeedStore(k, data)
                 /\ data \in Seq(Wrote(k))
                 /\ ClientOK'
            \/ \E data \in Seq(Unit) :
                 /\ FeedDrop(data)
                 /\ ClientOK'
            \/ \E k \in Key, n \in Nat : FeedEmpty(k, n) \/ Lose(k, n)
            \/ \E k \in Key : Abandon(k)
            \/ ParseRequest \/ ParsePanic \/ ParseNone \/ ParseSome
            \/ TrimAll \/ TrimSome \/ TrimPanic \/ FeedReturn
            \/ ReaperSweep \/ Tick
<1>1. ASSUME NEW k \in Key, NEW n \in 1 .. MaxSeg, FeedNext(k, n)
      PROVE  \E data \in Seq(Unit) :
               /\ FeedStore(k, data) \/ FeedDrop(data)
               /\ data \in Seq(Wrote(k))
               /\ ClientOK'
  <2>1. n \in Nat /\ sent[k] \in Nat /\ sent[k] + n <= Len(Wire[k])
    BY <1>1, SizeAssumption DEF FeedNext, Advance, CanSend, TypeOK
  <2>2. Segment(k, sent[k], n) \in Seq(Unit) /\ Segment(k, sent[k], n) \in Seq(Wrote(k))
    BY <2>1, SegmentType
  <2>3. sent' = [sent EXCEPT ![k] = sent[k] + n] /\ gone' = gone /\ faults' = faults
    BY <1>1 DEF FeedNext, Advance
  <2>4. ClientOK'
    BY <2>1, <2>3, SentStep DEF TypeOK, ClientOK
  <2> QED
    BY <1>1, <2>2, <2>4 DEF FeedNext, Feed
<1>2. ASSUME NEW k \in Key, NEW n \in 1 .. MaxSeg, FeedAgain(k, n)
      PROVE  \E data \in Seq(Unit) :
               /\ FeedStore(k, data) \/ FeedDrop(data)
               /\ data \in Seq(Wrote(k))
               /\ ClientOK'
  <2>1. n \in Nat /\ sent[k] \in Nat /\ sent[k] - n \in Nat
        /\ (sent[k] - n) + n <= Len(Wire[k])
    <3>1. sent \in [Key -> Nat] /\ sent[k] <= Len(Wire[k]) /\ Len(Wire[k]) \in Nat
      <4>1. sent \in [Key -> Nat] /\ sent[k] <= Len(Wire[k])
        BY Zenon DEF TypeOK
      <4> QED
        BY <4>1, WireAssumption
    <3>2. n \in Nat /\ n <= sent[k]
      BY <1>2, SizeAssumption DEF FeedAgain, Again
    <3> QED
      BY <3>1, <3>2
  <2>2. Segment(k, sent[k] - n, n) \in Seq(Unit)
        /\ Segment(k, sent[k] - n, n) \in Seq(Wrote(k))
    BY <2>1, SegmentType
  <2>3. ClientOK'
    <3>1. ClientOK
      BY Zenon DEF TypeOK, ClientOK
    <3>2. faults' = faults + 1 /\ UNCHANGED <<sent, gone>>
      BY <1>2 DEF FeedAgain, Again
    <3> QED
      BY <3>1, <3>2 DEF ClientOK
  <2> QED
    BY <1>2, <2>2, <2>3 DEF FeedAgain, Feed
<1>3. \A n \in 1 .. MaxSeg : n \in Nat
  BY SizeAssumption
<1> QED
  BY <1>1, <1>2, <1>3, Zenon DEF Next, ReaderStep

\* The parts of TypeOK about the map, the Feed call, the reaper and the
\* history, each a part of the state that some steps leave alone.
MapOK ==
  streams \subseteq Key /\ buf \in [Key -> Seq(Unit)] /\ age \in [Key -> Nat]

ReaderOK ==
  /\ pc \in {"idle", "parse", "trim", "return"}
  /\ key \in Key
  /\ snapshot \in Seq(Unit)
  /\ consumed \in 0 .. Len(snapshot)
  /\ reqs \in Seq(CapturedRequest)

ReaperOK == rpc \in {"wait", "sweep"} /\ sinceTick \in Nat

HistoryOK ==
  /\ out \in [Key -> Seq(CapturedRequest)]
  /\ fed \in [Key -> Seq(Unit)]
  /\ done \in [Key -> Nat]

\* TypeOK is the conjunction of its parts, before and after a step.
LEMMA TypeParts ==
  /\ TypeOK <=> MapOK /\ ReaderOK /\ ReaperOK /\ ClientOK /\ stats \in Stats
                  /\ panicked \in BOOLEAN /\ HistoryOK
  /\ TypeOK' <=> MapOK' /\ ReaderOK' /\ ReaperOK' /\ ClientOK' /\ stats' \in Stats
                  /\ panicked' \in BOOLEAN /\ HistoryOK'
<1>1. TypeOK <=> MapOK /\ ReaderOK /\ ReaperOK /\ ClientOK /\ stats \in Stats
                  /\ panicked \in BOOLEAN /\ HistoryOK
  BY Zenon DEF TypeOK, MapOK, ReaderOK, ReaperOK, ClientOK, HistoryOK
<1>2. TypeOK' <=> MapOK' /\ ReaderOK' /\ ReaperOK' /\ ClientOK' /\ stats' \in Stats
                  /\ panicked' \in BOOLEAN /\ HistoryOK'
  BY Zenon DEF TypeOK, MapOK, ReaderOK, ReaperOK, ClientOK, HistoryOK
<1> QED
  BY <1>1, <1>2

\* A part of the state that a step leaves alone keeps its type.
LEMMA TypeFrames ==
  /\ MapOK /\ UNCHANGED stream => MapOK'
  /\ ReaderOK /\ UNCHANGED reader => ReaderOK'
  /\ ReaperOK /\ UNCHANGED reaper => ReaperOK'
  /\ ClientOK /\ UNCHANGED client => ClientOK'
  /\ HistoryOK /\ UNCHANGED history => HistoryOK'
<1>1. MapOK /\ UNCHANGED stream => MapOK'
  BY DEF MapOK, stream
<1>2. ReaderOK /\ UNCHANGED reader => ReaderOK'
  BY DEF ReaderOK, reader
<1>3. ReaperOK /\ UNCHANGED reaper => ReaperOK'
  BY DEF ReaperOK, reaper
<1>4. ClientOK /\ UNCHANGED client => ClientOK'
  BY DEF ClientOK, client
<1>5. HistoryOK /\ UNCHANGED history => HistoryOK'
  BY DEF HistoryOK, history
<1> QED
  BY <1>1, <1>2, <1>3, <1>4, <1>5

\* Every step preserves the types.
LEMMA TypeStep ==
  ASSUME TypeOK, [Next]_vars
  PROVE  TypeOK'
<1> USE TypeParts, TypeFrames
<1>1. ASSUME NEW k \in Key, NEW data \in Seq(Unit), FeedStore(k, data), ClientOK'
      PROVE  TypeOK'
  <2>1. stats' \in Stats
    BY <1>1, StatsStep DEF FeedStore
  <2>2. buf[k] \o data \in Seq(Unit) /\ fed[k] \o data \in Seq(Unit)
    BY DEF MapOK, HistoryOK
  <2>3. MapOK'
    BY <1>1, <2>2 DEF FeedStore, MapOK
  <2>4. ReaderOK'
    BY <1>1, <2>2 DEF FeedStore, ReaderOK
  <2>5. HistoryOK'
    BY <1>1, <2>2 DEF FeedStore, HistoryOK
  <2>6. UNCHANGED reaper /\ panicked' = panicked
    BY <1>1 DEF FeedStore
  <2> QED
    BY <1>1, <2>1, <2>3, <2>4, <2>5, <2>6
<1>2. ASSUME NEW data \in Seq(Unit), FeedDrop(data), ClientOK'
      PROVE  TypeOK'
  <2>1. stats' \in Stats
    BY <1>2, StatsStep DEF FeedDrop
  <2> QED
    BY <1>2, <2>1 DEF FeedDrop
<1>3. ASSUME NEW k \in Key, NEW n \in Nat, FeedEmpty(k, n) \/ Lose(k, n)
      PROVE  TypeOK'
  <2>1. sent' \in [Key -> Nat] /\ \A j \in Key : sent'[j] <= Len(Wire[j])
    BY <1>3, SentStep DEF FeedEmpty, Lose, CanSend
  <2>2. ClientOK'
    BY <1>3, <2>1 DEF FeedEmpty, Lose, ClientOK
  <2>3. stats' \in Stats
    BY <1>3, StatsStep DEF FeedEmpty, Lose
  <2>4. UNCHANGED <<stream, reader, reaper, history, panicked>>
    BY <1>3 DEF FeedEmpty, Lose
  <2> QED
    BY <2>2, <2>3, <2>4
<1>4. ASSUME NEW k \in Key, Abandon(k)
      PROVE  TypeOK'
  <2>1. ClientOK'
    BY <1>4 DEF Abandon, ClientOK
  <2> QED
    BY <1>4, <2>1 DEF Abandon
<1>5. CASE ParseRequest
  <2>1. ReaderOK'
    BY <1>5, ParseInFeed DEF ParseRequest, ReaderOK
  <2> QED
    BY <1>5, <2>1 DEF ParseRequest
<1>6. CASE ParseNone \/ ParseSome
  <2>1. stats' \in Stats
    <3> DEFINE e == IF parseOneRequest(Drop(snapshot, consumed)).st = "error"
                    THEN 1 ELSE 0
    <3>1. e \in Nat /\ Len(reqs) \in Nat
      BY DEF ReaderOK
    <3>2. stats' = [stats EXCEPT !.perr = @ + e, !.assm = @ + Len(reqs)]
      BY <1>6 DEF ParseNone, ParseSome, LeaveLoop
    <3> HIDE DEF e
    <3> QED
      BY <3>1, <3>2, StatsStep
  <2>2. ReaderOK'
    BY <1>6 DEF ParseNone, ParseSome, EndFeed, ReaderOK
  <2> QED
    BY <1>6, <2>1, <2>2 DEF ParseNone, ParseSome
<1>7. CASE TrimAll
  <2>1. MapOK' /\ HistoryOK'
    BY <1>7 DEF TrimAll, MapOK, HistoryOK, ReaderOK
  <2>2. ReaderOK'
    BY <1>7 DEF TrimAll, ReaderOK
  <2> QED
    BY <1>7, <2>1, <2>2 DEF TrimAll
<1>8. CASE TrimSome
  <2>1. MapOK'
    BY <1>8, DropType DEF TrimSome, MapOK, ReaderOK
  <2>2. HistoryOK'
    BY <1>8 DEF TrimSome, HistoryOK, ReaderOK
  <2>3. ReaderOK'
    BY <1>8 DEF TrimSome, ReaderOK
  <2> QED
    BY <1>8, <2>1, <2>2, <2>3 DEF TrimSome
<1>9. CASE ParsePanic \/ TrimPanic
  BY <1>9 DEF ParsePanic, TrimPanic
<1>10. CASE FeedReturn
  <2>1. ReaderOK'
    BY <1>10 DEF FeedReturn, EndFeed, ReaderOK
  <2>2. HistoryOK'
    BY <1>10 DEF FeedReturn, HistoryOK, ReaderOK
  <2> QED
    BY <1>10, <2>1, <2>2 DEF FeedReturn
<1>11. CASE ReaperSweep
  <2>1. Cardinality({k \in streams : Stale(k)}) \in Nat
    <3>1. {k \in streams : Stale(k)} \in SUBSET Key
      BY DEF MapOK
    <3> QED
      BY <3>1, KeyAssumption, FS_Subset, FS_CardinalityType
  <2>2. stats' \in Stats
    BY <1>11, <2>1, StatsStep DEF ReaperSweep
  <2>3. MapOK'
    BY <1>11 DEF ReaperSweep, MapOK
  <2>4. HistoryOK'
    BY <1>11 DEF ReaperSweep, HistoryOK
  <2>5. ReaperOK'
    BY <1>11 DEF ReaperSweep, ReaperOK
  <2> QED
    BY <1>11, <2>2, <2>3, <2>4, <2>5 DEF ReaperSweep
<1>12. CASE Tick
  <2>1. MapOK'
    BY <1>12, TimeAssumption DEF Tick, Older, AgeCap, MapOK
  <2>2. ReaperOK'
    BY <1>12 DEF Tick, ReaperOK
  <2> QED
    BY <1>12, <2>1, <2>2 DEF Tick
<1>13. CASE UNCHANGED vars
  BY <1>13 DEF vars
<1> QED
  BY <1>1, <1>2, <1>3, <1>4, <1>5, <1>6, <1>7, <1>8, <1>9, <1>10, <1>11,
     <1>12, <1>13, NextCases

\* The tracker's state has its type in every reachable state: among others, a
\* Feed call never consumes more than the copy it parses.
THEOREM TypeCorrect == Spec => []TypeOK
<1>1. Init => TypeOK
  <2> SUFFICES ASSUME Init PROVE TypeOK
    OBVIOUS
  <2>1. /\ buf \in [Key -> Seq(Unit)] /\ fed \in [Key -> Seq(Unit)]
        /\ out \in [Key -> Seq(CapturedRequest)]
    BY DEF Init
  <2>2. sent \in [Key -> Nat] /\ \A k \in Key : sent[k] <= Len(Wire[k])
    BY WireAssumption DEF Init
  <2>3. stats \in Stats
    BY DEF Init, Stats
  <2>4. age \in [Key -> Nat] /\ done \in [Key -> Nat]
    BY DEF Init
  <2>5. /\ snapshot \in Seq(Unit) /\ consumed \in 0 .. Len(snapshot)
        /\ reqs \in Seq(CapturedRequest)
    BY DEF Init
  <2> QED
    BY <2>1, <2>2, <2>3, <2>4, <2>5 DEF Init, TypeOK
<1>2. TypeOK /\ [Next]_vars => TypeOK'
  BY TypeStep
<1> QED
  BY <1>1, <1>2, PTL DEF Spec

(***************************************************************************)
(* Timing                                                                  *)
(***************************************************************************)

\* Steps that neither let time pass nor touch the map keep both invariants.
NoTime ==
  /\ UNCHANGED <<streams, age, rpc, sinceTick, panicked, key>>
  /\ \/ pc' = pc
     \/ pc' = "idle"
     \/ pc = "trim" /\ pc' = "return"
     \/ pc = "parse" /\ pc' = "trim" /\ ~panicked

\* A step of the client, or of Feed outside the map, leaves the clocks alone.
LEMMA TimeFrame ==
  ASSUME TimeInv, StallInv, NoTime
  PROVE  TimeInv' /\ StallInv'
  BY DEF TimeInv, StallInv, NoTime

\* Every step of client, reader, reaper and clock preserves the bounds on ages.
LEMMA TimeStep ==
  ASSUME TypeOK, TimeInv, StallInv, [Next]_vars
  PROVE  TimeInv' /\ StallInv'
<1> USE DEF stream, reader, reaper, client, history
<1>1. CASE UNCHANGED vars
  <2>1. NoTime
    BY <1>1 DEF vars, NoTime
  <2> QED
    BY <2>1, TimeFrame
<1>2. CASE Next
  <2>1. ~panicked
    BY <1>2, NextCases
  <2>2. ASSUME NEW k \in Key, NEW data \in Seq(Unit), FeedStore(k, data)
        PROVE  TimeInv' /\ StallInv'
    <3>1. /\ age' = [age EXCEPT ![k] = 0] /\ streams' = streams \cup {k}
          /\ pc' = "parse" /\ key' = k
          /\ UNCHANGED <<rpc, sinceTick, panicked>>
      BY <2>2 DEF FeedStore
    <3>2. TimeInv'
      <4>1. ASSUME NEW j \in streams'
            PROVE  age'[j] <= StaleAge + sinceTick' + (IF rpc' = "sweep" THEN Period ELSE 0)
        <5>1. CASE j = k
          <6>1. age'[j] = 0 /\ sinceTick' \in Nat
            <7>1. age \in [Key -> Nat] /\ sinceTick \in Nat
              BY Zenon DEF TypeOK
            <7> QED
              BY <3>1, <5>1, <7>1
          <6>2. StaleAge \in Nat /\ Period \in Nat
            BY TimeAssumption
          <6>3. (IF rpc' = "sweep" THEN Period ELSE 0) \in Nat
            BY <6>2
          <6>4. \A a, b, c \in Nat : 0 <= a + b + c
            OBVIOUS
          <6>5. 0 <= StaleAge + sinceTick' + (IF rpc' = "sweep" THEN Period ELSE 0)
            BY <6>1, <6>2, <6>3, <6>4, Zenon
          <6> QED
            BY <6>1, <6>5, Zenon
        <5>2. CASE j # k
          <6>1. age'[j] = age[j] /\ j \in streams
            <7>1. age \in [Key -> Nat] /\ streams \subseteq Key
              BY Zenon DEF TypeOK
            <7> QED
              BY <3>1, <5>2, <7>1
          <6> QED
            BY <3>1, <6>1 DEF TimeInv
        <5> QED
          BY <5>1, <5>2
      <4> QED
        BY <3>1, <4>1 DEF TimeInv
    <3>3. StallInv'
      BY <2>1, <3>1, TimeAssumption DEF TypeOK, StallInv
    <3> QED
      BY <3>2, <3>3
  <2>3. ASSUME NEW data \in Seq(Unit), FeedDrop(data)
        PROVE  TimeInv' /\ StallInv'
    <3>1. NoTime
      BY <2>3 DEF FeedDrop, NoTime
    <3> QED
      BY <3>1, TimeFrame
  <2>4. ASSUME NEW k \in Key, NEW n \in Nat, FeedEmpty(k, n) \/ Lose(k, n)
        PROVE  TimeInv' /\ StallInv'
    <3>1. NoTime
      BY <2>4 DEF FeedEmpty, Lose, NoTime
    <3> QED
      BY <3>1, TimeFrame
  <2>5. ASSUME NEW k \in Key, Abandon(k)
        PROVE  TimeInv' /\ StallInv'
    <3>1. NoTime
      BY <2>5 DEF Abandon, NoTime
    <3> QED
      BY <3>1, TimeFrame
  <2>6. CASE ParseRequest \/ ParseNone \/ ParseSome
    <3>1. NoTime
      BY <2>1, <2>6 DEF ParseRequest, ParseNone, ParseSome, LeaveLoop, EndFeed, NoTime
    <3> QED
      BY <3>1, TimeFrame
  <2>7. CASE TrimAll
    <3>1. /\ streams' = streams \ {key} /\ pc' = "return" /\ pc = "trim"
          /\ UNCHANGED <<age, rpc, sinceTick, panicked, key>>
      BY <2>7 DEF TrimAll
    <3> QED
      BY <3>1 DEF TimeInv, StallInv
  <2>8. CASE TrimSome
    <3>1. NoTime
      BY <2>8 DEF TrimSome, NoTime
    <3> QED
      BY <3>1, TimeFrame
  <2>9. CASE ParsePanic \/ TrimPanic
    <3>1. /\ pc = "parse" \/ (pc = "trim" /\ key \notin streams)
          /\ UNCHANGED <<streams, age, rpc, sinceTick, pc, key>>
      BY <2>9 DEF ParsePanic, TrimPanic
    <3> QED
      BY <3>1 DEF TimeInv, StallInv
  <2>10. CASE FeedReturn
    <3>1. NoTime
      BY <2>10 DEF FeedReturn, EndFeed, NoTime
    <3> QED
      BY <3>1, TimeFrame
  <2>11. CASE ReaperSweep
    <3>1. /\ rpc = "sweep" /\ rpc' = "wait"
          /\ streams' = streams \ {k \in streams : Stale(k)}
          /\ UNCHANGED <<age, sinceTick, panicked, pc, key>>
      BY <2>11 DEF ReaperSweep
    <3>t. streams \subseteq Key /\ age \in [Key -> Nat] /\ sinceTick \in Nat
      BY Zenon DEF TypeOK
    <3>2. TimeInv'
      BY <3>1, <3>t, TimeAssumption DEF TimeInv, Stale
    <3>3. StallInv'
      BY <3>1, <3>t, TimeAssumption DEF StallInv, Stale
    <3> QED
      BY <3>2, <3>3
  <2>12. CASE Tick
    <3>1. /\ pc # "idle" => age[key] < MaxStall
          /\ rpc = "sweep" => sinceTick < MaxLag
          /\ IF sinceTick + 1 = Period
             THEN sinceTick' = 0 /\ rpc' = "sweep"
             ELSE sinceTick' = sinceTick + 1 /\ rpc' = rpc
          /\ UNCHANGED <<streams, panicked, pc, key>>
      BY <2>12 DEF Tick
    <3>2. \A k \in Key : age'[k] \in Nat /\ age[k] <= age'[k] /\ age'[k] <= age[k] + 1
      <4>1. age \in [Key -> Nat]
        BY Zenon DEF TypeOK
      <4>2. age' = [k \in Key |-> IF Timed(k) THEN Older(age[k]) ELSE age[k]]
        BY <2>12, Zenon DEF Tick
      <4>3. \A k \in Key : age[k] \in Nat /\ age'[k] \in {age[k], Older(age[k])}
        BY <4>1, <4>2
      <4>4. \A a \in Nat : Older(a) \in {a, a + 1}
        BY DEF Older
      <4> QED
        BY <4>3, <4>4
    <3>3. TimeInv'
      <4>1. ASSUME NEW k \in streams
            PROVE  age'[k] <= StaleAge + sinceTick'
                              + (IF rpc' = "sweep" THEN Period ELSE 0)
        <5>1. /\ age[k] \in Nat /\ age'[k] \in Nat /\ age'[k] <= age[k] + 1
              /\ sinceTick \in Nat
          BY <3>2 DEF TypeOK
        <5>2. CASE rpc = "sweep"
          <6>1. age[k] <= StaleAge + sinceTick + Period
            BY <5>2 DEF TimeInv
          <6>2. sinceTick' = sinceTick + 1 /\ rpc' = "sweep"
            BY <3>1, <5>1, <5>2, TimeAssumption
          <6> QED
            BY <5>1, <6>1, <6>2, TimeAssumption
        <5>3. CASE rpc # "sweep"
          <6>1. age[k] <= StaleAge + sinceTick + 0
            BY <5>3 DEF TimeInv
          <6>2. age[k] <= StaleAge + sinceTick
            BY <5>1, <6>1, TimeAssumption
          <6>3. CASE sinceTick + 1 = Period
            BY <3>1, <5>1, <6>2, <6>3, TimeAssumption
          <6>4. CASE sinceTick + 1 # Period
            BY <3>1, <5>1, <5>3, <6>2, <6>4, TimeAssumption
          <6> QED
            BY <6>3, <6>4
        <5> QED
          BY <5>2, <5>3
      <4>2. sinceTick' < Period /\ (rpc' = "sweep" => sinceTick' <= MaxLag)
        BY <3>1, TimeAssumption DEF TypeOK, TimeInv
      <4> QED
        BY <3>1, <4>1, <4>2 DEF TimeInv
    <3>4. StallInv'
      BY <3>1, <3>2, TimeAssumption DEF TypeOK, StallInv
    <3> QED
      BY <3>3, <3>4
  <2> QED
    BY <1>2, NextCases, <2>2, <2>3, <2>4, <2>5, <2>6, <2>7, <2>8, <2>9, <2>10,
       <2>11, <2>12
<1> QED
  BY <1>1, <1>2

\* The bounds on the age of streams and of Feed calls hold throughout.
LEMMA TimeInvariant == Spec => [](TypeOK /\ TimeInv /\ StallInv)
<1>1. Init => TimeInv /\ StallInv
  BY TimeAssumption DEF Init, TimeInv, StallInv
<1>2. TypeOK /\ TimeInv /\ StallInv /\ [Next]_vars => (TimeInv /\ StallInv)'
  BY TimeStep
<1> QED
  BY <1>1, <1>2, TypeCorrect, PTL DEF Spec

\* The reaper discards every idle stream within StaleAge + Period + MaxLag of
\* its last segment, for any number of connections and any timing.
THEOREM IdleIsBounded == Spec => []BoundedIdle
<1>1. TypeOK /\ TimeInv => BoundedIdle
  <2> SUFFICES ASSUME TypeOK, TimeInv
               PROVE  BoundedIdle
    OBVIOUS
  <2>1. streams \subseteq Key /\ age \in [Key -> Nat] /\ sinceTick \in Nat
    BY Zenon DEF TypeOK
  <2> QED
    BY <2>1, TimeAssumption DEF TimeInv, BoundedIdle
<1> QED
  BY <1>1, TimeInvariant, PTL

\* If no Feed call takes longer than StaleAge (10 seconds), the agent never
\* dies in Feed's second critical section.
THEOREM NeverPanics ==
  ASSUME MaxStall <= StaleAge
  PROVE  Spec => []NoPanic
<1>1. TypeOK /\ StallInv => NoPanic
  <2> SUFFICES ASSUME TypeOK, StallInv, panicked, pc = "trim"
               PROVE  FALSE
    BY DEF NoPanic
  <2>1. age[key] > StaleAge /\ age[key] <= MaxStall /\ age[key] \in Nat
    BY DEF StallInv, TypeOK
  <2> QED
    BY <2>1, TimeAssumption
<1> QED
  BY <1>1, TimeInvariant, PTL

(***************************************************************************)
(* What kills the process                                                  *)
(***************************************************************************)

\* make panics on a Content-Length that stands in the data.
LEMMA PanicIsWild ==
  ASSUME NEW data \in Seq(Unit), parseOneRequest(data).st = "panic"
  PROVE  \E i \in 1 .. Len(data) : data[i].kind = "wildclen"
<1> DEFINE h == Least(HeaderEnds(data))
<1>1. HeaderEnds(data) # {} /\ IsWild(data, h)
  BY DEF parseOneRequest, Incomplete, ParseError
<1>2. h \in 1 .. Len(data)
  <2>1. HeaderEnds(data) \subseteq Nat
    BY DEF HeaderEnds
  <2>2. h \in HeaderEnds(data)
    BY <1>1, <2>1, LeastIsLeast
  <2> QED
    BY <2>2 DEF HeaderEnds
<1> HIDE DEF h
<1>3. ContentLengths(data, h) \subseteq 2 .. h /\ ContentLengths(data, h) \subseteq Nat
  BY <1>2 DEF ContentLengths
<1>4. PICK i : i = Least(ContentLengths(data, h))
  OBVIOUS
<1>5. i \in 2 .. h /\ data[i].kind = "wildclen"
  BY <1>1, <1>3, <1>4, LeastIsLeast DEF IsWild
<1> QED
  BY <1>2, <1>5

\* A slice of what the client of a connection wrote is what it wrote.
LEMMA OwnDrop ==
  ASSUME NEW S, NEW s \in Seq(S), NEW n \in Nat, n <= Len(s)
  PROVE  Drop(s, n) \in Seq(S)
  BY DEF Drop

\* Every step leaves a connection with bytes of its own client only.
LEMMA WildStep ==
  ASSUME TypeOK, WildInv, [Next]_vars
  PROVE  WildInv'
<1> USE DEF stream, reader, reaper, client, history
<1>1. CASE UNCHANGED vars
  BY <1>1 DEF vars, WildInv, OwnUnits
<1>2. CASE Next
  <2>0. ~panicked
    BY <1>2, NextCases
  <2>t. buf \in [Key -> Seq(Unit)] /\ key \in Key
    BY Zenon DEF TypeOK
  <2>1. ASSUME NEW k \in Key, NEW data \in Seq(Unit), FeedStore(k, data),
               data \in Seq(Wrote(k))
        PROVE  WildInv'
    <3>1. /\ buf' = [buf EXCEPT ![k] = buf[k] \o data] /\ snapshot' = buf[k] \o data
          /\ key' = k /\ panicked' = panicked
      BY <2>1 DEF FeedStore
    <3>2. buf[k] \o data \in Seq(Wrote(k))
      <4>1. buf[k] \in Seq(Wrote(k))
        BY DEF WildInv, OwnUnits
      <4> QED
        BY <2>1, <4>1
    <3>3. \A j \in Key : buf'[j] = IF j = k THEN buf[k] \o data ELSE buf[j]
      BY <2>t, <3>1
    <3>4. \A j \in Key : buf'[j] \in Seq(Wrote(j))
      BY <3>2, <3>3 DEF WildInv, OwnUnits
    <3> QED
      BY <2>0, <3>1, <3>2, <3>4 DEF WildInv, OwnUnits, Wrote
  <2>2. CASE \/ \E data \in Seq(Unit) : FeedDrop(data)
             \/ \E k \in Key, n \in Nat : FeedEmpty(k, n) \/ Lose(k, n)
             \/ \E k \in Key : Abandon(k)
             \/ ParseRequest \/ ParseSome \/ Tick
    <3>1. UNCHANGED <<buf, snapshot, key, panicked>>
      BY <2>2 DEF FeedDrop, FeedEmpty, Lose, Abandon, ParseRequest, ParseSome, Tick
    <3> QED
      BY <2>0, <3>1 DEF WildInv, OwnUnits, Wrote
  <2>3. CASE ParsePanic \/ TrimPanic
    <3>1. /\ UNCHANGED <<buf, snapshot, consumed, key, pc>> /\ pc \in {"parse", "trim"}
          /\ pc = "parse" => parseOneRequest(Drop(snapshot, consumed)).st = "panic"
      BY <2>3 DEF ParsePanic, TrimPanic
    <3> QED
      BY <3>1 DEF WildInv, OwnUnits, Wrote
  <2>4. CASE ParseNone \/ FeedReturn
    <3>1. UNCHANGED <<buf, key, panicked>> /\ snapshot' = <<>>
      BY <2>4 DEF ParseNone, FeedReturn, EndFeed
    <3>2. <<>> \in Seq(Wrote(key))
      OBVIOUS
    <3> QED
      BY <2>0, <3>1, <3>2 DEF WildInv, OwnUnits, Wrote
  <2>5. CASE TrimAll \/ TrimSome
    <3>1. PICK d : buf' = [buf EXCEPT ![key] = d] /\ d \in {<<>>, Drop(snapshot, consumed)}
      BY <2>5 DEF TrimAll, TrimSome
    <3>2. UNCHANGED <<snapshot, key, panicked>>
      BY <2>5 DEF TrimAll, TrimSome
    <3>3. Drop(snapshot, consumed) \in Seq(Wrote(key))
      <4>1. snapshot \in Seq(Wrote(key)) /\ consumed \in Nat /\ consumed <= Len(snapshot)
        BY DEF TypeOK, WildInv, OwnUnits
      <4> QED
        BY <4>1, OwnDrop
    <3>4. d \in Seq(Wrote(key))
      <4>1. <<>> \in Seq(Wrote(key))
        OBVIOUS
      <4> QED
        BY <3>1, <3>3, <4>1, Zenon
    <3>5. \A j \in Key : buf'[j] = IF j = key THEN d ELSE buf[j]
      BY <2>t, <3>1
    <3>6. \A j \in Key : buf'[j] \in Seq(Wrote(j))
      BY <3>4, <3>5 DEF WildInv, OwnUnits
    <3> QED
      BY <2>0, <3>2, <3>6 DEF WildInv, OwnUnits, Wrote
  <2>6. CASE ReaperSweep
    <3>1. \A j \in Key : buf'[j] \in {<<>>, buf[j]}
      BY <2>6 DEF ReaperSweep
    <3>2. UNCHANGED <<snapshot, key, panicked>>
      BY <2>6 DEF ReaperSweep
    <3>3. ASSUME NEW j \in Key PROVE buf'[j] \in Seq(Wrote(j))
      <4>1. <<>> \in Seq(Wrote(j))
        OBVIOUS
      <4>2. buf[j] \in Seq(Wrote(j))
        BY Zenon DEF WildInv, OwnUnits
      <4>3. buf'[j] = <<>> \/ buf'[j] = buf[j]
        BY <3>1
      <4> QED
        BY <4>1, <4>2, <4>3, Zenon
    <3> QED
      BY <2>0, <3>2, <3>3 DEF WildInv, OwnUnits, Wrote
  <2> QED
    BY <1>2, NextCases, <2>1, <2>2, <2>3, <2>4, <2>5, <2>6
<1> QED
  BY <1>1, <1>2

\* If Feed dereferences a stream the reaper has deleted, that call had already
\* run for longer than StaleAge; the only other death is by a Content-Length of
\* the very connection that is parsed.  No assumption on MaxStall.
THEOREM PanicIsExplained == Spec => []PanicExplained
<1>1. Init => WildInv
  <2> SUFFICES ASSUME Init PROVE WildInv
    OBVIOUS
  <2>1. \A k \in Key : buf[k] = <<>> /\ <<>> \in Seq(Wrote(k))
    BY DEF Init
  <2>2. snapshot = <<>> /\ <<>> \in Seq(Wrote(key)) /\ panicked = FALSE
    BY DEF Init
  <2> QED
    BY <2>1, <2>2 DEF WildInv, OwnUnits
<1>2. TypeOK /\ WildInv /\ [Next]_vars => WildInv'
  BY WildStep
<1>3. TypeOK /\ StallInv /\ WildInv => PanicExplained
  <2> SUFFICES ASSUME TypeOK, StallInv, WildInv, panicked, pc # "trim"
               PROVE  pc = "parse" /\ \E i \in 1 .. Len(Wire[key]) :
                                        Wire[key][i].kind = "wildclen"
    BY DEF PanicExplained, StallInv
  <2>1. pc = "parse" /\ parseOneRequest(Drop(snapshot, consumed)).st = "panic"
    BY DEF WildInv
  <2>2. snapshot \in Seq(Wrote(key)) /\ snapshot \in Seq(Unit)
        /\ consumed \in Nat /\ consumed <= Len(snapshot)
    BY DEF TypeOK, WildInv, OwnUnits
  <2>3. PICK d \in Seq(Unit) : d = Drop(snapshot, consumed)
    BY <2>2, DropType
  <2>4. d \in Seq(Wrote(key))
    BY <2>2, <2>3, OwnDrop
  <2>5. PICK i \in 1 .. Len(d) : d[i].kind = "wildclen"
    BY <2>1, <2>3, PanicIsWild
  <2>6. d[i] \in Wrote(key)
    BY <2>4, <2>5
  <2> QED
    BY <2>1, <2>5, <2>6 DEF Wrote
<1> QED
  BY <1>1, <1>2, <1>3, TypeCorrect, TimeInvariant, PTL DEF Spec

(***************************************************************************)
(* What the buffers hold                                                   *)
(***************************************************************************)

TailInv == StreamIsTail /\ PartialInv

\* The reaper leaves the stream of a running Feed call alone.
LEMMA FeedKeepsStream ==
  ASSUME MaxStall <= StaleAge, TypeOK, StallInv
  PROVE  /\ pc \in {"parse", "trim"} => key \in streams
         /\ pc # "idle" => ~Stale(key)
  BY TimeAssumption DEF TypeOK, StallInv, Stale

\* Steps that leave the buffers and the copy alone.
NoBytes ==
  /\ UNCHANGED <<streams, buf, fed, done>>
  /\ \/ UNCHANGED <<pc, key, snapshot, consumed, reqs>>
     \/ pc' = "idle" /\ pc = "return" /\ consumed' = 0

\* A step that touches neither buffers, copy nor history preserves both
\* halves of the buffer invariant.
LEMMA TailFrame ==
  ASSUME TypeOK, TailInv, NoBytes
  PROVE  TailInv'
<1>1. StreamIsTail'
  BY DEF TailInv, NoBytes, StreamIsTail, InFeed
<1>2. PartialInv'
  BY DEF TailInv, NoBytes, PartialInv, InFeed
<1> QED
  BY <1>1, <1>2 DEF TailInv

\* Every step of client, reader, reaper and clock keeps buffers equal to the
\* unconsumed tail of what Feed stored.
LEMMA TailStep ==
  ASSUME TypeOK, TailInv, [Next]_vars
  PROVE  TailInv'
<1> USE DEF stream, reader, reaper, client, history
<1>1. CASE UNCHANGED vars
  <2>1. NoBytes
    BY <1>1 DEF vars, NoBytes
  <2> QED
    BY <2>1, TailFrame
<1>2. CASE Next
  <2>1. ASSUME NEW k \in Key, NEW data \in Seq(Unit), FeedStore(k, data)
        PROVE  TailInv'
    <3>1. /\ pc = "idle" /\ pc' = "parse" /\ key' = k
          /\ streams' = streams \cup {k}
          /\ buf' = [buf EXCEPT ![k] = buf[k] \o data]
          /\ fed' = [fed EXCEPT ![k] = fed[k] \o data]
          /\ snapshot' = buf[k] \o data
          /\ consumed' = 0 /\ reqs' = <<>>
          /\ UNCHANGED <<done, panicked>>
      BY <2>1 DEF FeedStore
    <3>2. /\ fed[k] \in Seq(Unit) /\ done[k] \in Nat /\ done[k] <= Len(fed[k])
          /\ buf[k] = Drop(fed[k], done[k])
      BY DEF TypeOK, TailInv, StreamIsTail
    <3>3. buf[k] \o data = Drop(fed[k] \o data, done[k])
      BY <3>2, DropConcat
    <3>4. done[k] <= Len(fed[k] \o data)
      BY <3>2
    <3>5. StreamIsTail'
      <4>1. ASSUME NEW j \in Key, j # k
            PROVE  buf'[j] = buf[j] /\ fed'[j] = fed[j] /\ (j \in streams' <=> j \in streams)
        BY <3>1, <4>1 DEF TypeOK
      <4>2. buf'[k] = buf[k] \o data /\ fed'[k] = fed[k] \o data
        BY <3>1 DEF TypeOK
      <4> QED
        BY <3>1, <3>3, <3>4, <4>1, <4>2 DEF TailInv, StreamIsTail, InFeed
    <3>6. PartialInv'
      <4>1. ASSUME NEW j \in streams, j # k PROVE buf'[j] = buf[j]
        BY <3>1, <4>1 DEF TypeOK
      <4> QED
        BY <3>1, <4>1 DEF TailInv, PartialInv, InFeed
    <3> QED
      BY <3>1, <3>5, <3>6 DEF TailInv
  <2>2. ASSUME NEW data \in Seq(Unit), FeedDrop(data)
        PROVE  TailInv'
    <3>1. NoBytes
      BY <2>2 DEF FeedDrop, NoBytes
    <3> QED
      BY <3>1, TailFrame
  <2>3. ASSUME NEW k \in Key, NEW n \in Nat, FeedEmpty(k, n) \/ Lose(k, n)
        PROVE  TailInv'
    <3>1. NoBytes
      BY <2>3 DEF FeedEmpty, Lose, NoBytes
    <3> QED
      BY <3>1, TailFrame
  <2>4. ASSUME NEW k \in Key, Abandon(k)
        PROVE  TailInv'
    <3>1. NoBytes
      BY <2>4 DEF Abandon, NoBytes
    <3> QED
      BY <3>1, TailFrame
  <2>5. CASE ParseRequest
    <3>1. /\ pc = "parse" /\ UNCHANGED <<streams, buf, fed, done, panicked, pc, key, snapshot>>
      BY <2>5 DEF ParseRequest
    <3>2. reqs' # <<>>
      <4>1. PICK r \in CapturedRequest : reqs' = Append(reqs, r)
        BY <2>5, ParseInFeed DEF ParseRequest
      <4> QED
        BY <4>1 DEF TypeOK
    <3>3. StreamIsTail'
      BY <3>1 DEF TailInv, StreamIsTail, InFeed
    <3>4. PartialInv'
      BY <3>1, <3>2 DEF TailInv, PartialInv, InFeed
    <3> QED
      BY <3>3, <3>4 DEF TailInv
  <2>6. CASE ParseNone
    <3>1. /\ pc = "parse" /\ pc' = "idle" /\ reqs = <<>> /\ consumed' = 0
          /\ NotReady(Drop(snapshot, consumed))
          /\ UNCHANGED <<streams, buf, fed, done, panicked, key>>
      BY <2>6 DEF ParseNone, LeaveLoop, EndFeed, NotReady
    <3>2. /\ snapshot \in Seq(Unit) /\ consumed = 0
          /\ key \in streams => snapshot = buf[key]
      BY <3>1 DEF TypeOK, TailInv, PartialInv, StreamIsTail, InFeed
    <3>3. key \in streams => NotReady(buf[key])
      BY <3>1, <3>2, DropEnds
    <3>4. StreamIsTail'
      BY <3>1 DEF TailInv, StreamIsTail, InFeed
    <3>5. PartialInv'
      BY <3>1, <3>3 DEF TailInv, PartialInv, InFeed
    <3> QED
      BY <3>4, <3>5 DEF TailInv
  <2>7. CASE ParseSome
    <3>1. /\ pc = "parse" /\ pc' = "trim"
          /\ NotReady(Drop(snapshot, consumed))
          /\ UNCHANGED <<streams, buf, fed, done, panicked, key, snapshot, consumed, reqs>>
      BY <2>7 DEF ParseSome, LeaveLoop, NotReady
    <3>2. StreamIsTail'
      BY <3>1 DEF TailInv, StreamIsTail, InFeed
    <3>3. PartialInv'
      BY <3>1 DEF TailInv, PartialInv, InFeed
    <3> QED
      BY <3>2, <3>3 DEF TailInv
  <2>8. CASE TrimAll
    <3>1. /\ pc = "trim" /\ pc' = "return" /\ consumed >= Len(snapshot)
          /\ streams' = streams \ {key}
          /\ buf' = [buf EXCEPT ![key] = <<>>]
          /\ done' = [done EXCEPT ![key] = Len(fed[key])]
          /\ UNCHANGED <<fed, panicked, key, snapshot, consumed, reqs>>
      BY <2>8 DEF TrimAll
    <3>2. fed[key] \in Seq(Unit) /\ Len(fed[key]) \in Nat
      BY DEF TypeOK
    <3>4. Drop(fed[key], Len(fed[key])) = <<>>
      BY <3>2, DropEnds
    <3>5. StreamIsTail'
      <4>1. buf \in [Key -> Seq(Unit)] /\ done \in [Key -> Nat] /\ key \in Key
        BY Zenon DEF TypeOK
      <4>2. buf'[key] = <<>> /\ done'[key] = Len(fed[key])
        BY <3>1, <4>1
      <4>3. \A k \in Key \ {key} : buf'[k] = buf[k] /\ done'[k] = done[k]
                                  /\ (k \in streams' <=> k \in streams)
        BY <3>1, <4>1
      <4> QED
        BY <3>1, <3>2, <3>4, <4>1, <4>2, <4>3 DEF TailInv, StreamIsTail, InFeed
    <3>6. PartialInv'
      BY <3>1 DEF TypeOK, TailInv, PartialInv, InFeed
    <3> QED
      BY <3>1, <3>5, <3>6 DEF TailInv
  <2>9. CASE TrimSome
    <3>1. /\ pc = "trim" /\ pc' = "return" /\ consumed < Len(snapshot)
          /\ key \in streams
          /\ buf' = [buf EXCEPT ![key] = Drop(snapshot, consumed)]
          /\ done' = [done EXCEPT ![key] = done[key] + consumed]
          /\ UNCHANGED <<streams, fed, panicked, key, snapshot, consumed, reqs>>
      BY <2>9 DEF TrimSome
    <3>2. /\ fed[key] \in Seq(Unit) /\ done[key] \in Nat /\ done[key] <= Len(fed[key])
          /\ snapshot = Drop(fed[key], done[key])
          /\ consumed \in Nat /\ consumed < Len(snapshot)
      BY <3>1 DEF TypeOK, TailInv, StreamIsTail, InFeed
    <3>3. Len(snapshot) = Len(fed[key]) - done[key]
      BY <3>2, DropType
    <3>4. Drop(snapshot, consumed) = Drop(fed[key], done[key] + consumed)
      <4>1. done[key] + consumed <= Len(fed[key])
        BY <3>2, <3>3
      <4> QED
        BY <3>2, <4>1, DropDrop
    <3>5. done[key] + consumed <= Len(fed[key])
      BY <3>2, <3>3
    <3>6. StreamIsTail'
      BY <3>1, <3>4, <3>5 DEF TypeOK, TailInv, StreamIsTail, InFeed
    <3>7. PartialInv'
      BY <3>1 DEF TypeOK, TailInv, PartialInv, InFeed
    <3> QED
      BY <3>1, <3>6, <3>7 DEF TailInv
  <2>10. CASE ParsePanic \/ TrimPanic
    <3>1. NoBytes
      BY <2>10 DEF ParsePanic, TrimPanic, NoBytes
    <3> QED
      BY <3>1, TailFrame
  <2>11. CASE FeedReturn
    <3>1. NoBytes
      BY <2>11 DEF FeedReturn, EndFeed, NoBytes
    <3> QED
      BY <3>1, TailFrame
  <2>12. CASE ReaperSweep
    <3> DEFINE old == {k \in streams : Stale(k)}
    <3>1. /\ streams' = streams \ old
          /\ buf' = [k \in Key |-> IF k \in old THEN <<>> ELSE buf[k]]
          /\ done' = [k \in Key |-> IF k \in old THEN Len(fed[k]) ELSE done[k]]
          /\ UNCHANGED <<fed, panicked, pc, key, snapshot, consumed, reqs>>
      BY <2>12 DEF ReaperSweep
    <3>3. ASSUME NEW k \in Key, k \in old
          PROVE  /\ done'[k] = Len(fed[k]) /\ Len(fed[k]) \in Nat
                 /\ buf'[k] = Drop(fed[k], done'[k])
      <4>1. fed[k] \in Seq(Unit)
        BY DEF TypeOK
      <4>2. Drop(fed[k], Len(fed[k])) = <<>>
        BY <4>1, DropEnds
      <4> QED
        BY <3>1, <3>3, <4>1, <4>2
    <3>4. ASSUME NEW k \in Key, k \notin old
          PROVE  done'[k] = done[k] /\ buf'[k] = buf[k] /\ (k \in streams' <=> k \in streams)
      BY <3>1, <3>4
    <3> HIDE DEF old
    <3>5. StreamIsTail'
      BY <3>1, <3>3, <3>4 DEF TailInv, StreamIsTail, InFeed
    <3>6. PartialInv'
      BY <3>1, <3>4 DEF TypeOK, TailInv, PartialInv, InFeed
    <3> QED
      BY <3>1, <3>5, <3>6 DEF TailInv
  <2>13. CASE Tick
    <3>1. NoBytes
      BY <2>13 DEF Tick, NoBytes
    <3> QED
      BY <3>1, TailFrame
  <2> QED
    BY <1>2, NextCases, <2>1, <2>2, <2>3, <2>4, <2>5, <2>6, <2>7, <2>8, <2>9,
       <2>10, <2>11, <2>12, <2>13
<1> QED
  BY <1>1, <1>2

\* Buffers are tails throughout and hold no complete request that Feed is not
\* working on.
LEMMA TailInvariant == Spec => [](TypeOK /\ TimeInv /\ StallInv /\ TailInv)
<1>1. Init => TailInv
  <2> SUFFICES ASSUME Init PROVE TailInv
    OBVIOUS
  <2>1. Drop(<<>>, 0) = <<>>
    BY DEF Drop
  <2> QED
    BY <2>1 DEF Init, TailInv, StreamIsTail, PartialInv, InFeed
<1>2. TypeOK /\ TailInv /\ [Next]_vars => TailInv'
  BY TailStep
<1> QED
  BY <1>1, <1>2, TimeInvariant, PTL DEF Spec

\* Parsing outside the lock loses and repeats nothing, for every segmentation,
\* loss, retransmission and interleaving, and however long a Feed call takes.
THEOREM BuffersAreTails == Spec => []StreamIsTail
<1>1. TailInv => StreamIsTail
  BY DEF TailInv
<1> QED
  BY <1>1, TailInvariant, PTL

\* If no Feed call takes longer than StaleAge, the reaper only ever discards a stream that does
\* not start with a complete request.
THEOREM ReapsOnlyPartial ==
  ASSUME MaxStall <= StaleAge
  PROVE  Spec => ReapedOnlyPartial
<1>1. ASSUME TypeOK, StallInv, TailInv, [Next]_vars
      PROVE  [\A k \in streams \ streams' :
                stats'.reap # stats.reap => parseOneRequest(buf[k]).st # "ok"]_vars
  <2> USE DEF stream, reader, reaper, client, history
  <2>1. CASE UNCHANGED vars
    BY <2>1
  <2>2. CASE Next
    <3> USE <1>1
    <3> SUFFICES ASSUME NEW k \in streams \ streams', stats'.reap # stats.reap
                 PROVE  parseOneRequest(buf[k]).st # "ok"
      OBVIOUS
    <3>1. stats \in Stats
      BY DEF TypeOK
    <3>2. streams' # streams
      OBVIOUS
    <3>3. CASE TrimAll
      BY <3>3 DEF TrimAll
    <3>4. CASE ReaperSweep
      <4>1. Stale(k)
        BY <3>4 DEF ReaperSweep
      <4>2. ~(InFeed(k) /\ pc \in {"parse", "trim"})
        BY <4>1, FeedKeepsStream DEF InFeed
      <4> QED
        BY <4>2 DEF TailInv, PartialInv, NotReady
    <3>5. ASSUME NEW j \in Key, NEW data \in Seq(Unit), FeedStore(j, data)
          PROVE  FALSE
      BY <3>5 DEF FeedStore
    <3> QED
      BY <2>2, <3>2, <3>3, <3>4, <3>5, NextCases
         DEF FeedDrop, FeedEmpty, Lose, Abandon, ParseRequest, ParsePanic, ParseNone,
             ParseSome, TrimSome, TrimPanic, FeedReturn, Tick
  <2> QED
    BY <1>1, <2>1, <2>2
<1> QED
  BY <1>1, TailInvariant, PTL DEF Spec, ReapedOnlyPartial

(***************************************************************************)
(* Framing: where the parser cuts a stream that goes on arriving           *)
(***************************************************************************)

\* The least element is the only one that is below all others.
LEMMA LeastIs ==
  ASSUME NEW S, S \subseteq Nat, NEW m \in S, \A j \in S : m <= j
  PROVE  Least(S) = m
<1>1. Least(S) \in S /\ \A j \in S : Least(S) <= j
  BY LeastIsLeast
<1>2. Least(S) <= m /\ m <= Least(S) /\ Least(S) \in Nat /\ m \in Nat
  BY <1>1
<1> HIDE DEF Least
<1> QED
  BY <1>2

\* A request found at the front of a buffer is the request found there when
\* more has arrived: how a stream is cut into segments does not matter.
LEMMA ParseExtends ==
  ASSUME NEW d \in Seq(Unit), NEW e \in Seq(Unit), Len(d) <= Len(e),
         \A i \in 1 .. Len(d) : e[i] = d[i],
         parseOneRequest(d).st = "ok"
  PROVE  parseOneRequest(e) = parseOneRequest(d)
<1> DEFINE h == Least(HeaderEnds(d))
           f == FirstLineEnd(d)
           c == ContentLength(d, h)
<1>1. HeaderEnds(d) # {} /\ HasTwoParts(d) /\ ~IsWild(d, h) /\ ~(Len(d) < h + 1 + c)
  BY DEF parseOneRequest, Incomplete, ParseError, MakePanics
<1>2. h \in HeaderEnds(d) /\ \A j \in HeaderEnds(d) : h <= j
  <2>1. HeaderEnds(d) \subseteq Nat
    BY DEF HeaderEnds
  <2> QED
    BY <1>1, <2>1, LeastIsLeast
<1>3. h \in 1 .. Len(d) /\ h + 1 <= Len(d) /\ EndsLine(d[h]) /\ d[h + 1].kind = "blank"
  BY <1>2 DEF HeaderEnds
<1> HIDE DEF h
<1>4. HeaderEnds(e) \subseteq Nat /\ h \in HeaderEnds(e) /\ Least(HeaderEnds(e)) = h
  <2>1. HeaderEnds(e) \subseteq Nat
    BY DEF HeaderEnds
  <2>2. h \in HeaderEnds(e)
    <3>1. h \in 1 .. Len(e) /\ h + 1 <= Len(e) /\ h + 1 \in 1 .. Len(d)
      BY <1>3
    <3> QED
      BY <1>3, <3>1 DEF HeaderEnds
  <2>3. ASSUME NEW j \in HeaderEnds(e) PROVE h <= j
    <3>1. j \in Nat /\ j \in 1 .. Len(e) /\ EndsLine(e[j]) /\ e[j + 1].kind = "blank"
      BY DEF HeaderEnds
    <3>2. j < h => j \in HeaderEnds(d)
      <4> SUFFICES ASSUME j < h PROVE j \in HeaderEnds(d)
        OBVIOUS
      <4>1. j \in 1 .. Len(d) /\ j + 1 \in 1 .. Len(d) /\ j + 1 <= Len(d)
        BY <1>3, <3>1
      <4> QED
        BY <3>1, <4>1 DEF HeaderEnds
    <3> QED
      BY <1>2, <1>3, <3>1, <3>2
  <2> QED
    BY <2>1, <2>2, <2>3, LeastIs
<1>5. f \in 1 .. h /\ FirstLineEnd(e) = f
  <2> DEFINE L == {i \in 1 .. Len(d) : EndsLine(d[i])}
             M == {i \in 1 .. Len(e) : EndsLine(e[i])}
  <2>1. h \in L /\ L \subseteq Nat /\ M \subseteq Nat
    BY <1>3
  <2>2. Least(L) \in L /\ \A j \in L : Least(L) <= j
    <3> HIDE DEF L
    <3> QED  BY <2>1, LeastIsLeast
  <2>3. f = Least(L) /\ FirstLineEnd(e) = Least(M)
    BY DEF FirstLineEnd
  <2> HIDE DEF f
  <2>4. f \in 1 .. Len(d) /\ EndsLine(d[f]) /\ f <= h /\ \A j \in L : f <= j
    BY <2>1, <2>2, <2>3
  <2>5. f \in M
    BY <2>4
  <2>6. ASSUME NEW j \in M PROVE f <= j
    <3>1. j \in Nat /\ j >= 1 /\ EndsLine(e[j])
      OBVIOUS
    <3>2. j < f => j \in 1 .. Len(d)
      BY <2>4, <3>1
    <3>3. j < f => j \in L
      BY <3>1, <3>2
    <3> QED
      BY <2>4, <3>1, <3>3
  <2>7. Least(M) = f
    <3> HIDE DEF M
    <3> QED  BY <2>1, <2>5, <2>6, LeastIs
  <2> QED
    BY <2>3, <2>4, <2>7, <1>3
<1>6. HasTwoParts(e)
  <2>1. PICK i \in 1 .. f : Spaced(d[i])
    BY <1>1 DEF HasTwoParts
  <2> HIDE DEF f
  <2>2. i \in 1 .. Len(d)
    BY <1>3, <1>5
  <2>3. Spaced(e[i]) /\ i \in 1 .. FirstLineEnd(e)
    BY <1>5, <2>1, <2>2
  <2> QED
    BY <2>3 DEF HasTwoParts
<1>7. ContentLength(e, h) = c /\ ~IsWild(e, h)
  <2>1. ASSUME NEW i \in 2 .. h PROVE e[i] = d[i] /\ e[i - 1] = d[i - 1]
    <3>1. i \in 1 .. Len(d) /\ i - 1 \in 1 .. Len(d)
      BY <1>3
    <3> QED
      BY <3>1
  <2>2. ContentLengths(e, h) = ContentLengths(d, h)
    BY <2>1 DEF ContentLengths
  <2>3. ContentLengths(d, h) # {} => Least(ContentLengths(d, h)) \in 2 .. h
    <3>1. ContentLengths(d, h) \subseteq 2 .. h /\ ContentLengths(d, h) \subseteq Nat
      BY <1>3 DEF ContentLengths
    <3> QED
      BY <3>1, LeastIsLeast
  <2>4. ContentLengths(d, h) # {} =>
          e[Least(ContentLengths(d, h))] = d[Least(ContentLengths(d, h))]
    BY <2>1, <2>3
  <2> QED
    BY <1>1, <2>2, <2>4 DEF ContentLength, IsWild
<1>8. c \in Nat
  <2>1. ContentLengths(d, h) \subseteq 2 .. h /\ ContentLengths(d, h) \subseteq Nat
    BY <1>3 DEF ContentLengths
  <2>2. ContentLengths(d, h) # {} => Least(ContentLengths(d, h)) \in 1 .. Len(d)
    BY <1>3, <2>1, LeastIsLeast
  <2>3. ContentLengths(d, h) # {} => d[Least(ContentLengths(d, h))] \in Unit
    BY <2>2
  <2> QED
    BY <2>3 DEF ContentLength, Unit
<1> HIDE DEF c, f
<1>9. SubSeq(e, 1, f) = SubSeq(d, 1, f)
  BY <1>3, <1>5
<1>10. SubSeq(e, h + 2, h + 1 + c) = SubSeq(d, h + 2, h + 1 + c)
  BY <1>1, <1>3, <1>8
<1>11. ~(Len(e) < h + 1 + c)
  BY <1>1, <1>3, <1>8
<1>12. parseOneRequest(d) =
         [st |-> "ok", n |-> h + 1 + c,
          req |-> [line |-> SubSeq(d, 1, f), body |-> SubSeq(d, h + 2, h + 1 + c)]]
  BY <1>1 DEF h, c, f, parseOneRequest
<1>13. parseOneRequest(e) =
         [st |-> "ok", n |-> h + 1 + c,
          req |-> [line |-> SubSeq(e, 1, f), body |-> SubSeq(e, h + 2, h + 1 + c)]]
  BY <1>4, <1>5, <1>6, <1>7, <1>11 DEF parseOneRequest
<1> QED
  BY <1>9, <1>10, <1>12, <1>13


\* A slice of the wire: its type, its length and its elements.
LEMMA SliceType ==
  ASSUME NEW w \in Seq(Unit), NEW b \in Nat, NEW s \in Nat, b <= s, s <= Len(w)
  PROVE  /\ SubSeq(w, b + 1, s) \in Seq(Unit)
         /\ Len(SubSeq(w, b + 1, s)) = s - b
         /\ \A i \in 1 .. s - b : SubSeq(w, b + 1, s)[i] = w[b + i]
  OBVIOUS

\* What is left of the first s units after the first b.
LEMMA SliceDrop ==
  ASSUME NEW w \in Seq(Unit), NEW b \in Nat, NEW s \in Nat, b <= s, s <= Len(w)
  PROVE  Drop(SubSeq(w, 1, s), b) = SubSeq(w, b + 1, s)
  BY DEF Drop

\* The next segment continues what has arrived.
LEMMA SliceGrows ==
  ASSUME NEW w \in Seq(Unit), NEW s \in Nat, NEW n \in Nat, s + n <= Len(w)
  PROVE  SubSeq(w, 1, s) \o SubSeq(w, s + 1, s + n) = SubSeq(w, 1, s + n)
  OBVIOUS

\* A longer slice from the same place starts with the shorter one.
LEMMA SliceExtends ==
  ASSUME NEW w \in Seq(Unit), NEW b \in Nat, NEW s \in Nat, NEW t \in Nat,
         b <= s, s <= t, t <= Len(w),
         parseOneRequest(SubSeq(w, b + 1, s)).st = "ok"
  PROVE  parseOneRequest(SubSeq(w, b + 1, t)) = parseOneRequest(SubSeq(w, b + 1, s))
<1> DEFINE d == SubSeq(w, b + 1, s)
           e == SubSeq(w, b + 1, t)
<1>1. d \in Seq(Unit) /\ Len(d) = s - b /\ \A i \in 1 .. s - b : d[i] = w[b + i]
  BY SliceType
<1>2. e \in Seq(Unit) /\ Len(e) = t - b /\ \A i \in 1 .. t - b : e[i] = w[b + i]
  <2>1. b <= t
    OBVIOUS
  <2> QED
    BY <2>1, SliceType
<1> HIDE DEF d, e
<1>3. Len(d) <= Len(e) /\ \A i \in 1 .. Len(d) : e[i] = d[i]
  BY <1>1, <1>2
<1>4. parseOneRequest(d).st = "ok"
  BY DEF d
<1>5. parseOneRequest(e) = parseOneRequest(d)
  BY <1>1, <1>2, <1>3, <1>4, ParseExtends
<1> QED
  BY <1>5 DEF d, e

\* The bounds of a Prompt connection.
LEMMA BoundType ==
  ASSUME NEW k \in Key, WellFramed(k), NEW m \in Nat, m <= Len(Request[k])
  PROVE  /\ Wire[k] \in Seq(Unit) /\ Len(Wire[k]) \in Nat
         /\ Len(Request[k]) \in Nat /\ Request[k] \in Seq(CapturedRequest)
         /\ Bound[k][m + 1] \in Nat /\ Bound[k][m + 1] <= Len(Wire[k])
         /\ m < Len(Request[k]) =>
              /\ Bound[k][m + 2] \in Nat /\ Bound[k][m + 2] <= Len(Wire[k])
              /\ Bound[k][m + 1] < Bound[k][m + 2]
<1>1. Wire[k] \in Seq(Unit) /\ Request[k] \in Seq(CapturedRequest)
      /\ Bound[k] \in Seq(Nat) /\ Len(Bound[k]) = Len(Request[k]) + 1
  BY WireAssumption, BoundAssumption
<1>2. Len(Wire[k]) \in Nat /\ Len(Request[k]) \in Nat /\ Len(Bound[k]) \in Nat
  BY <1>1
<1>3. \A i \in 1 .. Len(Bound[k]) : Bound[k][i] \in Nat
  BY <1>1
<1>4. /\ Bound[k][Len(Bound[k])] <= Len(Wire[k])
      /\ \A i, j \in 1 .. Len(Bound[k]) : i < j => Bound[k][i] < Bound[k][j]
  BY DEF WellFramed
<1>5. \A i \in 1 .. Len(Bound[k]) : Bound[k][i] <= Len(Wire[k])
  <2> SUFFICES ASSUME NEW i \in 1 .. Len(Bound[k])
               PROVE  Bound[k][i] <= Len(Wire[k])
    OBVIOUS
  <2>1. i = Len(Bound[k]) \/ i < Len(Bound[k])
    BY <1>2
  <2>2. Len(Bound[k]) \in 1 .. Len(Bound[k])
    BY <1>2
  <2> QED
    BY <1>2, <1>3, <1>4, <2>1, <2>2
<1>6. m + 1 \in 1 .. Len(Bound[k])
  BY <1>1, <1>2
<1>7. m < Len(Request[k]) => m + 2 \in 1 .. Len(Bound[k]) /\ m + 1 < m + 2
  BY <1>1, <1>2
<1> QED
  BY <1>1, <1>2, <1>3, <1>4, <1>5, <1>6, <1>7

\* From the end of m requests, a connection shows the parser the next one as
\* soon as all of it has arrived, ...
LEMMA NextIsFound ==
  ASSUME NEW k \in Key, WellFramed(k), NEW m \in Nat, m < Len(Request[k]),
         NEW s \in Nat, Bound[k][m + 2] <= s, s <= Len(Wire[k])
  PROVE  parseOneRequest(SubSeq(Wire[k], Bound[k][m + 1] + 1, s)) =
           [st |-> "ok", n |-> Bound[k][m + 2] - Bound[k][m + 1],
            req |-> Request[k][m + 1]]
<1> DEFINE b == Bound[k][m + 1]
           t == Bound[k][m + 2]
<1>1. Wire[k] \in Seq(Unit) /\ Len(Wire[k]) \in Nat /\ Len(Request[k]) \in Nat
      /\ b \in Nat /\ t \in Nat /\ b < t /\ t <= Len(Wire[k])
  <2>1. Len(Request[k]) \in Nat /\ m <= Len(Request[k])
    BY BoundAssumption
  <2> QED
    BY <2>1, BoundType
<1>2. parseOneRequest(SubSeq(Wire[k], b + 1, t)) =
        [st |-> "ok", n |-> t - b, req |-> Request[k][m + 1]]
  <2>1. m + 1 \in 1 .. Len(Request[k]) /\ (m + 1) + 1 = m + 2
    BY <1>1
  <2> QED
    BY <2>1 DEF WellFramed
<1> HIDE DEF b, t
<1>3. parseOneRequest(SubSeq(Wire[k], b + 1, s)) =
        parseOneRequest(SubSeq(Wire[k], b + 1, t))
  <2>1. parseOneRequest(SubSeq(Wire[k], b + 1, t)).st = "ok"
    BY <1>2
  <2>2. b <= t /\ t <= s
    BY <1>1 DEF t
  <2> QED
    BY <1>1, <2>1, <2>2, SliceExtends
<1> QED
  BY <1>2, <1>3 DEF b, t

\* ... and none before.
LEMMA NextIsPartial ==
  ASSUME NEW k \in Key, WellFramed(k), NEW m \in Nat, m <= Len(Request[k]),
         NEW s \in Nat, Bound[k][m + 1] <= s, s <= Len(Wire[k]),
         m = Len(Request[k]) \/ s < Bound[k][m + 2]
  PROVE  NotReady(SubSeq(Wire[k], Bound[k][m + 1] + 1, s))
<1> DEFINE b == Bound[k][m + 1]
           d == SubSeq(Wire[k], b + 1, s)
<1>1. Wire[k] \in Seq(Unit) /\ Len(Wire[k]) \in Nat /\ Len(Request[k]) \in Nat
      /\ b \in Nat /\ b <= Len(Wire[k])
  BY BoundType
<1>2. d \in Seq(Unit) /\ Len(d) = s - b
  <2> HIDE DEF b
  <2>1. b <= s
    BY DEF b
  <2> QED
    BY <1>1, <2>1, SliceType
<1>3. SUFFICES ASSUME parseOneRequest(d).st = "ok"
               PROVE  FALSE
  BY DEF NotReady
<1>4. parseOneRequest(d).n \in 1 .. s - b
  BY <1>2, <1>3, ParseType
<1>5. CASE m = Len(Request[k])
  <2>1. b = Bound[k][Len(Bound[k])]
    BY <1>5, BoundAssumption
  <2>2. NotReady(SubSeq(Wire[k], b + 1, Len(Wire[k])))
    BY <2>1, Zenon DEF WellFramed
  <2>3. parseOneRequest(SubSeq(Wire[k], b + 1, Len(Wire[k]))) = parseOneRequest(d)
    <3> HIDE DEF b
    <3>1. b <= s
      BY DEF b
    <3> QED
      BY <1>1, <1>3, <3>1, SliceExtends
  <2> QED
    BY <1>3, <2>2, <2>3 DEF NotReady
<1>6. CASE m < Len(Request[k]) /\ s < Bound[k][m + 2]
  <2> DEFINE t == Bound[k][m + 2]
  <2>1. t \in Nat /\ b < t /\ t <= Len(Wire[k])
    BY <1>6, BoundType
  <2>2. parseOneRequest(SubSeq(Wire[k], b + 1, t)).n = t - b
    <3>1. parseOneRequest(SubSeq(Wire[k], b + 1, t)) =
            [st |-> "ok", n |-> t - b, req |-> Request[k][m + 1]]
      BY <1>6, <2>1, NextIsFound
    <3> QED
      BY <3>1
  <2>3. parseOneRequest(SubSeq(Wire[k], b + 1, t)) = parseOneRequest(d)
    <3>1. b <= s /\ s <= t
      BY <1>6, <2>1
    <3>2. parseOneRequest(SubSeq(Wire[k], b + 1, s)).st = "ok"
      BY <1>3
    <3> HIDE DEF b, t
    <3>3. parseOneRequest(SubSeq(Wire[k], b + 1, t))
            = parseOneRequest(SubSeq(Wire[k], b + 1, s))
      BY <1>1, <2>1, <3>1, <3>2, SliceExtends
    <3> QED
      BY <3>3
  <2> QED
    BY <1>1, <1>4, <1>6, <2>1, <2>2, <2>3
<1> QED
  BY <1>1, <1>5, <1>6

\* How many requests are complete, from the bounds around what has been sent.
LEMMA CompleteIs ==
  ASSUME TypeOK, NEW k \in Key, WellFramed(k), NEW m \in Nat, m <= Len(Request[k]),
         Bound[k][m + 1] <= sent[k],
         m = Len(Request[k]) \/ sent[k] < Bound[k][m + 2]
  PROVE  Complete(k) = m
<1> DEFINE C == {i \in 1 .. Len(Request[k]) : Bound[k][i + 1] <= sent[k]}
<1>1. Len(Request[k]) \in Nat /\ sent[k] \in Nat
  BY BoundType DEF TypeOK
<1>2. ASSUME NEW i \in 1 .. Len(Request[k])
      PROVE  Bound[k][i + 1] <= sent[k] <=> i \in 1 .. m
  <2>1. Bound[k][i + 1] \in Nat /\ Bound[k][m + 1] \in Nat
    <3>1. i \in Nat /\ i <= Len(Request[k])
      BY <1>1
    <3> QED
      BY <3>1, BoundType
  <2>2. \A p, q \in 1 .. Len(Bound[k]) : p < q => Bound[k][p] < Bound[k][q]
    BY DEF WellFramed
  <2>3. Len(Bound[k]) = Len(Request[k]) + 1
    BY BoundAssumption
  <2>4. i <= m \/ i > m
    BY <1>1
  <2>5. CASE i <= m
    <3>1. i + 1 \in 1 .. Len(Bound[k]) /\ m + 1 \in 1 .. Len(Bound[k])
          /\ (i = m \/ i + 1 < m + 1)
      BY <1>1, <2>3, <2>5
    <3>2. Bound[k][i + 1] <= Bound[k][m + 1]
      BY <2>1, <2>2, <3>1
    <3> QED
      BY <1>1, <2>1, <2>5, <3>2
  <2>6. CASE i > m
    <3>1. i + 1 \in 1 .. Len(Bound[k]) /\ m + 2 \in 1 .. Len(Bound[k])
          /\ (i + 1 = m + 2 \/ m + 2 < i + 1) /\ m < Len(Request[k])
      BY <1>1, <2>3, <2>6
    <3>2. Bound[k][m + 2] \in Nat
      BY <3>1, BoundType
    <3>3. Bound[k][m + 2] <= Bound[k][i + 1]
      <4>1. CASE i + 1 = m + 2
        BY <3>2, <4>1
      <4>2. CASE m + 2 < i + 1
        <5>1. Bound[k][m + 2] < Bound[k][i + 1]
          BY <2>2, <3>1, <4>2
        <5> QED
          BY <2>1, <3>2, <5>1
      <4> QED
        BY <3>1, <4>1, <4>2
    <3>4. sent[k] < Bound[k][m + 2]
      BY <3>1, <1>1
    <3> QED
      BY <1>1, <2>1, <2>6, <3>2, <3>3, <3>4
  <2> QED
    BY <2>4, <2>5, <2>6
<1>3. C = 1 .. m
  <2>1. \A i \in 1 .. m : i \in 1 .. Len(Request[k])
    BY <1>1
  <2> QED
    BY <1>2, <2>1
<1>4. Cardinality(1 .. m) = m
  <2>1. Cardinality(1 .. m) = IF 1 > m THEN 0 ELSE m - 1 + 1
    BY FS_Interval
  <2> QED
    BY <2>1
<1> QED
  BY <1>3, <1>4 DEF Complete


\* Nothing of connection k changes but, perhaps, the age of its stream.
LEMMA FrameKept ==
  ASSUME NEW k \in Key, Framed(k), Fresh(k)',
         fed'[k] = fed[k], sent'[k] = sent[k], out'[k] = out[k],
         Pending(k)' = Pending(k), Offset(k)' = Offset(k),
         Closed(k) => Closed(k)',
         InFeed(k) /\ pc = "parse" => (InFeed(k) /\ pc = "parse")'
  PROVE  Framed(k)'
<1>1. Got(k)' = Got(k)
  BY DEF Got
<1>2. Complete(k)' = Complete(k)
  BY DEF Complete
<1>3. (Got(k)' = Got(k) /\ Complete(k)' = Complete(k)) =>
        (~(InFeed(k) /\ pc = "parse") => Got(k) = Complete(k))'
  BY DEF Framed
<1> QED
  BY <1>1, <1>2, <1>3 DEF Framed

\* Steps of Feed on another connection.
LEMMA FrameAside ==
  ASSUME NEW k \in Key, Framed(k), ~InFeed(k), ~InFeed(k)',
         fed'[k] = fed[k], sent'[k] = sent[k], out'[k] = out[k],
         done'[k] = done[k], age'[k] = age[k],
         k \in streams' <=> k \in streams, gone' = gone
  PROVE  Framed(k)'
<1>1. Pending(k)' = Pending(k) /\ Offset(k)' = Offset(k)
  BY DEF Pending, Offset
<1>2. Closed(k) => Closed(k)'
  BY DEF Closed
<1>3. Fresh(k)'
  BY DEF Framed, Fresh
<1> QED
  BY <1>1, <1>2, <1>3, FrameKept

\* Steps of the clients that bring nothing of k to Feed.
LEMMA FrameClient ==
  ASSUME NEW k \in Key, Framed(k), UNCHANGED <<stream, reader, history>>,
         sent'[k] = sent[k], gone \subseteq gone'
  PROVE  Framed(k)'
<1> USE DEF stream, reader, history
<1>1. Pending(k)' = Pending(k) /\ Offset(k)' = Offset(k)
  BY DEF Pending, Offset, InFeed
<1>2. Closed(k) => Closed(k)'
  BY DEF Closed, InFeed
<1>3. Fresh(k)'
  BY DEF Framed, Fresh
<1> QED
  BY <1>1, <1>2, <1>3, FrameKept DEF InFeed

\* One more request of the list.
LEMMA AppendPrefix ==
  ASSUME NEW S, NEW a \in Seq(S), NEW b \in Seq(S), NEW w \in Seq(S),
         Len(a) + Len(b) < Len(w), a \o b = SubSeq(w, 1, Len(a) + Len(b))
  PROVE  a \o Append(b, w[Len(a) + Len(b) + 1]) = SubSeq(w, 1, Len(a) + Len(b) + 1)
<1> DEFINE g == Len(a) + Len(b)
           r == w[g + 1]
<1>1. g \in Nat /\ r \in S /\ g + 1 <= Len(w)
  OBVIOUS
<1>2. a \o Append(b, r) = Append(a \o b, r)
  BY <1>1
<1>3. Append(SubSeq(w, 1, g), r) = SubSeq(w, 1, g + 1)
  BY <1>1
<1> QED
  BY <1>2, <1>3

\* Where Feed's loop stands on a Prompt connection.
LEMMA InLoop ==
  ASSUME TypeOK, TailInv, NEW k \in Key, WellFramed(k), Framed(k),
         pc = "parse", key = k, key \in streams,
         NEW g \in Nat, g = Len(out[k]) + Len(reqs)
  PROVE  /\ g <= Len(Request[k]) /\ sent[k] \in Nat /\ sent[k] <= Len(Wire[k])
         /\ out[k] \o reqs = SubSeq(Request[k], 1, g)
         /\ Bound[k][g + 1] = done[k] + consumed /\ Bound[k][g + 1] <= sent[k]
         /\ Drop(snapshot, consumed) = SubSeq(Wire[k], Bound[k][g + 1] + 1, sent[k])
<1>1. InFeed(k) /\ Pending(k) = reqs /\ Got(k) = g /\ Offset(k) = done[k] + consumed
      /\ ~Closed(k)
  BY DEF InFeed, Pending, Got, Offset, Closed
<1>2. /\ g <= Len(Request[k]) /\ out[k] \o reqs = SubSeq(Request[k], 1, g)
      /\ Bound[k][g + 1] = done[k] + consumed
      /\ fed[k] = SubSeq(Wire[k], 1, sent[k])
  BY <1>1 DEF Framed
<1>3. /\ fed[k] \in Seq(Unit) /\ done[k] \in Nat /\ done[k] <= Len(fed[k])
      /\ snapshot = Drop(fed[k], done[k]) /\ consumed \in 0 .. Len(snapshot)
      /\ sent[k] \in Nat /\ sent[k] <= Len(Wire[k])
  BY <1>1 DEF TypeOK, TailInv, StreamIsTail
<1>4. Len(snapshot) = Len(fed[k]) - done[k]
  BY <1>3, DropType
<1>5. Wire[k] \in Seq(Unit) /\ Len(fed[k]) = sent[k]
  BY <1>2, <1>3, WireAssumption
<1>6. consumed \in Nat /\ done[k] + consumed \in Nat /\ done[k] + consumed <= sent[k]
  <2>1. Len(snapshot) = sent[k] - done[k] /\ consumed \in 0 .. Len(snapshot)
        /\ done[k] \in Nat /\ sent[k] \in Nat
    BY <1>3, <1>4, <1>5
  <2> QED
    BY <2>1
<1>7. Drop(snapshot, consumed) = Drop(fed[k], done[k] + consumed)
  BY <1>3, <1>5, <1>6, DropDrop
<1>8. PICK b \in Nat : b = done[k] + consumed
  BY <1>6
<1>9. Drop(SubSeq(Wire[k], 1, sent[k]), b) = SubSeq(Wire[k], b + 1, sent[k])
  BY <1>3, <1>5, <1>6, <1>8, SliceDrop
<1> QED
  BY <1>2, <1>3, <1>6, <1>7, <1>8, <1>9


\* Feed takes every segment of a printable connection for HTTP: if all of the
\* units it examines are printable, four fifths of them are.
LEMMA SegmentAccepted ==
  ASSUME NEW k \in Key, Printable(k), NEW s \in Nat, NEW n \in Nat,
         s + n <= Len(Wire[k])
  PROVE  Accepts(Segment(k, s, n))
<1> DEFINE d == SubSeq(Wire[k], s + 1, s + n)
           check == IF Len(d) > Window THEN Window ELSE Len(d)
<1>1. Wire[k] \in Seq(Unit) /\ s + n \in Nat /\ s <= s + n
  BY WireAssumption
<1>2. Len(d) = (s + n) - s /\ \A i \in 1 .. (s + n) - s : d[i] = Wire[k][s + i]
  BY <1>1, SliceType
<1>3. Len(d) = n /\ \A i \in 1 .. n : d[i] = Wire[k][s + i]
  BY <1>2
<1>4. \A i \in 1 .. n : d[i].kind # "bin"
  <2> SUFFICES ASSUME NEW i \in 1 .. n PROVE d[i].kind # "bin"
    OBVIOUS
  <2>1. s + i \in 1 .. Len(Wire[k])
    BY <1>1
  <2> QED
    BY <1>3, <2>1 DEF Printable
<1> HIDE DEF d
<1>5. PICK c \in Nat : c = check /\ c <= n
  BY <1>3, SizeAssumption
<1>6. {i \in 1 .. c : d[i].kind # "bin"} = 1 .. c
  BY <1>4, <1>5
<1>7. Cardinality(1 .. c) = c
  <2>1. Cardinality(1 .. c) = IF 1 > c THEN 0 ELSE c - 1 + 1
    BY FS_Interval
  <2> QED
    BY <2>1
<1>8. looksLikeContinuation(d, Window)
  <2>1. c * 10 >= c * 8
    OBVIOUS
  <2> QED
    BY <1>5, <1>6, <1>7, <2>1 DEF looksLikeContinuation
<1> QED
  BY <1>8 DEF d, Accepts, Segment

\* Feed stores the next segment of k: what has arrived grows at its end, and
\* the loop starts where the last request ended.
LEMMA FrameStore ==
  ASSUME TypeOK, NEW k \in Key, Printable(k), Framed(k),
         NEW n \in 1 .. MaxSeg, FeedNext(k, n)
  PROVE  Framed(k)'
<1>1. PICK s \in Nat : s = sent[k]
  BY DEF TypeOK
<1>2. /\ k \notin gone /\ n \in Nat /\ n >= 1 /\ s + n <= Len(Wire[k])
      /\ sent' = [sent EXCEPT ![k] = s + n] /\ gone' = gone
  BY <1>1, SizeAssumption DEF FeedNext, Advance, CanSend
<1>3. Wire[k] \in Seq(Unit) /\ Len(Wire[k]) \in Nat
  BY WireAssumption
<1>4. Accepts(Segment(k, s, n))
  BY <1>2, SegmentAccepted
<1>5. FeedStore(k, Segment(k, s, n))
  <2>1. Feed(k, Segment(k, sent[k], n))
    BY DEF FeedNext
  <2>2. Segment(k, sent[k], n) = Segment(k, s, n)
    BY <1>1 DEF Segment
  <2> QED
    BY <1>4, <2>1, <2>2 DEF Feed, FeedDrop, FeedStore
<1>6. PICK d \in Seq(Unit) : d = SubSeq(Wire[k], s + 1, s + n)
  <2>1. s + n \in Nat /\ s <= s + n
    BY <1>2
  <2>2. SubSeq(Wire[k], s + 1, s + n) \in Seq(Unit)
    BY <1>2, <1>3, <2>1, SliceType
  <2> QED
    BY <2>2
<1>7. /\ pc = "idle" /\ pc' = "parse" /\ key' = k /\ consumed' = 0 /\ reqs' = <<>>
      /\ fed' = [fed EXCEPT ![k] = fed[k] \o d] /\ age' = [age EXCEPT ![k] = 0]
      /\ UNCHANGED <<out, done>>
  BY <1>5, <1>6 DEF FeedStore, Segment
<1>8. sent'[k] = s + n /\ age'[k] = 0 /\ fed'[k] = fed[k] \o d
  BY <1>2, <1>7 DEF TypeOK
<1>9. fed'[k] = SubSeq(Wire[k], 1, s + n)
  <2>1. fed[k] = SubSeq(Wire[k], 1, s)
    BY <1>1 DEF Framed
  <2> QED
    BY <1>2, <1>3, <1>6, <1>8, <2>1, SliceGrows
<1>10. /\ ~InFeed(k) /\ Pending(k) = <<>> /\ Offset(k) = done[k]
       /\ InFeed(k)' /\ Pending(k)' = <<>> /\ Offset(k)' = done[k]
  BY <1>7 DEF InFeed, Pending, Offset, TypeOK
<1>11. ~Closed(k)
  BY <1>1, <1>2, <1>3 DEF Closed
<1>12. Got(k)' = Got(k)
  BY <1>7, <1>10 DEF Got
<1>13. Fresh(k)'
  BY <1>8, TimeAssumption DEF Fresh
<1>14. /\ Got(k)' <= Len(Request[k])
       /\ (out[k] \o Pending(k))' = SubSeq(Request[k], 1, Got(k)')
       /\ Offset(k)' = Bound[k][Got(k)' + 1]
  BY <1>7, <1>10, <1>11, <1>12 DEF Framed
<1> QED
  BY <1>7, <1>8, <1>9, <1>10, <1>13, <1>14 DEF Framed

\* A packet of another connection, stored or dropped.
LEMMA FrameOther ==
  ASSUME TypeOK, NEW k \in Key, Framed(k), NEW j \in Key, j # k, NEW data,
         Feed(j, data), sent'[k] = sent[k], gone' = gone
  PROVE  Framed(k)'
<1>1. CASE FeedStore(j, data)
  <2>1. /\ pc = "idle" /\ pc' = "parse" /\ key' = j
        /\ streams' = streams \cup {j}
        /\ age' = [age EXCEPT ![j] = 0]
        /\ fed' = [fed EXCEPT ![j] = @ \o data]
        /\ UNCHANGED <<out, done>>
    BY <1>1 DEF FeedStore
  <2>2. ~InFeed(k) /\ ~InFeed(k)'
    BY <2>1 DEF InFeed
  <2>3. age'[k] = age[k] /\ fed'[k] = fed[k] /\ (k \in streams' <=> k \in streams)
    BY <2>1 DEF TypeOK
  <2> QED
    BY <2>1, <2>2, <2>3, FrameAside
<1>2. CASE FeedDrop(data)
  <2>1. UNCHANGED <<stream, reader, history>>
    BY <1>2 DEF FeedDrop
  <2> QED
    BY <2>1, FrameClient
<1> QED
  BY <1>1, <1>2 DEF Feed

\* A step of Feed past its first critical section, on another connection.
LEMMA FrameElsewhere ==
  ASSUME TypeOK, NEW k \in Key, Framed(k), ReaderStep, key # k
  PROVE  Framed(k)'
<1> USE DEF stream, reader, reaper, client, history
<1>1. key' = key /\ age' = age /\ sent' = sent /\ gone' = gone /\ fed' = fed
  BY DEF ReaderStep, ParseRequest, ParsePanic, ParseNone, ParseSome, TrimAll, TrimSome,
         TrimPanic, FeedReturn, EndFeed
<1>2. ~InFeed(k) /\ ~InFeed(k)'
  BY <1>1 DEF InFeed
<1>3. k \in streams' <=> k \in streams
  BY DEF ReaderStep, ParseRequest, ParsePanic, ParseNone, ParseSome, TrimAll, TrimSome,
         TrimPanic, FeedReturn, TypeOK
<1>4. out'[k] = out[k]
  <2>1. out' = out \/ out' = [out EXCEPT ![key] = @ \o reqs]
    BY DEF ReaderStep, ParseRequest, ParsePanic, ParseNone, ParseSome, TrimAll, TrimSome,
           TrimPanic, FeedReturn
  <2> QED
    BY <2>1 DEF TypeOK
<1>5. done'[k] = done[k]
  <2>1. \/ done' = done
        \/ done' = [done EXCEPT ![key] = @ + consumed]
        \/ done' = [done EXCEPT ![key] = Len(fed[key])]
    BY DEF ReaderStep, ParseRequest, ParsePanic, ParseNone, ParseSome, TrimAll, TrimSome,
           TrimPanic, FeedReturn
  <2> QED
    BY <2>1 DEF TypeOK
<1> QED
  BY <1>1, <1>2, <1>3, <1>4, <1>5, FrameAside

\* The loop finds a request of k: it is the next one, whole.
LEMMA FrameRequest ==
  ASSUME TypeOK, TailInv, NEW k \in Key, WellFramed(k), Framed(k),
         ParseRequest, key = k, key \in streams
  PROVE  Framed(k)'
<1> USE DEF stream, reader, reaper, client, history
<1>1. PICK p : p = parseOneRequest(Drop(snapshot, consumed))
  OBVIOUS
<1>2. /\ pc = "parse" /\ p.st = "ok" /\ reqs' = Append(reqs, p.req)
      /\ consumed' = consumed + p.n
      /\ UNCHANGED <<streams, age, pc, key, sent, gone, out, fed, done>>
  BY <1>1 DEF ParseRequest
<1>3. out[k] \in Seq(CapturedRequest) /\ reqs \in Seq(CapturedRequest)
      /\ done[k] \in Nat /\ consumed \in Nat
  BY DEF TypeOK
<1>4. PICK g \in Nat : g = Len(out[k]) + Len(reqs)
  BY <1>3
<1>5. /\ g <= Len(Request[k]) /\ sent[k] \in Nat /\ sent[k] <= Len(Wire[k])
      /\ out[k] \o reqs = SubSeq(Request[k], 1, g)
      /\ Bound[k][g + 1] = done[k] + consumed /\ Bound[k][g + 1] <= sent[k]
      /\ Drop(snapshot, consumed) = SubSeq(Wire[k], Bound[k][g + 1] + 1, sent[k])
  BY <1>2, <1>4, InLoop
<1>6. Len(Request[k]) \in Nat /\ Request[k] \in Seq(CapturedRequest)
      /\ Bound[k][g + 1] \in Nat
      /\ (g < Len(Request[k]) => Bound[k][g + 2] \in Nat)
  BY <1>5, BoundType
<1>7. g < Len(Request[k]) /\ Bound[k][g + 2] <= sent[k]
  <2>1. ~(g = Len(Request[k]) \/ sent[k] < Bound[k][g + 2])
    BY <1>1, <1>2, <1>5, NextIsPartial DEF NotReady
  <2> QED
    BY <1>5, <1>6, <2>1
<1>8. p = [st |-> "ok", n |-> Bound[k][g + 2] - Bound[k][g + 1], req |-> Request[k][g + 1]]
  BY <1>1, <1>5, <1>7, NextIsFound
<1>9. done[k] + consumed' = Bound[k][g + 2] /\ reqs' = Append(reqs, Request[k][g + 1])
  <2>1. consumed' = consumed + (Bound[k][g + 2] - Bound[k][g + 1])
        /\ reqs' = Append(reqs, Request[k][g + 1])
    BY <1>2, <1>8
  <2>2. done[k] + (consumed + (Bound[k][g + 2] - Bound[k][g + 1])) = Bound[k][g + 2]
    <3>1. PICK x \in Nat : x = Bound[k][g + 2]
      BY <1>6, <1>7
    <3>2. PICK a \in Nat, b \in Nat : a = done[k] /\ b = consumed
      BY <1>3
    <3>3. a + (b + (x - (a + b))) = x
      OBVIOUS
    <3> QED
      BY <1>5, <3>1, <3>2, <3>3
  <2> QED
    BY <2>1, <2>2, Zenon
<1>10. out[k] \o reqs' = SubSeq(Request[k], 1, g + 1)
  BY <1>3, <1>4, <1>5, <1>6, <1>7, <1>9, AppendPrefix
<1>11. Len(reqs') = Len(reqs) + 1 /\ Len(out[k]) + Len(reqs') = g + 1
  <2>1. Request[k][g + 1] \in CapturedRequest
    BY <1>6, <1>7
  <2>2. Len(Append(reqs, Request[k][g + 1])) = Len(reqs) + 1
    BY <1>3, <2>1
  <2>3. Len(out[k]) \in Nat /\ Len(reqs) \in Nat
    BY <1>3
  <2>4. Len(reqs') = Len(reqs) + 1
    BY <1>9, <2>2, Zenon
  <2>5. Len(out[k]) + (Len(reqs) + 1) = (Len(out[k]) + Len(reqs)) + 1
    <3>1. PICK a \in Nat, b \in Nat : a = Len(out[k]) /\ b = Len(reqs)
      BY <2>3
    <3>2. a + (b + 1) = (a + b) + 1
      OBVIOUS
    <3> QED
      BY <3>1, <3>2, Zenon
  <2> QED
    BY <1>4, <2>4, <2>5, Zenon
<1>12. InFeed(k)' /\ Pending(k)' = reqs' /\ Offset(k)' = done[k] + consumed'
  BY <1>2 DEF InFeed, Pending, Offset
<1>13. Got(k)' = g + 1
  BY <1>2, <1>11, <1>12 DEF Got
<1>14. Fresh(k)'
  BY <1>2 DEF Framed, Fresh
<1>15. fed'[k] = SubSeq(Wire[k], 1, sent'[k])
  BY <1>2 DEF Framed
<1>16. g + 1 <= Len(Request[k]) /\ g + 1 + 1 = g + 2
  BY <1>6, <1>7
<1> QED
  BY <1>2, <1>9, <1>10, <1>12, <1>13, <1>14, <1>15, <1>16 DEF Framed

\* The loop ends on k: every request that has arrived whole has been found.
LEMMA FrameLeave ==
  ASSUME TypeOK, TailInv, NEW k \in Key, WellFramed(k), Framed(k),
         ParseNone \/ ParseSome, key = k, key \in streams
  PROVE  Framed(k)'
<1> USE DEF stream, reader, reaper, client, history
<1>1. /\ pc = "parse" /\ NotReady(Drop(snapshot, consumed))
      /\ UNCHANGED <<streams, age, key, sent, gone, out, fed, done>>
      /\ \/ pc' = "idle" /\ reqs = <<>> /\ reqs' = <<>> /\ consumed' = 0
         \/ pc' = "trim" /\ reqs' = reqs /\ consumed' = consumed
  BY DEF ParseNone, ParseSome, LeaveLoop, EndFeed, NotReady
<1>2. out[k] \in Seq(CapturedRequest) /\ reqs \in Seq(CapturedRequest)
      /\ done[k] \in Nat /\ consumed \in Nat
  BY DEF TypeOK
<1>3. PICK g \in Nat : g = Len(out[k]) + Len(reqs)
  BY <1>2
<1>4. /\ g <= Len(Request[k]) /\ sent[k] \in Nat /\ sent[k] <= Len(Wire[k])
      /\ Bound[k][g + 1] <= sent[k]
      /\ Drop(snapshot, consumed) = SubSeq(Wire[k], Bound[k][g + 1] + 1, sent[k])
  BY <1>1, <1>3, InLoop
<1>5. g = Len(Request[k]) \/ sent[k] < Bound[k][g + 2]
  <2>1. Len(Request[k]) \in Nat
        /\ (g < Len(Request[k]) => Bound[k][g + 2] \in Nat)
    BY <1>4, BoundType
  <2>2. SUFFICES ASSUME g < Len(Request[k]), Bound[k][g + 2] <= sent[k]
                 PROVE  FALSE
    BY <1>4, <2>1
  <2>3. parseOneRequest(Drop(snapshot, consumed)) =
          [st |-> "ok", n |-> Bound[k][g + 2] - Bound[k][g + 1], req |-> Request[k][g + 1]]
    BY <1>4, <2>2, NextIsFound
  <2> QED
    BY <1>1, <2>3 DEF NotReady
<1>6. Complete(k) = g
  BY <1>4, <1>5, CompleteIs
<1>7. InFeed(k) /\ Pending(k) = reqs /\ Got(k) = g /\ Offset(k) = done[k] + consumed
      /\ ~Closed(k)
  BY <1>1, <1>3 DEF InFeed, Pending, Got, Offset, Closed
<1>8. Complete(k)' = g
  BY <1>1, <1>6 DEF Complete
<1>9. Pending(k)' = reqs
  BY <1>1 DEF Pending, InFeed
<1>10. Offset(k)' = done[k] + consumed
  <2>1. pc' = "idle" => consumed = 0
    BY <1>1 DEF TailInv, PartialInv
  <2> QED
    BY <1>1, <1>2, <2>1 DEF Offset, InFeed
<1>11. Got(k)' = g
  BY <1>1, <1>3, <1>9 DEF Got
<1>12. Fresh(k)'
  BY <1>1 DEF Framed, Fresh
<1>13. /\ fed[k] = SubSeq(Wire[k], 1, sent[k]) /\ g <= Len(Request[k])
       /\ out[k] \o reqs = SubSeq(Request[k], 1, g)
       /\ done[k] + consumed = Bound[k][g + 1]
  BY <1>7 DEF Framed
<1> QED
  BY <1>1, <1>8, <1>9, <1>10, <1>11, <1>12, <1>13 DEF Framed

\* Feed writes the rest of k back, or deletes the drained stream.
LEMMA FrameTrim ==
  ASSUME TypeOK, TailInv, NEW k \in Key, Framed(k), TrimAll \/ TrimSome,
         key = k, key \in streams
  PROVE  Framed(k)'
<1> USE DEF stream, reader, reaper, client, history
<1>1. /\ pc = "trim" /\ pc' = "return"
      /\ UNCHANGED <<age, key, consumed, reqs, sent, gone, out, fed>>
      /\ streams' \subseteq streams
  BY DEF TrimAll, TrimSome
<1>2. done'[k] = done[k] + consumed
  <2>1. CASE TrimSome
    BY <2>1 DEF TrimSome, TypeOK
  <2>2. CASE TrimAll
    <3>1. /\ fed[k] \in Seq(Unit) /\ done[k] \in Nat /\ done[k] <= Len(fed[k])
          /\ snapshot = Drop(fed[k], done[k])
      BY <1>1 DEF TypeOK, TailInv, StreamIsTail, InFeed
    <3>2. Len(snapshot) = Len(fed[k]) - done[k]
      BY <3>1, DropType
    <3>3. consumed = Len(snapshot)
      BY <2>2 DEF TrimAll, TypeOK
    <3>4. done'[k] = Len(fed[k])
      BY <2>2 DEF TrimAll, TypeOK
    <3> QED
      BY <3>1, <3>2, <3>3, <3>4
  <2> QED
    BY <2>1, <2>2
<1>3. Pending(k)' = Pending(k) /\ Offset(k)' = Offset(k)
  <2>1. done'[k] + 0 = done'[k]
    BY <1>2 DEF TypeOK
  <2> QED
    BY <1>1, <1>2, <2>1 DEF Pending, Offset, InFeed
<1>4. ~Closed(k)
  BY <1>1 DEF Closed, InFeed
<1>5. Fresh(k)'
  BY <1>1 DEF Framed, Fresh
<1> QED
  BY <1>1, <1>3, <1>4, <1>5, FrameKept

\* Feed returns: what it cut from k is handed to mirror.Send.
LEMMA FrameReturn ==
  ASSUME TypeOK, NEW k \in Key, Framed(k), FeedReturn, key = k
  PROVE  Framed(k)'
<1> USE DEF stream, reader, reaper, client, history
<1>1. /\ pc = "return" /\ pc' = "idle"
      /\ out' = [out EXCEPT ![k] = out[k] \o reqs]
      /\ UNCHANGED <<streams, age, key, sent, gone, fed, done>>
  BY DEF FeedReturn, EndFeed
<1>2. out[k] \in Seq(CapturedRequest) /\ reqs \in Seq(CapturedRequest)
      /\ out'[k] = out[k] \o reqs
  BY <1>1 DEF TypeOK
<1>3. InFeed(k) /\ Pending(k) = reqs /\ ~Closed(k) /\ ~InFeed(k)' /\ Pending(k)' = <<>>
  BY <1>1 DEF InFeed, Pending, Closed
<1>4. Offset(k)' = Offset(k)
  BY <1>1 DEF Offset, InFeed
<1>5. (out[k] \o Pending(k))' = out[k] \o Pending(k)
  <2>1. (out[k] \o reqs) \o <<>> = out[k] \o reqs
    BY <1>2
  <2> QED
    BY <1>2, <1>3, <2>1
<1>6. Got(k)' = Got(k)
  BY <1>2, <1>3 DEF Got
<1>7. Complete(k)' = Complete(k)
  BY <1>1 DEF Complete
<1>8. Fresh(k)'
  BY <1>1 DEF Framed, Fresh
<1>9. Got(k) = Complete(k)
  BY <1>1 DEF Framed
<1> QED
  BY <1>1, <1>3, <1>4, <1>5, <1>6, <1>7, <1>8, <1>9 DEF Framed

\* The reaper takes a stream of a Prompt connection only when no more comes.
LEMMA FrameSweep ==
  ASSUME MaxStall <= StaleAge, ClientGap <= StaleAge, TypeOK, StallInv,
         NEW k \in Key, Framed(k), ReaperSweep
  PROVE  Framed(k)'
<1> USE DEF stream, reader, reaper, client, history
<1> DEFINE old == {j \in streams : Stale(j)}
<1>1. /\ streams' = streams \ old
      /\ done' = [j \in Key |-> IF j \in old THEN Len(fed[j]) ELSE done[j]]
      /\ UNCHANGED <<age, pc, key, snapshot, consumed, reqs, sent, gone, out, fed>>
  BY DEF ReaperSweep
<1>2. Fresh(k)'
  BY <1>1 DEF Framed, Fresh
<1>3. Pending(k)' = Pending(k) /\ (InFeed(k)' <=> InFeed(k))
  BY <1>1 DEF Pending, InFeed
<1>4. CASE k \notin old
  <2>1. done'[k] = done[k]
    BY <1>1, <1>4
  <2>2. Offset(k)' = Offset(k)
    BY <1>1, <2>1 DEF Offset, InFeed
  <2>3. Closed(k) => Closed(k)'
    BY <1>1, <1>3 DEF Closed
  <2> QED
    BY <1>1, <1>2, <1>3, <2>2, <2>3, FrameKept
<1>5. CASE k \in old
  <2>1. ~InFeed(k)
    BY <1>5, FeedKeepsStream DEF InFeed
  <2>2. k \in gone \/ sent[k] = Len(Wire[k])
    <3>1. age[k] \in Nat /\ sinceTick \in Nat /\ age[k] - sinceTick > StaleAge
      BY <1>5 DEF TypeOK, Stale
    <3>2. ~(age[k] <= ClientGap)
      BY <3>1, TimeAssumption
    <3>3. ~(k \notin gone /\ sent[k] < Len(Wire[k]))
      BY <1>5, <3>2 DEF Framed, Fresh
    <3>4. sent[k] \in Nat /\ sent[k] <= Len(Wire[k]) /\ Len(Wire[k]) \in Nat
      BY WireAssumption DEF TypeOK
    <3> QED
      BY <3>3, <3>4
  <2>3. Closed(k)'
    BY <1>1, <1>3, <1>5, <2>1, <2>2 DEF Closed
  <2>4. Got(k)' = Got(k)
    BY <1>1, <1>3 DEF Got
  <2>5. Complete(k)' = Complete(k)
    BY <1>1 DEF Complete
  <2>6. Got(k) = Complete(k)
    BY <2>1 DEF Framed
  <2> QED
    BY <1>1, <1>2, <1>3, <2>3, <2>4, <2>5, <2>6 DEF Framed
<1> QED
  BY <1>4, <1>5

\* Time passes.
LEMMA FrameTick ==
  ASSUME TypeOK, NEW k \in Prompt, Framed(k), Tick
  PROVE  Framed(k)'
<1> USE DEF stream, reader, reaper, client, history
<1>1. /\ InTime(k) /\ k \in Key
      /\ age' = [j \in Key |-> IF Timed(j) THEN Older(age[j]) ELSE age[j]]
      /\ UNCHANGED <<streams, pc, key, snapshot, consumed, reqs, sent, gone, out, fed, done>>
  BY KeyAssumption DEF Tick
<1>2. Pending(k)' = Pending(k) /\ Offset(k)' = Offset(k)
      /\ (InFeed(k)' <=> InFeed(k)) /\ (Closed(k)' <=> Closed(k))
  BY <1>1 DEF Pending, Offset, InFeed, Closed
<1>3. age[k] \in Nat /\ age'[k] <= age[k] + 1
  BY <1>1, TimeAssumption DEF Older, AgeCap, TypeOK
<1>4. Fresh(k)'
  <2> SUFFICES ASSUME k \in streams, k \notin gone, sent[k] < Len(Wire[k])
               PROVE  age'[k] <= ClientGap
    BY <1>1 DEF Fresh
  <2>1. age[k] < ClientGap
    BY <1>1 DEF InTime
  <2>2. age'[k] \in Nat
    BY <1>1, TimeAssumption DEF Older, AgeCap, TypeOK
  <2> QED
    BY <1>3, <2>1, <2>2, TimeAssumption
<1> QED
  BY <1>1, <1>2, <1>4, FrameKept


\* Every step keeps a Prompt connection framed.
LEMMA FrameStep ==
  ASSUME MaxStall <= StaleAge, ClientGap <= StaleAge,
         TypeOK, StallInv, TailInv, [Next]_vars,
         NEW k \in Prompt, WellFramed(k), Printable(k), Framed(k)
  PROVE  Framed(k)'
<1>1. k \in Key
  BY KeyAssumption
<1>2. CASE UNCHANGED vars
  BY <1>1, <1>2, FrameClient DEF vars, client
<1>3. ASSUME NEW j \in Key, NEW n \in 1 .. MaxSeg, FeedNext(j, n)
      PROVE  Framed(k)'
  <2>1. CASE j = k
    BY <1>1, <1>3, <2>1, FrameStore
  <2>2. CASE j # k
    <3>1. PICK data : data = Segment(j, sent[j], n)
      OBVIOUS
    <3>2. Feed(j, data)
      BY <1>3, <3>1 DEF FeedNext, Feed, FeedStore, FeedDrop
    <3>3. sent' = [sent EXCEPT ![j] = @ + n] /\ gone' = gone
      BY <1>3 DEF FeedNext, Advance
    <3>4. sent'[k] = sent[k]
      BY <1>1, <2>2, <3>3 DEF TypeOK
    <3> QED
      BY <1>1, <2>2, <3>2, <3>3, <3>4, FrameOther
  <2> QED
    BY <2>1, <2>2
<1>4. ASSUME NEW j \in Key, NEW n \in 1 .. MaxSeg, FeedAgain(j, n)
      PROVE  Framed(k)'
  <2>1. PICK data : data = Segment(j, sent[j] - n, n)
    OBVIOUS
  <2>2. Feed(j, data)
    BY <1>4, <2>1 DEF FeedAgain, Feed, FeedStore, FeedDrop
  <2>3. j # k /\ sent' = sent /\ gone' = gone
    BY <1>4 DEF FeedAgain, Again, CanFail
  <2> QED
    BY <1>1, <2>2, <2>3, FrameOther
<1>5. ASSUME NEW j \in Key, NEW n \in 1 .. MaxSeg, FeedEmpty(j, n) \/ Lose(j, n)
      PROVE  Framed(k)'
  <2>1. /\ j # k /\ UNCHANGED <<stream, reader, history>> /\ gone' = gone
        /\ sent' = [sent EXCEPT ![j] = @ + n]
    BY <1>5 DEF FeedEmpty, Lose, CanFail
  <2>2. sent'[k] = sent[k]
    BY <1>1, <2>1 DEF TypeOK
  <2> QED
    BY <1>1, <2>1, <2>2, FrameClient
<1>6. ASSUME NEW j \in Key, Abandon(j)
      PROVE  Framed(k)'
  BY <1>1, <1>6, FrameClient DEF Abandon
<1>7. CASE ReaderStep
  <2>1. CASE key # k
    BY <1>1, <1>7, <2>1, FrameElsewhere
  <2>2. CASE key = k
    <3>0. pc \in {"parse", "trim"} => key \in streams
      BY FeedKeepsStream
    <3>1. CASE ParseRequest
      BY <1>1, <2>2, <3>0, <3>1, FrameRequest DEF ParseRequest
    <3>2. CASE ParseNone \/ ParseSome
      <4>1. key \in streams
        BY <3>0, <3>2 DEF ParseNone, ParseSome, LeaveLoop
      <4> QED
        BY <1>1, <2>2, <3>2, <4>1, FrameLeave
    <3>3. CASE TrimAll \/ TrimSome
      <4>1. key \in streams
        BY <3>0, <3>3 DEF TrimAll, TrimSome
      <4> QED
        BY <1>1, <2>2, <3>3, <4>1, FrameTrim
    <3>4. CASE ParsePanic \/ TrimPanic
      BY <1>1, <3>4, FrameClient DEF ParsePanic, TrimPanic, client
    <3>5. CASE FeedReturn
      BY <1>1, <2>2, <3>5, FrameReturn
    <3> QED
      BY <1>7, <3>1, <3>2, <3>3, <3>4, <3>5 DEF ReaderStep
  <2> QED
    BY <2>1, <2>2
<1>8. CASE ReaperSweep
  BY <1>1, <1>8, FrameSweep
<1>9. CASE Tick
  BY <1>9, FrameTick
<1> QED
  BY <1>2, <1>3, <1>4, <1>5, <1>6, <1>7, <1>8, <1>9 DEF Next

\* No request of a Prompt connection is complete before anything is sent.
LEMMA NothingWhole ==
  ASSUME TypeOK, NEW k \in Key, WellFramed(k), sent[k] = 0
  PROVE  Complete(k) = 0
<1>1. Len(Request[k]) \in Nat
  BY BoundAssumption
<1>2. Bound[k][0 + 1] = 0 /\ 0 <= Len(Request[k])
  BY <1>1 DEF WellFramed
<1>3. 0 < Len(Request[k]) => Bound[k][0 + 2] \in Nat /\ Bound[k][0 + 1] < Bound[k][0 + 2]
  BY <1>1, BoundType
<1>4. 0 = Len(Request[k]) \/ sent[k] < Bound[k][0 + 2]
  BY <1>1, <1>2, <1>3
<1> QED
  BY <1>2, <1>4, CompleteIs

\* Prompt connections are framed in every reachable state.
LEMMA FrameInvariant ==
  ASSUME MaxStall <= StaleAge, ClientGap <= StaleAge, PromptOK
  PROVE  Spec => [](TypeOK /\ StallInv /\ TailInv /\ FrameInv)
<1>1. ASSUME TypeOK, Init PROVE FrameInv
  <2> SUFFICES ASSUME NEW k \in Prompt PROVE Framed(k)
    BY DEF FrameInv
  <2>1. k \in Key /\ WellFramed(k)
    BY KeyAssumption DEF PromptOK
  <2>2. /\ sent[k] = 0 /\ fed[k] = <<>> /\ out[k] = <<>> /\ done[k] = 0
        /\ pc = "idle" /\ streams = {}
    BY <1>1, <2>1 DEF Init
  <2>3. ~InFeed(k) /\ Pending(k) = <<>> /\ Offset(k) = 0
    BY <2>2 DEF InFeed, Pending, Offset
  <2>4. Got(k) = 0
    BY <2>2, <2>3 DEF Got
  <2>5. Bound[k][0 + 1] = 0 /\ Len(Request[k]) \in Nat
        /\ SubSeq(Wire[k], 1, 0) = <<>> /\ SubSeq(Request[k], 1, 0) = <<>>
    BY <2>1, BoundAssumption, WireAssumption DEF WellFramed
  <2>6. Complete(k) = 0
    BY <1>1, <2>1, <2>2, NothingWhole
  <2>7. Fresh(k)
    BY <2>2 DEF Fresh
  <2>8. out[k] \o Pending(k) = <<>>
    BY <2>2, <2>3
  <2> QED
    BY <2>2, <2>3, <2>4, <2>5, <2>6, <2>7, <2>8 DEF Framed
<1>2. ASSUME TypeOK, StallInv, TailInv, FrameInv, [Next]_vars PROVE FrameInv'
  <2>1. ASSUME NEW k \in Prompt PROVE Framed(k)'
    BY <1>2, FrameStep DEF FrameInv, PromptOK
  <2> QED
    BY <2>1 DEF FrameInv
<1> QED
  BY <1>1, <1>2, TailInvariant, PTL DEF Spec

\* A framed connection has handed on what has become complete.
LEMMA FramedMeans ==
  ASSUME TypeOK, FrameInv
  PROVE  FramedExactly
<1> SUFFICES ASSUME NEW k \in Prompt, ~InFeed(k)
             PROVE  out[k] = SubSeq(Request[k], 1, Complete(k))
  BY DEF FramedExactly
<1>1. out[k] \in Seq(CapturedRequest)
  BY KeyAssumption DEF TypeOK
<1>2. Pending(k) = <<>> /\ out[k] \o <<>> = out[k]
  BY <1>1 DEF Pending
<1>3. Got(k) = Complete(k) /\ out[k] \o Pending(k) = SubSeq(Request[k], 1, Got(k))
  BY DEF FrameInv, Framed
<1> QED
  BY <1>2, <1>3

\* For every segmentation, any number of other connections losing, repeating
\* and abandoning what they send, and every interleaving of Feed with the
\* reaper: a connection that stays within the reassembly window is mirrored
\* exactly, as long as no Feed call lasts longer than StaleAge.
THEOREM FramesExactly ==
  ASSUME MaxStall <= StaleAge, ClientGap <= StaleAge, PromptOK
  PROVE  Spec => []FramedExactly
<1>1. TypeOK /\ FrameInv => FramedExactly
  BY FramedMeans
<1> QED
  BY <1>1, FrameInvariant, PTL

(***************************************************************************)
(* The tracker implements RequestStream                                    *)
(***************************************************************************)

\* Complete counts some of the requests, and more as more is sent.
LEMMA CompleteGrows ==
  ASSUME NEW k \in Key, sent[k] \in Nat, sent'[k] \in Nat, sent[k] <= sent'[k]
  PROVE  /\ Complete(k) \in Nat /\ Complete(k)' \in Nat
         /\ Complete(k) <= Complete(k)' /\ Complete(k)' <= Len(Request[k])
<1> DEFINE A == {i \in 1 .. Len(Request[k]) : Bound[k][i + 1] <= sent[k]}
           B == {i \in 1 .. Len(Request[k]) : Bound[k][i + 1] <= sent'[k]}
<1>1. Len(Request[k]) \in Nat /\ Len(Bound[k]) = Len(Request[k]) + 1
      /\ \A i \in 1 .. Len(Bound[k]) : Bound[k][i] \in Nat
  BY BoundAssumption
<1>2. A \subseteq B
  <2> SUFFICES ASSUME NEW i \in 1 .. Len(Request[k]), Bound[k][i + 1] <= sent[k]
               PROVE  Bound[k][i + 1] <= sent'[k]
    OBVIOUS
  <2>1. i + 1 \in 1 .. Len(Bound[k])
    BY <1>1
  <2>2. Bound[k][i + 1] \in Nat
    BY <1>1, <2>1
  <2> QED
    BY <2>2
<1>3. IsFiniteSet(1 .. Len(Request[k])) /\ Cardinality(1 .. Len(Request[k])) = Len(Request[k])
  <2>1. PICK m \in Nat : m = Len(Request[k])
    BY <1>1
  <2>2. IsFiniteSet(1 .. m)
    BY FS_Interval
  <2>3. Cardinality(1 .. m) = m
    <3>1. Cardinality(1 .. m) = IF 1 > m THEN 0 ELSE m - 1 + 1
      BY FS_Interval
    <3> QED
      BY <3>1
  <2> QED
    BY <2>1, <2>2, <2>3
<1>4. B \in SUBSET (1 .. Len(Request[k]))
  OBVIOUS
<1>5. Complete(k) = Cardinality(A) /\ Complete(k)' = Cardinality(B)
  BY DEF Complete
<1> HIDE DEF A, B
<1>6. IsFiniteSet(B) /\ Cardinality(B) <= Len(Request[k])
  BY <1>3, <1>4, FS_Subset
<1>7. IsFiniteSet(A) /\ Cardinality(A) <= Cardinality(B)
  BY <1>2, <1>6, FS_Subset
<1>8. Cardinality(A) \in Nat /\ Cardinality(B) \in Nat
  BY <1>6, <1>7, FS_CardinalityType
<1> QED
  BY <1>5, <1>6, <1>7, <1>8

\* What a Prompt connection shows the mirror changes in two ways only: a
\* segment makes requests complete, or Feed returns.
LEMMA StreamStep ==
  ASSUME TypeOK, TypeOK', FramedExactly, FramedExactly', [Next]_vars
  PROVE  [Stream!Next]_(Stream!vars)
<1> DEFINE whole == [k \in Prompt |-> Complete(k)]
           shown == [k \in Prompt |-> out[k]]
<1> USE DEF stream, reader, reaper, client, history
<1>1. Prompt \subseteq Key
  BY KeyAssumption
<1>2. ASSUME \A k \in Prompt : sent'[k] = sent[k], \A k \in Prompt : out'[k] = out[k]
      PROVE  UNCHANGED Stream!vars
  <2>1. \A k \in Prompt : Complete(k)' = Complete(k)
    BY <1>2 DEF Complete
  <2>2. whole' = whole /\ shown' = shown
    BY <1>2, <2>1
  <2> QED
    BY <2>2 DEF Stream!vars
<1>3. ASSUME NEW j \in Key, NEW n \in 1 .. MaxSeg, FeedNext(j, n)
      PROVE  [Stream!Next]_(Stream!vars)
  <2>1. n \in Nat /\ sent' = [sent EXCEPT ![j] = @ + n] /\ out' = out /\ pc = "idle"
    <3>1. n \in Nat
      BY SizeAssumption
    <3>2. sent' = [sent EXCEPT ![j] = @ + n]
      BY <1>3 DEF FeedNext, Advance
    <3>3. out' = out /\ pc = "idle"
      BY <1>3 DEF FeedNext, Feed, FeedStore, FeedDrop
    <3> QED
      BY <3>1, <3>2, <3>3
  <2>2. sent[j] \in Nat /\ sent'[j] = sent[j] + n /\ \A k \in Key \ {j} : sent'[k] = sent[k]
    BY <2>1 DEF TypeOK
  <2>3. CASE j \notin Prompt
    BY <1>1, <1>2, <2>1, <2>2, <2>3
  <2>4. CASE j \in Prompt
    <3>1. Complete(j) \in Nat /\ Complete(j)' \in Nat
          /\ Complete(j) <= Complete(j)' /\ Complete(j)' <= Len(Request[j])
      BY <2>1, <2>2, CompleteGrows
    <3>2. ASSUME NEW k \in Prompt, k # j PROVE Complete(k)' = Complete(k)
      BY <1>1, <2>2, <3>2 DEF Complete
    <3>3. CASE Complete(j)' = Complete(j)
      <4>1. whole' = whole /\ shown' = shown
        BY <2>1, <3>2, <3>3
      <4> QED
        BY <4>1 DEF Stream!vars
    <3>4. CASE Complete(j)' # Complete(j)
      <4>1. PICK m : m = Complete(j)'
        OBVIOUS
      <4>2. m \in Complete(j) + 1 .. Len(Request[j])
        <5>1. Len(Request[j]) \in Nat
          BY BoundAssumption
        <5> QED
          BY <3>1, <3>4, <4>1, <5>1
      <4>3. whole' = [whole EXCEPT ![j] = m]
        BY <2>4, <3>2, <4>1
      <4>4. shown' = shown
        BY <2>1
      <4>5. shown[j] = SubSeq(Request[j], 1, whole[j])
        BY <2>1, <2>4 DEF FramedExactly, InFeed
      <4>6. whole[j] = Complete(j)
        BY <2>4
      <4>7. Stream!Arrive(j)
        BY <4>2, <4>3, <4>4, <4>5, <4>6 DEF Stream!Arrive, Stream!Owed
      <4> QED
        BY <2>4, <4>7 DEF Stream!Next
    <3> QED
      BY <3>3, <3>4
  <2> QED
    BY <2>3, <2>4
<1>4. CASE FeedReturn
  <2>1. out' = [out EXCEPT ![key] = @ \o reqs] /\ sent' = sent /\ pc' = "idle"
    BY <1>4 DEF FeedReturn, EndFeed
  <2>2. \A k \in Key \ {key} : out'[k] = out[k]
    BY <2>1 DEF TypeOK
  <2>3. CASE key \notin Prompt
    BY <1>1, <1>2, <2>1, <2>2, <2>3
  <2>4. CASE key \in Prompt
    <3>1. \A k \in Prompt : Complete(k)' = Complete(k)
      BY <2>1 DEF Complete
    <3>2. whole' = whole
      BY <3>1
    <3>3. PICK j \in Prompt : j = key
      BY <2>4
    <3>4. out'[j] = SubSeq(Request[j], 1, Complete(j))
      <4>1. ~InFeed(j)'
        BY <2>1 DEF InFeed
      <4>2. out'[j] = SubSeq(Request[j], 1, Complete(j)')
        BY <4>1 DEF FramedExactly
      <4> QED
        BY <3>1, <4>2
    <3>5. shown' = [shown EXCEPT ![j] = SubSeq(Request[j], 1, whole[j])]
      BY <1>1, <2>2, <3>3, <3>4
    <3>6. Stream!Hand(j)
      BY <3>2, <3>5 DEF Stream!Hand, Stream!Owed
    <3> QED
      BY <3>6 DEF Stream!Next
  <2> QED
    BY <2>3, <2>4
<1>5. ASSUME NEW j \in Key, NEW n \in 1 .. MaxSeg,
             FeedAgain(j, n) \/ FeedEmpty(j, n) \/ Lose(j, n)
      PROVE  [Stream!Next]_(Stream!vars)
  <2>1. j \notin Prompt /\ out' = out
    BY <1>5 DEF FeedAgain, Again, Feed, FeedStore, FeedDrop, FeedEmpty, Lose, CanFail
  <2>2. sent' = sent \/ sent' = [sent EXCEPT ![j] = @ + n]
    BY <1>5 DEF FeedAgain, Again, FeedEmpty, Lose
  <2>3. \A k \in Prompt : sent'[k] = sent[k]
    BY <1>1, <2>1, <2>2 DEF TypeOK
  <2> QED
    BY <1>2, <2>1, <2>3
<1>6. CASE \/ UNCHANGED vars
           \/ \E k \in Key : Abandon(k)
           \/ ParseRequest \/ ParsePanic \/ ParseNone \/ ParseSome
           \/ TrimAll \/ TrimSome \/ TrimPanic
           \/ ReaperSweep \/ Tick
  <2>1. sent' = sent /\ out' = out
    BY <1>6 DEF vars, Abandon, ParseRequest, ParsePanic, ParseNone, ParseSome, TrimAll,
                TrimSome, TrimPanic, ReaperSweep, Tick
  <2> QED
    BY <1>2, <2>1
<1> QED
  BY <1>3, <1>4, <1>5, <1>6 DEF Next, ReaderStep

\* Under the same assumptions the tracker implements a stream of whole
\* requests per Prompt connection, for every value of the constants.
THEOREM TrackerIsStream ==
  ASSUME MaxStall <= StaleAge, ClientGap <= StaleAge, PromptOK
  PROVE  Spec => StreamSpec
<1>1. ASSUME TypeOK, Init PROVE Stream!Init
  <2>1. ASSUME NEW k \in Prompt PROVE Complete(k) = 0 /\ out[k] = <<>>
    <3>1. k \in Key /\ WellFramed(k)
      BY KeyAssumption DEF PromptOK
    <3>2. sent[k] = 0 /\ out[k] = <<>>
      BY <1>1, <3>1 DEF Init
    <3> QED
      BY <1>1, <3>1, <3>2, NothingWhole
  <2> QED
    BY <2>1 DEF Stream!Init
<1>2. TypeOK /\ TypeOK' /\ FramedExactly /\ FramedExactly' /\ [Next]_vars
        => [Stream!Next]_(Stream!vars)
  BY StreamStep
<1> QED
  BY <1>1, <1>2, TypeCorrect, FramesExactly, PTL DEF Spec, StreamSpec, Stream!Spec

=============================================================================
