----------------------------- MODULE TCPTracker -----------------------------
(***************************************************************************)
(* mirror-agent/tracker.go: TCPTracker, which reassembles the segments     *)
(* captured on each TCP connection into HTTP requests.                     *)
(*                                                                         *)
(* Two goroutines share the stream map under t.mu.  The reader             *)
(* (loader.ReadEvents calling Feed, main.go) locks the map twice per       *)
(* segment and parses a private copy of the buffer in between.  The        *)
(* reaper wakes on a ticker, computes a cutoff time, then takes the lock   *)
(* and deletes the streams last written before the cutoff.  A critical     *)
(* section is one action, everything else is a step of its own.            *)
(*                                                                         *)
(* Time is discrete.  age[k] is the time since streams[k].lastSeen.  Feed  *)
(* runs on one goroutine only, so age[key] is also the time the running    *)
(* Feed call has taken.                                                    *)
(***************************************************************************)
EXTENDS HTTPParse

CONSTANTS
  Key,        \* connections: streamKey values
  Wire,       \* Wire[k]: the bytes the client of k writes, as units
  Bound,      \* Bound[k]: where its requests end; Bound[k][1] = 0
  Request,    \* Request[k]: those requests, in order
  Prompt,     \* connections whose segments all arrive, in time and printable
  MaxSeg,     \* longest segment
  Window,     \* units looksLikeContinuation examines (64 bytes)
  StaleAge,   \* age beyond which a stream is stale (10 s)
  Period,     \* period of the reaper's ticker (15 s)
  MaxLag,     \* longest wait of the reaper for t.mu
  MaxStall,   \* longest run of one Feed call
  ClientGap,  \* longest gap between two segments of a Prompt request
  MaxFaults   \* bound on lost, emptied and retransmitted segments

ASSUME KeyAssumption == IsFiniteSet(Key) /\ Prompt \subseteq Key

ASSUME WireAssumption == Wire \in [Key -> Seq(Unit)]

ASSUME BoundAssumption ==
  /\ Bound \in [Key -> Seq(Nat)]
  /\ Request \in [Key -> Seq(CapturedRequest)]
  /\ \A k \in Key : Len(Bound[k]) = Len(Request[k]) + 1

ASSUME TimeAssumption ==
  /\ StaleAge \in Nat /\ Period \in Nat /\ MaxLag \in Nat
  /\ MaxStall \in Nat /\ ClientGap \in Nat
  /\ MaxLag < Period

ASSUME SizeAssumption == MaxSeg \in Nat /\ Window \in Nat /\ MaxFaults \in Nat

VARIABLES
  streams,    \* keys of the map t.streams
  buf,        \* buf[k]: streams[k].buf, <<>> when k is not in the map
  age,        \* age[k]: time since streams[k].lastSeen, saturating
  pc,         \* reader: where the running Feed call is
  key,        \* reader: key of the segment being fed
  snapshot,   \* reader: copy of the buffer taken under the lock
  consumed,   \* reader: parseHTTPRequests' consumed
  reqs,       \* reader: parseHTTPRequests' results
  rpc,        \* reaper: waiting for the ticker, or for t.mu with a cutoff
  sinceTick,  \* reaper: time since the ticker fired, so since the cutoff
  sent,       \* client: units of Wire[k] that have left the client
  gone,       \* client: connections whose client will send no more
  faults,     \* client: faults so far
  stats,      \* agentStats: the counters tracker.go updates
  panicked,   \* the process died in Feed, where pc says
  out,        \* out[k]: requests handed to mirror.Send
  fed,        \* history: units Feed has stored for k
  done        \* history: units of fed[k] consumed, or discarded by the reaper

stream == <<streams, buf, age>>
reader == <<pc, key, snapshot, consumed, reqs>>
reaper == <<rpc, sinceTick>>
client == <<sent, gone, faults>>
history == <<out, fed, done>>
vars == <<stream, reader, reaper, client, stats, panicked, history>>

\* Ages above this are not told apart: past it a stream is stale whenever
\* the cutoff was computed.
AgeCap == StaleAge + Period + MaxLag + 1

Stats == [recv : Nat, drop : Nat, assm : Nat, perr : Nat, reap : Nat]

TypeOK ==
  /\ streams \subseteq Key
  /\ buf \in [Key -> Seq(Unit)]
  /\ age \in [Key -> Nat]
  /\ pc \in {"idle", "parse", "trim", "return"}
  /\ key \in Key
  /\ snapshot \in Seq(Unit)
  /\ consumed \in 0 .. Len(snapshot)
  /\ reqs \in Seq(CapturedRequest)
  /\ rpc \in {"wait", "sweep"}
  /\ sinceTick \in Nat
  /\ sent \in [Key -> Nat]
  /\ \A k \in Key : sent[k] <= Len(Wire[k])
  /\ gone \subseteq Key
  /\ faults \in Nat
  /\ stats \in Stats
  /\ panicked \in BOOLEAN
  /\ out \in [Key -> Seq(CapturedRequest)]
  /\ fed \in [Key -> Seq(Unit)]
  /\ done \in [Key -> Nat]

\* NewTCPTracker, before the first event.
Init ==
  /\ streams = {}
  /\ buf = [k \in Key |-> <<>>]
  /\ age = [k \in Key |-> 0]
  /\ pc = "idle"
  /\ key \in Key
  /\ snapshot = <<>>
  /\ consumed = 0
  /\ reqs = <<>>
  /\ rpc = "wait"
  /\ sinceTick = 0
  /\ sent = [k \in Key |-> 0]
  /\ gone = {}
  /\ faults = 0
  /\ stats = [recv |-> 0, drop |-> 0, assm |-> 0, perr |-> 0, reap |-> 0]
  /\ panicked = FALSE
  /\ out = [k \in Key |-> <<>>]
  /\ fed = [k \in Key |-> <<>>]
  /\ done = [k \in Key |-> 0]

(***************************************************************************)
(* The client and the capture path: which segment reaches Feed next        *)
(***************************************************************************)

Segment(k, i, n) == SubSeq(Wire[k], i + 1, i + n)

CanSend(k, n) == k \notin gone /\ sent[k] + n <= Len(Wire[k])

\* The next n units leave the client of k.
Advance(k, n) ==
  /\ CanSend(k, n)
  /\ sent' = [sent EXCEPT ![k] = @ + n]
  /\ UNCHANGED <<gone, faults>>

CanFail(k) == k \notin Prompt /\ faults < MaxFaults

\* A segment Feed has seen is captured again: a TCP retransmission, which
\* the tracker, ignoring sequence numbers, cannot tell from new data.
Again(k, n) ==
  /\ CanFail(k)
  /\ n <= sent[k]
  /\ faults' = faults + 1
  /\ UNCHANGED <<sent, gone>>

\* The next n units leave the client but never reach Feed: no room in the
\* ring buffer, or payload beyond the captured length.
Lose(k, n) ==
  /\ CanFail(k) /\ CanSend(k, n)
  /\ sent' = [sent EXCEPT ![k] = @ + n]
  /\ faults' = faults + 1
  /\ UNCHANGED <<stream, reader, reaper, gone, stats, panicked, history>>

\* The client disappears, perhaps in the middle of a request.
Abandon(k) ==
  /\ k \notin gone
  /\ sent[k] < Len(Wire[k])
  /\ gone' = gone \cup {k}
  /\ UNCHANGED <<stream, reader, reaper, sent, faults, stats, panicked, history>>

(***************************************************************************)
(* The reader: Feed                                                        *)
(***************************************************************************)

\* Mutant of Accepts: continuation segments are dropped.
AcceptsFirstOnly(data) == looksLikeHTTP(data)

Accepts(data) == looksLikeHTTP(data) \/ looksLikeContinuation(data, Window)

\* Up to the first Unlock: count the packet, store it, copy the buffer.
FeedStore(k, data) ==
  /\ pc = "idle"
  /\ Accepts(data)
  /\ stats' = [stats EXCEPT !.recv = @ + 1]
  /\ streams' = streams \cup {k}
  /\ age' = [age EXCEPT ![k] = 0]
  /\ buf' = [buf EXCEPT ![k] = @ \o data]
  /\ fed' = [fed EXCEPT ![k] = @ \o data]
  /\ snapshot' = buf[k] \o data
  /\ pc' = "parse"
  /\ key' = k
  /\ consumed' = 0
  /\ reqs' = <<>>
  /\ UNCHANGED <<reaper, panicked, out, done>>

\* The early return for a packet that does not look like HTTP.
FeedDrop(data) ==
  /\ pc = "idle"
  /\ ~Accepts(data)
  /\ stats' = [stats EXCEPT !.recv = @ + 1, !.drop = @ + 1]
  /\ UNCHANGED <<stream, reader, reaper, panicked, history>>

\* The early return for an event with PayloadLen 0: the hook could not copy
\* the payload of this segment, and those units are lost.
FeedEmpty(k, n) ==
  /\ pc = "idle"
  /\ CanFail(k) /\ CanSend(k, n)
  /\ sent' = [sent EXCEPT ![k] = @ + n]
  /\ faults' = faults + 1
  /\ stats' = [stats EXCEPT !.recv = @ + 1]
  /\ UNCHANGED <<stream, reader, reaper, gone, panicked, history>>

Feed(k, data) == FeedStore(k, data) \/ FeedDrop(data)

FeedNext(k, n) == Advance(k, n) /\ Feed(k, Segment(k, sent[k], n))

FeedAgain(k, n) == Again(k, n) /\ Feed(k, Segment(k, sent[k] - n, n))

\* Mutant of ParseRequest: the offset steps over a separator after the request.
ParseRequestSkips ==
  LET p == parseOneRequest(Drop(snapshot, consumed))
  IN  /\ pc = "parse"
      /\ p.st = "ok"
      /\ reqs' = Append(reqs, p.req)
      /\ consumed' = consumed + p.n + 1
      /\ UNCHANGED <<stream, pc, key, snapshot, reaper, client, stats,
                     panicked, history>>

\* One iteration of the loop of parseHTTPRequests that finds a request.
ParseRequest ==
  LET p == parseOneRequest(Drop(snapshot, consumed))
  IN  /\ pc = "parse"
      /\ p.st = "ok"
      /\ reqs' = Append(reqs, p.req)
      /\ consumed' = consumed + p.n
      /\ UNCHANGED <<stream, pc, key, snapshot, reaper, client, stats,
                     panicked, history>>

\* The iteration in which make panics: nothing recovers, the process dies.
ParsePanic ==
  /\ pc = "parse"
  /\ parseOneRequest(Drop(snapshot, consumed)).st = "panic"
  /\ panicked' = TRUE
  /\ UNCHANGED <<stream, reader, reaper, client, stats, history>>

\* The iteration that leaves the loop: incomplete data, or an error.
LeaveLoop ==
  LET p == parseOneRequest(Drop(snapshot, consumed))
  IN  /\ pc = "parse"
      /\ p.st \in {"incomplete", "error"}
      /\ stats' = [stats EXCEPT !.perr = @ + IF p.st = "error" THEN 1 ELSE 0,
                                !.assm = @ + Len(reqs)]

\* The locals of a Feed call go out of scope when it returns.
EndFeed ==
  /\ pc' = "idle"
  /\ snapshot' = <<>>
  /\ consumed' = 0
  /\ reqs' = <<>>
  /\ key' = key

\* Nothing assembled: Feed returns no request.
ParseNone ==
  /\ LeaveLoop
  /\ reqs = <<>>
  /\ EndFeed
  /\ UNCHANGED <<stream, reaper, client, panicked, history>>

\* Requests assembled and counted: Feed goes on to lock the map again.
ParseSome ==
  /\ LeaveLoop
  /\ reqs # <<>>
  /\ pc' = "trim"
  /\ UNCHANGED <<stream, key, snapshot, consumed, reqs, reaper, client,
                 panicked, history>>

\* The second critical section: delete the drained stream, ...
TrimAll ==
  /\ pc = "trim"
  /\ consumed >= Len(snapshot)
  /\ streams' = streams \ {key}
  /\ buf' = [buf EXCEPT ![key] = <<>>]
  /\ done' = [done EXCEPT ![key] = Len(fed[key])]
  /\ pc' = "return"
  /\ UNCHANGED <<age, key, snapshot, consumed, reqs, reaper, client, stats,
                 panicked, out, fed>>

\* Mutant of TrimSome: the rest is written without Reset.
TrimSomeNoReset ==
  /\ pc = "trim"
  /\ consumed < Len(snapshot)
  /\ key \in streams
  /\ buf' = [buf EXCEPT ![key] = @ \o Drop(snapshot, consumed)]
  /\ done' = [done EXCEPT ![key] = @ + consumed]
  /\ pc' = "return"
  /\ UNCHANGED <<streams, age, key, snapshot, consumed, reqs, reaper, client,
                 stats, panicked, out, fed>>

\* ... or write back what was not consumed, ...
TrimSome ==
  /\ pc = "trim"
  /\ consumed < Len(snapshot)
  /\ key \in streams
  /\ buf' = [buf EXCEPT ![key] = Drop(snapshot, consumed)]
  /\ done' = [done EXCEPT ![key] = @ + consumed]
  /\ pc' = "return"
  /\ UNCHANGED <<streams, age, key, snapshot, consumed, reqs, reaper, client,
                 stats, panicked, out, fed>>

\* ... which dereferences nil if the stream is no longer in the map.
TrimPanic ==
  /\ pc = "trim"
  /\ consumed < Len(snapshot)
  /\ key \notin streams
  /\ panicked' = TRUE
  /\ UNCHANGED <<stream, reader, reaper, client, stats, history>>

\* Feed returns and main's callback starts mirror.Send for each request.
FeedReturn ==
  /\ pc = "return"
  /\ out' = [out EXCEPT ![key] = @ \o reqs]
  /\ EndFeed
  /\ UNCHANGED <<stream, reaper, client, stats, panicked, fed, done>>

ReaderStep ==
  \/ ParseRequest \/ ParsePanic \/ ParseNone \/ ParseSome
  \/ TrimAll \/ TrimSome \/ TrimPanic
  \/ FeedReturn

(***************************************************************************)
(* The reaper                                                              *)
(***************************************************************************)

\* Mutants of Stale: a stream exactly at the cutoff is stale; the cutoff is
\* minutes, not seconds, ago.
StaleInclusive(k) == age[k] - sinceTick >= StaleAge
StaleInMinutes(k) == age[k] - sinceTick > 60 * StaleAge

\* lastSeen.Before(cutoff); the cutoff was computed sinceTick ago.
Stale(k) == age[k] - sinceTick > StaleAge

\* The reaper's critical section.
ReaperSweep ==
  LET old == {k \in streams : Stale(k)}
  IN  /\ rpc = "sweep"
      /\ rpc' = "wait"
      /\ streams' = streams \ old
      /\ buf' = [k \in Key |-> IF k \in old THEN <<>> ELSE buf[k]]
      /\ done' = [k \in Key |-> IF k \in old THEN Len(fed[k]) ELSE done[k]]
      /\ stats' = [stats EXCEPT !.reap = @ + Cardinality(old)]
      /\ UNCHANGED <<age, reader, sinceTick, client, panicked, out, fed>>

(***************************************************************************)
(* Time                                                                    *)
(***************************************************************************)

\* A Prompt client with an unfinished request sends again before this.
InTime(k) ==
  k \in Prompt /\ k \in streams /\ k \notin gone /\ sent[k] < Len(Wire[k])
     => age[k] < ClientGap

\* Ages that mean something: of a stream in the map, and of the running Feed.
Timed(k) == k \in streams \/ (k = key /\ pc # "idle")

Older(a) == IF a < AgeCap THEN a + 1 ELSE a

\* When the ticker fires the reaper computes its cutoff and asks for t.mu.
Tick ==
  /\ pc # "idle" => age[key] < MaxStall
  /\ rpc = "sweep" => sinceTick < MaxLag
  /\ \A k \in Key : InTime(k)
  /\ age' = [k \in Key |-> IF Timed(k) THEN Older(age[k]) ELSE age[k]]
  /\ IF sinceTick + 1 = Period
     THEN sinceTick' = 0 /\ rpc' = "sweep"
     ELSE sinceTick' = sinceTick + 1 /\ rpc' = rpc
  /\ UNCHANGED <<streams, buf, reader, client, stats, panicked, history>>

-----------------------------------------------------------------------------

Next ==
  /\ ~panicked
  /\ \/ \E k \in Key, n \in 1 .. MaxSeg :
          FeedNext(k, n) \/ FeedAgain(k, n) \/ FeedEmpty(k, n) \/ Lose(k, n)
     \/ \E k \in Key : Abandon(k)
     \/ ReaderStep \/ ReaperSweep \/ Tick

\* Goroutines that can run do, time passes, and a Prompt client goes on
\* sending or leaves.
Fairness ==
  /\ WF_vars(~panicked /\ ReaderStep)
  /\ WF_vars(~panicked /\ ReaperSweep)
  /\ WF_vars(~panicked /\ Tick)
  /\ \A k \in Prompt :
       WF_vars(~panicked /\ (Abandon(k) \/ \E n \in 1 .. MaxSeg : FeedNext(k, n)))

Spec == Init /\ [][Next]_vars

FairSpec == Spec /\ Fairness

-----------------------------------------------------------------------------
(***************************************************************************)
(* Properties                                                              *)
(***************************************************************************)

InFeed(k) == pc # "idle" /\ key = k

\* Between the two critical sections of Feed the reaper never takes the
\* stream away, so t.streams[key].buf.Reset() never dereferences nil.
NoPanic == ~(panicked /\ pc = "trim")

\* A Feed call kills the process, and with it the mirroring of every other
\* connection, for one of two reasons only: it has taken longer than the time
\* after which a stream counts as stale, or the client of its own connection
\* wrote a Content-Length that make refuses.
PanicExplained ==
  panicked =>
    \/ pc = "trim" /\ age[key] > StaleAge
    \/ pc = "parse" /\ \E i \in 1 .. Len(Wire[key]) : Wire[key][i].kind = "wildclen"

\* Feed parses outside the lock and then overwrites the buffer with the rest
\* of its copy.  Nothing is lost or repeated by that, however long it takes: a
\* buffer always holds exactly the stored bytes that are neither consumed nor
\* reaped, and the copy Feed is about to trim is what is in the map, if the
\* stream still is.
StreamIsTail ==
  \A k \in Key :
    /\ done[k] <= Len(fed[k])
    /\ buf[k] = Drop(fed[k], done[k])
    /\ k \notin streams => done[k] = Len(fed[k])
    /\ InFeed(k) /\ pc \in {"parse", "trim"} /\ k \in streams => snapshot = buf[k]

\* How many requests of connection k have completely left the client.
Complete(k) == Cardinality({i \in 1 .. Len(Request[k]) : Bound[k][i + 1] <= sent[k]})

\* A connection that stays within the reassembly window is mirrored exactly:
\* whenever Feed has returned, every request that has arrived whole has been
\* handed to mirror.Send, once, in order and with its own body, whatever the
\* other connections, the reaper and clients that disappear do.
FramedExactly ==
  \A k \in Prompt :
    ~InFeed(k) => out[k] = SubSeq(Request[k], 1, Complete(k))

Stream == INSTANCE RequestStream
            WITH Conn <- Prompt, whole <- [k \in Prompt |-> Complete(k)],
                 out <- [k \in Prompt |-> out[k]]

\* Seen from mirror.Send, segments, buffers, parsing outside the lock and the
\* reaper implement a stream of whole requests per connection: each step hands
\* on all that has become complete, and nothing is taken in between.
StreamSpec == Stream!Spec

\* The reaper's comment, "we received partial TCP data but never assembled a
\* complete HTTP request", as an action property: a stream the sweep deletes
\* does not start with a complete request.
ReapedOnlyPartial ==
  [][\A k \in streams \ streams' :
       stats'.reap # stats.reap => parseOneRequest(buf[k]).st # "ok"]_vars

\* An idle stream is discarded at most one ticker period, and the wait for the
\* lock, after it became stale: no buffer outlives StaleAge + Period + MaxLag.
BoundedIdle == \A k \in streams : age[k] <= StaleAge + Period + MaxLag

\* A client that falls silent pins no memory: unless a further segment of its
\* own is stored, which starts its age anew, a stream leaves the map, drained by
\* Feed or reaped, even if a parse error has left bytes in it that no later
\* segment can complete.  One that sends at least every StaleAge keeps such a
\* buffer for good.
StreamsDrain ==
  \A k \in Key : (k \in streams /\ age[k] > 0) ~> (k \notin streams \/ age[k] = 0)

\* Every request of a Prompt connection is handed to mirror.Send in the end.
RequestsMirrored ==
  \A k \in Prompt : sent[k] = Len(Wire[k]) ~> out[k] = Request[k]

\* CapturedRequest "holds a fully reassembled HTTP request": every request
\* handed to mirror.Send is one its client sent.
OnlySentRequests ==
  \A k \in Key : \A i \in 1 .. Len(out[k]) :
    \E j \in 1 .. Len(Request[k]) : out[k][i] = Request[k][j]

-----------------------------------------------------------------------------
(***************************************************************************)
(* Inductive invariants                                                    *)
(***************************************************************************)

\* A stream that survived the last sweep was not stale at its cutoff.
TimeInv ==
  /\ sinceTick < Period
  /\ rpc = "sweep" => sinceTick <= MaxLag
  /\ \A k \in streams :
       age[k] <= StaleAge + sinceTick + (IF rpc = "sweep" THEN Period ELSE 0)

\* The stream of the running Feed call is as old as the call.
StallInv ==
  /\ pc # "idle" => age[key] <= MaxStall
  /\ pc \in {"parse", "trim"} => key \in streams \/ age[key] > StaleAge
  /\ panicked /\ pc = "trim" => age[key] > StaleAge

\* What is buffered or being parsed, the client of the connection wrote.
Wrote(k) == {Wire[k][i] : i \in 1 .. Len(Wire[k])}

OwnUnits ==
  /\ \A k \in Key : buf[k] \in Seq(Wrote(k))
  /\ snapshot \in Seq(Wrote(key))

\* The process died of its client's Content-Length, or at the trim.
WildInv ==
  /\ OwnUnits
  /\ panicked => pc \in {"parse", "trim"}
  /\ panicked /\ pc = "parse" =>
       parseOneRequest(Drop(snapshot, consumed)).st = "panic"

\* Unless Feed is working on it, a buffer starts with no complete request.
NotReady(data) == parseOneRequest(data).st # "ok"

PartialInv ==
  /\ \A k \in streams :
       ~(InFeed(k) /\ pc \in {"parse", "trim"}) => NotReady(buf[k])
  /\ pc = "trim" => NotReady(Drop(snapshot, consumed))
  /\ reqs = <<>> => consumed = 0

\* What is meant by a Prompt connection.  Its requests lie between its bounds,
\* each as the parser finds it, and no other follows them ...
WellFramed(k) ==
  LET last == Len(Bound[k])
  IN  /\ Bound[k][1] = 0 /\ Bound[k][last] <= Len(Wire[k])
      /\ \A i, j \in 1 .. last : i < j => Bound[k][i] < Bound[k][j]
      /\ \A i \in 1 .. Len(Request[k]) :
           parseOneRequest(SubSeq(Wire[k], Bound[k][i] + 1, Bound[k][i + 1])) =
             [st |-> "ok", n |-> Bound[k][i + 1] - Bound[k][i], req |-> Request[k][i]]
      /\ NotReady(SubSeq(Wire[k], Bound[k][last] + 1, Len(Wire[k])))

\* ... and all of it is printable, however it is cut into segments.
Printable(k) == \A i \in 1 .. Len(Wire[k]) : Wire[k][i].kind # "bin"

PromptOK == \A k \in Prompt : WellFramed(k) /\ Printable(k)

\* The requests of k that Feed is working on, and how far it has come in fed[k].
Pending(k) == IF InFeed(k) THEN reqs ELSE <<>>

Offset(k) == done[k] + IF InFeed(k) /\ pc \in {"parse", "trim"} THEN consumed ELSE 0

\* The reaper took the rest of k, and no more will come.
Closed(k) == k \notin streams /\ ~InFeed(k) /\ (k \in gone \/ sent[k] = Len(Wire[k]))

\* How many requests Feed has cut from connection k.
Got(k) == Len(out[k]) + Len(Pending(k))

\* The client of k, in the middle of a request, has not left its gap too long.
Fresh(k) ==
  k \in streams /\ k \notin gone /\ sent[k] < Len(Wire[k]) => age[k] <= ClientGap

\* A Prompt connection has been cut exactly at the end of a request, and is
\* past all requests that are whole as soon as Feed has left its loop.
Framed(k) ==
  /\ fed[k] = SubSeq(Wire[k], 1, sent[k])
  /\ Got(k) <= Len(Request[k])
  /\ out[k] \o Pending(k) = SubSeq(Request[k], 1, Got(k))
  /\ Offset(k) = Bound[k][Got(k) + 1] \/ Closed(k)
  /\ ~(InFeed(k) /\ pc = "parse") => Got(k) = Complete(k)
  /\ Fresh(k)

FrameInv == \A k \in Prompt : Framed(k)

=============================================================================
