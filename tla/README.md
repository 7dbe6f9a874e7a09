# A TLA+ model of the eBPF traffic mirror

The repository mirrors the HTTP traffic of a legacy proxy (APIGEE) to its
replacement (EWP). A TC hook in the kernel copies TCP segments into a ring
buffer; a Go agent reassembles them into HTTP requests and replays those to
EWP; EWP records the outcomes and reports whether traffic may be cut over. The
modules here model the parts of that pipeline that keep state and run
concurrently, check them with TLC on small instances and prove their safety
properties with TLAPS for all instances.

## Parts of the system

| Part | State | Operations | Interacts by |
|---|---|---|---|
| kernel hook, `kernel/mirror.bpf.c` | maps `cfg_target_port`, `counters`, ring buffer `rb` | `mirror_ingress` per packet | ring buffer to the agent, map written by the loader |
| loader, `mirror-agent/loader.go` | BPF collection, ring-buffer reader, TC filter, qdisc | `NewLoader`, `ReadEvents`, `PrintStats`, `Close` | kernel objects; callback per event |
| main, `mirror-agent/main.go` | signal channel | start, goroutines, shutdown | calls all parts of the agent |
| tracker, `mirror-agent/tracker.go` | `streams`: connection to buffer and `lastSeen`, under `mu` | `Feed`, `reaper`, `parseHTTPRequests` | called by the reader goroutine; reaper goroutine shares the map |
| HTTP mirror, `mirror-agent/mirror.go` | HTTP client | `Send` | one goroutine per request, HTTP to EWP |
| routes, `mirror-agent/routes.go` | `activeRoutes` | `loadRoutes`, `resolveRoute` | read by `Send` |
| statistics, `mirror-agent/stats.go` | eleven atomic counters | `Add` everywhere, `printStats` | shared memory |
| EWP simulator, `ewp-sim/main.go` | three atomic counters, `validationLog` under `validationMu`, `readyThreshPct` under `threshMu` | request handlers, `record`, `/validation-report`, `/config`, `/metrics` | one goroutine per HTTP request |
| APIGEE simulator, `apigee-sim/main.go` | one counter | request handlers | receives the original traffic |
| entrypoint, `apigee-sim/entrypoint.sh` | two child processes | start, `wait -n`, `_stop` | signals |
| deployment, `scripts/`, `Makefile` | systemd unit | install, `Restart=on-failure` | starts and stops agents |

What is hard here:

* `Feed` releases the lock between storing a segment and trimming the buffer,
  while the reaper may delete the stream. Correct: the two critical sections
  of one call fit together, no byte is lost or repeated, and the agent does
  not die.
* The reaper works on wall-clock ages and a cutoff computed before it takes
  the lock. Correct: what keeps within the reassembly window survives, what
  does not is gone within a bounded time.
* Segments are lost, emptied, retransmitted, cut anywhere. Correct: damage
  stays with the connection that suffered it.
* The filter and the qdisc outlive the process, descriptors do not. Correct:
  error paths and shutdown release everything, several agents do not disturb
  each other, a crash can be recovered from.
* EWP updates counters and log in separate steps of concurrent handlers, and a
  report reads log and threshold at different times. Correct: accounts
  balance, the bounded log holds the newest outcomes, readiness means what
  the documentation says.
* The hook runs on several CPUs and writes into ring-buffer memory that still
  holds earlier records, and the reader waits for the oldest record. Correct:
  no byte of one connection leaves in the event of another, every packet is
  accounted for, and the reader never waits for a record nobody submits.
* Every request is sent by a goroutine of its own, over a network that may
  deliver late, twice or not at all, by a process that may end at any time.
  Correct: each request is counted once, arrives only where the route table
  sends it, ends within the client's timeout, and the counters of agent and
  EWP differ only by what the faults explain.
* Counters are read one by one while others update them (`printStats`,
  `/metrics`, ids). Correct: what is shown differs from a state that existed by
  no more than what happened meanwhile.
* The entrypoint supervises two processes with `set -e`, `wait -n` and a trap
  that may interrupt itself. Correct: a stop reaches both and waits for both.

`PROJECT.json` lists the hazards by line, with the properties that cover them.

## Modules

| Module | Models |
|---|---|
| `HTTPParse` | `parseOneRequest`, `looksLikeHTTP`, `looksLikeContinuation` as operators |
| `TCPTracker` | `TCPTracker`: reader, reaper, clients, time |
| `RequestStream` | what the tracker promises the mirror: a stream of whole requests |
| `MCTracker` | connections for TLC |
| `TCPTracker_proofs` | theorems about `TCPTracker` |
| `AgentLifecycle` | `main`, `NewLoader`, `Close`, signals, crashes, restarts |
| `AgentLifecycle_proofs` | theorems about `AgentLifecycle` |
| `EwpSim` | the EWP simulator |
| `EwpSim_proofs` | theorems about `EwpSim` |
| `EwpMetrics`, `MCMetrics` | `EwpSim` with `/metrics` and the ids of created resources; requests for TLC |
| `EwpMetrics_proofs` | theorems about `EwpMetrics` |
| `Ingress`, `MCIngress` | `mirror_ingress`, the ring buffer, `ReadEvents`, `PrintStats`; packets for TLC |
| `Ingress_proofs` | theorems about `Ingress` |
| `LossyChannel` | what the capture path promises the tracker: a FIFO channel that may refuse |
| `Mirror`, `MCMirror` | `mirror.go`, `routes.go`, `stats.go`; requests and route tables for TLC |
| `Mirror_proofs` | theorems about `Mirror` |
| `ApigeeSim` | the APIGEE simulator |
| `ShadowPath`, `MCShadow` | composition of `Mirror`, `ApigeeSim` and `EwpSim`; requests for TLC |
| `ShadowPath_proofs` | theorems about `ShadowPath` |
| `Entrypoint` | `entrypoint.sh` |
| `Entrypoint_proofs` | theorems about `Entrypoint` |

### HTTPParse

A byte stream is a sequence of units. A unit is the smallest piece of text a
decision of the parser depends on: a request line, a Content-Length line with
its value, one that `strconv.Atoi` rejects, one that it takes and `make` panics
on (negative, or so large that the sum with `bodyStart` wraps around), another
line without a space, an empty line, a printable or a binary body byte. Every unit counts one towards a
length, so a Content-Length of 2 is two body units. A segment ends between two
units; a cut inside a unit would change no decision, because the parser waits
for the empty line and counts only body units. Header lines other than
Content-Length carry no decision and are left out.

### TCPTracker

| Code | Model |
|---|---|
| `t.streams` | `streams` (keys), `buf`, `age` (time since `lastSeen`) |
| locals of the running `Feed` | `pc`, `key`, `snapshot`, `consumed`, `reqs` |
| reaper's ticker and cutoff | `rpc`, `sinceTick` |
| `agentStats` fields of tracker.go | `stats` |
| `go mirror.Send(req)` in main | `out[k]` |
| `Feed` up to the first `Unlock` | `FeedStore`, or `FeedDrop`, `FeedEmpty` for the early returns |
| an iteration of `parseHTTPRequests` | `ParseRequest`; `ParseNone`, `ParseSome` leave the loop; `ParsePanic` is the panic of `make` |
| second critical section | `TrimAll`, `TrimSome`, `TrimPanic` |
| return to main's callback | `FeedReturn` |
| reaper's critical section | `ReaperSweep` |
| ticker, `cutoff := time.Now()...` | `Tick` |

Feed runs on one goroutine, so at most one call is in progress, and `age[key]`
is also the time it has taken. `fed` and `done` are history variables: what
Feed stored for a connection, and how much of that was consumed or reaped.

The environment sends `Wire[k]` in segments of any size up to `MaxSeg`.
Connections in `Prompt` keep within the window: their segments all arrive, are
printable, and follow each other within `ClientGap`. `PromptOK` says what they
send: printable requests as the parser finds them, from one of the positions
in `Bound[k]` to the next. The others may pause for
any time, lose a segment (`Lose`), have it delivered empty (`FeedEmpty`) or
twice (`FeedAgain`); every client may disappear (`Abandon`).

Time is discrete with one unit for five seconds in the runs: `StaleAge` 2 is
the ten seconds of the reaper, `Period` 3 its ticker. `MaxStall` bounds how
long a Feed call may take, `MaxLag` how long the reaper waits for the lock.
Ages saturate at `AgeCap`, beyond which no comparison of the code can tell
them apart.

### AgentLifecycle

`pc[a]` is the next call of the process of agent `a`: the calls of `NewLoader`
in order, `failed` (the error is on its way to `log.Fatalf`), `notify` (before
`signal.Notify`), `run`, and the calls of `Close`. `open[a]` is the set of
descriptors the process holds; each `Fail` closes the ones the code closes on
that path. `filter` is the one slot that all agents on the interface compete
for, since all of them use the same parent, handle and priority;
`netlink.FilterAdd` creates exclusively. `Sigterm` kills a process that has
not reached `signal.Notify` and is queued in the channel otherwise. An error
of `FilterDel` is logged and Close goes on (`FilterDelFails`, exit `kept`).

### EwpSim

One goroutine per request: `CountRequest`, `CountMirrored`, then `Respond`,
`Refuse` (405) or `Abort` (assignment to a nil map), then `record` as
`CountSuccess` and `AppendLog`. A report copies the log (`ReportCopy`) and
later reads the threshold and answers (`ReportAnswer`). The handlers of
`/health`, `/metrics`, `/validation-report` and `/config` neither count nor
record what they are sent, mirrored or not (`Aside`); a PUT or POST to `/config`
sets the threshold if its body is an object with a percentage, or with none,
which decodes to 0 (`Configures`). A request is reduced to its handler, its
method, whether its body is a JSON object, the percentage in it and whether it
is mirrored. `recorded` and `failedAtCopy` are
history variables. `ewp-sim/main.go` uses `strings` without importing it; the
model takes the import as present.

`EwpMetrics` extends it with the reads that other properties need as steps of
their own: `LoadId`, the `requestCount.Load()` of a creation, between the count
and the answer (`HandleRest` is a step of `EwpSim` that respects this order),
and `MetricsLoad`, the loads of `/metrics` from which it computes the success
rate. `before[r]` is a history variable, the ids that had been sent when `r`
was counted.

### Ingress

| Code | Model |
|---|---|
| maps `cfg_target_port`, `counters` | `target`, `matched`, `drops` |
| ring buffer `rb` | `ring`, a record per slot, and the positions `prod`, `cons` |
| `mirror_ingress` running on a CPU | `hook[c]` |
| early returns, and the filter by port | `Pass` |
| the count, and the return for an empty payload | `Match` |
| `bpf_ringbuf_reserve` | `Reserve`, `DropFull` |
| the writes into the record, `bpf_skb_load_bytes` | `Fill` |
| `bpf_ringbuf_submit` | `Submit` |
| an iteration of `ReadEvents` | `ReadEvent`, with `Decode` |
| `NewLoader`, `Close` as far as hook and reader notice | `PutPort`, `Attach`, `PrintStats`, `Close` |

A byte of a payload is the pair of its packet and its position, so that bytes
left over in a slot can be told apart; a slot is reused without being cleared.
The map's words of the ring buffer's own protocol (busy bit, positions) are
the kernel's and marked external.

### Mirror

`pc[q]` follows a request: `route` (returned by Feed; its goroutine runs
`resolveRoute`), `do`, `wire` (inside `client.Do`), `hop` (following a
redirect), `log`, `done`. `copies[q]` are requests on the way to EWP and `arrived[q]` those that
got there; `Arrive` needs neither the client's patience nor its process.
`Retry` is the transport's second attempt on a broken connection, `Redirect` a
redirect that `client.Do` follows, `DoError` every way in which it returns an
error, the ten-second `Timeout` among them. `Shutdown`, `Exit` and `Crash` end
the process with the sends that are in it. `printStats(w)` loads one counter
for the ticker or for main, `LogLine(w)` prints the line. A path is a sequence of pieces of text. `flag` is
the value of `-routes`; `json` says whether it is blank, invalid or an array.

### ApigeeSim, ShadowPath

`ApigeeSim` has one goroutine per request: `Count`, then `Respond` or `Abort`.
Its ids are made as in the EWP simulator and are left out. In `ShadowPath` a request of `Mirror` is also
the client's request to APIGEE (`Original`), and every arrival at EWP is a
request of `EwpSim` (`Copy`) with the rewritten path, and with the body if it
was captured (`whole`; the tracker captures a body with a Content-Length and
none that is chunked). The answer the agent gets is the status EWP sent. The two
sides register different patterns (`ApigeeMux`, `EwpMux`): `/validation-report`
and `/config` are EWP's alone, and APIGEE's echo handler answers them.

### Entrypoint

`pc` is the shell's next command; `_stop` is the sequence `kill mirror`,
`kill apigee`, `wait mirror`, `wait apigee`, run by the trap or at line 55
(`after`). `WaitFails` is a non-zero `wait -n` under `set -e`, `WaitZero` the
rest of the script. A signal before the trap is set is ignored, as the shell
is process 1; one that comes later is `pending` until bash runs the trap,
which it does between two commands or by cutting a `wait` short, also within
`_stop`. When the shell ends the kernel kills the children that are left
(`killed`).

### Refinements

* `Ingress` implements `LossyChannel` (`ChannelSpec`): the queue is what was
  reserved and not read, in the order of reservation.
* `TCPTracker` implements `RequestStream` (`StreamSpec`) for the connections in
  `Prompt`: `whole` counts the requests whose last unit was stored.

Both are checked by TLC and proved. `EwpMetrics` and `ShadowPath` extend
another specification and are proved to take only its steps.

## Runs

| Run | Shows |
|---|---|
| `TrackerPrompt` | a prompt connection with pipelined requests beside one that sends no request, Feed calls of up to 10 s: `FramedExactly`, `NoPanic`, `ReapedOnlyPartial`, `StreamSpec`, `TypeOK`, and the liveness properties `StreamsDrain` (the stream of a client that falls silent goes), `RequestsMirrored` |
| `TrackerStalled` | Feed calls of up to 20 s, wild Content-Length values, binary data, pauses and one fault: `StreamIsTail`, `PanicExplained`, `BoundedIdle` |
| `EwpShadow` | requests, reports, `/metrics` and `/config` side by side: `ShadowAccounting`, `LogIsWindow`, `ReadyIffTraffic`, `ShortfallIsReal`, `IdsFollowOrder`, `TypeOK` |
| `AgentFaults` | `FailedHoldsNothing`, `AttachedOwnsSlot`, `ZeroExitDetached`, and the liveness property `SigtermEnds` |
| `IngressRing` | two CPUs and a ring of two records: `HookBalance`, `OwnBytes`, `ChannelSpec`, and the liveness property `EventuallyRead` |
| `MirrorSends` | two requests and two printers, with and without a table, crashes: `SendBalance`, `LineExplained`, `RoutedArrivals`, and the liveness property `SendsEnd` |
| `ShadowPath` | agent and both simulators, late and repeated copies, health checks and `/config`: `Ledgers`, `Parity`, `RoutedArrivals` |
| `EntrySupervise` | two signals and dying children: `OrderlyStop`, `TrapStops` |

These runs end in the violation they are written for, a place where the code
does not do what a comment or a document says:

| Run | Statement | What the code does |
|---|---|---|
| `TrackerSlowClient` | tracker.go:26, "a fully reassembled HTTP request" | after a reap the rest of the request is framed as a request nobody sent, and handed to `Send` (where `http.NewRequest` refuses the one of this trace, for its method) |
| `EwpReady` | Makefile:71, "When 'ready_to_cut' is true, EWP is handling all traffic correctly." | failing requests never reach `record`, so the report cannot see them |
| `AgentRestart` | deploy-on-vm.sh:128, `Restart=on-failure` | the filter of the crashed process makes every restart fail |
| `RoutesInvalid` | docker-compose.yml:48, "Only paths matching a rule are mirrored; unmatched paths are dropped." | a table with a syntax error at start leaves no table, and every path is mirrored |

The models show more such places. They have no run of their own, because a
passing run already states what the code does there:

* tracker.go:188, "A reaped stream means we received partial TCP data": with a
  Feed call that stalls for more than 10 s it may be a complete request, and
  line 91 may dereference nil (`PanicExplained` and the assumption of
  `ReapsOnlyPartial` draw the line).
* TESTING.md:237, "Run a second agent instance for port 8443": the second agent
  on an interface cannot attach (`AttachedOwnsSlot`: the slot has one owner).
* README.md:330, stop the service and "verify clean": a SIGTERM before
  `signal.Notify` leaves the filter (`ZeroExitDetached` is about caught ones).
* README.md:97, the agent reads the kernel's counters "at shutdown and on STATS
  log lines": only `Close` reads them (`PrintStats` of `Ingress`).
* README.md:303, "equivalent HTTP status codes for all mirrored traffic": a creation
  with a chunked body is accepted by APIGEE and aborted by EWP, since its copy
  has no body (the exception in `Parity`).
* TESTING.md:31, "A 404 from EWP means the route is not implemented yet": the
  catch-all handler answers 200 and records a success (`StatusOf` of `EwpSim`).
* entrypoint.sh:51, "stop the other and exit non-zero": `set -e` ends the
  script at a non-zero `wait -n`, and for status 0 it exits with 0
  (`WaitFails`, `WaitZero`).
* entrypoint.sh:5, "SIGTERM/SIGINT stops both processes cleanly": a signal
  before line 49 is ignored (`TrapStops` is about the ones after).

### Bounds

* Tracker: two connections, because reader and reaper handle keys
  independently and a second one suffices to see interference. One carries two
  pipelined requests with body and without, so that a buffer may hold part of
  a request, one, one and a part, or two, and the trim takes each of its
  paths. Segments of up to 3 units put every boundary in every place.
  `Period` > `StaleAge` as in the code (15 s and 10 s), so that a stream may
  survive one sweep and be reaped in the next. One fault in `TrackerStalled`:
  its effect on the buffer is already unrestricted. The other connection of
  `TrackerPrompt` sends bytes that never parse, which is the case that
  `StreamsDrain` is about.
* EWP: two recordable mirrored requests on a log of one entry, so that the
  window moves, both of them creations whose ids may collide; one refused and
  one unmirrored request, and two to `/config`, of which one sets the threshold
  to 0 and one is out of range. An operator makes one call at a time, of
  `/metrics` or for a report.
* Agents: two agents with two starts each, one failing call and one crash. A
  restart after a crash while the other agent attaches, detaches or fails
  needs no more.

* Ingress: `Slots` 2 and four packets with payload or without, of lengths
  below, at and above `MaxPayload` 2, plus one for another port and one of
  another protocol. Slots are reused, so a short record lies over a longer
  one; two CPUs and two slots let the ring fill, and the newer record be
  submitted before the older.
* Mirror: a read that two rules match, and a request that `http.NewRequest`
  refuses, so that each way through `Send` is taken beside the other. One
  retry is what the transport makes on a reused connection. One class of answer with a counter and
  the one without are needed: the classes differ in nothing else. `MaxTicks` 1
  and the last line of main are two printers at a time.
* ShadowPath: any two of seven requests (`MaxSent`), of which the reads may
  arrive twice (`MaxRetry` 1); with a table that rewrites its path and drops
  the others, and with that table misspelt.
* Entrypoint: `Tries` 10 as in the script, two signals, so that one can
  interrupt the handling of the other.

`CHECK_DEADLOCK FALSE` is used where the system may really stop: a process
that has died in `TrackerStalled`, agents whose starts
are used up, and in the runs of the other modules when all packets, requests
or signals of the instance have been handled or the container has ended.

### Fairness

`TCPTracker!Fairness` is weak fairness of the reader goroutine, of the reaper
and of time: the Go scheduler runs every runnable goroutine, `t.mu` is only
held for short sections, and the ticker fires. It also lets a prompt client
go on sending or leave, which is what a TCP client does. Nothing is assumed of
other clients. `StreamsDrain` is about silence: a stream whose age has begun to
grow leaves the map or gets a further segment. It does not say that every stream
goes: a client that sends at least every ten seconds what does not parse keeps
its buffer for good, since each segment refreshes `lastSeen`. The data of a
client is finite in the model, and the property does not rest on that.
`AgentLifecycle!Fairness` lets each process take its next step; starts,
signals and crashes are not fair. `EwpSim`, `ApigeeSim` and `ShadowPath` are
checked for safety only.

`Ingress!Fairness` is weak fairness of a hook that has started, which the
kernel runs to its end, and of the reader goroutine; packets and the end of
the agent are not fair. `Mirror!FairSpec` is weak fairness of the steps of
`Send`: goroutines are scheduled, and `client.Do` returns within ten seconds
because the client has a `Timeout` (that is `DoError`, part of `Send`).
Arrivals and answers are not fair: EWP owes nothing. `Entrypoint!Fairness` is
weak fairness of the shell, and of the end of a child that was sent SIGTERM:
the simulator has the default action, and the agent ends by `SigtermEnds` of
`AgentLifecycle`.

## Proofs

All theorems hold for every value of the constants that satisfies the named
assumptions of the modules. These are types and finiteness (of connections,
packets, CPUs and requests), `MaxLag < Period` (the reaper sweeps before its
ticker fires again) and `NoAgent \notin Agent`. A theorem that needs more says
so in its `ASSUME`. Each safety property that a passing run checks, invariant,
action property or refinement, has a theorem.

`TCPTracker_proofs`

* `TypeCorrect`: `Spec => []TypeOK`. The part that needs an argument is that
  `consumed` stays within the copy: `ParseType` shows that `parseOneRequest`
  returns a length within its input.
* `IdleIsBounded` and `PanicIsExplained`, from the invariants `TimeInv`,
  `StallInv` and `WildInv`. A stream that is in the map after a sweep was not stale at its
  cutoff, hence is no older than `StaleAge` plus the time since; the stream of
  the running Feed call is as old as the call; and a Content-Length the parser
  finds is one that the client of that connection wrote, whatever was lost or
  repeated. Neither `BoundedIdle` nor `PanicExplained` is inductive without the relation between ages and the
  ticker.
* `BuffersAreTails` (`StreamIsTail`), with no further assumption: while Feed
  parses, nobody stores into the stream it works on, and if the reaper deletes
  it, Feed panics before it can write the copy back.
* `NeverPanics` and `ReapsOnlyPartial`, under the assumption
  `MaxStall <= StaleAge`: a Feed call takes no longer than ten seconds. They
  rest on `NoPanic`, `StreamIsTail` and `PartialInv`, which says
  that a buffer starts with no complete request unless Feed is working on it.
  The step that matters is the reaper's: the stream of a running call is at
  most `MaxStall` old, so it is not stale. Without the assumption both
  fail (`TrackerStalled` reaches the panic).
* `FramesExactly` (`FramedExactly`), under `MaxStall <= StaleAge`,
  `ClientGap <= StaleAge` and `PromptOK`. `TrackerSlowClient` shows what happens
  without the second; the third is evaluated by TLC on the connections of every
  run. `ParseExtends` is the fact about the parser that makes the result
  independent of segmentation: a request found at the front of a buffer is the
  one found there when more has arrived. From it `NextIsFound` and
  `NextIsPartial` say that, from the end of one request, the parser finds the
  next exactly when all of it is there; `SegmentAccepted`, that Feed takes every
  printable segment. The invariant `FrameInv` then places
  `done[k]`, plus what the running call has consumed, at a position of
  `Bound[k]`, the one after the requests that were handed on or are about to
  be; once Feed has left its loop that is the last position already sent. The
  reaper is the step that could break it, and can only take such a stream when
  no more will come (`FrameSweep`).
* `TrackerIsStream`: `Spec => StreamSpec`, from `FramedExactly` before and after
  each step. A segment that completes requests is `Arrive`, the return of Feed
  is `Hand`, all else is stuttering.

`AgentLifecycle_proofs`

* `SlotIsExclusive`, `NormalEndDetaches`, `ErrorPathsClose` from `LifeInv`:
  the descriptors a process holds are a function of its program counter, an
  attached process owns the slot, and one past `FilterDel` does not.

`EwpSim_proofs`

* `EwpTypeCorrect`, and from it and `PassInv` the rest. `PassInv` says that
  only requests that passed get as far as `record`, only mirrored ones into
  its critical section, and that a recorded request is finished.
* `LogKeepsNewest` (`LogIsWindow`): one append moves the window by one, below
  the bound and at it, and the outcome of a recorded request no longer changes.
* `CountersBalance` (`ShadowAccounting`): each step moves one request between
  the sets of requests being served, about to be logged and failed.
* `ReadinessNeedsOnlyTraffic` (`ReadyIffTraffic`): all entries of a report's
  copy have passed, so every endpoint meets every percentage.

`EwpMetrics_proofs`

* `MetricsOnlyReads`: `MetricsSpec => Spec`, so the theorems of `EwpSim` hold.
* `RateIsReal` (`ShortfallIsReal`): the mirrored count loaded first is at most
  what is mirrored at the second load, which `ShadowAccounting` divides into
  successes, failures and requests being served. In the other order of the
  loads this fails.
* `IdsFollow` (`IdsFollowOrder`) from `IdInv`: an id is never ahead of the
  counter, and the counter has passed all that was sent before a creation was
  counted.

`Ingress_proofs`

* All from `RingInv`. `WriterInv`: a hook that writes has a record of its own
  between the two positions, which is not ready. `ReadyInv`: a record that is
  ready holds its own packet's bytes up to its length. `PosInv`: the positions
  are at most `Slots` apart, so different positions in between are different
  slots (`SlotsDiffer`). `HookInv` and `FreshInv`: what is reserved arrived, has
  a payload and was reserved once.
* `NoForeignBytes` (`OwnBytes`) is not inductive without them: the memory of a
  slot does hold bytes of other packets, beyond the length.
* `HooksBalance` (`HookBalance`): each step of a hook moves its packet between
  the sets and counters of the balance.
* `RingIsChannel`: `Spec => ChannelSpec`. `Reserve` is the channel's acceptance,
  `ReadEvent` its delivery; that what is read is the head of the queue is
  `ReadyInv`.

`Mirror_proofs`

* `SendsBalance` (`SendBalance`) from `BalanceInv`, which adds that a request has
  a result exactly from the end of `client.Do` on. The steps are sorted by where
  a request goes: `AssembleBalance`, `RouteBalance`, `WaitsBalance`, `LogBalance`.
* `LinesExplained` (`LineExplained`) from `LineInv`: what a line has loaded is
  never ahead of the counters, and these balance.
* `ArrivalsRouted` (`RoutedArrivals`) from `TableInv` (the table is loaded before
  the first request and then stays) and `NetInv` (what is on its way, has
  arrived or may still be sent is what the table allows). `FirstRule` and
  `TargetExplained` show that `resolveRoute` finds the first rule that is a
  prefix and keeps the rest of the path.

`ShadowPath_proofs`

* `AgentIsMirror`: `PathSpec => Spec` of `Mirror`, so its invariants hold here.
* `ClassesAgree` (`Parity`) from `ApigeeInv` and `EwpInv`: on either side the
  status of an answered request is a function of the request alone, whatever
  else is going on; where the handlers are the same, these functions differ only
  for a creation whose body was not captured.
* `LedgersAgree` (`Ledgers`) from `LedgerInv` (EWP's counters count the copies
  for its recording handlers past the count, and the passed ones past `record`) and `SeenInv` (a 2xx the
  agent saw is one EWP gave).

`Entrypoint_proofs`

* `StopIsOrderly` (`OrderlyStop`) from `StopInv`: a `wait` in `_stop` that was
  not cut short leaves its child ended, and a child that has ended stays so,
  also when a second signal starts `_stop` again; `StartInv` says which children
  there are.

Outside the reach of the prover, and left to TLC: liveness under fairness
(`StreamsDrain`, `RequestsMirrored`, `SigtermEnds`, `EventuallyRead`,
`SendsEnd`, `TrapStops`) and ENABLED; results by induction over data, such as
what a recursive definition computes. No module uses RECURSIVE operators.
The four statements of the runs that end in a violation do not hold.

## Not modelled, and why

* Log output, latencies, response bodies, header values and the copying of
  headers without the hop-by-hop ones: no decision depends on them. The one
  effect that does, a chunked body that arrives without content, is `whole` in
  `ShadowPath`.
* The redirects of `http.ServeMux`: for unclean paths, and of `/api/v1/users` to
  the pattern that ends in a slash. A body of `/config` that is JSON `null`,
  which decodes like an object without the field.
* Where a redirect leads: `RoutedArrivals` is about the first hop of a request,
  to the address the agent was given.
* The parsing of Ethernet, IP and TCP headers in the hook, beyond what it
  decides; a ring-buffer record shorter than its header, which the hook never
  submits.
* The SIGKILL with which docker follows up a stop after its grace period, and
  the mount of the BPF file system in `entrypoint.sh`. `wait -n` is taken to
  work as bash documents it.
* `check-prereqs.sh`, `Makefile`, Dockerfiles: build and installation. Of
  `deploy-on-vm.sh` only the restart policy of the unit it writes.

## Plan

The safety properties are proved. What is left is to keep them so when the
code changes, and these extensions:

1. What the tracker does for connections outside `Prompt`: after how many bytes
   a stream that lost a segment is framed again.
2. The hook's own parsing of headers, should a property come to depend on it.
