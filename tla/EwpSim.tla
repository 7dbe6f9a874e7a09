------------------------------- MODULE EwpSim -------------------------------
(***************************************************************************)
(* ewp-sim/main.go: the simulated target proxy, which answers requests,    *)
(* records the outcome of the mirrored ones in a bounded validation log,   *)
(* and reports from it whether traffic may be cut over.                    *)
(*                                                                         *)
(* net/http runs every request in its own goroutine.  The counters are     *)
(* atomics, updated one at a time.  The log is guarded by validationMu and *)
(* the threshold by threshMu: a critical section is one action.            *)
(***************************************************************************)
EXTENDS Integers, Sequences, FiniteSets

CONSTANTS
  Req,         \* requests, once each
  MaxLog       \* entries the validation log keeps (1000)

\* Handlers that count and record, and those that do neither.
Recording == {"products", "orders", "users", "echo"}

Asides == {"health", "metrics", "validation-report", "config"}

Handlers == Recording \cup Asides

Methods == {"GET", "POST", "PUT", "DELETE"}

\* object: the body is a JSON object.  pct: its ready_threshold_pct, 0 if it has
\* none.  mirrored: X-Mirror-Source is set.
Request == [id : Nat, handler : Handlers, method : Methods,
            object : BOOLEAN, pct : Int, mirrored : BOOLEAN]

Pcs == {"new", "counted", "serve", "record", "append", "done"}

ASSUME ReqAssumption == IsFiniteSet(Req) /\ Req \subseteq Request

ASSUME MaxLogAssumption == MaxLog \in Nat \ {0}

VARIABLES
  pc,              \* pc[r]: where the handler goroutine of r is
  status,          \* status[r]: the status sent; 0 none yet, -1 aborted
  requestCount, mirroredCount, successCount,
  validationLog,   \* entries, oldest first
  readyThreshPct,
  rpc,             \* /validation-report call
  entries,         \* its copy of the log
  report,          \* its answer: ready_to_cut, and the threshold shown
  recorded,        \* history: requests recorded, oldest first
  failedAtCopy     \* history: a mirrored request had failed when entries
                   \* was copied

counters == <<requestCount, mirroredCount, successCount>>
reporter == <<rpc, entries, report, failedAtCopy>>
vars == <<pc, status, counters, validationLog, readyThreshPct, reporter,
          recorded>>

Passed(st) == st >= 200 /\ st < 300

\* What byPath groups by, Method + " " + Path, and the outcome.
Entry(r) == [path |-> <<r.method, r.handler>>, passed |-> Passed(status[r])]

Init ==
  /\ pc = [r \in Req |-> "new"]
  /\ status = [r \in Req |-> 0]
  /\ requestCount = 0 /\ mirroredCount = 0 /\ successCount = 0
  /\ validationLog = <<>>
  /\ readyThreshPct = 100
  /\ rpc = "idle"
  /\ entries = <<>>
  /\ report = [ready |-> FALSE, thresh |-> 100]
  /\ recorded = <<>>
  /\ failedAtCopy = FALSE

Goto(r, l) == pc' = [pc EXCEPT ![r] = l]

(***************************************************************************)
(* The request handlers                                                    *)
(***************************************************************************)

\* Mutant of CountRequest: a POST does not count.
CountRequestReads(r) ==
  /\ pc[r] = "new" /\ r.handler \in Recording
  /\ requestCount' = requestCount + IF r.method = "POST" THEN 0 ELSE 1
  /\ Goto(r, "counted")
  /\ UNCHANGED <<status, mirroredCount, successCount, validationLog,
                 readyThreshPct, reporter, recorded>>

\* requestCount.Add(1), which echoHandler leaves out.
CountRequest(r) ==
  /\ pc[r] = "new" /\ r.handler \in Recording
  /\ requestCount' = requestCount + IF r.handler = "echo" THEN 0 ELSE 1
  /\ Goto(r, "counted")
  /\ UNCHANGED <<status, mirroredCount, successCount, validationLog,
                 readyThreshPct, reporter, recorded>>

\* Mutant of CountMirrored: the echo handler does not count these either.
CountMirroredApi(r) ==
  /\ pc[r] = "counted"
  /\ mirroredCount' = mirroredCount + IF r.mirrored /\ r.handler # "echo" THEN 1 ELSE 0
  /\ Goto(r, "serve")
  /\ UNCHANGED <<status, requestCount, successCount, validationLog,
                 readyThreshPct, reporter, recorded>>

CountMirrored(r) ==
  /\ pc[r] = "counted"
  /\ mirroredCount' = mirroredCount + IF r.mirrored THEN 1 ELSE 0
  /\ Goto(r, "serve")
  /\ UNCHANGED <<status, requestCount, successCount, validationLog,
                 readyThreshPct, reporter, recorded>>

\* products and orders switch on the method; users and echo take any.
Switches(r) == r.handler \in {"products", "orders"}

\* Mutant of NotAllowed: a POST is refused as well.
NotAllowedPost(r) == Switches(r) /\ r.method # "GET"

NotAllowed(r) == Switches(r) /\ r.method \notin {"GET", "POST"}

\* A POST whose body does not decode to a map assigns to a nil map.
NilMap(r) == Switches(r) /\ r.method = "POST" /\ ~r.object

StatusOf(r) ==
  IF Switches(r) /\ r.method = "POST"
  THEN IF r.handler = "products" THEN 201 ELSE 202
  ELSE 200

\* writeJSON, after which record is called.
Respond(r) ==
  /\ pc[r] = "serve"
  /\ ~NotAllowed(r) /\ ~NilMap(r)
  /\ status' = [status EXCEPT ![r] = StatusOf(r)]
  /\ Goto(r, "record")
  /\ UNCHANGED <<counters, validationLog, readyThreshPct, reporter, recorded>>

\* 405: the handler returns without calling record.
Refuse(r) ==
  /\ pc[r] = "serve"
  /\ NotAllowed(r)
  /\ status' = [status EXCEPT ![r] = 405]
  /\ Goto(r, "done")
  /\ UNCHANGED <<counters, validationLog, readyThreshPct, reporter, recorded>>

\* The panic unwinds past record; net/http aborts the connection.
Abort(r) ==
  /\ pc[r] = "serve"
  /\ NilMap(r)
  /\ status' = [status EXCEPT ![r] = -1]
  /\ Goto(r, "done")
  /\ UNCHANGED <<counters, validationLog, readyThreshPct, reporter, recorded>>

\* Mutant of CountSuccess: requests that are not mirrored count too.
CountSuccessAll(r) ==
  /\ pc[r] = "record"
  /\ successCount' = successCount + IF Passed(status[r]) THEN 1 ELSE 0
  /\ Goto(r, IF r.mirrored THEN "append" ELSE "done")
  /\ UNCHANGED <<status, requestCount, mirroredCount, validationLog,
                 readyThreshPct, reporter, recorded>>

\* record, before its critical section.
CountSuccess(r) ==
  /\ pc[r] = "record"
  /\ successCount' =
       successCount + IF Passed(status[r]) /\ r.mirrored THEN 1 ELSE 0
  /\ Goto(r, IF r.mirrored THEN "append" ELSE "done")
  /\ UNCHANGED <<status, requestCount, mirroredCount, validationLog,
                 readyThreshPct, reporter, recorded>>

\* Mutant of Trim: the newest entry is dropped, not the oldest.
TrimNewest(log) == IF Len(log) > MaxLog THEN SubSeq(log, 1, MaxLog) ELSE log

\* The last MaxLog elements of a log.
Trim(log) ==
  IF Len(log) > MaxLog THEN SubSeq(log, Len(log) - MaxLog + 1, Len(log)) ELSE log

\* record's critical section.
AppendLog(r) ==
  /\ pc[r] = "append"
  /\ validationLog' = Trim(Append(validationLog, Entry(r)))
  /\ recorded' = Append(recorded, r)
  /\ Goto(r, "done")
  /\ UNCHANGED <<status, counters, readyThreshPct, reporter>>

(***************************************************************************)
(* The other handlers                                                      *)
(***************************************************************************)

\* Mutant of ValidPct: the range is not checked.
ValidPctAny(pct) == TRUE

ValidPct(pct) == pct >= 0 /\ pct <= 100

\* /config assigns the threshold, 0 from a body that does not name it.
Configures(r) ==
  r.handler = "config" /\ r.method \in {"PUT", "POST"} /\ r.object /\ ValidPct(r.pct)

AsideStatus(r) ==
  IF r.handler # "config" \/ r.method = "GET" \/ Configures(r) THEN 200
  ELSE IF r.method \in {"PUT", "POST"} THEN 400 ELSE 405

\* Neither counted nor recorded, mirrored or not.  What /validation-report and
\* /metrics answer is modelled below and in EwpMetrics.
Aside(r) ==
  /\ pc[r] = "new" /\ r.handler \in Asides
  /\ status' = [status EXCEPT ![r] = AsideStatus(r)]
  /\ readyThreshPct' = IF Configures(r) THEN r.pct ELSE readyThreshPct
  /\ Goto(r, "done")
  /\ UNCHANGED <<counters, validationLog, reporter, recorded>>

Handle(r) ==
  \/ Aside(r)
  \/ CountRequest(r) \/ CountMirrored(r)
  \/ Respond(r) \/ Refuse(r) \/ Abort(r)
  \/ CountSuccess(r) \/ AppendLog(r)

(***************************************************************************)
(* /validation-report                                                      *)
(***************************************************************************)

\* A mirrored request that should be recorded was answered, and not with a 2xx
\* status.
Failed(r) ==
  r.mirrored /\ r.handler \in Recording /\ pc[r] = "done" /\ ~Passed(status[r])

\* The copy made under validationMu.
ReportCopy ==
  /\ rpc = "idle"
  /\ entries' = validationLog
  /\ failedAtCopy' = \E r \in Req : Failed(r)
  /\ rpc' = "copied"
  /\ UNCHANGED <<pc, status, counters, validationLog, readyThreshPct, report, recorded>>

Count(log, path, ok) ==
  Cardinality({i \in 1 .. Len(log) : log[i].path = path /\ log[i].passed \in ok})

\* Mutant of EndpointReady: rate > thresh.
EndpointReadyStrict(log, path, thresh) ==
  Count(log, path, {TRUE}) * 100 > thresh * Count(log, path, BOOLEAN)

\* rate >= thresh for one endpoint.
EndpointReady(log, path, thresh) ==
  Count(log, path, {TRUE}) * 100 >= thresh * Count(log, path, BOOLEAN)

ReadyToCut(log, thresh) ==
  /\ log # <<>>
  /\ \A i \in 1 .. Len(log) : EndpointReady(log, log[i].path, thresh)

\* The threshold is read under threshMu, then the answer is computed.
ReportAnswer ==
  /\ rpc = "copied"
  /\ report' = [ready |-> ReadyToCut(entries, readyThreshPct),
                thresh |-> readyThreshPct]
  /\ rpc' = "answered"
  /\ UNCHANGED <<pc, status, counters, validationLog, readyThreshPct, entries,
                 failedAtCopy, recorded>>

ReportEnd ==
  /\ rpc = "answered"
  /\ rpc' = "idle"
  /\ entries' = <<>>
  /\ failedAtCopy' = FALSE
  /\ report' = [ready |-> FALSE, thresh |-> 100]
  /\ UNCHANGED <<pc, status, counters, validationLog, readyThreshPct, recorded>>

-----------------------------------------------------------------------------

Next ==
  \/ \E r \in Req : Handle(r)
  \/ ReportCopy \/ ReportAnswer \/ ReportEnd

Spec == Init /\ [][Next]_vars

-----------------------------------------------------------------------------
(***************************************************************************)
(* Properties                                                              *)
(***************************************************************************)

TypeOK ==
  /\ pc \in [Req -> Pcs]
  /\ status \in [Req -> {-1, 0, 200, 201, 202, 400, 405}]
  /\ requestCount \in Nat /\ mirroredCount \in Nat /\ successCount \in Nat
  /\ validationLog \in Seq([path : Methods \X Handlers, passed : BOOLEAN])
  /\ readyThreshPct \in 0 .. 100
  /\ rpc \in {"idle", "copied", "answered"}
  /\ entries \in Seq([path : Methods \X Handlers, passed : BOOLEAN])
  /\ report \in [ready : BOOLEAN, thresh : 0 .. 100]
  /\ recorded \in Seq(Req)
  /\ failedAtCopy \in BOOLEAN

Shadow(labels) == {r \in Req : r.mirrored /\ pc[r] \in labels}

\* The separately updated counters agree at all times up to the requests in
\* flight: every mirrored request counted is a success, a failure or still
\* being handled, and every success is in the log or about to be.
ShadowAccounting ==
  /\ mirroredCount = successCount + Cardinality({r \in Req : Failed(r)})
                                  + Cardinality(Shadow({"serve", "record"}))
  /\ successCount = Len(recorded) + Cardinality(Shadow({"append"}))

\* The log is always the MaxLog most recently recorded outcomes, in the order
\* in which they were recorded: trimming drops old entries only, and
\* concurrent calls of record lose none.
LogIsWindow ==
  LET n == Len(recorded)
      m == IF n > MaxLog THEN MaxLog ELSE n
  IN  /\ Len(validationLog) = m
      /\ \A i \in 1 .. m : validationLog[i] = Entry(recorded[n - m + i])

\* What the report says comes down to this: it is ready as soon as one
\* mirrored request was recorded.  Requests that fail never reach record, so
\* no threshold the operator sets can hold a cutover back.
ReadyIffTraffic == rpc = "answered" => (report.ready <=> entries # <<>>)

\* "When 'ready_to_cut' is true, EWP is handling all traffic correctly": no
\* mirrored request answered before the report had failed.
ReadyMeansNoFailure == rpc = "answered" /\ report.ready => ~failedAtCopy

-----------------------------------------------------------------------------
(***************************************************************************)
(* Inductive invariant                                                     *)
(***************************************************************************)

\* Only requests that passed get as far as record, only mirrored ones into its
\* critical section, and a recorded request is finished: its outcome no longer
\* changes.
PassInv ==
  /\ \A r \in Req : pc[r] \in {"record", "append"} => Passed(status[r])
  /\ \A r \in Req : pc[r] = "append" => r.mirrored
  /\ \A i \in 1 .. Len(recorded) : pc[recorded[i]] = "done"
  /\ \A i \in 1 .. Len(validationLog) : validationLog[i].passed
  /\ \A i \in 1 .. Len(entries) : entries[i].passed

=============================================================================
