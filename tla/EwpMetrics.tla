----------------------------- MODULE EwpMetrics -----------------------------
(***************************************************************************)
(* The parts of ewp-sim/main.go that read its counters while requests are  *)
(* being handled: /metrics, which loads them one after the other,          *)
(* and the ids of created resources, loaded some time after the count.     *)
(***************************************************************************)
EXTENDS EwpSim

VARIABLES
  id,        \* id[r]: the number in the id of the created resource
  before,    \* history: before[r]: the ids that had been sent when r was counted
  metrics    \* the /metrics call: what it has loaded

allVars == <<vars, id, before, metrics>>

NotLoaded == [pc |-> "idle", mirrored |-> 0, success |-> 0]

MetricsInit ==
  /\ Init
  /\ id = [r \in Req |-> 0]
  /\ before = [r \in Req |-> {}]
  /\ metrics = NotLoaded

Creates(r) == Switches(r) /\ r.method = "POST" /\ r.object

\* Ids of created resources that have been sent.
SentIds == {id[r] : r \in {q \in Req : status[q] # 0 /\ id[q] # 0}}

\* requestCount.Load(), before the answer is written.
LoadId(r) ==
  /\ pc[r] = "serve" /\ Creates(r) /\ id[r] = 0
  /\ id' = [id EXCEPT ![r] = requestCount]
  /\ UNCHANGED <<vars, before, metrics>>

\* The steps of EwpSim; a creation has its id before it answers.
HandleRest(r) ==
  /\ Handle(r)
  /\ pc[r] = "serve" /\ Creates(r) => id[r] # 0
  /\ before' = IF pc[r] = "new" /\ Creates(r)
               THEN [before EXCEPT ![r] = SentIds] ELSE before
  /\ UNCHANGED <<id, metrics>>

\* The load of requestCount, which is only shown, and the call.  Bound: the
\* operator makes one call at a time, of /metrics or for a report.
MetricsCall ==
  /\ metrics.pc = "idle" /\ rpc = "idle"
  /\ metrics' = [NotLoaded EXCEPT !.pc = "mirrored"]
  /\ UNCHANGED <<vars, id, before>>

MetricsEnd ==
  /\ metrics.pc = "answered"
  /\ metrics' = NotLoaded
  /\ UNCHANGED <<vars, id, before>>

Load(f, counter, next) ==
  /\ metrics.pc = f
  /\ metrics' = [metrics EXCEPT ![f] = counter, !.pc = next]

\* Mutant of MetricsLoad: success is loaded first.
MetricsLoadSwapped ==
  /\ \/ /\ metrics.pc = "mirrored"
        /\ metrics' = [metrics EXCEPT !.success = successCount, !.pc = "success"]
     \/ /\ metrics.pc = "success"
        /\ metrics' = [metrics EXCEPT !.mirrored = mirroredCount, !.pc = "answered"]
  /\ UNCHANGED <<vars, id, before>>

\* The two loads from which the rate is computed.
MetricsLoad ==
  /\ \/ Load("mirrored", mirroredCount, "success")
     \/ Load("success", successCount, "answered")
  /\ UNCHANGED <<vars, id, before>>

\* /validation-report, as in EwpSim.
Report ==
  /\ metrics.pc = "idle"
  /\ ReportCopy \/ ReportAnswer \/ ReportEnd
  /\ UNCHANGED <<id, before, metrics>>

MetricsNext ==
  \/ \E r \in Req : LoadId(r) \/ HandleRest(r)
  \/ MetricsCall \/ MetricsLoad \/ MetricsEnd
  \/ Report

MetricsSpec == MetricsInit /\ [][MetricsNext]_allVars

-----------------------------------------------------------------------------
(***************************************************************************)
(* Properties                                                              *)
(***************************************************************************)

\* A success_rate_pct below 100 % is real: although the two counters are loaded
\* one after the other while requests come in, what the rate lacks is no more
\* than the mirrored requests that have failed or are being served.
ShortfallIsReal ==
  [][metrics.pc # "answered" /\ metrics'.pc = "answered" =>
       metrics'.mirrored <= metrics'.success + Cardinality({r \in Req : Failed(r)})
                                             + Cardinality(Shadow({"serve", "record"}))]_allVars

\* Two creations get the same id only if they overlap: the id, loaded some time
\* after the count, is still larger than every id sent before the request came.
IdsFollowOrder == \A r \in Req : id[r] # 0 => \A n \in before[r] : id[r] > n

=============================================================================
