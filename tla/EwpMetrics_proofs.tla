-------------------------- MODULE EwpMetrics_proofs --------------------------
(***************************************************************************)
(* Theorems about EwpMetrics, for any requests.  Those of EwpSim carry     *)
(* over, as its steps are the steps of EwpSim.                             *)
(***************************************************************************)
EXTENDS EwpMetrics, EwpSim_proofs

\* Reading the counters, for /metrics or for an id, changes nothing that
\* handlers, reports and configuration work on.
THEOREM MetricsOnlyReads == MetricsSpec => Spec
<1>1. MetricsInit => Init
  BY DEF MetricsInit
<1>2. [MetricsNext]_allVars => [Next]_vars
  BY DEF MetricsNext, allVars, LoadId, HandleRest, MetricsCall, MetricsLoad, MetricsEnd,
         Report, Next
<1> QED
  BY <1>1, <1>2, PTL DEF MetricsSpec, Spec

\* Counters only grow, one request at a time.
LEMMA CountersGrow ==
  ASSUME TypeOK, [MetricsNext]_allVars
  PROVE  mirroredCount' >= mirroredCount /\ requestCount' >= requestCount
<1>0. mirroredCount \in Nat /\ requestCount \in Nat
  BY TypeParts DEF HandlersOK
<1>1. ASSUME NEW r \in Req, Handle(r)
      PROVE  mirroredCount' >= mirroredCount /\ requestCount' >= requestCount
  <2>1. CASE CountRequest(r)
    BY <1>0, <2>1 DEF CountRequest
  <2>2. CASE CountMirrored(r)
    BY <1>0, <2>2 DEF CountMirrored
  <2>3. CASE Respond(r) \/ Refuse(r) \/ Abort(r) \/ CountSuccess(r) \/ AppendLog(r) \/ Aside(r)
    BY <1>0, <2>3 DEF Respond, Refuse, Abort, CountSuccess, AppendLog, Aside, counters
  <2> QED
    BY <1>1, <2>1, <2>2, <2>3 DEF Handle
<1>2. CASE ~\E r \in Req : Handle(r)
  <2>1. UNCHANGED counters
    BY <1>2 DEF MetricsNext, allVars, vars, LoadId, HandleRest, MetricsCall, MetricsLoad,
                MetricsEnd, Report, ReportCopy, ReportAnswer, ReportEnd
  <2> QED
    BY <1>0, <2>1 DEF counters
<1> QED
  BY <1>1, <1>2

(***************************************************************************)
(* /metrics                                                                *)
(***************************************************************************)

\* What /metrics has loaded of mirroredCount, the counter has reached.
MetricsInv ==
  /\ metrics \in [pc : {"idle", "mirrored", "success", "answered"}, mirrored : Nat, success : Nat]
  /\ metrics.mirrored <= mirroredCount

\* The steps of the /metrics call: nothing, a call that begins or ends, and the
\* two loads, one after the other.
LEMMA MetricsSteps ==
  ASSUME TypeOK, MetricsInv, [MetricsNext]_allVars
  PROVE  \/ metrics' = metrics
         \/ metrics' = NotLoaded
         \/ metrics' = [NotLoaded EXCEPT !.pc = "mirrored"]
         \/ metrics' = [metrics EXCEPT !.mirrored = mirroredCount, !.pc = "success"]
         \/ metrics' = [metrics EXCEPT !.success = successCount, !.pc = "answered"]
BY DEF MetricsNext, allVars, LoadId, HandleRest, Report, MetricsCall, MetricsEnd, MetricsLoad,
       Load, MetricsInv

\* Loads do not run ahead of the counter.
LEMMA MetricsStep ==
  ASSUME TypeOK, TypeOK', MetricsInv, [MetricsNext]_allVars
  PROVE  MetricsInv'
<1>1. /\ mirroredCount' >= mirroredCount /\ mirroredCount \in Nat /\ mirroredCount' \in Nat
      /\ successCount \in Nat
  BY CountersGrow, TypeParts DEF HandlersOK
<1>2. CASE metrics' = metrics
  BY <1>1, <1>2 DEF MetricsInv
<1>3. CASE metrics' = NotLoaded \/ metrics' = [NotLoaded EXCEPT !.pc = "mirrored"]
  BY <1>1, <1>3 DEF MetricsInv, NotLoaded
<1>4. CASE metrics' = [metrics EXCEPT !.mirrored = mirroredCount, !.pc = "success"]
  BY <1>1, <1>4 DEF MetricsInv
<1>5. CASE metrics' = [metrics EXCEPT !.success = successCount, !.pc = "answered"]
  <2>1. metrics.mirrored \in Nat /\ metrics'.mirrored = metrics.mirrored
    BY <1>5 DEF MetricsInv
  <2>2. metrics' \in [pc : {"idle", "mirrored", "success", "answered"}, mirrored : Nat, success : Nat]
    BY <1>1, <1>5 DEF MetricsInv
  <2> QED
    BY <1>1, <2>1, <2>2 DEF MetricsInv
<1> QED
  BY <1>2, <1>3, <1>4, <1>5, MetricsSteps

\* For any requests, a success rate below 100 % that /metrics shows is no
\* artefact of its two loads: mirrored requests have failed or are being served.
THEOREM RateIsReal == MetricsSpec => ShortfallIsReal
<1> DEFINE Step == metrics.pc # "answered" /\ metrics'.pc = "answered" =>
                     metrics'.mirrored <= metrics'.success
                                          + Cardinality({r \in Req : Failed(r)})
                                          + Cardinality(Shadow({"serve", "record"}))
<1>1. MetricsInit => MetricsInv
  BY DEF MetricsInit, Init, NotLoaded, MetricsInv
<1>2. TypeOK /\ TypeOK' /\ MetricsInv /\ [MetricsNext]_allVars => MetricsInv'
  BY MetricsStep
<1>3. TypeOK /\ ShadowAccounting /\ MetricsInv /\ [MetricsNext]_allVars => [Step]_allVars
  <2> SUFFICES ASSUME TypeOK, ShadowAccounting, MetricsInv, [MetricsNext]_allVars,
                      metrics.pc # "answered", metrics'.pc = "answered"
               PROVE  metrics'.mirrored <= metrics'.success
                                          + Cardinality({r \in Req : Failed(r)})
                                          + Cardinality(Shadow({"serve", "record"}))
    OBVIOUS
  <2>1. metrics'.mirrored = metrics.mirrored /\ metrics'.success = successCount
    <3>1. CASE metrics' = metrics
      BY <3>1
    <3>2. CASE metrics' = NotLoaded \/ metrics' = [NotLoaded EXCEPT !.pc = "mirrored"]
      BY <3>2 DEF NotLoaded
    <3>3. CASE metrics' = [metrics EXCEPT !.mirrored = mirroredCount, !.pc = "success"]
      BY <3>3 DEF MetricsInv
    <3>4. CASE metrics' = [metrics EXCEPT !.success = successCount, !.pc = "answered"]
      BY <3>4 DEF MetricsInv
    <3> QED
      BY <3>1, <3>2, <3>3, <3>4, MetricsSteps
  <2>2. mirroredCount = successCount + Cardinality({r \in Req : Failed(r)})
                                     + Cardinality(Shadow({"serve", "record"}))
    BY DEF ShadowAccounting
  <2> QED
    BY <2>1, <2>2 DEF MetricsInv
<1> QED
  BY <1>1, <1>2, <1>3, MetricsOnlyReads, EwpTypeCorrect, CountersBalance, PTL
     DEF MetricsSpec, ShortfallIsReal

(***************************************************************************)
(* Ids                                                                     *)
(***************************************************************************)

\* An id is never ahead of the counter it is loaded from, and the counter has
\* passed all ids that were sent before a creation was counted.
IdInv ==
  /\ id \in [Req -> Nat]
  /\ before \in [Req -> SUBSET Nat]
  /\ \A r \in Req : id[r] <= requestCount
  /\ \A r \in Req : pc[r] = "new" => id[r] = 0
  /\ \A r \in Req : \A n \in before[r] : pc[r] # "new" /\ n < requestCount
  /\ IdsFollowOrder

\* No id that was sent is ahead of requestCount.
LEMMA SentIdsBound ==
  ASSUME IdInv
  PROVE  SentIds \subseteq Nat /\ \A n \in SentIds : n <= requestCount
BY DEF IdInv, SentIds

\* Counting, loading an id and answering keep ids behind the counter.
LEMMA IdStep ==
  ASSUME TypeOK, TypeOK', IdInv, [MetricsNext]_allVars
  PROVE  IdInv'
<1>1. /\ requestCount' >= requestCount /\ requestCount \in Nat /\ requestCount' \in Nat
      /\ pc \in [Req -> Pcs]
  BY CountersGrow, TypeParts DEF HandlersOK
<1>2. ASSUME NEW r \in Req, LoadId(r)
      PROVE  IdInv'
  <2>1. /\ id' = [id EXCEPT ![r] = requestCount] /\ pc[r] = "serve"
        /\ UNCHANGED <<pc, requestCount, before>>
    BY <1>2 DEF LoadId, vars, counters
  <2> QED
    BY <1>1, <2>1 DEF IdInv, IdsFollowOrder
<1>3. ASSUME NEW r \in Req, HandleRest(r), pc[r] = "new", Creates(r)
      PROVE  IdInv'
  <2>1. CountRequest(r)
    BY <1>3 DEF HandleRest, Handle, Aside, CountRequest, CountMirrored, Respond, Refuse, Abort,
                CountSuccess, AppendLog, Creates, Switches, Asides
  <2>2. /\ requestCount' = requestCount + 1 /\ pc' = [pc EXCEPT ![r] = "counted"]
        /\ before' = [before EXCEPT ![r] = SentIds] /\ id' = id
    BY <1>3, <2>1 DEF CountRequest, Goto, Creates, Switches, HandleRest
  <2>3. SentIds \subseteq Nat /\ \A n \in SentIds : n <= requestCount
    BY SentIdsBound
  <2>4. before' \in [Req -> SUBSET Nat] /\ id' \in [Req -> Nat]
    BY <2>2, <2>3 DEF IdInv
  <2>5. \A q \in Req : id'[q] <= requestCount' /\ (pc'[q] = "new" => id'[q] = 0)
    BY <1>1, <2>2 DEF IdInv
  <2>6. ASSUME NEW q \in Req, NEW n \in before'[q]
        PROVE  pc'[q] # "new" /\ n < requestCount' /\ (id'[q] # 0 => id'[q] > n)
    <3>1. CASE q = r
      <4>1. n \in SentIds
        BY <2>2, <2>6, <3>1 DEF IdInv
      <4>2. id'[q] = 0 /\ pc'[q] = "counted"
        BY <1>1, <1>3, <2>2, <3>1 DEF IdInv
      <4>3. n \in Nat /\ n <= requestCount
        BY <2>3, <4>1
      <4> QED
        BY <1>1, <2>2, <4>2, <4>3
    <3>2. CASE q # r
      <4>1. n \in before[q] /\ id'[q] = id[q] /\ pc'[q] = pc[q]
        BY <1>1, <2>2, <2>6, <3>2 DEF IdInv
      <4>2. n \in Nat /\ id[q] \in Nat
        BY <4>1 DEF IdInv
      <4> QED
        BY <1>1, <2>2, <4>1, <4>2 DEF IdInv, IdsFollowOrder
    <3> QED
      BY <3>1, <3>2
  <2> QED
    BY <2>4, <2>5, <2>6 DEF IdInv, IdsFollowOrder
<1>4. CASE before' = before /\ id' = id /\ \A r \in Req : pc[r] # "new" => pc'[r] # "new"
  BY <1>1, <1>4 DEF IdInv, IdsFollowOrder
<1>5. ASSUME NEW r \in Req, HandleRest(r), ~(pc[r] = "new" /\ Creates(r))
      PROVE  IdInv'
  <2>1. \E l \in Pcs \ {"new"} : pc' = [pc EXCEPT ![r] = l]
    BY <1>5 DEF HandleRest, Handle, Aside, CountRequest, CountMirrored, Respond, Refuse, Abort,
                CountSuccess, AppendLog, Goto, Pcs
  <2>2. before' = before /\ id' = id
    BY <1>5 DEF HandleRest
  <2> QED
    BY <1>1, <1>4, <2>1, <2>2
<1>6. CASE MetricsCall \/ MetricsLoad \/ MetricsEnd \/ Report \/ UNCHANGED allVars
  <2>1. UNCHANGED <<pc, id, before>>
    BY <1>6 DEF MetricsCall, MetricsLoad, MetricsEnd, Report, allVars, vars, ReportCopy,
                ReportAnswer, ReportEnd
  <2> QED
    BY <1>4, <2>1
<1> QED
  BY <1>2, <1>3, <1>5, <1>6 DEF MetricsNext

\* Two creations get the same id only if they overlap: every id is larger than
\* all ids that had been sent when its request was counted.
THEOREM IdsFollow == MetricsSpec => []IdsFollowOrder
<1>1. MetricsInit => IdInv
  BY DEF MetricsInit, Init, IdInv, IdsFollowOrder
<1>2. TypeOK /\ TypeOK' /\ IdInv /\ [MetricsNext]_allVars => IdInv'
  BY IdStep
<1>3. IdInv => IdsFollowOrder
  BY DEF IdInv
<1> QED
  BY <1>1, <1>2, <1>3, MetricsOnlyReads, EwpTypeCorrect, PTL DEF MetricsSpec

=============================================================================
