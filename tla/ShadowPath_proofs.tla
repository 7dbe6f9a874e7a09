-------------------------- MODULE ShadowPath_proofs --------------------------
(***************************************************************************)
(* Theorems about ShadowPath, for any requests, route tables and log size. *)
(* Those of Mirror carry over, as its steps are the agent's.               *)
(***************************************************************************)
EXTENDS ShadowPath, Mirror_proofs

\* The agent runs as Mirror says, whatever clients, APIGEE and EWP do.
THEOREM AgentIsMirror == PathSpec => Spec
<1>1. PathInit => Init /\ sent \subseteq Req
  BY DEF PathInit, kSubset
<1>2. sent \subseteq Req /\ [PathNext]_pathVars => (sent \subseteq Req)' /\ [Next]_vars
  <2> SUFFICES ASSUME sent \subseteq Req, [PathNext]_pathVars
               PROVE  (sent \subseteq Req)' /\ [Next]_vars
    OBVIOUS
  <2>1. sent' = sent
    BY DEF PathNext, AgentStep, ApigeeStep, EwpStep, pathVars
  <2>2. AgentStep => Next
    BY DEF AgentStep, Next, Traffic
  <2>3. ApigeeStep \/ EwpStep \/ UNCHANGED pathVars => UNCHANGED vars
    BY DEF ApigeeStep, EwpStep, pathVars
  <2> QED
    BY <2>1, <2>2, <2>3 DEF PathNext
<1> QED
  BY <1>1, <1>2, PTL DEF PathSpec, Spec

(***************************************************************************)
(* Copies                                                                  *)
(***************************************************************************)

AllCopies == UNION {Copies(q) : q \in Req}

Originals == {Original(q) : q \in Req}

EwpLabels == {"new", "counted", "serve", "record", "append", "done"}

Statuses == {-1, 0, 200, 201, 202, 400, 405}

\* The transport sends a request MaxRetry times more at most.
RetryInv == \A q \in Req : copies[q] + Len(arrived[q]) <= MaxRetry + 1

\* No step sends a request more often than that.
LEMMA RetryStep ==
  ASSUME BalanceInv, TableInv, NetInv, RetryInv, [Next]_vars
  PROVE  RetryInv'
<1>0. /\ copies \in [Req -> Nat] /\ arrived \in [Req -> Seq(Path)]
      /\ SendsOK /\ MaxRetry \in Nat
  BY BoundAssumption DEF NetInv, NetOK, BalanceInv
<1>1. CASE UNCHANGED <<copies, arrived>>
  BY <1>1 DEF RetryInv
<1>2. ASSUME NEW q \in Req, Do(q) \/ Retry(q) \/ Arrive(q)
      PROVE  RetryInv'
  <2>1. /\ copies[q] \in Nat /\ Len(arrived[q]) \in Nat /\ arrived[q] \in Seq(Path)
        /\ NetOf(q) /\ copies[q] + Len(arrived[q]) <= MaxRetry + 1
    BY <1>0 DEF NetInv, RetryInv
  <2>2. \A r \in Req : r # q => copies'[r] = copies[r] /\ arrived'[r] = arrived[r]
    BY <1>0, <1>2 DEF Do, Retry, Arrive
  <2>3. CASE Do(q)
    <3>1. copies'[q] = 1 /\ arrived'[q] = <<>>
      BY <1>0, <2>1, <2>3 DEF Do, Go, NetOf
    <3> QED
      BY <1>0, <2>2, <3>1 DEF RetryInv
  <2>4. CASE Retry(q)
    <3>1. copies'[q] = copies[q] + 1 /\ arrived'[q] = arrived[q]
          /\ copies[q] + Len(arrived[q]) <= MaxRetry
      BY <1>0, <2>4 DEF Retry
    <3> QED
      BY <1>0, <2>1, <2>2, <3>1 DEF RetryInv
  <2>5. CASE Arrive(q)
    <3>1. /\ copies[q] > 0 /\ mpc # "load" /\ Allowed(q.path)
      BY <2>1, <2>5 DEF Arrive, NetOf, TableInv
    <3>2. resolveRoute(q.path) \in Path
      BY <3>1, AfterLoad, TargetType DEF TableInv
    <3>3. copies'[q] = copies[q] - 1 /\ arrived'[q] = Append(arrived[q], resolveRoute(q.path))
      BY <1>0, <2>5 DEF Arrive
    <3>4. Len(arrived'[q]) = Len(arrived[q]) + 1
      BY <2>1, <3>2, <3>3
    <3>5. copies'[q] + Len(arrived'[q]) <= MaxRetry + 1
      BY <1>0, <2>1, <3>3, <3>4
    <3> QED
      BY <1>0, <2>2, <3>5 DEF RetryInv
  <2> QED
    BY <1>2, <2>3, <2>4, <2>5
<1>3. CASE Rest \/ UNCHANGED vars
  BY <1>1, <1>3, RestKeeps DEF sends
<1>4. ASSUME NEW batch \in SUBSET Req, Assemble(batch)
      PROVE  RetryInv'
  BY <1>1, <1>4 DEF Assemble
<1>5. ASSUME NEW q \in Req, Skip(q) \/ CountSent(q) \/ logResult(q) \/ Waits(q)
      PROVE  RetryInv'
  BY <1>1, <1>2, <1>5 DEF Skip, CountSent, logResult, Waits, BadRequest, DoError, Redirect, Answer
<1> QED
  BY <1>3, <1>4, <1>5, NextCases

AgentInv == BalanceInv /\ TableInv /\ NetInv /\ RetryInv

\* What Mirror guarantees holds along the whole path.
LEMMA AgentInvariant == PathSpec => []AgentInv
<1>1. Init => RetryInv
  BY BoundAssumption DEF Init, RetryInv
<1>2. BalanceInv /\ TableInv /\ NetInv /\ RetryInv /\ [Next]_vars => RetryInv'
  BY RetryStep
<1> QED
  BY <1>1, <1>2, AgentIsMirror, RouteInvariant, PTL DEF Spec, AgentInv

\* What arrives at EWP is one of the copies it may have to handle.
LEMMA ArrivedAreCopies ==
  ASSUME AgentInv
  PROVE  AllArrived \subseteq AllCopies
<1> SUFFICES ASSUME NEW q \in Req, NEW n \in 1 .. Len(arrived[q])
             PROVE  Copy(q, n, arrived[q][n]) \in Copies(q)
  BY DEF AllArrived, Arrived, AllCopies
<1>1. /\ copies[q] \in Nat /\ arrived[q] \in Seq(Path) /\ Len(arrived[q]) \in Nat
      /\ NetOf(q) /\ flag \in Config
      /\ copies[q] + Len(arrived[q]) <= MaxRetry + 1 /\ MaxRetry \in Nat
  BY BoundAssumption DEF AgentInv, NetInv, NetOK, RetryInv, TableInv
<1>2. n \in 1 .. MaxRetry + 1
  BY <1>1
<1>3. arrived[q][n] = Target(q.path) /\ Allowed(q.path)
  <2>1. arrived[q] # <<>>
    BY <1>1
  <2> QED
    BY <1>1, <2>1 DEF NetOf
<1>4. Target(q.path) \in Targets(q)
  <2>1. CASE flag.json = "array"
    <3> DEFINE H == Hits(q.path, flag.rules)
    <3>1. H # {} /\ H \subseteq Nat
      BY <1>3, <2>1, ConfigAssumption, <1>1 DEF Allowed, Hits
    <3> HIDE DEF H
    <3>2. Min(H) \in H
      BY <3>1, MinOfNats
    <3> QED
      BY <1>1, <2>1, <3>2 DEF Target, Targets, H
  <2>2. CASE flag.json # "array"
    BY <2>2 DEF Target, Targets
  <2> QED
    BY <2>1, <2>2
<1> QED
  BY <1>2, <1>3, <1>4 DEF Copies

(***************************************************************************)
(* Answers                                                                 *)
(***************************************************************************)

\* The status that a request leads to on either side, whenever it is handled.
EwpStatus(r) ==
  IF r.handler \in EWP!Asides THEN EWP!AsideStatus(r)
  ELSE IF EWP!NotAllowed(r) THEN 405 ELSE IF EWP!NilMap(r) THEN -1 ELSE EWP!StatusOf(r)

ApigeeStatus(o) == IF APIGEE!NilMap(o) THEN -1 ELSE APIGEE!StatusOf(o)

ApigeeInv ==
  /\ apc \in [Originals -> {"new", "serve", "done"}]
  /\ astatus \in [Originals -> Statuses]
  /\ \A o \in Originals : astatus[o] # 0 => astatus[o] = ApigeeStatus(o)

EwpOf(r) ==
  /\ status[r] # 0 => status[r] = EwpStatus(r)
  /\ status[r] # 0 <=> epc[r] \in {"record", "append", "done"}
  /\ epc[r] \in {"record", "append"} => status[r] \in {200, 201, 202}
  /\ epc[r] \in {"counted", "serve", "record", "append"} => r.handler \in EWP!Recording

EwpInv ==
  /\ epc \in [AllCopies -> EwpLabels]
  /\ status \in [AllCopies -> Statuses]
  /\ mirroredCount \in Nat /\ successCount \in Nat
  /\ \A r \in AllCopies : EwpOf(r)

\* What the agent sends carries the header that marks mirrored traffic.
LEMMA CopyIsMirrored ==
  ASSUME NEW r \in AllCopies
  PROVE  r.mirrored
<1>1. PICK q \in Req : r \in Copies(q)
  BY DEF AllCopies
<1>2. PICK n \in 1 .. MaxRetry + 1, path \in Targets(q) : r = Copy(q, n, path)
  BY <1>1 DEF Copies
<1> QED
  BY <1>2 DEF Copy

\* APIGEE answers a request in one way only, whenever it gets to it.
LEMMA ApigeeAnswers ==
  ASSUME ApigeeInv, [PathNext]_pathVars
  PROVE  ApigeeInv'
<1>1. CASE UNCHANGED apigee
  BY <1>1 DEF apigee, ApigeeInv
<1>2. ASSUME NEW q \in sent, APIGEE!Handle(Original(q))
      PROVE  ApigeeInv'
  <2> DEFINE o == Original(q)
  <2>1. CASE APIGEE!Count(o)
    BY <2>1 DEF APIGEE!Count, APIGEE!Goto, ApigeeInv
  <2>2. CASE APIGEE!Respond(o) \/ APIGEE!Abort(o)
    <3>1. /\ apc' = [apc EXCEPT ![o] = "done"]
          /\ astatus' = [astatus EXCEPT ![o] = ApigeeStatus(o)]
      BY <2>2 DEF APIGEE!Respond, APIGEE!Abort, APIGEE!End, APIGEE!Goto, ApigeeStatus
    <3>2. ApigeeStatus(o) \in Statuses
      BY DEF ApigeeStatus, APIGEE!StatusOf, Statuses
    <3> QED
      BY <3>1, <3>2 DEF ApigeeInv
  <2> QED
    BY <1>2, <2>1, <2>2 DEF APIGEE!Handle
<1> QED
  BY <1>1, <1>2 DEF PathNext, AgentStep, ApigeeStep, EwpStep, pathVars

\* What one step of a handler of EWP does: the handler of r goes on to label to
\* with status st, and the two counters count it when they should.
EwpMove(r, to, st) ==
  /\ epc' = [epc EXCEPT ![r] = to]
  /\ status' = [status EXCEPT ![r] = st]
  /\ mirroredCount' = IF epc[r] = "counted" THEN mirroredCount + 1 ELSE mirroredCount
  /\ successCount' = IF epc[r] = "record" THEN successCount + 1 ELSE successCount
  /\ \/ /\ epc[r] = "new" /\ to = "done" /\ r.handler \notin EWP!Recording
        /\ st = EwpStatus(r) /\ st \in {200, 400, 405}
     \/ epc[r] = "new" /\ to = "counted" /\ st = status[r] /\ r.handler \in EWP!Recording
     \/ epc[r] = "counted" /\ to = "serve" /\ st = status[r]
     \/ epc[r] = "serve" /\ to = "record" /\ st = EwpStatus(r) /\ st \in {200, 201, 202}
     \/ epc[r] = "serve" /\ to = "done" /\ st = EwpStatus(r) /\ st \in {-1, 405}
     \/ epc[r] = "record" /\ to = "append" /\ st = status[r]
     \/ epc[r] = "append" /\ to = "done" /\ st = status[r]

\* A step of a handler of EWP moves one copy on, with or without its status.
LEMMA EwpMoves ==
  ASSUME EwpInv, NEW r \in AllCopies, EWP!Handle(r)
  PROVE  \E to \in EwpLabels, st \in Statuses : EwpMove(r, to, st)
<1>0. /\ r.mirrored /\ status[r] \in Statuses /\ EwpOf(r)
      /\ mirroredCount \in Nat /\ successCount \in Nat
      /\ status = [status EXCEPT ![r] = status[r]]
  BY CopyIsMirrored DEF EwpInv
<1>7. CASE EWP!Aside(r)
  <2>1. /\ EWP!AsideStatus(r) \in {200, 400, 405} /\ EwpStatus(r) = EWP!AsideStatus(r)
        /\ r.handler \notin EWP!Recording
    BY <1>7 DEF EWP!Aside, EWP!AsideStatus, EwpStatus, EWP!Asides, EWP!Recording
  <2>2. EwpMove(r, "done", EwpStatus(r))
    BY <1>0, <1>7, <2>1 DEF EWP!Aside, EWP!Goto, EWP!counters, EwpMove
  <2> QED
    BY <2>1, <2>2 DEF EwpLabels, Statuses
<1>8. epc[r] = "serve" => r.handler \notin EWP!Asides
  BY <1>0 DEF EwpOf, EWP!Asides, EWP!Recording
<1>1. CASE EWP!CountRequest(r)
  <2>1. EwpMove(r, "counted", status[r])
    BY <1>0, <1>1 DEF EWP!CountRequest, EWP!Goto, EwpMove
  <2> QED
    BY <1>0, <2>1 DEF EwpLabels
<1>2. CASE EWP!CountMirrored(r)
  <2>1. EwpMove(r, "serve", status[r])
    BY <1>0, <1>2 DEF EWP!CountMirrored, EWP!Goto, EwpMove
  <2> QED
    BY <1>0, <2>1 DEF EwpLabels
<1>3. CASE EWP!Respond(r)
  <2>1. EWP!StatusOf(r) \in {200, 201, 202} /\ EwpStatus(r) = EWP!StatusOf(r)
    BY <1>3, <1>8 DEF EWP!Respond, EWP!StatusOf, EwpStatus
  <2>2. EwpMove(r, "record", EwpStatus(r))
    BY <1>0, <1>3, <2>1 DEF EWP!Respond, EWP!Goto, EWP!counters, EwpMove
  <2> QED
    BY <2>1, <2>2 DEF EwpLabels, Statuses
<1>4. CASE EWP!Refuse(r) \/ EWP!Abort(r)
  <2>1. EwpStatus(r) \in {-1, 405} /\ status' = [status EXCEPT ![r] = EwpStatus(r)]
    BY <1>4, <1>8 DEF EWP!Refuse, EWP!Abort, EwpStatus, EWP!NilMap, EWP!NotAllowed
  <2>2. EwpMove(r, "done", EwpStatus(r))
    BY <1>0, <1>4, <2>1 DEF EWP!Refuse, EWP!Abort, EWP!Goto, EWP!counters, EwpMove
  <2> QED
    BY <2>1, <2>2 DEF EwpLabels, Statuses
<1>5. CASE EWP!CountSuccess(r)
  <2>1. status[r] \in {200, 201, 202}
    BY <1>0, <1>5 DEF EWP!CountSuccess, EwpOf
  <2>2. EWP!Passed(status[r])
    BY <2>1 DEF EWP!Passed
  <2>3. EwpMove(r, "append", status[r])
    BY <1>0, <1>5, <2>2 DEF EWP!CountSuccess, EWP!Goto, EwpMove
  <2> QED
    BY <1>0, <2>3 DEF EwpLabels
<1>6. CASE EWP!AppendLog(r)
  <2>1. EwpMove(r, "done", status[r])
    BY <1>0, <1>6 DEF EWP!AppendLog, EWP!Goto, EWP!counters, EwpMove
  <2> QED
    BY <1>0, <2>1 DEF EwpLabels
<1> QED
  BY <1>1, <1>2, <1>3, <1>4, <1>5, <1>6, <1>7 DEF EWP!Handle

\* A step of the path, seen from EWP: nothing, or a handler goes on.
LEMMA EwpSteps ==
  ASSUME AgentInv, EwpInv, [PathNext]_pathVars
  PROVE  \/ UNCHANGED ewp
         \/ /\ UNCHANGED <<vars, apigee>>
            /\ \E r \in AllArrived, to \in EwpLabels, st \in Statuses : EwpMove(r, to, st)
<1>1. CASE EwpStep
  <2>1. PICK r \in AllArrived : EWP!Handle(r)
    BY <1>1 DEF EwpStep, AllArrived
  <2>2. r \in AllCopies
    BY ArrivedAreCopies
  <2> QED
    BY <1>1, <2>1, <2>2, EwpMoves DEF EwpStep
<1> QED
  BY <1>1 DEF PathNext, AgentStep, ApigeeStep, pathVars

\* EWP answers a copy in one way only, whenever it gets to it.
LEMMA EwpAnswers ==
  ASSUME AgentInv, EwpInv, [PathNext]_pathVars
  PROVE  EwpInv'
<1>1. CASE UNCHANGED ewp
  BY <1>1 DEF ewp, EwpInv, EwpOf
<1>2. ASSUME NEW r \in AllArrived, NEW to \in EwpLabels, NEW st \in Statuses, EwpMove(r, to, st)
      PROVE  EwpInv'
  <2>1. r \in AllCopies /\ EwpOf(r)
    BY ArrivedAreCopies DEF EwpInv
  <2>2. /\ epc' \in [AllCopies -> EwpLabels] /\ status' \in [AllCopies -> Statuses]
        /\ mirroredCount' \in Nat /\ successCount' \in Nat
    <3>1. epc' = [epc EXCEPT ![r] = to] /\ status' = [status EXCEPT ![r] = st]
      BY <1>2 DEF EwpMove
    <3>2. mirroredCount' \in {mirroredCount, mirroredCount + 1}
          /\ successCount' \in {successCount, successCount + 1}
      BY <1>2 DEF EwpMove
    <3>3. mirroredCount \in Nat /\ successCount \in Nat
      BY DEF EwpInv
    <3>4. mirroredCount' \in Nat /\ successCount' \in Nat
      BY <3>2, <3>3
    <3>5. epc' \in [AllCopies -> EwpLabels] /\ status' \in [AllCopies -> Statuses]
      BY <3>1 DEF EwpInv
    <3> QED
      BY <3>4, <3>5
  <2>3. epc'[r] = to /\ status'[r] = st
    BY <1>2, <2>1 DEF EwpMove, EwpInv
  <2>4. EwpOf(r)'
    BY <1>2, <2>1, <2>3 DEF EwpMove, EwpOf
  <2>5. ASSUME NEW x \in AllCopies, x # r
        PROVE  EwpOf(x)'
    BY <1>2, <2>5 DEF EwpMove, EwpInv, EwpOf
  <2> QED
    BY <2>2, <2>4, <2>5 DEF EwpInv
<1> QED
  BY <1>1, <1>2, EwpSteps

\* Neither side has answered anything at first.
LEMMA AnswersInit ==
  ASSUME PathInit
  PROVE  ApigeeInv /\ EwpInv
<1>1. ApigeeInv
  BY DEF PathInit, APIGEE!Init, ApigeeInv, Originals, Statuses
<1>2. /\ epc = [r \in AllCopies |-> "new"] /\ status = [r \in AllCopies |-> 0]
      /\ mirroredCount = 0 /\ successCount = 0
  BY DEF PathInit, EWP!Init, AllCopies
<1>3. EwpInv
  BY <1>2 DEF EwpInv, EwpOf, EwpLabels, Statuses
<1> QED
  BY <1>1, <1>3

\* Statuses are what the request alone decides, on both sides.
LEMMA AnswersInvariant == PathSpec => [](AgentInv /\ ApigeeInv /\ EwpInv)
<1>1. AgentInv /\ ApigeeInv /\ EwpInv /\ [PathNext]_pathVars => ApigeeInv' /\ EwpInv'
  BY ApigeeAnswers, EwpAnswers
<1>2. PathInit => ApigeeInv /\ EwpInv
  BY AnswersInit
<1> QED
  BY <1>1, <1>2, AgentInvariant, PTL DEF PathSpec

\* The classes of the statuses that occur.
LEMMA ClassValues ==
  /\ ClassOf(0) = "none" /\ ClassOf(-1) = "netErr"
  /\ \A st \in {400, 405} : ClassOf(st) = "4xx"
  /\ \A st \in {200, 201, 202} : ClassOf(st) = "2xx"
BY DEF ClassOf

\* The handlers that the two sides have for a path.
LEMMA MuxValues ==
  ASSUME NEW path
  PROVE  /\ EwpMux(path) \in EWP!Recording \cup EWP!Asides
         /\ ApigeeMux(path) \notin {"validation-report", "config"}
BY DEF EwpMux, ApigeeMux, Mux, EWP!Recording, EWP!Asides

\* The class that APIGEE's answer has at EWP.
Expected(q, r) ==
  IF EWP!Switches(r) /\ BodyLost(q) THEN "netErr" ELSE ClassOf(ApigeeStatus(Original(q)))

\* Handlers of the two sides that get the same method and body agree.
LEMMA SameClass ==
  ASSUME NEW q \in Req, NEW n, NEW path, EwpMux(path) = ApigeeMux(q.path)
  PROVE  ClassOf(EwpStatus(Copy(q, n, path))) = Expected(q, Copy(q, n, path))
<1> DEFINE r == Copy(q, n, path)
           o == Original(q)
<1>1. r.handler = o.handler /\ r.method = q.method /\ o.method = q.method
  BY DEF Copy, Original
<1>2. (r.object <=> q.object /\ q.whole) /\ (o.object <=> q.object)
  BY DEF Copy, Original
<1>3. r.handler \notin {"validation-report", "config"} /\ ApigeeStatus(Original(q)) = ApigeeStatus(o)
  BY MuxValues DEF Copy
<1> HIDE DEF r, o
<1>4. EWP!Switches(r) <=> APIGEE!Switches(o)
  BY <1>1 DEF EWP!Switches, APIGEE!Switches
<1>5. EWP!Switches(r) => r.handler \notin EWP!Asides
  BY DEF EWP!Switches, EWP!Asides
<1>6. CASE ~EWP!Switches(r)
  <2>1. EwpStatus(r) = 200
    BY <1>3, <1>6 DEF EwpStatus, EWP!AsideStatus, EWP!NotAllowed, EWP!NilMap, EWP!StatusOf
  <2>2. ApigeeStatus(o) = 200
    BY <1>4, <1>6 DEF ApigeeStatus, APIGEE!StatusOf, APIGEE!NilMap
  <2> QED
    BY <1>3, <1>6, <2>1, <2>2 DEF r, Expected
<1>7. CASE EWP!Switches(r) /\ q.method = "POST" /\ ~(q.object /\ q.whole)
  <2>1. EwpStatus(r) = -1
    BY <1>1, <1>2, <1>5, <1>7 DEF EwpStatus, EWP!NotAllowed, EWP!NilMap
  <2>2. ~q.object => ApigeeStatus(o) = -1
    BY <1>1, <1>2, <1>4, <1>7 DEF ApigeeStatus, APIGEE!NilMap
  <2> QED
    BY <1>3, <1>7, <2>1, <2>2, ClassValues DEF r, Expected, BodyLost
<1>8. CASE EWP!Switches(r) /\ q.method = "POST" /\ q.object /\ q.whole
  <2>1. EwpStatus(r) \in {201, 202}
    BY <1>1, <1>2, <1>5, <1>8 DEF EwpStatus, EWP!NotAllowed, EWP!NilMap, EWP!StatusOf
  <2>2. ApigeeStatus(o) \in {201, 202}
    BY <1>1, <1>2, <1>4, <1>8 DEF ApigeeStatus, APIGEE!NilMap, APIGEE!StatusOf
  <2> QED
    BY <1>3, <1>8, <2>1, <2>2, ClassValues DEF r, Expected, BodyLost
<1>9. CASE EWP!Switches(r) /\ q.method # "POST"
  <2>1. /\ q.method = "GET" => EwpStatus(r) = 200
        /\ q.method # "GET" => EwpStatus(r) = 405
    BY <1>1, <1>5, <1>9 DEF EwpStatus, EWP!NotAllowed, EWP!NilMap, EWP!StatusOf
  <2>2. /\ q.method = "GET" => ApigeeStatus(o) = 200
        /\ q.method # "GET" => ApigeeStatus(o) = 405
    BY <1>1, <1>4, <1>9 DEF ApigeeStatus, APIGEE!NilMap, APIGEE!StatusOf
  <2> QED
    BY <1>3, <1>9, <2>1, <2>2 DEF r, Expected, BodyLost
<1> QED
  BY <1>6, <1>7, <1>8, <1>9

\* The comparison of APIGEE and EWP depends on the handlers that the path leads
\* to and on the body having been captured, and on nothing else.
THEOREM ClassesAgree == PathSpec => []Parity
<1>1. AgentInv /\ ApigeeInv /\ EwpInv => Parity
  <2> SUFFICES ASSUME AgentInv, ApigeeInv, EwpInv, NEW q \in Req, NEW r \in Arrived(q),
                      r.handler = ApigeeMux(q.path), status[r] # 0,
                      astatus[Original(q)] # 0
               PROVE  ClassOf(status[r]) = IF EWP!Switches(r) /\ BodyLost(q) THEN "netErr"
                                           ELSE ClassOf(astatus[Original(q)])
    BY DEF Parity
  <2>1. r \in AllCopies
    BY ArrivedAreCopies DEF AllArrived
  <2>2. status[r] = EwpStatus(r)
    BY <2>1 DEF EwpInv, EwpOf
  <2>3. astatus[Original(q)] = ApigeeStatus(Original(q))
    BY DEF ApigeeInv, Originals
  <2>4. PICK n \in 1 .. Len(arrived[q]) : r = Copy(q, n, arrived[q][n])
    BY DEF Arrived
  <2>5. EwpMux(arrived[q][n]) = ApigeeMux(q.path)
    BY <2>4 DEF Copy
  <2>6. PICK path : path = arrived[q][n]
    OBVIOUS
  <2>7. ClassOf(EwpStatus(r)) = Expected(q, r)
    BY <2>4, <2>5, <2>6, SameClass
  <2> QED
    BY <2>2, <2>3, <2>7 DEF Expected
<1> QED
  BY <1>1, AnswersInvariant, PTL

(***************************************************************************)
(* EWP's ledger                                                            *)
(***************************************************************************)

\* A copy has passed when it was answered with one of three statuses.
LEMMA PassedIs2xx ==
  ASSUME EwpInv, NEW r \in AllCopies
  PROVE  Passed(r) <=> status[r] \in {200, 201, 202}
<1>1. status[r] \in Statuses
  BY DEF EwpInv
<1> QED
  BY <1>1, ClassValues DEF Statuses, Passed

\* A step of the agent leaves what has arrived alone, or adds one copy.
LEMMA ArrivedSteps ==
  ASSUME AgentInv, [Next]_vars, arrived' # arrived
  PROVE  \E q \in Req :
           LET c == Copy(q, Len(arrived[q]) + 1, resolveRoute(q.path))
           IN  /\ Arrived(q)' = Arrived(q) \cup {c}
               /\ \A p \in Req \ {q} : Arrived(p)' = Arrived(p)
               /\ UNCHANGED <<pc, result, agentStats>>
<1>1. PICK q \in Req : Arrive(q)
  <2>1. ASSUME NEW q \in Req, Skip(q) \/ CountSent(q) \/ logResult(q) \/ Waits(q)
        PROVE  Arrive(q)
    BY <2>1 DEF Skip, CountSent, logResult, Waits, BadRequest, Do, DoError, Retry, Redirect,
                Answer
  <2>2. ASSUME NEW batch \in SUBSET Req, Assemble(batch)
        PROVE  FALSE
    BY <2>2 DEF Assemble
  <2>3. ~(Rest \/ UNCHANGED vars)
    BY RestKeeps DEF sends
  <2> QED
    BY <2>1, <2>2, <2>3, NextCases
<1> DEFINE path == resolveRoute(q.path)
           m == Len(arrived[q])
<1>2. /\ arrived \in [Req -> Seq(Path)] /\ arrived[q] \in Seq(Path) /\ m \in Nat
      /\ mpc # "load" /\ Allowed(q.path)
  BY <1>1 DEF AgentInv, NetInv, NetOK, NetOf, TableInv, Arrive
<1>3. path \in Path
  BY <1>2, AfterLoad, TargetType DEF AgentInv, TableInv
<1>4. arrived' = [arrived EXCEPT ![q] = Append(arrived[q], path)]
      /\ UNCHANGED <<pc, result, agentStats>>
  BY <1>1 DEF Arrive
<1>5. \A p \in Req \ {q} : Arrived(p)' = Arrived(p)
  BY <1>2, <1>4 DEF Arrived
<1>6. Arrived(q)' = Arrived(q) \cup {Copy(q, m + 1, path)}
  <2> HIDE DEF path
  <2>1. /\ arrived'[q] \in Seq(Path) /\ Len(arrived'[q]) = m + 1
        /\ arrived'[q][m + 1] = path
        /\ \A n \in 1 .. m : arrived'[q][n] = arrived[q][n]
    BY <1>2, <1>3, <1>4
  <2>2. 1 .. m + 1 = (1 .. m) \cup {m + 1}
    BY <1>2
  <2>3. Arrived(q)' = {Copy(q, n, arrived'[q][n]) : n \in (1 .. m) \cup {m + 1}}
    BY <2>1, <2>2 DEF Arrived
  <2>4. Arrived(q) = {Copy(q, n, arrived[q][n]) : n \in 1 .. m}
    BY DEF Arrived
  <2> HIDE DEF m
  <2> QED
    BY <2>1, <2>3, <2>4
<1> QED
  BY <1>4, <1>5, <1>6

Counted == {r \in Booked : epc[r] \in {"serve", "record", "append", "done"}}

Succeeded == {r \in Booked : Passed(r) /\ epc[r] \in {"append", "done"}}

\* EWP works on copies that have arrived, and has counted those it has begun to
\* serve, and the successes among those that are past record.
LedgerInv ==
  /\ IsFiniteSet(AllArrived)
  /\ \A r \in AllCopies : epc[r] # "new" => r \in AllArrived
  /\ mirroredCount = Cardinality(Counted)
  /\ successCount = Cardinality(Succeeded)

\* The sets EWP's counters count are finite.
LEMMA SubsetsFinite ==
  ASSUME LedgerInv
  PROVE  IsFiniteSet(Counted) /\ IsFiniteSet(Succeeded)
BY FS_Subset DEF LedgerInv, Counted, Succeeded, Booked

\* A copy arrives: no handler has begun with it, or it was there before.
LEMMA LedgerArrive ==
  ASSUME AgentInv, EwpInv, LedgerInv, (AllArrived \subseteq AllCopies)', NEW c,
         AllArrived' = AllArrived \cup {c}, UNCHANGED ewp
  PROVE  LedgerInv'
<1>1. c \in AllCopies /\ AllArrived \subseteq AllCopies
  OBVIOUS
<1>2. IsFiniteSet(AllArrived')
  BY FS_AddElement DEF LedgerInv
<1>3. /\ epc' = epc /\ status' = status
      /\ mirroredCount' = mirroredCount /\ successCount' = successCount
  BY DEF ewp
<1>4. c \notin AllArrived => epc[c] = "new" /\ ~Passed(c)
  <2>1. c \notin AllArrived => epc[c] = "new"
    BY <1>1 DEF LedgerInv
  <2>2. epc[c] = "new" => status[c] = 0
    BY <1>1 DEF EwpInv, EwpOf
  <2> QED
    BY <2>1, <2>2, ClassValues DEF Passed
<1>5. \A r : Passed(r)' <=> Passed(r)
  BY <1>3 DEF Passed
<1>6. Counted' = Counted
  BY <1>3, <1>4 DEF Counted, Booked
<1>7. Succeeded' = Succeeded
  BY <1>3, <1>4, <1>5 DEF Succeeded, Booked
<1> QED
  BY <1>2, <1>3, <1>6, <1>7 DEF LedgerInv

\* A handler of EWP goes on.
LEMMA LedgerMove ==
  ASSUME AgentInv, EwpInv, EwpInv', LedgerInv, AllArrived' = AllArrived,
         NEW r \in AllArrived, NEW to \in EwpLabels, NEW st \in Statuses, EwpMove(r, to, st)
  PROVE  LedgerInv'
<1>1. AllArrived \subseteq AllCopies /\ r \in AllCopies
  BY ArrivedAreCopies
<1>2. /\ epc'[r] = to /\ status'[r] = st
      /\ \A x \in AllCopies : x # r => epc'[x] = epc[x] /\ status'[x] = status[x]
  BY <1>1 DEF EwpMove, EwpInv
<1>3. \A x \in AllCopies : x # r => (Passed(x)' <=> Passed(x))
  BY <1>2 DEF Passed
<1>4. Passed(r)' <=> st \in {200, 201, 202}
  BY <1>2, ClassValues DEF Passed, Statuses
<1>5. Passed(r) <=> status[r] \in {200, 201, 202}
  BY <1>1, PassedIs2xx
<1>6. EwpOf(r) /\ mirroredCount \in Nat /\ successCount \in Nat
  BY <1>1 DEF EwpInv
<1>7. /\ IsFiniteSet(Counted) /\ IsFiniteSet(Succeeded) /\ Booked' = Booked
      /\ Booked \subseteq AllArrived
      /\ epc[r] \in {"counted", "serve", "record", "append"} => r \in Booked
      /\ to = "done" /\ epc[r] = "new" => r \notin Booked
  BY <1>6, SubsetsFinite DEF Booked, EwpOf, EwpMove
<1>8. mirroredCount' = Cardinality(Counted')
  <2>1. CASE epc[r] = "counted"
    <3>1. Counted' = Counted \cup {r} /\ r \notin Counted /\ mirroredCount' = mirroredCount + 1
      BY <1>1, <1>2, <1>7, <2>1 DEF Counted, EwpMove
    <3> QED
      BY <1>7, <3>1, FS_AddElement DEF LedgerInv
  <2>2. CASE epc[r] # "counted"
    <3>1. Counted' = Counted /\ mirroredCount' = mirroredCount
      BY <1>1, <1>2, <1>7, <2>2 DEF Counted, EwpMove
    <3> QED
      BY <3>1 DEF LedgerInv
  <2> QED
    BY <2>1, <2>2
<1>9. successCount' = Cardinality(Succeeded')
  <2>1. CASE epc[r] = "record"
    <3>1. to = "append" /\ st \in {200, 201, 202} /\ successCount' = successCount + 1
      BY <1>6, <2>1 DEF EwpMove, EwpOf
    <3>2. Succeeded' = Succeeded \cup {r} /\ r \notin Succeeded
      BY <1>1, <1>2, <1>3, <1>4, <1>7, <2>1, <3>1 DEF Succeeded
    <3> QED
      BY <1>7, <3>1, <3>2, FS_AddElement DEF LedgerInv
  <2>2. CASE epc[r] # "record"
    <3>1. successCount' = successCount
      BY <2>2 DEF EwpMove
    <3>2. r \in Succeeded' <=> r \in Succeeded
      BY <1>1, <1>2, <1>4, <1>5, <1>7, <2>2 DEF Succeeded, EwpMove
    <3>3. \A x \in AllArrived : x # r => (x \in Succeeded' <=> x \in Succeeded)
      BY <1>1, <1>2, <1>3, <1>7 DEF Succeeded
    <3>4. Succeeded' = Succeeded
      BY <1>7, <3>2, <3>3 DEF Succeeded
    <3> QED
      BY <3>1, <3>4 DEF LedgerInv
  <2> QED
    BY <2>1, <2>2
<1>10. \A x \in AllCopies : epc'[x] # "new" => x \in AllArrived
  BY <1>2 DEF LedgerInv
<1> QED
  BY <1>8, <1>9, <1>10 DEF LedgerInv

\* Every step keeps EWP's counters equal to what they count.
LEMMA LedgerStep ==
  ASSUME AgentInv, EwpInv, EwpInv', LedgerInv, (AllArrived \subseteq AllCopies)',
         [Next]_vars, [PathNext]_pathVars
  PROVE  LedgerInv'
<1>1. CASE UNCHANGED ewp /\ arrived' = arrived
  <2>1. AllArrived' = AllArrived
    BY <1>1 DEF AllArrived, Arrived
  <2> QED
    BY <1>1, <2>1 DEF ewp, LedgerInv, Counted, Succeeded, Booked, Passed
<1>2. CASE UNCHANGED ewp /\ arrived' # arrived
  <2>1. PICK q \in Req :
          /\ Arrived(q)' = Arrived(q) \cup {Copy(q, Len(arrived[q]) + 1, resolveRoute(q.path))}
          /\ \A p \in Req \ {q} : Arrived(p)' = Arrived(p)
    BY <1>2, ArrivedSteps
  <2>2. AllArrived' = AllArrived \cup {Copy(q, Len(arrived[q]) + 1, resolveRoute(q.path))}
    BY <2>1 DEF AllArrived
  <2>3. PICK c : c = Copy(q, Len(arrived[q]) + 1, resolveRoute(q.path))
    OBVIOUS
  <2> QED
    BY <1>2, <2>2, <2>3, LedgerArrive
<1>3. ASSUME UNCHANGED vars, NEW r \in AllArrived, NEW to \in EwpLabels, NEW st \in Statuses,
             EwpMove(r, to, st)
      PROVE  LedgerInv'
  <2>1. AllArrived' = AllArrived
    BY <1>3 DEF vars, sends, AllArrived, Arrived
  <2> QED
    BY <1>3, <2>1, LedgerMove
<1> QED
  BY <1>1, <1>2, <1>3, EwpSteps

(***************************************************************************)
(* The agent's ledger                                                      *)
(***************************************************************************)

\* The agent's 2xx are the requests that ended so, and each of them is one that
\* EWP has answered so.
SeenInv ==
  /\ agentStats["2xx"] = Ended({"2xx"})
  /\ \A q \in Req : result[q] = "2xx" => \E r \in Arrived(q) : Passed(r)

\* Every step keeps the agent's 2xx equal to the requests that ended so.
LEMMA CountStep ==
  ASSUME BalanceInv, agentStats["2xx"] = Ended({"2xx"}), [Next]_vars
  PROVE  agentStats'["2xx"] = Ended({"2xx"})'
<1>0. /\ SendsOK /\ StatsOK /\ ResultInv /\ Ended({"2xx"}) \in Nat
      /\ "2xx" \in Counters /\ "assembled" \in Counters /\ "skipped" \in Counters
      /\ "sent" \in Counters /\ agentStats["2xx"] \in Nat
  BY SetsFinite, CountersAre, StatsType DEF BalanceInv
<1>1. CASE Rest \/ UNCHANGED vars
  BY <1>1, RestKeeps DEF sends, Ended
<1>2. ASSUME NEW batch \in SUBSET Req, Assemble(batch)
      PROVE  agentStats'["2xx"] = Ended({"2xx"})'
  <2>1. EndedSet({"2xx"})' = EndedSet({"2xx"})
    BY <1>0, <1>2 DEF Assemble, GoSend, EndedSet, SendsOK
  <2>2. Cardinality(batch) \in Nat
    BY ReqAssumption, FS_Subset, FS_CardinalityType
  <2>3. agentStats'["2xx"] = agentStats["2xx"]
    BY <1>0, <1>2, <2>2, AddKeeps DEF Assemble
  <2> QED
    BY <2>1, <2>3 DEF Ended, EndedSet
<1>3. ASSUME NEW q \in Req, Skip(q) \/ CountSent(q)
      PROVE  agentStats'["2xx"] = Ended({"2xx"})'
  <2>1. /\ pc[q] = "route" /\ result' = result /\ result[q] = "none"
        /\ pc' = [pc EXCEPT ![q] = "done"] \/ pc' = [pc EXCEPT ![q] = "do"]
    BY <1>0, <1>3 DEF Skip, CountSent, Go, ResultInv
  <2>2. Ended({"2xx"})' = Ended({"2xx"})
    BY <1>0, <2>1, EndedMoves
  <2>3. agentStats'["2xx"] = agentStats["2xx"]
    BY <1>0, <1>3, AddKeeps DEF Skip, CountSent
  <2> QED
    BY <2>2, <2>3
<1>4. ASSUME NEW q \in Req, logResult(q)
      PROVE  agentStats'["2xx"] = Ended({"2xx"})'
  <2>1. pc[q] = "log" /\ result' = result /\ pc' = [pc EXCEPT ![q] = "done"]
    BY <1>4 DEF logResult, Go
  <2>2. CASE result[q] = "2xx"
    <3>1. Ended({"2xx"})' = Ended({"2xx"}) + 1
      BY <1>0, <2>1, <2>2, EndedMoves
    <3>2. Add("2xx", 1)
      BY <1>4, <2>2 DEF logResult, Outcomes
    <3>3. agentStats'["2xx"] = agentStats["2xx"] + 1
      BY <1>0, <3>2, AddKeeps
    <3> QED
      BY <3>1, <3>3
  <2>3. CASE result[q] # "2xx"
    <3>1. Ended({"2xx"})' = Ended({"2xx"})
      BY <1>0, <2>1, <2>3, EndedMoves
    <3>2. agentStats' = agentStats \/ \E k \in Counters \ {"2xx"} : Add(k, 1)
      BY <1>4, <2>3, CountersAre DEF logResult, Outcomes
    <3>3. agentStats'["2xx"] = agentStats["2xx"]
      BY <1>0, <3>2, AddKeeps
    <3> QED
      BY <3>1, <3>3
  <2> QED
    BY <2>2, <2>3
<1>5. ASSUME NEW q \in Req, Waits(q)
      PROVE  agentStats'["2xx"] = Ended({"2xx"})'
  <2>1. agentStats' = agentStats
    BY <1>0, <1>5, WaitsMoves
  <2>2. CASE pc' = pc /\ result' = result
    BY <2>1, <2>2 DEF Ended
  <2>3. ASSUME NEW to \in {"wire", "hop", "log"}, pc[q] \in {"do", "wire", "hop"},
               pc' = [pc EXCEPT ![q] = to], \A r \in Req : r # q => result'[r] = result[r]
        PROVE  Ended({"2xx"})' = Ended({"2xx"})
    BY <1>0, <2>3, EndedMoves
  <2>4. CASE /\ pc[q] \in {"do", "wire", "hop"}
             /\ pc' = [pc EXCEPT ![q] = "wire"] \/ pc' = [pc EXCEPT ![q] = "hop"]
             /\ result' = result
    BY <2>1, <2>3, <2>4
  <2>5. CASE /\ pc[q] \in {"do", "wire", "hop"}
             /\ pc' = [pc EXCEPT ![q] = "log"]
             /\ \E k \in Results \ {"none"} : result' = [result EXCEPT ![q] = k]
    BY <1>0, <2>1, <2>3, <2>5 DEF SendsOK
  <2> QED
    BY <1>0, <1>5, <2>2, <2>4, <2>5, WaitsMoves
<1> QED
  BY <1>1, <1>2, <1>3, <1>4, <1>5, NextCases

\* Only client.Do gives a request its result, and "2xx" is a class of answers.
LEMMA ResultStep ==
  ASSUME BalanceInv, [Next]_vars, NEW q \in Req, result'[q] = "2xx", result[q] # "2xx"
  PROVE  result[q] = "none" /\ "2xx" \in Class /\ arrived' = arrived
<1>0. SendsOK /\ ResultInv /\ result \in [Req -> Results]
  BY DEF BalanceInv, SendsOK
<1>1. ~(Rest \/ UNCHANGED vars)
  BY RestKeeps DEF sends
<1>2. ASSUME NEW batch \in SUBSET Req, Assemble(batch)
      PROVE  FALSE
  BY <1>2 DEF Assemble
<1>3. ASSUME NEW p \in Req, Skip(p) \/ CountSent(p) \/ logResult(p) \/ Do(p) \/ Retry(p)
                             \/ Redirect(p) \/ Arrive(p)
      PROVE  FALSE
  BY <1>3 DEF Skip, CountSent, logResult, Do, Retry, Redirect, Arrive
<1>4. ASSUME NEW p \in Req, BadRequest(p) \/ DoError(p)
      PROVE  FALSE
  <2>1. result' = [result EXCEPT ![p] = "netErr"]
    BY <1>4 DEF BadRequest, DoError, End
  <2> QED
    BY <1>0, <2>1
<1>5. ASSUME NEW p \in Req, NEW k \in Class, Answer(p, k)
      PROVE  result[q] = "none" /\ "2xx" \in Class /\ arrived' = arrived
  <2>1. /\ result' = [result EXCEPT ![p] = k] /\ pc[p] \in {"wire", "hop"}
        /\ arrived' = arrived
    BY <1>5 DEF Answer, End, Go, InDo
  <2>2. p = q /\ k = "2xx"
    BY <1>0, <2>1
  <2> QED
    BY <1>0, <2>1, <2>2 DEF ResultInv
<1> QED
  BY <1>1, <1>2, <1>3, <1>4, <1>5, NextCases DEF Waits

\* A success of EWP is for good: no step takes back a status or a copy.
LEMMA PassedStays ==
  ASSUME AgentInv, EwpInv, [Next]_vars, [PathNext]_pathVars,
         NEW q \in Req, NEW r \in Arrived(q), Passed(r)
  PROVE  r \in Arrived(q)' /\ Passed(r)'
<1>1. r \in Arrived(q)'
  <2>1. CASE arrived' = arrived
    BY <2>1 DEF Arrived
  <2>2. CASE arrived' # arrived
    BY <2>2, ArrivedSteps
  <2> QED
    BY <2>1, <2>2
<1>2. r \in AllCopies /\ AllArrived \subseteq AllCopies
  BY ArrivedAreCopies DEF AllArrived
<1>3. UNCHANGED ewp => Passed(r)'
  BY DEF ewp, Passed
<1>4. ASSUME NEW x \in AllArrived, NEW to \in EwpLabels, NEW st \in Statuses, EwpMove(x, to, st)
      PROVE  Passed(r)'
  <2>1. status[r] # 0 /\ EwpOf(r)
    BY <1>2, PassedIs2xx DEF EwpInv
  <2>2. status'[r] = status[r]
    BY <1>2, <1>4, <2>1 DEF EwpMove, EwpOf, EwpInv
  <2> QED
    BY <2>2 DEF Passed
<1>5. UNCHANGED ewp \/ \E x \in AllArrived, to \in EwpLabels, st \in Statuses : EwpMove(x, to, st)
  BY EwpSteps
<1>6. Passed(r)'
  BY <1>3, <1>4, <1>5
<1> QED
  BY <1>1, <1>6

\* A 2xx the agent sees is one that EWP gave.
LEMMA SeenStep ==
  ASSUME AgentInv, EwpInv, SeenInv, [Next]_vars, [PathNext]_pathVars
  PROVE  SeenInv'
<1>1. agentStats'["2xx"] = Ended({"2xx"})'
  BY CountStep DEF AgentInv, SeenInv
<1>2. ASSUME NEW q \in Req, result'[q] = "2xx"
      PROVE  \E r \in Arrived(q)' : Passed(r)'
  <2>1. CASE result[q] = "2xx"
    <3>1. PICK r \in Arrived(q) : Passed(r)
      BY <2>1 DEF SeenInv
    <3> QED
      BY <3>1, PassedStays
  <2>2. CASE result[q] # "2xx"
    <3>1. result[q] = "none" /\ "2xx" \in Class
      BY <1>2, <2>2, ResultStep DEF AgentInv
    <3>2. AgentStep
      BY <1>2, <2>2 DEF PathNext, ApigeeStep, EwpStep, pathVars, vars, sends
    <3>3. PICK r \in Arrived(q) : ClassOf(status[r]) = "2xx"
      BY <1>2, <3>1, <3>2 DEF AgentStep
    <3>4. Passed(r)
      BY <3>3 DEF Passed
    <3> QED
      BY <3>4, PassedStays
  <2> QED
    BY <2>1, <2>2
<1> QED
  BY <1>1, <1>2 DEF SeenInv

(***************************************************************************)
(* The two ledgers                                                         *)
(***************************************************************************)

\* All copies of a request go to the same handler of EWP.
LEMMA SameHandler ==
  ASSUME AgentInv, NEW q \in Req, NEW r \in Arrived(q)
  PROVE  /\ r.handler = EwpMux(Target(q.path))
         /\ r.handler \in EWP!Recording <=> r.handler \notin EWP!Asides
<1>1. PICK n \in 1 .. Len(arrived[q]) : r = Copy(q, n, arrived[q][n])
  BY DEF Arrived
<1>2. NetOf(q) /\ arrived[q] \in Seq(Path)
  BY DEF AgentInv, NetInv, NetOK
<1>3. arrived[q][n] = Target(q.path)
  <2>1. arrived[q] # <<>>
    BY <1>2
  <2> QED
    BY <1>2, <2>1 DEF NetOf
<1>4. r.handler = EwpMux(Target(q.path))
  BY <1>1, <1>3 DEF Copy
<1>5. r.handler \in EWP!Recording \cup EWP!Asides
  BY <1>4, MuxValues
<1> QED
  BY <1>4, <1>5 DEF EWP!Recording, EWP!Asides

\* Together the two ledgers give the balance between them.
LEMMA LedgersMatch ==
  ASSUME AgentInv, EwpInv, LedgerInv, SeenInv
  PROVE  Ledgers
<1> DEFINE passed == {r \in Booked : Passed(r)}
           succeeded == {q \in Req : Arrived(q) \cap passed # {}}
           seen == {q \in Req : pc[q] = "done" /\ result[q] = "2xx"}
           aside == {q \in seen : \E r \in Arrived(q) : r.handler \in EWP!Asides}
           waiting == {r \in Booked : epc[r] \in {"new", "counted"}}
           recording == {r \in passed : epc[r] = "record"}
<1>1. AllArrived \subseteq AllCopies /\ IsFiniteSet(Booked) /\ IsFiniteSet(Req)
      /\ Booked \subseteq AllArrived
  BY ArrivedAreCopies, ReqAssumption, FS_Subset DEF LedgerInv, Booked
<1>2. /\ IsFiniteSet(succeeded) /\ IsFiniteSet(seen) /\ IsFiniteSet(passed)
      /\ IsFiniteSet(waiting) /\ IsFiniteSet(recording)
      /\ IsFiniteSet(Counted) /\ IsFiniteSet(Succeeded)
  <2>1. passed \subseteq Booked /\ recording \subseteq Booked /\ waiting \subseteq Booked
    OBVIOUS
  <2> QED
    BY <1>1, <2>1, SubsetsFinite, FS_Subset
<1>3. \A r \in Booked : epc[r] \in EwpLabels /\ EwpOf(r) /\ (Passed(r) => status[r] # 0)
  BY <1>1, PassedIs2xx DEF EwpInv
<1>4. Cardinality(Booked) = mirroredCount + Cardinality(waiting)
  <2>1. waiting = Booked \ Counted /\ Booked \cap Counted = Counted
    BY <1>3 DEF Counted, EwpLabels
  <2>2. Cardinality(waiting) = Cardinality(Booked) - Cardinality(Counted)
    BY <1>1, <2>1, FS_Difference
  <2> QED
    BY <1>1, <1>2, <2>2, FS_CardinalityType DEF LedgerInv
<1>5. Cardinality(passed) = successCount + Cardinality(recording)
  <2>1. recording = passed \ Succeeded /\ passed \cap Succeeded = Succeeded
    BY <1>3 DEF Succeeded, EwpOf
  <2>2. Cardinality(recording) = Cardinality(passed) - Cardinality(Succeeded)
    BY <1>2, <2>1, FS_Difference
  <2> QED
    BY <1>2, <2>2, FS_CardinalityType DEF LedgerInv
<1>6. aside = seen \ succeeded
  <2>1. ASSUME NEW q \in seen
        PROVE  q \in aside <=> q \notin succeeded
    <3>1. PICK r \in Arrived(q) : Passed(r)
      BY DEF SeenInv
    <3>2. r \in AllArrived
      BY <3>1 DEF AllArrived
    <3>3. \A x \in Arrived(q) : x.handler = r.handler
                                /\ (x.handler \in EWP!Recording <=> x.handler \notin EWP!Asides)
      BY SameHandler
    <3>4. CASE r.handler \in EWP!Asides
      <4>1. q \in aside
        BY <3>4
      <4>2. \A x \in Arrived(q) : x \notin Booked
        BY <3>3, <3>4 DEF Booked
      <4> QED
        BY <4>1, <4>2
    <3>5. CASE r.handler \notin EWP!Asides
      <4>1. r \in Booked /\ q \notin aside
        BY <3>2, <3>3, <3>5 DEF Booked
      <4>2. r \in passed
        BY <3>1, <4>1
      <4> QED
        BY <3>1, <4>1, <4>2
    <3> QED
      BY <3>4, <3>5
  <2> QED
    BY <2>1
<1>7. Cardinality(succeeded) + Cardinality(aside)
        = agentStats["2xx"] + Cardinality(succeeded \ seen)
  <2> HIDE DEF succeeded, seen, passed, recording, waiting, aside
  <2>1. Cardinality(succeeded \ seen) = Cardinality(succeeded) - Cardinality(succeeded \cap seen)
    BY <1>2, FS_Difference
  <2>2. Cardinality(aside) = Cardinality(seen) - Cardinality(seen \cap succeeded)
    BY <1>2, <1>6, FS_Difference
  <2>3. agentStats["2xx"] = Cardinality(seen)
    BY DEF SeenInv, Ended, seen
  <2>4. seen \cap succeeded = succeeded \cap seen /\ IsFiniteSet(succeeded \cap seen)
    BY <1>2, FS_Intersection
  <2>5. PICK c \in Nat, s \in Nat, k \in Nat :
          /\ c = Cardinality(succeeded) /\ s = Cardinality(seen)
          /\ k = Cardinality(succeeded \cap seen)
    BY <1>2, <2>4, FS_CardinalityType
  <2>6. c + (s - k) = s + (c - k)
    OBVIOUS
  <2> QED
    BY <2>1, <2>2, <2>3, <2>4, <2>5, <2>6
<1>8. /\ Cardinality(passed) \in Nat /\ Cardinality(succeeded) \in Nat
      /\ Cardinality(succeeded \ seen) \in Nat /\ agentStats["2xx"] \in Nat
      /\ Cardinality(recording) \in Nat /\ successCount \in Nat /\ Cardinality(aside) \in Nat
  BY <1>2, <1>6, FS_CardinalityType, FS_Difference, StatsType DEF AgentInv, BalanceInv, EwpInv
<1>9. successCount + Cardinality(recording) + Cardinality(aside)
        = agentStats["2xx"] + Cardinality(succeeded \ seen)
          + (Cardinality(passed) - Cardinality(succeeded))
  <2> HIDE DEF succeeded, seen, passed, recording, aside
  <2> QED
    BY <1>5, <1>7, <1>8
<1> QED
  BY <1>4, <1>9 DEF Ledgers

\* The counters of the agent and of EWP agree at all times up to what is under
\* way, timed out, cut off or repeated: no success is counted on one side and
\* unexplained on the other.
THEOREM LedgersAgree == PathSpec => []Ledgers
<1>1. PathInit => LedgerInv /\ SeenInv
  <2> SUFFICES ASSUME PathInit
               PROVE  LedgerInv /\ SeenInv
    OBVIOUS
  <2>1. Init /\ EwpInv
    BY AnswersInit DEF PathInit
  <2>2. AllArrived = {}
    BY <2>1 DEF Init, AllArrived, Arrived
  <2>3. /\ epc = [r \in AllCopies |-> "new"] /\ mirroredCount = 0 /\ successCount = 0
    BY DEF PathInit, EWP!Init, AllCopies
  <2>4. LedgerInv
    BY <2>2, <2>3, FS_EmptySet DEF LedgerInv, Counted, Succeeded, Booked
  <2>5. EndedSet({"2xx"}) = {}
    BY <2>1 DEF Init, EndedSet
  <2>6. Ended({"2xx"}) = 0
    BY <2>5, SetsFinite, FS_EmptySet
  <2>7. SeenInv
    BY <2>1, <2>6, CountersAre DEF Init, SeenInv
  <2> QED
    BY <2>4, <2>7
<1>2. AgentInv => AllArrived \subseteq AllCopies
  BY ArrivedAreCopies
<1>3. AgentInv /\ EwpInv /\ EwpInv' /\ LedgerInv /\ (AllArrived \subseteq AllCopies)'
        /\ [Next]_vars /\ [PathNext]_pathVars => LedgerInv'
  BY LedgerStep
<1>4. AgentInv /\ EwpInv /\ SeenInv /\ [Next]_vars /\ [PathNext]_pathVars => SeenInv'
  BY SeenStep
<1>5. AgentInv /\ EwpInv /\ LedgerInv /\ SeenInv => Ledgers
  BY LedgersMatch
<1> QED
  BY <1>1, <1>2, <1>3, <1>4, <1>5, AnswersInvariant, AgentIsMirror, PTL DEF PathSpec, Spec

=============================================================================
