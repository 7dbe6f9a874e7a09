----------------------------- MODULE ShadowPath -----------------------------
(***************************************************************************)
(* The path of a request through the system: a client sends it to APIGEE,  *)
(* the agent captures it on the way in, whatever APIGEE makes of it, and   *)
(* sends a copy to EWP, whose counters the operator compares with those of *)
(* the agent.  Composition of Mirror, ApigeeSim and EwpSim.                *)
(***************************************************************************)
EXTENDS Mirror

CONSTANTS
  MaxLog,    \* as in EwpSim
  MaxSent    \* bound: requests sent in a behaviour

VARIABLES
  sent,                                                   \* what clients send
  apc, astatus, acount,                                   \* ApigeeSim
  epc, status, requestCount, mirroredCount, successCount, \* EwpSim
  validationLog, readyThreshPct, rpc, entries, report, recorded, failedAtCopy

apigee == <<apc, astatus, acount>>
ewp == <<epc, status, requestCount, mirroredCount, successCount, validationLog,
         readyThreshPct, rpc, entries, report, recorded, failedAtCopy>>
pathVars == <<vars, sent, apigee, ewp>>

\* http.ServeMux: handlers with a path of their own, users with all paths below
\* its own, and echo with the rest.
Mux(path, patterns) ==
  IF \E h \in patterns : path = <<h>> THEN path[1]
  ELSE IF IsPrefix(<<"users/">>, path) THEN "users" ELSE "echo"

\* APIGEE leaves /validation-report and /config to echo.
ApigeeMux(path) == Mux(path, {"products", "orders", "health", "metrics"})

EwpMux(path) ==
  Mux(path, {"products", "orders", "health", "metrics", "validation-report", "config"})

\* What the client sends to APIGEE.
Original(q) ==
  [id |-> q.id, handler |-> ApigeeMux(q.path), method |-> q.method, object |-> q.object]

\* The n-th copy of q that arrives at EWP.  whole: the tracker captured the
\* body, which it does for one with a Content-Length only.
Copy(q, n, path) ==
  [id |-> (MaxRetry + 1) * q.id + n, handler |-> EwpMux(path), method |-> q.method,
   object |-> q.object /\ q.whole, pct |-> q.pct, mirrored |-> TRUE]

Targets(q) ==
  {q.path} \cup UNION {{Rewrite(q.path, f.rules[i]) : i \in Hits(q.path, f.rules)} : f \in Config}

Copies(q) == {Copy(q, n, path) : n \in 1 .. MaxRetry + 1, path \in Targets(q)}

APIGEE == INSTANCE ApigeeSim
            WITH Req <- {Original(q) : q \in Req}, pc <- apc, status <- astatus,
                 requestCount <- acount

EWP == INSTANCE EwpSim WITH Req <- UNION {Copies(q) : q \in Req}, pc <- epc

Arrived(q) == {Copy(q, n, arrived[q][n]) : n \in 1 .. Len(arrived[q])}

ClassOf(st) ==
  CASE st = 0 -> "none" [] st = -1 -> "netErr" [] st \in 200 .. 299 -> "2xx"
    [] st \in 400 .. 499 -> "4xx" [] OTHER -> "other"

PathInit == Init /\ sent \in kSubset(MaxSent, Req) /\ APIGEE!Init /\ EWP!Init

\* An answer that client.Do returns is the answer to a copy that arrived.  The
\* agent may end at any time; its STATS lines are left to Mirror.
AgentStep ==
  /\ loadRoutes \/ Traffic(sent) \/ Crash
  /\ \A q \in Req : result[q] = "none" /\ result'[q] \in Class =>
       \E r \in Arrived(q) : ClassOf(status[r]) = result'[q]
  /\ UNCHANGED <<sent, apigee, ewp>>

ApigeeStep ==
  /\ \E q \in sent : APIGEE!Handle(Original(q))
  /\ UNCHANGED <<vars, sent, ewp>>

\* EWP handles what has arrived.  It owes the agent nothing: the agent may have
\* given up, or be gone.
EwpStep ==
  /\ \E q \in Req : \E r \in Arrived(q) : EWP!Handle(r)
  /\ UNCHANGED <<vars, sent, apigee>>

PathNext == AgentStep \/ ApigeeStep \/ EwpStep

PathSpec == PathInit /\ [][PathNext]_pathVars

-----------------------------------------------------------------------------
(***************************************************************************)
(* Properties                                                              *)
(***************************************************************************)

AllArrived == UNION {Arrived(q) : q \in Req}

\* Copies for EWP's books.
Booked == {r \in AllArrived : r.handler \in EWP!Recording}

Passed(r) == ClassOf(status[r]) = "2xx"

\* The two ledgers the operator compares, kept by two processes: EWP has
\* counted every copy that arrived, up to those it is about to count and those
\* that its other handlers answer unseen, such as /health; and its successes are
\* the agent's 2xx less those of such handlers, the ones whose answer the agent
\* has not seen (timed out, in flight or cut off), and those of repeated copies.
Ledgers ==
  LET passed == {r \in Booked : Passed(r)}
      succeeded == {q \in Req : Arrived(q) \cap passed # {}}
      seen == {q \in Req : pc[q] = "done" /\ result[q] = "2xx"}
      aside == {q \in seen : \E r \in Arrived(q) : r.handler \in EWP!Asides}
  IN  /\ mirroredCount + Cardinality({r \in Booked : epc[r] \in {"new", "counted"}})
           = Cardinality(Booked)
      /\ successCount + Cardinality({r \in passed : epc[r] = "record"}) + Cardinality(aside)
           = agentStats["2xx"] + Cardinality(succeeded \ seen)
             + (Cardinality(passed) - Cardinality(succeeded))

\* A creation whose body the tracker did not capture.
BodyLost(q) == q.method = "POST" /\ q.object /\ ~q.whole

\* Where the path of a copy leads to the handler that the original had, the
\* status class is the same on both sides, but for a creation whose body was
\* lost on the way, which EWP aborts: the comparison the whole system is for
\* depends on nothing else, neither order nor timing.
Parity ==
  \A q \in Req : \A r \in Arrived(q) :
    r.handler = ApigeeMux(q.path) /\ status[r] # 0 /\ astatus[Original(q)] # 0 =>
      ClassOf(status[r]) = IF EWP!Switches(r) /\ BodyLost(q) THEN "netErr"
                           ELSE ClassOf(astatus[Original(q)])

=============================================================================
