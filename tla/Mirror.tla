------------------------------- MODULE Mirror -------------------------------
(***************************************************************************)
(* mirror.go, routes.go and stats.go of the mirror agent: every captured   *)
(* request is sent to EWP by a goroutine of its own, along the route table *)
(* that main loaded at the start, and its outcome is counted.  A ticker,   *)
(* and main on the way out, print the counters, loading them one by one.   *)
(*                                                                         *)
(* The network and EWP are part of the model: a request may arrive late,   *)
(* after the client has given up on it, or more than once, when the        *)
(* transport sends it again over a new connection.                         *)
(***************************************************************************)
EXTENDS Integers, Sequences, FiniteSets, FiniteSetsExt, SequencesExt

CONSTANTS
  Req,        \* captured requests
  Config,     \* values of the -routes flag
  Class,      \* classes of EWP's answers; "other" is 1xx, or 3xx not followed
  MaxRetry,   \* bound: times the transport sends a request again
  MaxTicks    \* bound: lines the ticker prints

\* A path is a sequence of pieces of text.
Path == Seq(STRING)

\* valid: http.NewRequest accepts method and URL.  idempotent: the transport
\* may send it again.
ASSUME ReqAssumption ==
  /\ IsFiniteSet(Req)
  /\ \A q \in Req : q.path \in Path /\ q.valid \in BOOLEAN /\ q.idempotent \in BOOLEAN

\* json: "blank", "bad" or "array".  rules: the routes that were written down.
ASSUME ConfigAssumption ==
  \A f \in Config : /\ f.json \in {"blank", "bad", "array"}
                    /\ f.rules \in Seq([apigee : Path, ewp : Path])

ASSUME ClassAssumption == Class \subseteq {"2xx", "4xx", "5xx", "other"}

ASSUME BoundAssumption == MaxRetry \in Nat /\ MaxTicks \in Nat

Outcomes == {"2xx", "4xx", "5xx", "netErr"}

\* The counters in the order in which printStats loads them, less the ones of
\* the packet layer.
Order == <<"assembled", "skipped", "sent", "2xx", "4xx", "5xx", "netErr">>

Counters == Range(Order)

Printers == {"ticker", "main"}

Nil == [nil |-> TRUE, rules |-> <<>>]

VARIABLES
  flag,       \* the -routes flag of this run
  active,     \* activeRoutes: a pointer, nil or to a table
  pc,         \* pc[q]: where q is on its way from Feed through Send
  result,     \* result[q]: class of the MirrorResult
  copies,     \* copies[q]: requests sent and not arrived
  arrived,    \* arrived[q]: the paths under which q arrived at EWP
  agentStats, \* the counters
  loading,    \* loading[w]: counter w loads next; 0 none
  line,       \* line[w]: what it has loaded
  ticks,      \* lines the ticker began
  mpc         \* main

sends == <<pc, result, copies, arrived>>
prints == <<loading, line, ticks>>
vars == <<flag, active, sends, agentStats, prints, mpc>>

NoLine == [c \in Counters |-> 0]

Add(c, n) == agentStats' = [agentStats EXCEPT ![c] = @ + n]

Init ==
  /\ flag \in Config
  /\ active = Nil
  /\ pc = [q \in Req |-> "new"]
  /\ result = [q \in Req |-> "none"]
  /\ copies = [q \in Req |-> 0]
  /\ arrived = [q \in Req |-> <<>>]
  /\ agentStats = [c \in Counters |-> 0]
  /\ loading = [w \in Printers |-> 0]
  /\ line = [w \in Printers |-> NoLine]
  /\ ticks = 0
  /\ mpc = "load"

(***************************************************************************)
(* The route table                                                         *)
(***************************************************************************)

\* Invalid JSON keeps the previous table, and main has loaded none before.
loadRoutes ==
  /\ mpc = "load"
  /\ active' = IF flag.json = "array" THEN [nil |-> FALSE, rules |-> flag.rules] ELSE Nil
  /\ mpc' = "run"
  /\ UNCHANGED <<flag, sends, agentStats, prints>>

Hits(p, table) == {i \in 1 .. Len(table) : IsPrefix(table[i].apigee, p)}

Forward(p) == active.nil \/ Hits(p, active.rules) # {}

Rewrite(p, r) == r.ewp \o SubSeq(p, Len(r.apigee) + 1, Len(p))

\* Mutant of resolveRoute: the last rule that matches wins.
resolveRouteLast(p) ==
  IF active.nil THEN p ELSE Rewrite(p, active.rules[Max(Hits(p, active.rules))])

\* The EWP path of a path that is forwarded: the first rule that matches.
resolveRoute(p) ==
  IF active.nil THEN p ELSE Rewrite(p, active.rules[Min(Hits(p, active.rules))])

(***************************************************************************)
(* From Feed to Send                                                       *)
(***************************************************************************)

Running == mpc \notin {"load", "exited"}

Go(q, from, to) == Running /\ pc[q] = from /\ pc' = [pc EXCEPT ![q] = to]

\* The reader starts a goroutine for each request of the batch.  One that was
\* started and has not run is no different from one that will be.
GoSend(batch) ==
  /\ \A q \in batch : pc[q] = "new"
  /\ pc' = [q \in Req |-> IF q \in batch THEN "route" ELSE pc[q]]

\* Mutant of Assemble: a batch counts once.
AssembleOne(batch) ==
  /\ Running
  /\ batch # {}
  /\ GoSend(batch)
  /\ Add("assembled", 1)
  /\ UNCHANGED <<flag, active, result, copies, arrived, prints, mpc>>

\* Feed counts the requests it has assembled and returns them.
Assemble(batch) ==
  /\ Running
  /\ batch # {}
  /\ GoSend(batch)
  /\ Add("assembled", Cardinality(batch))
  /\ UNCHANGED <<flag, active, result, copies, arrived, prints, mpc>>

Skip(q) ==
  /\ ~Forward(q.path)
  /\ Go(q, "route", "done")
  /\ Add("skipped", 1)
  /\ UNCHANGED <<flag, active, result, copies, arrived, prints, mpc>>

\* Mutant of CountSent: only what gets past http.NewRequest counts.
CountSentValid(q) ==
  /\ Forward(q.path)
  /\ Go(q, "route", "do")
  /\ Add("sent", IF q.valid THEN 1 ELSE 0)
  /\ UNCHANGED <<flag, active, result, copies, arrived, prints, mpc>>

CountSent(q) ==
  /\ Forward(q.path)
  /\ Go(q, "route", "do")
  /\ Add("sent", 1)
  /\ UNCHANGED <<flag, active, result, copies, arrived, prints, mpc>>

(***************************************************************************)
(* doSend                                                                  *)
(***************************************************************************)

\* Inside client.Do: the request is out, or a redirect of it.
InDo == {"wire", "hop"}

End(q, from, class) ==
  /\ Go(q, from, "log")
  /\ result' = [result EXCEPT ![q] = class]

BadRequest(q) ==
  /\ ~q.valid
  /\ End(q, "do", "netErr")
  /\ UNCHANGED <<flag, active, copies, arrived, agentStats, prints, mpc>>

\* client.Do puts the request on the wire.
Do(q) ==
  /\ q.valid
  /\ Go(q, "do", "wire")
  /\ copies' = [copies EXCEPT ![q] = 1]
  /\ UNCHANGED <<flag, active, result, arrived, agentStats, prints, mpc>>

\* The server side reads a copy, whatever has become of the client.
Arrive(q) ==
  /\ copies[q] > 0
  /\ copies' = [copies EXCEPT ![q] = @ - 1]
  /\ arrived' = [arrived EXCEPT ![q] = Append(@, resolveRoute(q.path))]
  /\ UNCHANGED <<flag, active, pc, result, agentStats, prints, mpc>>

\* Mutant of MayRepeat: every request is sent again.
MayRepeatAny(q) == TRUE

MayRepeat(q) == q.idempotent

\* The connection breaks: the transport sends the request again if it may.
Retry(q) ==
  /\ Go(q, "wire", "wire")
  /\ MayRepeat(q)
  /\ copies[q] + Len(arrived[q]) <= MaxRetry
  /\ copies' = [copies EXCEPT ![q] = @ + 1]
  /\ UNCHANGED <<flag, active, result, arrived, agentStats, prints, mpc>>

\* A redirect is followed by client.Do itself, to a path of EWP's choice; what
\* the further ones of a chain do is the same.
Redirect(q) ==
  /\ "other" \in Class /\ arrived[q] # <<>>
  /\ Go(q, "wire", "hop")
  /\ UNCHANGED <<flag, active, result, copies, arrived, agentStats, prints, mpc>>

\* client.Do returns a response.
Answer(q, class) ==
  /\ arrived[q] # <<>>
  /\ \E from \in InDo : End(q, from, class)
  /\ UNCHANGED <<flag, active, copies, arrived, agentStats, prints, mpc>>

\* Mutant of DoError: no Timeout, so only a request that got nowhere fails.
DoErrorNoTimeout(q) ==
  /\ arrived[q] = <<>>
  /\ \E from \in InDo : End(q, from, "netErr")
  /\ UNCHANGED <<flag, active, copies, arrived, agentStats, prints, mpc>>

\* client.Do returns an error: no connection, a broken one, too many redirects
\* or the ten-second Timeout.
DoError(q) ==
  /\ \E from \in InDo : End(q, from, "netErr")
  /\ UNCHANGED <<flag, active, copies, arrived, agentStats, prints, mpc>>

\* "other" is logged and not counted.
logResult(q) ==
  /\ Go(q, "log", "done")
  /\ IF result[q] \in Outcomes THEN Add(result[q], 1) ELSE UNCHANGED agentStats
  /\ UNCHANGED <<flag, active, result, copies, arrived, prints, mpc>>

\* What the scheduler and the Timeout guarantee of Send.
Send(q) ==
  Skip(q) \/ CountSent(q) \/ BadRequest(q) \/ Do(q) \/ DoError(q) \/ logResult(q)

Network(q) ==
  Arrive(q) \/ Retry(q) \/ Redirect(q) \/ \E k \in Class : Answer(q, k)

(***************************************************************************)
(* The statistics, and the end                                             *)
(***************************************************************************)

Printed == Len(Order) + 1

Begin(w) == loading' = [loading EXCEPT ![w] = 1]

startStatsPrinter ==
  /\ Running
  /\ loading["ticker"] = 0 /\ ticks < MaxTicks
  /\ Begin("ticker") /\ ticks' = ticks + 1
  /\ UNCHANGED <<flag, active, sends, agentStats, line, mpc>>

\* The next Load of printStats.
printStats(w) ==
  /\ Running
  /\ loading[w] \in 1 .. Len(Order)
  /\ line' = [line EXCEPT ![w][Order[loading[w]]] = agentStats[Order[loading[w]]]]
  /\ loading' = [loading EXCEPT ![w] = @ + 1]
  /\ UNCHANGED <<flag, active, sends, agentStats, ticks, mpc>>

\* log.Printf, with which printStats returns and its locals go.
LogLine(w) ==
  /\ Running
  /\ loading[w] = Printed
  /\ loading' = [loading EXCEPT ![w] = 0]
  /\ line' = [line EXCEPT ![w] = NoLine]
  /\ UNCHANGED <<flag, active, sends, agentStats, ticks, mpc>>

Shutdown ==
  /\ mpc = "run"
  /\ mpc' = "final" /\ Begin("main")
  /\ UNCHANGED <<flag, active, sends, agentStats, line, ticks>>

\* The process ends, and with it what is still in Send and in printStats.
Die ==
  /\ mpc' = "exited"
  /\ loading' = [w \in Printers |-> 0] /\ line' = [w \in Printers |-> NoLine]
  /\ UNCHANGED <<flag, active, sends, agentStats, ticks>>

\* main returns.
Exit == mpc = "final" /\ loading["main"] = 0 /\ Die

\* A panic, or SIGKILL.
Crash == mpc \in {"run", "final"} /\ Die

-----------------------------------------------------------------------------

\* What becomes of requests, of which some are sent in batches.
Traffic(requests) ==
  \/ \E batch \in SUBSET requests : Assemble(batch)
  \/ \E q \in requests : Send(q) \/ Network(q)

Next ==
  \/ loadRoutes \/ startStatsPrinter \/ Shutdown \/ Exit \/ Crash
  \/ Traffic(Req)
  \/ \E w \in Printers : printStats(w) \/ LogLine(w)

Spec == Init /\ [][Next]_vars

\* Goroutines are scheduled and http.Client's Timeout expires; EWP owes
\* nothing, not even an answer.
FairSpec == Spec /\ \A q \in Req : WF_vars(Send(q))

-----------------------------------------------------------------------------
(***************************************************************************)
(* Properties                                                              *)
(***************************************************************************)

At(labels) == Cardinality({q \in Req : pc[q] \in labels})

Ended(classes) == Cardinality({q \in Req : pc[q] = "done" /\ result[q] \in classes})

Total(f) == f["2xx"] + f["4xx"] + f["5xx"] + f["netErr"]

\* The counters, updated at different points by many goroutines, account for
\* every assembled request at all times, also for those that a shutdown cuts
\* off: skipped, sent or not yet routed; and of those sent, an outcome, an
\* answer that no counter is for, or still on the way.
SendBalance ==
  /\ agentStats["assembled"] =
       agentStats["skipped"] + agentStats["sent"] + At({"route"})
  /\ agentStats["sent"] =
       Total(agentStats) + Ended({"other"}) + At({"do", "wire", "hop", "log"})

\* A STATS line is no snapshot: the outcomes in it may exceed sent, and skipped
\* and sent may exceed assembled, but never by more than what was sent or
\* assembled while the line was being put together.
LineExplained ==
  \A w \in Printers : loading[w] = Printed =>
    /\ Total(line[w]) <= agentStats["sent"]
    /\ line[w]["skipped"] + line[w]["sent"] <= agentStats["assembled"]

\* A request arrives at EWP only if the table lets it, always under the path
\* that the first matching rule makes of it (the hops of a redirect, which EWP
\* asked for, aside), and if it is not safe to repeat at most once, whatever
\* connections break and timeouts expire.
RoutedArrivals ==
  \A q \in Req :
    LET table == IF flag.json = "array" THEN flag.rules ELSE <<[apigee |-> <<>>, ewp |-> <<>>]>>
    IN  /\ \A i \in 1 .. Len(arrived[q]) :
             \E j \in 1 .. Len(table) :
               /\ \E rest \in Suffixes(q.path) :
                    /\ q.path = table[j].apigee \o rest
                    /\ arrived[q][i] = table[j].ewp \o rest
               /\ \A k \in 1 .. j - 1 : ~IsPrefix(table[k].apigee, q.path)
        /\ ~q.idempotent => copies[q] + Len(arrived[q]) <= 1

\* "Only paths matching a rule are mirrored; unmatched paths are dropped": once
\* rules are written down, a request that arrives at EWP matches one of them.
OnlyMatching ==
  flag.json # "blank" =>
    \A q \in Req : arrived[q] # <<>> => Hits(q.path, flag.rules) # {}

\* Every request handed over by the tracker comes to an end, whatever EWP does,
\* unless the process ends first: no goroutine waits for ever.
SendsEnd == \A q \in Req : pc[q] = "route" ~> pc[q] = "done" \/ mpc = "exited"

=============================================================================
