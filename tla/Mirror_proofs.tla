---------------------------- MODULE Mirror_proofs ----------------------------
(***************************************************************************)
(* Theorems about Mirror, for any requests, route tables and answers.      *)
(***************************************************************************)
EXTENDS Mirror, FiniteSetTheorems, SequenceTheorems, TLAPS

Labels == {"new", "route", "do", "wire", "hop", "log", "done"}

Results == Outcomes \cup {"none", "other"}

SendsOK ==
  /\ pc \in [Req -> Labels]
  /\ result \in [Req -> Results]

\* The network: copies under way, and what has arrived.
NetOK ==
  /\ copies \in [Req -> Nat]
  /\ arrived \in [Req -> Seq(Path)]

StatsOK == agentStats \in [Counters -> Nat]

LinesOK == line \in [Printers -> [Counters -> Nat]]

\* The counters in the order in which printStats loads them.
LEMMA CountersAre ==
  /\ Counters = {"assembled", "skipped", "sent", "2xx", "4xx", "5xx", "netErr"}
  /\ Len(Order) = 7
  /\ \A i \in 1 .. Len(Order) : Order[i] \in Counters
BY DEF Counters, Order, Range

\* The counters and the total of the outcomes are natural numbers.
LEMMA StatsType ==
  ASSUME StatsOK
  PROVE  /\ agentStats["assembled"] \in Nat /\ agentStats["skipped"] \in Nat
         /\ agentStats["sent"] \in Nat /\ agentStats["2xx"] \in Nat
         /\ agentStats["4xx"] \in Nat /\ agentStats["5xx"] \in Nat
         /\ agentStats["netErr"] \in Nat /\ Total(agentStats) \in Nat
BY CountersAre DEF StatsOK, Total

(***************************************************************************)
(* The first rule that matches                                             *)
(***************************************************************************)

\* A set of natural numbers has a minimum.
LEMMA MinOfNats ==
  ASSUME NEW S, S \subseteq Nat, S # {}
  PROVE  Min(S) \in S /\ \A y \in S : Min(S) <= y
<1>1. \E x \in S : \A y \in S : ~(<<y, x>> \in OpToRel(<, Nat))
  BY NatLessThanWellFounded, WFMin
<1>2. ASSUME NEW x \in Nat, NEW y \in Nat, ~(<<y, x>> \in OpToRel(<, Nat))
      PROVE  x <= y
  <2>1. ~(y < x)
    BY <1>2, Zenon DEF OpToRel
  <2> QED
    BY <2>1
<1>3. \E x \in S : \A y \in S : x <= y
  BY <1>1, <1>2
<1> QED
  BY <1>3 DEF Min

\* What a prefix leaves of a path, and that together they are the path.
LEMMA PrefixSplits ==
  ASSUME NEW a \in Path, NEW p \in Path, IsPrefix(a, p)
  PROVE  /\ SubSeq(p, Len(a) + 1, Len(p)) \in Suffixes(p) \cap Path
         /\ p = a \o SubSeq(p, Len(a) + 1, Len(p))
<1> DEFINE rest == SubSeq(p, Len(a) + 1, Len(p))
<1>1. Len(a) \in Nat /\ Len(p) \in Nat /\ Len(a) <= Len(p)
  BY DEF Path, IsPrefix
<1>2. rest \in Path /\ Len(rest) = Len(p) - Len(a)
      /\ \A i \in 1 .. Len(rest) : rest[i] = p[Len(a) + i]
  BY <1>1 DEF Path
<1>3. \A i \in 1 .. Len(a) : a[i] = p[i]
  <2>1. SubSeq(a, 1, Len(a)) = SubSeq(p, 1, Len(a))
    BY DEF IsPrefix
  <2>2. ASSUME NEW i \in 1 .. Len(a)
        PROVE  a[i] = p[i]
    <3>1. SubSeq(a, 1, Len(a))[i] = a[i] /\ SubSeq(p, 1, Len(a))[i] = p[i]
      BY <1>1 DEF Path
    <3> QED
      BY <2>1, <3>1
  <2> QED
    BY <2>2
<1>4. rest \in Suffixes(p)
  <2>1. CASE Len(a) + 1 <= Len(p)
    BY <1>1, <2>1 DEF Suffixes
  <2>2. CASE Len(a) = Len(p)
    <3>1. Len(rest) = 0
      BY <1>1, <1>2, <2>2
    <3>2. rest = <<>>
      BY <1>2, <3>1 DEF Path
    <3> QED
      BY <3>2 DEF Suffixes
  <2> QED
    BY <1>1, <2>1, <2>2
<1>5. p = a \o rest
  <2> HIDE DEF rest
  <2>1. a \o rest \in Path /\ Len(a \o rest) = Len(p)
    BY <1>1, <1>2 DEF Path
  <2>2. ASSUME NEW i \in 1 .. Len(p)
        PROVE  p[i] = (a \o rest)[i]
    <3>1. CASE i <= Len(a)
      BY <1>1, <1>2, <1>3, <2>2, <3>1 DEF Path
    <3>2. CASE i > Len(a)
      <4>1. (a \o rest)[i] = rest[i - Len(a)] /\ i - Len(a) \in 1 .. Len(rest)
        BY <1>1, <1>2, <2>2, <3>2 DEF Path
      <4>2. rest[i - Len(a)] = p[Len(a) + (i - Len(a))]
        BY <1>2, <4>1
      <4> QED
        <5>1. Len(a) + (i - Len(a)) = i
          BY <1>1
        <5> QED
          BY <4>1, <4>2, <5>1
    <3>3. i <= Len(a) \/ i > Len(a)
      BY <1>1
    <3> QED
      BY <3>1, <3>2, <3>3
  <2> QED
    BY <2>1, <2>2, SeqEqual DEF Path
<1> QED
  BY <1>2, <1>4, <1>5

(***************************************************************************)
(* Steps and types                                                         *)
(***************************************************************************)

\* Steps that no request takes part in.
Rest ==
  \/ loadRoutes \/ startStatsPrinter \/ Shutdown \/ Exit \/ Crash
  \/ \E w \in Printers : printStats(w) \/ LogLine(w)

\* Steps of client.Do and the network that end a request or leave it on its
\* way, and do not count it.
Waits(q) ==
  \/ BadRequest(q) \/ Do(q) \/ DoError(q) \/ Arrive(q) \/ Retry(q) \/ Redirect(q)
  \/ \E k \in Class : Answer(q, k)

\* Next, by who takes the step.
LEMMA NextCases ==
  Next <=> \/ Rest
           \/ \E batch \in SUBSET Req : Assemble(batch)
           \/ \E q \in Req : Skip(q) \/ CountSent(q) \/ logResult(q) \/ Waits(q)
BY Zenon DEF Next, Rest, Waits, Traffic, Send, Network

\* Printing, shutdown and start change neither requests nor counters.
LEMMA RestKeeps ==
  ASSUME Rest \/ UNCHANGED vars
  PROVE  UNCHANGED <<sends, agentStats, flag>>
BY DEF Rest, loadRoutes, startStatsPrinter, Shutdown, Exit, Crash, Die, printStats, LogLine,
       prints, vars

\* What a step of client.Do does to pc and result: a request goes on, or ends
\* with a result other than "none".
LEMMA WaitsMoves ==
  ASSUME SendsOK, NEW q \in Req, Waits(q)
  PROVE  /\ agentStats' = agentStats
         /\ \/ pc' = pc /\ result' = result
            \/ /\ pc[q] \in {"do", "wire", "hop"}
               /\ pc' = [pc EXCEPT ![q] = "wire"] \/ pc' = [pc EXCEPT ![q] = "hop"]
               /\ result' = result
            \/ /\ pc[q] \in {"do", "wire", "hop"}
               /\ pc' = [pc EXCEPT ![q] = "log"]
               /\ \E k \in Results \ {"none"} : result' = [result EXCEPT ![q] = k]
<1>1. CASE BadRequest(q)
  BY <1>1 DEF BadRequest, End, Go, Results, Outcomes
<1>2. CASE Do(q) \/ Retry(q) \/ Redirect(q)
  BY <1>2 DEF Do, Retry, Redirect, Go
<1>3. CASE Arrive(q)
  BY <1>3 DEF Arrive
<1>4. CASE DoError(q)
  BY <1>4 DEF DoError, InDo, End, Go, Results, Outcomes
<1>5. ASSUME NEW k \in Class, Answer(q, k)
      PROVE  /\ agentStats' = agentStats /\ pc[q] \in {"do", "wire", "hop"}
             /\ pc' = [pc EXCEPT ![q] = "log"]
             /\ k \in Results \ {"none"} /\ result' = [result EXCEPT ![q] = k]
  BY <1>5, ClassAssumption DEF Answer, InDo, End, Go, Results, Outcomes
<1> QED
  BY <1>1, <1>2, <1>3, <1>4, <1>5 DEF Waits

\* Add changes one counter, and none goes down.
LEMMA AddKeeps ==
  ASSUME StatsOK, NEW c \in Counters, NEW n \in Nat, Add(c, n)
  PROVE  /\ StatsOK'
         /\ agentStats'[c] = agentStats[c] + n
         /\ \A d \in Counters : d # c => agentStats'[d] = agentStats[d]
         /\ \A d \in Counters : agentStats'[d] >= agentStats[d]
BY DEF Add, StatsOK

\* Each step adds to at most one counter.
LEMMA StatsStep ==
  ASSUME SendsOK, StatsOK, [Next]_vars
  PROVE  StatsOK' /\ \A c \in Counters : agentStats'[c] >= agentStats[c]
<1>1. CASE agentStats' = agentStats
  BY <1>1 DEF StatsOK
<1>2. ASSUME NEW batch \in SUBSET Req, Assemble(batch)
      PROVE  StatsOK' /\ \A c \in Counters : agentStats'[c] >= agentStats[c]
  <2>1. Cardinality(batch) \in Nat
    BY ReqAssumption, FS_Subset, FS_CardinalityType
  <2> QED
    BY <1>2, <2>1, AddKeeps, CountersAre DEF Assemble
<1>3. ASSUME NEW q \in Req, Skip(q) \/ CountSent(q) \/ logResult(q)
      PROVE  StatsOK' /\ \A c \in Counters : agentStats'[c] >= agentStats[c]
  <2>1. \/ \E c \in Counters : Add(c, 1)
        \/ agentStats' = agentStats
    BY <1>3, CountersAre DEF Skip, CountSent, logResult, Outcomes
  <2> QED
    BY <1>1, <2>1, AddKeeps
<1> QED
  BY <1>1, <1>2, <1>3, NextCases, RestKeeps, WaitsMoves

(***************************************************************************)
(* The balance of the counters                                             *)
(***************************************************************************)

\* A request has a result exactly from the end of client.Do on; one that was
\* skipped never gets any.
ResultInv ==
  \A q \in Req : /\ pc[q] \in {"new", "route", "do", "wire", "hop"} => result[q] = "none"
                 /\ pc[q] = "log" => result[q] # "none"

AtSet(labels) == {q \in Req : pc[q] \in labels}

EndedSet(classes) == {q \in Req : pc[q] = "done" /\ result[q] \in classes}

\* At and Ended count finite sets.
LEMMA SetsFinite ==
  ASSUME NEW L
  PROVE  /\ IsFiniteSet(AtSet(L)) /\ IsFiniteSet(EndedSet(L))
         /\ At(L) = Cardinality(AtSet(L)) /\ Ended(L) = Cardinality(EndedSet(L))
         /\ At(L) \in Nat /\ Ended(L) \in Nat
<1>1. IsFiniteSet(AtSet(L)) /\ IsFiniteSet(EndedSet(L))
  BY ReqAssumption, FS_Subset DEF AtSet, EndedSet
<1> QED
  BY <1>1, FS_CardinalityType DEF At, Ended, AtSet, EndedSet

\* One request moves to another label: out of a set of labels, into it or
\* neither.
LEMMA AtLeaves ==
  ASSUME SendsOK, NEW q \in Req, NEW to, pc' = [pc EXCEPT ![q] = to], NEW L,
         pc[q] \in L, to \notin L
  PROVE  At(L)' = At(L) - 1
<1>1. At(L)' = Cardinality(AtSet(L)')
  BY DEF At, AtSet
<1>2. AtSet(L)' = AtSet(L) \ {q} /\ q \in AtSet(L)
  BY DEF AtSet, SendsOK
<1> QED
  BY <1>1, <1>2, SetsFinite, FS_RemoveElement

\* A request that moves to one of the labels is one more there.
LEMMA AtEnters ==
  ASSUME SendsOK, NEW q \in Req, NEW to, pc' = [pc EXCEPT ![q] = to], NEW L,
         pc[q] \notin L, to \in L
  PROVE  At(L)' = At(L) + 1
<1>1. At(L)' = Cardinality(AtSet(L)')
  BY DEF At, AtSet
<1>2. AtSet(L)' = AtSet(L) \cup {q} /\ q \notin AtSet(L)
  BY DEF AtSet, SendsOK
<1> QED
  BY <1>1, <1>2, SetsFinite, FS_AddElement

\* One that stays among them, or outside them, changes nothing.
LEMMA AtStays ==
  ASSUME SendsOK, NEW q \in Req, NEW to, pc' = [pc EXCEPT ![q] = to], NEW L,
         pc[q] \in L <=> to \in L
  PROVE  At(L)' = At(L)
<1>1. At(L)' = Cardinality(AtSet(L)')
  BY DEF At, AtSet
<1>2. AtSet(L)' = AtSet(L)
  BY DEF AtSet, SendsOK
<1> QED
  BY <1>1, <1>2, SetsFinite

\* A request that is not done moves; its result changes only before it is done.
LEMMA EndedMoves ==
  ASSUME SendsOK, NEW q \in Req, NEW to, pc' = [pc EXCEPT ![q] = to], pc[q] # "done",
         \A r \in Req : r # q => result'[r] = result[r], NEW C
  PROVE  /\ ~(to = "done" /\ result'[q] \in C) => Ended(C)' = Ended(C)
         /\ to = "done" /\ result'[q] \in C => Ended(C)' = Ended(C) + 1
<1>1. Ended(C)' = Cardinality(EndedSet(C)')
  BY DEF Ended, EndedSet
<1>2. CASE ~(to = "done" /\ result'[q] \in C)
  <2>1. EndedSet(C)' = EndedSet(C)
    BY <1>2 DEF EndedSet, SendsOK
  <2> QED
    BY <1>1, <1>2, <2>1, SetsFinite
<1>3. CASE to = "done" /\ result'[q] \in C
  <2>1. EndedSet(C)' = EndedSet(C) \cup {q} /\ q \notin EndedSet(C)
    BY <1>3 DEF EndedSet, SendsOK
  <2> QED
    BY <1>1, <1>3, <2>1, SetsFinite, FS_AddElement
<1> QED
  BY <1>2, <1>3

\* The reader starts goroutines for a batch.
LEMMA AtBatch ==
  ASSUME SendsOK, NEW batch \in SUBSET Req, GoSend(batch), result' = result
  PROVE  /\ At({"route"})' = At({"route"}) + Cardinality(batch)
         /\ At({"do", "wire", "hop", "log"})' = At({"do", "wire", "hop", "log"})
         /\ Ended({"other"})' = Ended({"other"})
<1>1. /\ AtSet({"route"})' = AtSet({"route"}) \cup batch
      /\ AtSet({"route"}) \cap batch = {}
  BY DEF GoSend, AtSet, SendsOK
<1>2. AtSet({"do", "wire", "hop", "log"})' = AtSet({"do", "wire", "hop", "log"})
  BY DEF GoSend, AtSet, SendsOK
<1>3. EndedSet({"other"})' = EndedSet({"other"})
  BY DEF GoSend, EndedSet, SendsOK
<1>4. IsFiniteSet(batch) /\ Cardinality(batch) \in Nat
  BY ReqAssumption, FS_Subset, FS_CardinalityType
<1>5. Cardinality(AtSet({"route"}) \cup batch) = At({"route"}) + Cardinality(batch)
  <2>1. Cardinality(AtSet({"route"}) \cap batch) = 0
    BY <1>1, FS_EmptySet
  <2>2. /\ IsFiniteSet(AtSet({"route"})) /\ At({"route"}) \in Nat
        /\ At({"route"}) = Cardinality(AtSet({"route"}))
    BY SetsFinite
  <2>3. Cardinality(AtSet({"route"}) \cup batch)
          = Cardinality(AtSet({"route"})) + Cardinality(batch)
              - Cardinality(AtSet({"route"}) \cap batch)
    BY <1>4, <2>2, FS_Union
  <2> QED
    BY <1>4, <2>1, <2>2, <2>3
<1>6. At({"route"})' = Cardinality(AtSet({"route"})')
  BY DEF At, AtSet
<1>7. /\ At({"do", "wire", "hop", "log"})' = Cardinality(AtSet({"do", "wire", "hop", "log"})')
      /\ Ended({"other"})' = Cardinality(EndedSet({"other"})')
  BY DEF At, AtSet, Ended, EndedSet
<1> QED
  BY <1>1, <1>2, <1>3, <1>5, <1>6, <1>7, SetsFinite

BalanceInv == SendsOK /\ StatsOK /\ ResultInv /\ SendBalance

\* Feed returns requests: each is counted and waits for its route.
LEMMA AssembleBalance ==
  ASSUME BalanceInv, NEW batch \in SUBSET Req, Assemble(batch)
  PROVE  SendsOK' /\ ResultInv' /\ SendBalance'
<1> USE DEF BalanceInv
<1>1. Cardinality(batch) \in Nat
  BY ReqAssumption, FS_Subset, FS_CardinalityType
<1>2. GoSend(batch) /\ result' = result /\ Add("assembled", Cardinality(batch))
  BY DEF Assemble
<1>3. SendsOK' /\ ResultInv'
  BY <1>2 DEF GoSend, SendsOK, Labels, ResultInv
<1>4. /\ agentStats'["assembled"] = agentStats["assembled"] + Cardinality(batch)
      /\ agentStats'["skipped"] = agentStats["skipped"]
      /\ agentStats'["sent"] = agentStats["sent"] /\ Total(agentStats') = Total(agentStats)
  BY <1>1, <1>2, AddKeeps, CountersAre DEF Total
<1>5. At({"route"}) \in Nat /\ At({"do", "wire", "hop", "log"}) \in Nat /\ Ended({"other"}) \in Nat
  BY SetsFinite
<1>6. SendBalance'
  BY <1>1, <1>2, <1>4, <1>5, AtBatch, StatsType DEF SendBalance
<1> QED
  BY <1>3, <1>6

\* A request is skipped or sent, and counted as that.
LEMMA RouteBalance ==
  ASSUME BalanceInv, NEW q \in Req, Skip(q) \/ CountSent(q)
  PROVE  SendsOK' /\ ResultInv' /\ SendBalance'
<1> USE DEF BalanceInv
<1> DEFINE Way == {"do", "wire", "hop", "log"}
<1>0. At({"route"}) \in Nat /\ At(Way) \in Nat /\ Ended({"other"}) \in Nat
  BY SetsFinite
<1>1. pc[q] = "route" /\ result' = result /\ result[q] = "none"
  BY DEF Skip, CountSent, Go, ResultInv
<1>2. CASE Skip(q)
  <2>1. pc' = [pc EXCEPT ![q] = "done"] /\ Add("skipped", 1)
    BY <1>2 DEF Skip, Go
  <2>2. SendsOK' /\ ResultInv'
    BY <1>1, <2>1 DEF SendsOK, Labels, ResultInv
  <2>3. At({"route"})' = At({"route"}) - 1 /\ At(Way)' = At(Way)
    <3>1. /\ pc[q] \in {"route"} /\ "done" \notin {"route"}
          /\ pc[q] \notin Way /\ "done" \notin Way
      BY <1>1
    <3>2. At({"route"})' = At({"route"}) - 1
      BY <2>1, <3>1, AtLeaves, Zenon
    <3>3. At(Way)' = At(Way)
      BY <2>1, <3>1, AtStays, Zenon
    <3> QED
      BY <3>2, <3>3
  <2>4. Ended({"other"})' = Ended({"other"})
    BY <1>1, <2>1, EndedMoves
  <2>5. /\ agentStats'["skipped"] = agentStats["skipped"] + 1
        /\ agentStats'["assembled"] = agentStats["assembled"]
        /\ agentStats'["sent"] = agentStats["sent"] /\ Total(agentStats') = Total(agentStats)
    BY <2>1, AddKeeps, CountersAre DEF Total
  <2>6. SendBalance'
    BY <1>0, <2>3, <2>4, <2>5, StatsType DEF SendBalance
  <2> QED
    BY <2>2, <2>6
<1>3. CASE CountSent(q)
  <2>1. pc' = [pc EXCEPT ![q] = "do"] /\ Add("sent", 1)
    BY <1>3 DEF CountSent, Go
  <2>2. SendsOK' /\ ResultInv'
    BY <1>1, <2>1 DEF SendsOK, Labels, ResultInv
  <2>3. At({"route"})' = At({"route"}) - 1 /\ At(Way)' = At(Way) + 1
    <3>1. /\ pc[q] \in {"route"} /\ "do" \notin {"route"}
          /\ pc[q] \notin Way /\ "do" \in Way
      BY <1>1
    <3>2. At({"route"})' = At({"route"}) - 1
      BY <2>1, <3>1, AtLeaves, Zenon
    <3>3. At(Way)' = At(Way) + 1
      BY <2>1, <3>1, AtEnters, Zenon
    <3> QED
      BY <3>2, <3>3
  <2>4. Ended({"other"})' = Ended({"other"})
    BY <1>1, <2>1, EndedMoves
  <2>5. /\ agentStats'["sent"] = agentStats["sent"] + 1
        /\ agentStats'["assembled"] = agentStats["assembled"]
        /\ agentStats'["skipped"] = agentStats["skipped"] /\ Total(agentStats') = Total(agentStats)
    BY <2>1, AddKeeps, CountersAre DEF Total
  <2>6. SendBalance'
    BY <1>0, <2>3, <2>4, <2>5, StatsType DEF SendBalance
  <2> QED
    BY <2>2, <2>6
<1> QED
  BY <1>2, <1>3

\* A result is counted once, when its request leaves.
LEMMA LogBalance ==
  ASSUME BalanceInv, NEW q \in Req, logResult(q)
  PROVE  SendsOK' /\ ResultInv' /\ SendBalance'
<1> USE DEF BalanceInv
<1> DEFINE Way == {"do", "wire", "hop", "log"}
<1>0. At({"route"}) \in Nat /\ At(Way) \in Nat /\ Ended({"other"}) \in Nat
  BY SetsFinite
<1>1. /\ pc[q] = "log" /\ result' = result /\ pc' = [pc EXCEPT ![q] = "done"]
      /\ result[q] \in Outcomes \/ result[q] = "other"
  BY DEF logResult, Go, ResultInv, SendsOK, Results
<1>2. SendsOK' /\ ResultInv'
  BY <1>1 DEF SendsOK, Labels, ResultInv
<1>3. At({"route"})' = At({"route"}) /\ At(Way)' = At(Way) - 1
  <2>1. /\ pc[q] \notin {"route"} /\ "done" \notin {"route"}
        /\ pc[q] \in Way /\ "done" \notin Way
    BY <1>1
  <2>2. At({"route"})' = At({"route"})
    BY <1>1, <2>1, AtStays, Zenon
  <2>3. At(Way)' = At(Way) - 1
    BY <1>1, <2>1, AtLeaves, Zenon
  <2> QED
    BY <2>2, <2>3
<1>4. CASE result[q] \in Outcomes
  <2>1. Ended({"other"})' = Ended({"other"})
    BY <1>1, <1>4, EndedMoves DEF Outcomes
  <2>2. Add(result[q], 1)
    BY <1>4 DEF logResult
  <2>3. /\ agentStats'["assembled"] = agentStats["assembled"]
        /\ agentStats'["skipped"] = agentStats["skipped"]
        /\ agentStats'["sent"] = agentStats["sent"]
    BY <1>4, <2>2, AddKeeps, CountersAre DEF Outcomes
  <2>4. Total(agentStats') = Total(agentStats) + 1
    <3>1. PICK k \in Outcomes : k = result[q] /\ Add(k, 1)
      BY <1>4, <2>2
    <3>2. /\ k \in Counters /\ agentStats'[k] = agentStats[k] + 1
          /\ \A d \in Counters : d # k => agentStats'[d] = agentStats[d]
      BY <3>1, AddKeeps, CountersAre DEF Outcomes
    <3> QED
      BY <3>1, <3>2, StatsType, CountersAre DEF Total, Outcomes
  <2>5. SendBalance'
    BY <1>0, <1>3, <2>1, <2>3, <2>4, StatsType DEF SendBalance
  <2> QED
    BY <1>2, <2>5
<1>5. CASE result[q] = "other"
  <2>1. Ended({"other"})' = Ended({"other"}) + 1
    BY <1>1, <1>5, EndedMoves
  <2>2. agentStats' = agentStats
    BY <1>5 DEF logResult, Outcomes
  <2>3. SendBalance'
    BY <1>0, <1>3, <2>1, <2>2, StatsType DEF SendBalance
  <2> QED
    BY <1>2, <2>3
<1> QED
  BY <1>1, <1>4, <1>5

\* In client.Do a request stays among those that were sent.
LEMMA WaitsBalance ==
  ASSUME BalanceInv, NEW q \in Req, Waits(q)
  PROVE  SendsOK' /\ ResultInv' /\ SendBalance'
<1> USE DEF BalanceInv
<1> DEFINE Way == {"do", "wire", "hop", "log"}
<1>1. agentStats' = agentStats
  BY WaitsMoves
<1>2. CASE pc' = pc /\ result' = result
  BY <1>1, <1>2 DEF SendsOK, ResultInv, SendBalance, At, Ended
<1>3. ASSUME NEW to \in {"wire", "hop", "log"}, pc[q] \in {"do", "wire", "hop"},
             pc' = [pc EXCEPT ![q] = to], result' \in [Req -> Results],
             \A r \in Req : r # q => result'[r] = result[r],
             result'[q] = "none" <=> to # "log"
      PROVE  SendsOK' /\ ResultInv' /\ SendBalance'
  <2>1. SendsOK' /\ ResultInv'
    BY <1>3 DEF SendsOK, Labels, ResultInv
  <2>2. At({"route"})' = At({"route"}) /\ At(Way)' = At(Way)
    BY <1>3, AtStays
  <2>3. Ended({"other"})' = Ended({"other"})
    BY <1>3, EndedMoves
  <2> QED
    BY <1>1, <2>1, <2>2, <2>3 DEF SendBalance
<1>4. CASE /\ pc[q] \in {"do", "wire", "hop"}
           /\ pc' = [pc EXCEPT ![q] = "wire"] \/ pc' = [pc EXCEPT ![q] = "hop"]
           /\ result' = result
  BY <1>3, <1>4 DEF SendsOK, ResultInv
<1>5. CASE /\ pc[q] \in {"do", "wire", "hop"}
           /\ pc' = [pc EXCEPT ![q] = "log"]
           /\ \E k \in Results \ {"none"} : result' = [result EXCEPT ![q] = k]
  BY <1>3, <1>5 DEF SendsOK
<1> QED
  BY <1>2, <1>4, <1>5, WaitsMoves

\* Every step keeps the counters in balance.
LEMMA BalanceStep ==
  ASSUME BalanceInv, [Next]_vars
  PROVE  BalanceInv'
<1>1. StatsOK'
  BY StatsStep DEF BalanceInv
<1>2. CASE Rest \/ UNCHANGED vars
  BY <1>2, RestKeeps DEF sends, BalanceInv, SendsOK, StatsOK, ResultInv, SendBalance, At, Ended
<1> QED
  BY <1>1, <1>2, NextCases, AssembleBalance, RouteBalance, LogBalance, WaitsBalance
     DEF BalanceInv

\* The types, the results and the balance hold throughout: Feed, Send and the
\* network keep them together.
LEMMA BalanceInvariant == Spec => []BalanceInv
<1>1. Init => BalanceInv
  <2> SUFFICES ASSUME Init
               PROVE  BalanceInv
    OBVIOUS
  <2>1. SendsOK /\ StatsOK /\ ResultInv
    BY DEF Init, SendsOK, StatsOK, ResultInv, Labels, Results
  <2>2. AtSet({"route"}) = {} /\ AtSet({"do", "wire", "hop", "log"}) = {} /\ EndedSet({"other"}) = {}
    BY DEF Init, AtSet, EndedSet
  <2>3. At({"route"}) = 0 /\ At({"do", "wire", "hop", "log"}) = 0 /\ Ended({"other"}) = 0
    BY <2>2, FS_EmptySet, SetsFinite
  <2>4. \A c \in Counters : agentStats[c] = 0
    BY DEF Init
  <2>5. SendBalance
    BY <2>3, <2>4, CountersAre DEF SendBalance, Total
  <2> QED
    BY <2>1, <2>5 DEF BalanceInv
<1>2. BalanceInv /\ [Next]_vars => BalanceInv'
  BY BalanceStep
<1> QED
  BY <1>1, <1>2, PTL DEF Spec

\* The counters account for every assembled request at all times, whatever the
\* order in which goroutines update them and wherever a shutdown cuts them off.
THEOREM SendsBalance == Spec => []SendBalance
<1>1. BalanceInv => SendBalance
  BY DEF BalanceInv
<1> QED
  BY <1>1, BalanceInvariant, PTL

(***************************************************************************)
(* The STATS line                                                          *)
(***************************************************************************)

\* What a line has loaded is never ahead of the counters: they only grow.
LineInv == LinesOK /\ \A w \in Printers : \A c \in Counters : line[w][c] <= agentStats[c]

\* A line in the making is never ahead of the counters.
LEMMA LineStep ==
  ASSUME BalanceInv, LineInv, [Next]_vars
  PROVE  LineInv'
<1>1. StatsOK /\ StatsOK' /\ \A c \in Counters : agentStats'[c] >= agentStats[c]
  BY StatsStep DEF BalanceInv
<1>2. CASE line' = line
  BY <1>1, <1>2 DEF LineInv, LinesOK, StatsOK
<1>3. CASE line' = [w \in Printers |-> NoLine]
  BY <1>1, <1>3 DEF LineInv, LinesOK, StatsOK, NoLine
<1>4. ASSUME NEW w \in Printers, printStats(w)
      PROVE  LineInv'
  <2>1. PICK c \in Counters : c = Order[loading[w]]
    BY <1>4, CountersAre DEF printStats
  <2>2. line' = [line EXCEPT ![w][c] = agentStats[c]] /\ agentStats' = agentStats
    BY <1>4, <2>1 DEF printStats
  <2> QED
    BY <1>1, <2>2 DEF LineInv, LinesOK, StatsOK
<1>5. ASSUME NEW w \in Printers, LogLine(w)
      PROVE  LineInv'
  <2>1. line' = [line EXCEPT ![w] = NoLine] /\ agentStats' = agentStats
    BY <1>5 DEF LogLine
  <2> QED
    BY <1>1, <2>1 DEF LineInv, LinesOK, StatsOK, NoLine
<1>6. CASE loadRoutes \/ startStatsPrinter \/ Shutdown \/ UNCHANGED vars
  BY <1>2, <1>6 DEF loadRoutes, startStatsPrinter, Shutdown, prints, vars
<1>7. CASE Exit \/ Crash
  BY <1>3, <1>7 DEF Exit, Crash, Die
<1>8. ASSUME NEW batch \in SUBSET Req, Assemble(batch)
      PROVE  LineInv'
  BY <1>2, <1>8 DEF Assemble, prints
<1>9. ASSUME NEW q \in Req, Skip(q) \/ CountSent(q) \/ logResult(q) \/ Waits(q)
      PROVE  LineInv'
  BY <1>2, <1>9 DEF Skip, CountSent, logResult, Waits, BadRequest, Do, DoError, Arrive, Retry,
                    Redirect, Answer, prints
<1> QED
  BY <1>4, <1>5, <1>6, <1>7, <1>8, <1>9, NextCases DEF Rest

\* What is wrong with a STATS line is what happened while it was put together:
\* its outcomes are never more than was sent by the end of it, nor what it
\* shows as routed more than was assembled.
THEOREM LinesExplained == Spec => []LineExplained
<1>1. Init => LineInv
  BY DEF Init, LineInv, LinesOK, NoLine
<1>2. BalanceInv /\ LineInv /\ [Next]_vars => LineInv'
  BY LineStep
<1>3. BalanceInv /\ LineInv => LineExplained
  <2> SUFFICES ASSUME BalanceInv, LineInv, NEW w \in Printers
               PROVE  /\ Total(line[w]) <= agentStats["sent"]
                      /\ line[w]["skipped"] + line[w]["sent"] <= agentStats["assembled"]
    BY DEF LineExplained
  <2>1. \A c \in Counters : line[w][c] \in Nat /\ agentStats[c] \in Nat /\ line[w][c] <= agentStats[c]
    BY DEF LineInv, LinesOK, BalanceInv, StatsOK
  <2>2. /\ Total(line[w]) <= Total(agentStats) /\ Total(line[w]) \in Nat
        /\ line[w]["skipped"] + line[w]["sent"] <= agentStats["skipped"] + agentStats["sent"]
        /\ line[w]["skipped"] + line[w]["sent"] \in Nat
    BY <2>1, CountersAre DEF Total
  <2>3. /\ At({"route"}) \in Nat /\ At({"do", "wire", "hop", "log"}) \in Nat
        /\ Ended({"other"}) \in Nat
    BY SetsFinite
  <2>4. /\ agentStats["skipped"] + agentStats["sent"] <= agentStats["assembled"]
        /\ Total(agentStats) <= agentStats["sent"]
    BY <2>3, StatsType DEF BalanceInv, SendBalance
  <2> QED
    BY <2>2, <2>4, StatsType DEF BalanceInv
<1> QED
  BY <1>1, <1>2, <1>3, BalanceInvariant, PTL DEF Spec

(***************************************************************************)
(* Routes                                                                  *)
(***************************************************************************)

\* What the flag says, once the table is loaded.
Allowed(p) == flag.json = "array" => Hits(p, flag.rules) # {}

Target(p) ==
  IF flag.json = "array" THEN Rewrite(p, flag.rules[Min(Hits(p, flag.rules))]) ELSE p

\* No request is looked at before the table is loaded, and the table does not
\* change afterwards.
TableInv ==
  /\ flag \in Config
  /\ active = IF mpc # "load" /\ flag.json = "array"
              THEN [nil |-> FALSE, rules |-> flag.rules] ELSE Nil
  /\ mpc = "load" => \A q \in Req : pc[q] = "new"

\* Once the table is loaded, resolveRoute does what the flag says.
LEMMA AfterLoad ==
  ASSUME TableInv, mpc # "load", NEW p
  PROVE  (Forward(p) <=> Allowed(p)) /\ resolveRoute(p) = Target(p)
<1>1. CASE flag.json = "array"
  <2>1. active = [nil |-> FALSE, rules |-> flag.rules]
    BY <1>1 DEF TableInv
  <2>2. ~active.nil /\ active.rules = flag.rules
    BY <2>1
  <2> QED
    BY <1>1, <2>2, Zenon DEF Forward, Allowed, resolveRoute, Target
<1>2. CASE flag.json # "array"
  <2>1. active = Nil
    BY <1>2 DEF TableInv
  <2>2. active.nil
    BY <2>1 DEF Nil
  <2> QED
    BY <1>2, <2>2, Zenon DEF Forward, Allowed, resolveRoute, Target
<1> QED
  BY <1>1, <1>2

\* The table is loaded once, before the first request.
LEMMA TableStep ==
  ASSUME SendsOK, TableInv, [Next]_vars
  PROVE  TableInv' /\ flag' = flag /\ (mpc # "load" => mpc' # "load")
<1>1. CASE loadRoutes
  BY <1>1 DEF loadRoutes, TableInv
<1>2. CASE Rest /\ ~loadRoutes
  <2>1. UNCHANGED <<flag, active, pc>> /\ mpc # "load" /\ mpc' # "load"
    BY <1>2 DEF Rest, startStatsPrinter, Shutdown, Exit, Crash, Die, printStats, LogLine,
                sends, prints, Running
  <2> QED
    BY <2>1 DEF TableInv
<1>3. CASE UNCHANGED vars
  BY <1>3 DEF vars, sends, TableInv
<1>4. ASSUME NEW batch \in SUBSET Req, Assemble(batch)
      PROVE  TableInv' /\ flag' = flag /\ (mpc # "load" => mpc' # "load")
  BY <1>4 DEF Assemble, Running, TableInv
<1>5. ASSUME NEW q \in Req, Skip(q) \/ CountSent(q) \/ logResult(q) \/ Waits(q)
      PROVE  TableInv' /\ flag' = flag /\ (mpc # "load" => mpc' # "load")
  <2>1. UNCHANGED <<flag, active, mpc>>
    BY <1>5 DEF Skip, CountSent, logResult, Waits, BadRequest, Do, DoError, Arrive, Retry,
                Redirect, Answer
  <2>2. pc' = pc \/ mpc # "load"
    BY <1>5 DEF Skip, CountSent, logResult, Waits, BadRequest, Do, DoError, Arrive, Retry,
                Redirect, Answer, End, Go, Running
  <2> QED
    BY <2>1, <2>2 DEF TableInv
<1> QED
  BY <1>1, <1>2, <1>3, <1>4, <1>5, NextCases

\* The first rule that matches.
LEMMA FirstRule ==
  ASSUME flag \in Config, flag.json = "array", NEW q \in Req, Allowed(q.path)
  PROVE  LET j == Min(Hits(q.path, flag.rules))
             r == flag.rules[j]
         IN  /\ j \in 1 .. Len(flag.rules)
             /\ r.apigee \in Path /\ r.ewp \in Path /\ IsPrefix(r.apigee, q.path)
             /\ \A k \in 1 .. j - 1 : ~IsPrefix(flag.rules[k].apigee, q.path)
<1> DEFINE H == Hits(q.path, flag.rules)
           j == Min(H)
           Rules == [apigee : Path, ewp : Path]
<1>0. flag.rules \in Seq(Rules)
  BY ConfigAssumption, Zenon
<1> HIDE DEF Rules
<1>1. Len(flag.rules) \in Nat /\ \A k \in 1 .. Len(flag.rules) : flag.rules[k] \in Rules
  BY <1>0
<1>2. H # {} /\ H \subseteq 1 .. Len(flag.rules)
  BY DEF Allowed, Hits
<1>3. H \subseteq Nat
  BY <1>1, <1>2
<1> HIDE DEF H
<1>4. j \in H /\ \A k \in H : j <= k
  BY <1>2, <1>3, MinOfNats
<1> HIDE DEF j
<1>5. j \in 1 .. Len(flag.rules) /\ IsPrefix(flag.rules[j].apigee, q.path)
  BY <1>4 DEF H, Hits
<1>6. flag.rules[j].apigee \in Path /\ flag.rules[j].ewp \in Path
  BY <1>1, <1>5 DEF Rules
<1>7. ASSUME NEW k \in 1 .. j - 1
      PROVE  ~IsPrefix(flag.rules[k].apigee, q.path)
  <2>1. k \in 1 .. Len(flag.rules) /\ ~(j <= k)
    BY <1>1, <1>5
  <2> QED
    BY <1>4, <2>1 DEF H, Hits
<1> QED
  BY <1>5, <1>6, <1>7 DEF j, H

\* The path that a rule makes is a path.
LEMMA TargetType ==
  ASSUME flag \in Config, NEW q \in Req, Allowed(q.path)
  PROVE  Target(q.path) \in Path
<1>1. q.path \in Path
  BY ReqAssumption
<1>2. CASE flag.json = "array"
  <2> DEFINE r == flag.rules[Min(Hits(q.path, flag.rules))]
  <2>1. r.apigee \in Path /\ r.ewp \in Path /\ IsPrefix(r.apigee, q.path)
    BY <1>2, FirstRule
  <2> HIDE DEF r
  <2>2. r.ewp \o SubSeq(q.path, Len(r.apigee) + 1, Len(q.path)) \in Path
    BY <1>1, <2>1, PrefixSplits DEF Path
  <2> QED
    BY <1>2, <2>2 DEF Target, Rewrite, r
<1>3. CASE flag.json # "array"
  BY <1>1, <1>3 DEF Target
<1> QED
  BY <1>2, <1>3

\* The network's part of a request: it is not out before client.Do; it is out,
\* or on its way, only if the table lets it; what has arrived went where the
\* table says; and it is not repeated unless it may be.
NetOf(q) ==
  /\ pc[q] \in {"new", "route", "do"} => copies[q] = 0 /\ arrived[q] = <<>>
  /\ copies[q] > 0 \/ arrived[q] # <<>> \/ pc[q] \in {"do", "wire", "hop"} => Allowed(q.path)
  /\ \A i \in 1 .. Len(arrived[q]) : arrived[q][i] = Target(q.path)
  /\ ~q.idempotent => copies[q] + Len(arrived[q]) <= 1

NetInv == NetOK /\ \A q \in Req : NetOf(q)

\* A step that leaves the network alone and takes a request no further than the
\* table allows.
LEMMA NetKept ==
  ASSUME NetInv, UNCHANGED <<flag, copies, arrived>>,
         \A q \in Req : /\ pc'[q] \in {"new", "route", "do"} => pc[q] \in {"new", "route", "do"}
                        /\ pc'[q] \in {"do", "wire", "hop"} =>
                             pc[q] \in {"do", "wire", "hop"} \/ Allowed(q.path)
  PROVE  NetInv'
<1>1. NetOK'
  BY DEF NetInv, NetOK
<1>2. ASSUME NEW q \in Req
      PROVE  NetOf(q)'
  <2>1. NetOf(q)
    BY DEF NetInv
  <2>2. (Allowed(q.path)' <=> Allowed(q.path)) /\ Target(q.path)' = Target(q.path)
    BY DEF Allowed, Target
  <2> QED
    BY <2>1, <2>2 DEF NetOf
<1> QED
  BY <1>1, <1>2 DEF NetInv

\* Copies leave, arrive, are repeated and are given up as the table allows.
LEMMA NetStep ==
  ASSUME SendsOK, SendsOK', TableInv, NetInv, [Next]_vars
  PROVE  NetInv'
<1>0. flag \in Config /\ flag' = flag
  BY TableStep DEF TableInv
<1>1. CASE Rest \/ UNCHANGED vars
  BY <1>0, <1>1, RestKeeps, NetKept DEF sends
<1>2. ASSUME NEW batch \in SUBSET Req, Assemble(batch)
      PROVE  NetInv'
  BY <1>0, <1>2, NetKept DEF Assemble, GoSend, SendsOK
<1>3. ASSUME NEW q \in Req, Skip(q) \/ logResult(q)
      PROVE  NetInv'
  BY <1>0, <1>3, NetKept DEF Skip, logResult, Go, SendsOK
<1>4. ASSUME NEW q \in Req, CountSent(q)
      PROVE  NetInv'
  <2>1. Allowed(q.path)
    BY <1>4, AfterLoad DEF CountSent, Go, Running
  <2> QED
    BY <1>0, <1>4, <2>1, NetKept DEF CountSent, Go, SendsOK
<1>5. ASSUME NEW q \in Req, \/ BadRequest(q) \/ DoError(q) \/ Redirect(q)
                            \/ \E k \in Class : Answer(q, k)
      PROVE  NetInv'
  <2>1. /\ UNCHANGED <<copies, arrived>> /\ pc[q] \in {"do", "wire", "hop"}
        /\ pc' = [pc EXCEPT ![q] = "log"] \/ pc' = [pc EXCEPT ![q] = "hop"]
    BY <1>5 DEF BadRequest, DoError, Redirect, Answer, End, Go, InDo
  <2> QED
    BY <1>0, <2>1, NetKept DEF SendsOK
<1>6. ASSUME NEW q \in Req, Do(q) \/ Retry(q) \/ Arrive(q)
      PROVE  NetInv'
  <2>1. NetOf(q) /\ copies[q] \in Nat /\ arrived[q] \in Seq(Path) /\ Len(arrived[q]) \in Nat
    BY DEF NetInv, NetOK
  <2>2. (Allowed(q.path)' <=> Allowed(q.path)) /\ Target(q.path)' = Target(q.path)
    BY <1>0 DEF Allowed, Target
  <2>3. Allowed(q.path)
    BY <1>6, <2>1 DEF Do, Retry, Arrive, Go, NetOf
  <2>4. \A r \in Req : r # q => /\ pc'[r] = pc[r] /\ copies'[r] = copies[r]
                                /\ arrived'[r] = arrived[r]
    BY <1>6 DEF Do, Retry, Arrive, Go, SendsOK, NetInv, NetOK
  <2>5. ASSUME NEW r \in Req, r # q
        PROVE  NetOf(r)'
    <3>1. NetOf(r)
      BY DEF NetInv
    <3>2. (Allowed(r.path)' <=> Allowed(r.path)) /\ Target(r.path)' = Target(r.path)
      BY <1>0 DEF Allowed, Target
    <3> QED
      BY <2>4, <2>5, <3>1, <3>2 DEF NetOf
  <2>6. CASE Do(q)
    <3>1. /\ pc[q] = "do" /\ pc'[q] = "wire" /\ copies' = [copies EXCEPT ![q] = 1]
          /\ arrived' = arrived
      BY <2>6 DEF Do, Go, SendsOK
    <3>2. NetOK' /\ copies'[q] = 1 /\ arrived'[q] = <<>>
      BY <2>1, <3>1 DEF NetInv, NetOK, NetOf
    <3>3. NetOf(q)'
      BY <2>2, <2>3, <3>1, <3>2 DEF NetOf
    <3> QED
      BY <2>5, <3>2, <3>3 DEF NetInv
  <2>7. CASE Retry(q)
    <3>1. /\ pc[q] = "wire" /\ pc'[q] = "wire" /\ q.idempotent
          /\ copies' = [copies EXCEPT ![q] = copies[q] + 1] /\ arrived' = arrived
      BY <2>7 DEF Retry, Go, MayRepeat, SendsOK
    <3>2. NetOK'
      BY <2>1, <3>1 DEF NetInv, NetOK
    <3>3. NetOf(q)'
      BY <2>1, <2>2, <2>3, <3>1 DEF NetOf
    <3> QED
      BY <2>5, <3>2, <3>3 DEF NetInv
  <2>8. CASE Arrive(q)
    <3>1. /\ copies[q] > 0 /\ pc' = pc
          /\ copies' = [copies EXCEPT ![q] = copies[q] - 1]
          /\ arrived' = [arrived EXCEPT ![q] = Append(arrived[q], resolveRoute(q.path))]
      BY <2>8 DEF Arrive
    <3>2. pc[q] \notin {"new", "route", "do"} /\ mpc # "load"
      BY <2>1, <3>1 DEF NetOf, TableInv
    <3>3. resolveRoute(q.path) = Target(q.path) /\ Target(q.path) \in Path
      BY <1>0, <2>3, <3>2, AfterLoad, TargetType
    <3>4. /\ copies'[q] = copies[q] - 1
          /\ arrived'[q] = Append(arrived[q], Target(q.path))
      BY <3>1, <3>3 DEF NetInv, NetOK
    <3>5. NetOK'
      BY <2>1, <3>1, <3>3 DEF NetInv, NetOK
    <3>6. /\ Len(arrived'[q]) = Len(arrived[q]) + 1
          /\ \A i \in 1 .. Len(arrived'[q]) : arrived'[q][i] = Target(q.path)
      BY <2>1, <3>3, <3>4 DEF NetOf
    <3>7. ~q.idempotent => copies'[q] + Len(arrived'[q]) <= 1
      BY <2>1, <3>4, <3>6 DEF NetOf
    <3>8. NetOf(q)'
      BY <2>2, <2>3, <3>1, <3>2, <3>6, <3>7 DEF NetOf
    <3> QED
      BY <2>5, <3>5, <3>8 DEF NetInv
  <2> QED
    BY <1>6, <2>6, <2>7, <2>8
<1> QED
  BY <1>1, <1>2, <1>3, <1>4, <1>5, <1>6, NextCases DEF Waits

\* Where the table sends a request is what its first matching rule makes of it.
LEMMA TargetExplained ==
  ASSUME flag \in Config, NEW q \in Req, Allowed(q.path)
  PROVE  LET table == IF flag.json = "array" THEN flag.rules
                      ELSE <<[apigee |-> <<>>, ewp |-> <<>>]>>
         IN  \E j \in 1 .. Len(table) :
               /\ \E rest \in Suffixes(q.path) :
                    /\ q.path = table[j].apigee \o rest
                    /\ Target(q.path) = table[j].ewp \o rest
               /\ \A k \in 1 .. j - 1 : ~IsPrefix(table[k].apigee, q.path)
<1>1. q.path \in Path
  BY ReqAssumption
<1>2. CASE flag.json = "array"
  <2> DEFINE j == Min(Hits(q.path, flag.rules))
             r == flag.rules[j]
             rest == SubSeq(q.path, Len(r.apigee) + 1, Len(q.path))
  <2>1. /\ j \in 1 .. Len(flag.rules)
        /\ r.apigee \in Path /\ r.ewp \in Path /\ IsPrefix(r.apigee, q.path)
        /\ \A k \in 1 .. j - 1 : ~IsPrefix(flag.rules[k].apigee, q.path)
    BY <1>2, FirstRule
  <2>2. Target(q.path) = r.ewp \o rest
    BY <1>2 DEF Target, Rewrite
  <2> HIDE DEF j
  <2>3. rest \in Suffixes(q.path) /\ q.path = r.apigee \o rest
    BY <1>1, <2>1, PrefixSplits
  <2> QED
    BY <1>2, <2>1, <2>2, <2>3
<1>3. CASE flag.json # "array"
  <2> DEFINE table == <<[apigee |-> <<>>, ewp |-> <<>>]>>
  <2>1. q.path \in Suffixes(q.path)
    <3>1. <<>> \in Path /\ IsPrefix(<<>>, q.path) /\ Len(<<>>) = 0
      BY <1>1 DEF Path, IsPrefix
    <3>2. SubSeq(q.path, Len(<<>>) + 1, Len(q.path)) \in Suffixes(q.path)
      BY <1>1, <3>1, PrefixSplits, Zenon
    <3>3. SubSeq(q.path, Len(<<>>) + 1, Len(q.path)) = q.path
      BY <1>1, <3>1 DEF Path
    <3> QED
      BY <3>2, <3>3
  <2>2. /\ Len(table) = 1 /\ table[1].apigee = <<>> /\ table[1].ewp = <<>>
        /\ q.path = <<>> \o q.path /\ Target(q.path) = q.path
    BY <1>1, <1>3 DEF Target, Path
  <2> HIDE DEF table
  <2>3. /\ \E rest \in Suffixes(q.path) : /\ q.path = table[1].apigee \o rest
                                          /\ Target(q.path) = table[1].ewp \o rest
        /\ \A k \in 1 .. 1 - 1 : ~IsPrefix(table[k].apigee, q.path)
    BY <2>1, <2>2
  <2>4. \E j \in 1 .. Len(table) :
          /\ \E rest \in Suffixes(q.path) : /\ q.path = table[j].apigee \o rest
                                            /\ Target(q.path) = table[j].ewp \o rest
          /\ \A k \in 1 .. j - 1 : ~IsPrefix(table[k].apigee, q.path)
    <3>1. 1 \in 1 .. Len(table)
      BY <2>2
    <3> QED
      BY <2>3, <3>1, Zenon
  <2> QED
    BY <1>3, <2>4, Zenon DEF table
<1> QED
  BY <1>2, <1>3

\* So do the table main has loaded and what the network did with it.
LEMMA RouteInvariant == Spec => [](BalanceInv /\ TableInv /\ NetInv)
<1>1. Init => TableInv /\ NetInv
  BY DEF Init, TableInv, NetInv, NetOK, NetOf
<1>2. BalanceInv /\ BalanceInv' /\ TableInv /\ NetInv /\ [Next]_vars => TableInv' /\ NetInv'
  BY TableStep, NetStep DEF BalanceInv
<1> QED
  BY <1>1, <1>2, BalanceInvariant, PTL DEF Spec

\* A request arrives at EWP only if the table lets it, under the path that the
\* first matching rule makes of it, and not twice if it may not be repeated,
\* whatever connections break and whichever answers are late.
THEOREM ArrivalsRouted == Spec => []RoutedArrivals
<1>1. TableInv /\ NetInv => RoutedArrivals
  <2> SUFFICES ASSUME TableInv, NetInv, NEW q \in Req
               PROVE  LET table == IF flag.json = "array" THEN flag.rules
                                   ELSE <<[apigee |-> <<>>, ewp |-> <<>>]>>
                      IN  /\ \A i \in 1 .. Len(arrived[q]) :
                               \E j \in 1 .. Len(table) :
                                 /\ \E rest \in Suffixes(q.path) :
                                      /\ q.path = table[j].apigee \o rest
                                      /\ arrived[q][i] = table[j].ewp \o rest
                                 /\ \A k \in 1 .. j - 1 : ~IsPrefix(table[k].apigee, q.path)
                          /\ ~q.idempotent => copies[q] + Len(arrived[q]) <= 1
    BY Zenon DEF RoutedArrivals
  <2>1. NetOf(q) /\ flag \in Config /\ arrived[q] \in Seq(Path)
    BY DEF NetInv, NetOK, TableInv
  <2>2. ASSUME NEW i \in 1 .. Len(arrived[q])
        PROVE  arrived[q][i] = Target(q.path) /\ Allowed(q.path)
    <3>1. arrived[q] # <<>>
      BY <2>1, <2>2
    <3> QED
      BY <2>1, <3>1 DEF NetOf
  <2> QED
    BY <2>1, <2>2, TargetExplained DEF NetOf
<1> QED
  BY <1>1, RouteInvariant, PTL

=============================================================================
