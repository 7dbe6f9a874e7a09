---------------------------- MODULE EwpSim_proofs ----------------------------
(***************************************************************************)
(* Theorems about EwpSim, for any requests and log size.                   *)
(***************************************************************************)
EXTENDS EwpSim, FiniteSetTheorems, TLAPS

LogEntry == [path : Methods \X Handlers, passed : BOOLEAN]

Statuses == {-1, 0, 200, 201, 202, 400, 405}

\* The parts of TypeOK about the handlers and about reports and configuration.
HandlersOK ==
  /\ pc \in [Req -> Pcs]
  /\ status \in [Req -> Statuses]
  /\ requestCount \in Nat /\ mirroredCount \in Nat /\ successCount \in Nat
  /\ validationLog \in Seq(LogEntry)
  /\ recorded \in Seq(Req)

ReportOK ==
  /\ rpc \in {"idle", "copied", "answered"}
  /\ entries \in Seq(LogEntry)
  /\ report \in [ready : BOOLEAN, thresh : 0 .. 100]
  /\ failedAtCopy \in BOOLEAN

\* TypeOK is the conjunction of its parts, before and after a step.
LEMMA TypeParts ==
  /\ TypeOK <=> HandlersOK /\ ReportOK /\ readyThreshPct \in 0 .. 100
  /\ TypeOK' <=> HandlersOK' /\ ReportOK' /\ readyThreshPct' \in 0 .. 100
<1>1. TypeOK <=> HandlersOK /\ ReportOK /\ readyThreshPct \in 0 .. 100
  BY Zenon DEF TypeOK, HandlersOK, ReportOK, LogEntry, Statuses
<1>2. TypeOK' <=> HandlersOK' /\ ReportOK' /\ readyThreshPct' \in 0 .. 100
  BY Zenon DEF TypeOK, HandlersOK, ReportOK, LogEntry, Statuses
<1> QED
  BY <1>1, <1>2

\* What ReportEnd, and Init, leave of a report is well typed.
LEMMA EmptyReport ==
  FALSE \in BOOLEAN
  /\ [ready |-> FALSE, thresh |-> 100] \in [ready : BOOLEAN, thresh : 0 .. 100]
<1>1. FALSE \in BOOLEAN
  BY Zenon
<1>2. ASSUME NEW b \in BOOLEAN
      PROVE  [ready |-> b, thresh |-> 100] \in [ready : BOOLEAN, thresh : 0 .. 100]
  OBVIOUS
<1> QED
  BY <1>1, <1>2, Zenon

\* Trimming keeps a log a log.
LEMMA TrimType ==
  ASSUME NEW log \in Seq(LogEntry)
  PROVE  Trim(log) \in Seq(LogEntry)
  BY MaxLogAssumption DEF Trim

\* The outcome of a request is a log entry.
LEMMA EntryType ==
  ASSUME HandlersOK, NEW r \in Req
  PROVE  Entry(r) \in LogEntry
<1>1. Passed(status[r]) \in BOOLEAN
  BY Zenon DEF Passed
<1>2. r.method \in Methods /\ r.handler \in Handlers
  BY ReqAssumption DEF Request
<1> DEFINE p == Passed(status[r])
<1> HIDE DEF p
<1>3. [path |-> <<r.method, r.handler>>, passed |-> p] \in LogEntry
  BY <1>1, <1>2 DEF LogEntry, p
<1> QED
  BY <1>3 DEF Entry, p

\* Every step of a handler or a report preserves the types; the threshold stays
\* a percentage.
LEMMA TypeStep ==
  ASSUME TypeOK, [Next]_vars
  PROVE  TypeOK'
<1> USE TypeParts
<1>1. ASSUME NEW r \in Req, Handle(r)
      PROVE  TypeOK'
  <2>0. UNCHANGED <<rpc, entries, report, failedAtCopy>>
    BY <1>1 DEF Handle, Aside, CountRequest, CountMirrored, Respond, Refuse, Abort,
                CountSuccess, AppendLog, reporter
  <2>1. readyThreshPct' \in 0 .. 100
    <3>1. readyThreshPct' = readyThreshPct \/ (Configures(r) /\ readyThreshPct' = r.pct)
      BY <1>1 DEF Handle, Aside, CountRequest, CountMirrored, Respond, Refuse, Abort,
                  CountSuccess, AppendLog
    <3>2. r.pct \in Int
      BY ReqAssumption DEF Request
    <3> QED
      BY <3>1, <3>2 DEF Configures, ValidPct
  <2>2. ReportOK'
    BY <2>0 DEF ReportOK
  <2>3. CASE CountRequest(r) \/ CountMirrored(r)
    <3>1. requestCount' \in Nat /\ mirroredCount' \in Nat
      <4>1. CASE CountRequest(r)
        BY <4>1 DEF CountRequest, HandlersOK
      <4>2. CASE CountMirrored(r)
        <5>1. CASE r.mirrored
          BY <4>2, <5>1 DEF CountMirrored, HandlersOK
        <5>2. CASE ~r.mirrored
          BY <4>2, <5>2 DEF CountMirrored, HandlersOK
        <5> QED
          BY <5>1, <5>2
      <4> QED
        BY <2>3, <4>1, <4>2
    <3>2. pc' \in [Req -> Pcs]
      BY <2>3 DEF CountRequest, CountMirrored, HandlersOK, Goto, Pcs
    <3>3. UNCHANGED <<status, successCount, validationLog, recorded>>
      BY <2>3 DEF CountRequest, CountMirrored
    <3> QED
      BY <2>1, <2>2, <3>1, <3>2, <3>3 DEF HandlersOK
  <2>4. CASE Respond(r) \/ Refuse(r) \/ Abort(r) \/ Aside(r)
    <3>1. StatusOf(r) \in Statuses /\ AsideStatus(r) \in Statuses
          /\ 405 \in Statuses /\ -1 \in Statuses
      BY DEF StatusOf, AsideStatus, Statuses
    <3>2. \E st \in Statuses : status' = [status EXCEPT ![r] = st]
      BY <2>4, <3>1 DEF Respond, Refuse, Abort, Aside
    <3>3. status' \in [Req -> Statuses]
      BY <3>2 DEF HandlersOK
    <3>4. pc' \in [Req -> Pcs]
      BY <2>4 DEF Respond, Refuse, Abort, Aside, HandlersOK, Goto, Pcs
    <3>5. UNCHANGED <<requestCount, mirroredCount, successCount, validationLog, recorded>>
      BY <2>4 DEF Respond, Refuse, Abort, Aside, counters
    <3> QED
      BY <2>1, <2>2, <3>3, <3>4, <3>5 DEF HandlersOK
  <2>5. CASE CountSuccess(r)
    <3>1. HandlersOK'
      BY <2>5 DEF CountSuccess, HandlersOK, Goto, Pcs
    <3> QED
      BY <2>1, <2>2, <3>1
  <2>6. CASE AppendLog(r)
    <3>1. Append(validationLog, Entry(r)) \in Seq(LogEntry)
      BY EntryType DEF HandlersOK
    <3>2. validationLog' \in Seq(LogEntry)
      BY <2>6, <3>1, TrimType DEF AppendLog
    <3>3. HandlersOK'
      BY <2>6, <3>2 DEF AppendLog, HandlersOK, Goto, Pcs, counters
    <3> QED
      BY <2>1, <2>2, <3>3
  <2> QED
    BY <1>1, <2>3, <2>4, <2>5, <2>6 DEF Handle
<1>2. CASE ReportCopy \/ ReportAnswer \/ ReportEnd
  <2>1. UNCHANGED <<pc, status, requestCount, mirroredCount, successCount,
                    validationLog, readyThreshPct, recorded>>
    BY <1>2 DEF ReportCopy, ReportAnswer, ReportEnd, counters
  <2>2. HandlersOK'
    BY <2>1 DEF HandlersOK
  <2>3. CASE ReportCopy
    <3>1. failedAtCopy' \in BOOLEAN
      BY <2>3, Zenon DEF ReportCopy
    <3>2. entries' \in Seq(LogEntry) /\ rpc' = "copied" /\ report' = report
      BY <2>3 DEF ReportCopy, HandlersOK
    <3> QED
      BY <2>1, <2>2, <3>1, <3>2 DEF ReportOK
  <2>4. CASE ReportAnswer
    <3> DEFINE ready == ReadyToCut(entries, readyThreshPct)
    <3>1. ready \in BOOLEAN
      BY Zenon DEF ReadyToCut
    <3>2. /\ report' = [ready |-> ready, thresh |-> readyThreshPct]
          /\ rpc' = "answered" /\ UNCHANGED <<entries, failedAtCopy>>
      BY <2>4 DEF ReportAnswer
    <3> HIDE DEF ready
    <3> QED
      BY <2>1, <2>2, <3>1, <3>2 DEF ReportOK
  <2>5. CASE ReportEnd
    <3>1. /\ rpc' = "idle" /\ entries' = <<>> /\ failedAtCopy' = FALSE
          /\ report' = [ready |-> FALSE, thresh |-> 100]
      BY <2>5, Zenon DEF ReportEnd
    <3>2. /\ failedAtCopy' \in BOOLEAN
          /\ report' \in [ready : BOOLEAN, thresh : 0 .. 100]
      BY <3>1, EmptyReport, Zenon
    <3>3. ReportOK'
      BY <3>1, <3>2 DEF ReportOK
    <3> QED
      BY <2>1, <2>2, <3>3
  <2> QED
    BY <1>2, <2>3, <2>4, <2>5
<1>3. CASE UNCHANGED vars
  BY <1>3 DEF vars, counters, reporter, HandlersOK, ReportOK
<1> QED
  BY <1>1, <1>2, <1>3 DEF Next

\* The simulator keeps its types; the threshold a report compares with is
\* always a percentage.
THEOREM EwpTypeCorrect == Spec => []TypeOK
<1>1. Init => TypeOK
  <2> SUFFICES ASSUME Init PROVE TypeOK
    OBVIOUS
  <2>1. HandlersOK
    BY DEF Init, HandlersOK, Pcs, Statuses
  <2>2. /\ failedAtCopy \in BOOLEAN
        /\ report \in [ready : BOOLEAN, thresh : 0 .. 100]
    BY EmptyReport, Zenon DEF Init
  <2>3. ReportOK
    BY <2>2 DEF Init, ReportOK
  <2> QED
    BY <2>1, <2>3, TypeParts DEF Init
<1>2. TypeOK /\ [Next]_vars => TypeOK'
  BY TypeStep
<1> QED
  BY <1>1, <1>2, PTL DEF Spec

(***************************************************************************)
(* PassInv, and what a report says                                         *)
(***************************************************************************)

\* Appending to a trimmed log keeps what all its entries have in common.
LEMMA TrimPassed ==
  ASSUME NEW log \in Seq(LogEntry), \A i \in 1 .. Len(log) : log[i].passed,
         NEW e \in LogEntry, e.passed
  PROVE  \A i \in 1 .. Len(Trim(Append(log, e))) : Trim(Append(log, e))[i].passed
<1> DEFINE app == Append(log, e)
<1>1. app \in Seq(LogEntry) /\ \A i \in 1 .. Len(app) : app[i].passed
  OBVIOUS
<1> HIDE DEF app
<1> QED
  BY <1>1, MaxLogAssumption DEF Trim, app

\* Every step preserves PassInv: handlers that fail never reach record.
LEMMA PassStep ==
  ASSUME TypeOK, PassInv, [Next]_vars
  PROVE  PassInv'
<1> USE TypeParts
<1>1. ASSUME NEW r \in Req, Handle(r)
      PROVE  PassInv'
  <2>1. entries' = entries
    BY <1>1 DEF Handle, Aside, CountRequest, CountMirrored, Respond, Refuse, Abort,
                CountSuccess, AppendLog, reporter
  <2>2. CASE CountRequest(r) \/ CountMirrored(r) \/ CountSuccess(r)
    <3>1. /\ UNCHANGED <<status, recorded, validationLog>>
          /\ \/ pc' = [pc EXCEPT ![r] = "counted"]
             \/ pc' = [pc EXCEPT ![r] = "serve"]
             \/ pc' = [pc EXCEPT ![r] = "done"]
             \/ pc[r] = "record" /\ r.mirrored /\ pc' = [pc EXCEPT ![r] = "append"]
          /\ pc[r] # "done"
      BY <2>2 DEF CountRequest, CountMirrored, CountSuccess, Goto
    <3> QED
      BY <2>1, <3>1 DEF PassInv, HandlersOK, Passed
  <2>3. CASE Respond(r)
    <3>1. Passed(StatusOf(r))
      BY DEF Passed, StatusOf
    <3> QED
      BY <2>1, <2>3, <3>1 DEF Respond, PassInv, HandlersOK, Goto, Passed
  <2>4. CASE Refuse(r) \/ Abort(r) \/ Aside(r)
    <3>1. /\ UNCHANGED <<recorded, validationLog>>
          /\ pc[r] \in {"new", "serve"} /\ pc' = [pc EXCEPT ![r] = "done"]
          /\ \A q \in Req \ {r} : status'[q] = status[q]
      BY <2>4 DEF Refuse, Abort, Aside, HandlersOK, Goto
    <3>2. /\ \A q \in Req : pc'[q] \in {"record", "append"} => Passed(status'[q])
          /\ \A q \in Req : pc'[q] = "append" => q.mirrored
      <4>1. pc'[r] = "done" /\ \A q \in Req \ {r} : pc'[q] = pc[q]
        BY <2>1, <3>1 DEF HandlersOK
      <4> QED
        BY <3>1, <4>1 DEF PassInv, Passed
    <3>3. \A i \in 1 .. Len(recorded') : pc'[recorded'[i]] = "done"
      BY <3>1 DEF PassInv, HandlersOK
    <3> QED
      BY <2>1, <3>1, <3>2, <3>3 DEF PassInv
  <2>5. CASE AppendLog(r)
    <3>1. Entry(r) \in LogEntry /\ Entry(r).passed
      BY <2>5, EntryType DEF AppendLog, PassInv, Entry
    <3>2. \A i \in 1 .. Len(validationLog') : validationLog'[i].passed
      BY <2>5, <3>1, TrimPassed DEF AppendLog, PassInv, HandlersOK
    <3>3. \A i \in 1 .. Len(recorded') : pc'[recorded'[i]] = "done"
      BY <2>5 DEF AppendLog, PassInv, HandlersOK, Goto
    <3>4. /\ \A q \in Req : pc'[q] \in {"record", "append"} => Passed(status'[q])
          /\ \A q \in Req : pc'[q] = "append" => q.mirrored
      BY <2>5 DEF AppendLog, PassInv, HandlersOK, Goto, Passed
    <3> QED
      BY <2>1, <3>2, <3>3, <3>4 DEF PassInv
  <2> QED
    BY <1>1, <2>2, <2>3, <2>4, <2>5 DEF Handle
<1>2. CASE ReportCopy \/ ReportAnswer \/ ReportEnd
  <2>1. UNCHANGED <<pc, status, recorded, validationLog>>
    BY <1>2 DEF ReportCopy, ReportAnswer, ReportEnd
  <2>2. entries' = validationLog \/ entries' = entries \/ entries' = <<>>
    BY <1>2 DEF ReportCopy, ReportAnswer, ReportEnd
  <2>3. \A i \in 1 .. Len(entries') : entries'[i].passed
    <3>1. CASE entries' = <<>>
      BY <3>1
    <3>2. CASE entries' = validationLog
      BY <3>2, Zenon DEF PassInv
    <3>3. CASE entries' = entries
      BY <3>3, Zenon DEF PassInv
    <3> QED
      BY <2>2, <3>1, <3>2, <3>3
  <2> QED
    BY <2>1, <2>3 DEF PassInv, Passed
<1>3. CASE UNCHANGED vars
  BY <1>3 DEF vars, reporter, PassInv, Passed
<1> QED
  BY <1>1, <1>2, <1>3 DEF Next

\* Whatever is recorded, logged or copied by a report has passed.
LEMMA PassInvariant == Spec => []PassInv
<1>1. Init => PassInv
  BY DEF Init, PassInv
<1>2. TypeOK /\ PassInv /\ [Next]_vars => PassInv'
  BY PassStep
<1> QED
  BY <1>1, <1>2, EwpTypeCorrect, PTL DEF Spec

\* A log of passed entries satisfies every percentage.
LEMMA PassedIsReady ==
  ASSUME NEW log \in Seq(LogEntry), \A i \in 1 .. Len(log) : log[i].passed,
         NEW thresh \in 0 .. 100
  PROVE  ReadyToCut(log, thresh) <=> log # <<>>
<1>1. ASSUME NEW path
      PROVE  EndpointReady(log, path, thresh)
  <2> DEFINE S == {i \in 1 .. Len(log) : log[i].path = path}
  <2>1. {i \in 1 .. Len(log) : log[i].path = path /\ log[i].passed \in {TRUE}} = S
    BY Zenon
  <2>2. {i \in 1 .. Len(log) : log[i].path = path /\ log[i].passed \in BOOLEAN} = S
    BY Zenon
  <2>3. Cardinality(S) \in Nat
    <3>1. S \in SUBSET (1 .. Len(log)) /\ Len(log) \in Nat
      OBVIOUS
    <3> QED
      <4>1. IsFiniteSet(1 .. Len(log))
        BY <3>1, FS_Interval
      <4>2. IsFiniteSet(S)
        BY <3>1, <4>1, FS_Subset
      <4> QED
        BY <4>2, FS_CardinalityType
  <2>4. ASSUME NEW c \in Nat
        PROVE  c * 100 >= thresh * c
    OBVIOUS
  <2> HIDE DEF S
  <2> QED
    BY <2>1, <2>2, <2>3, <2>4 DEF EndpointReady, Count
<1> QED
  BY <1>1 DEF ReadyToCut

\* For any requests and any thresholds, a report says ready_to_cut exactly
\* when its copy of the log is not empty: the threshold plays no part.
THEOREM ReadinessNeedsOnlyTraffic == Spec => []ReadyIffTraffic
<1>1. Init => ReadyIffTraffic
  BY DEF Init, ReadyIffTraffic
<1>2. TypeOK /\ PassInv /\ ReadyIffTraffic /\ [Next]_vars => ReadyIffTraffic'
  <2> SUFFICES ASSUME TypeOK, PassInv, ReadyIffTraffic, [Next]_vars
               PROVE  ReadyIffTraffic'
    OBVIOUS
  <2>1. CASE ReportAnswer
    <3>1. ReadyToCut(entries, readyThreshPct) <=> entries # <<>>
      BY PassedIsReady, TypeParts DEF PassInv, ReportOK
    <3>2. /\ report'.ready = ReadyToCut(entries, readyThreshPct)
          /\ entries' = entries
      BY <2>1 DEF ReportAnswer
    <3> QED
      BY <3>1, <3>2, Zenon DEF ReadyIffTraffic
  <2>2. CASE ReportCopy \/ ReportEnd
    BY <2>2 DEF ReportCopy, ReportEnd, ReadyIffTraffic
  <2>3. CASE UNCHANGED reporter
    BY <2>3 DEF reporter, ReadyIffTraffic
  <2> QED
    BY <2>1, <2>2, <2>3 DEF Next, Handle, Aside, CountRequest, CountMirrored, Respond,
       Refuse, Abort, CountSuccess, AppendLog, vars
<1> QED
  BY <1>1, <1>2, EwpTypeCorrect, PassInvariant, PTL DEF Spec

(***************************************************************************)
(* The log as a window                                                     *)
(***************************************************************************)

\* The outcome of a recorded request does not change any more.
LEMMA RecordedIsFixed ==
  ASSUME TypeOK, PassInv, NEW r \in Req, Handle(r),
         NEW i \in 1 .. Len(recorded)
  PROVE  Entry(recorded[i])' = Entry(recorded[i])
<1> USE TypeParts
<1>1. recorded[i] \in Req /\ pc[recorded[i]] = "done"
  BY DEF PassInv, HandlersOK
<1>2. pc[r] # "done"
  BY DEF Handle, Aside, CountRequest, CountMirrored, Respond, Refuse, Abort, CountSuccess,
         AppendLog
<1>3. status' = status \/ \E st : status' = [status EXCEPT ![r] = st]
  BY DEF Handle, Aside, CountRequest, CountMirrored, Respond, Refuse, Abort, CountSuccess,
         AppendLog
<1>4. status'[recorded[i]] = status[recorded[i]]
  BY <1>1, <1>2, <1>3 DEF HandlersOK
<1>5. CASE UNCHANGED recorded
  BY <1>4, <1>5 DEF Entry, Passed
<1>6. CASE recorded' = Append(recorded, r)
  <2>1. recorded'[i] = recorded[i]
    BY <1>6 DEF HandlersOK
  <2> QED
    BY <1>4, <2>1 DEF Entry, Passed
<1> QED
  BY <1>5, <1>6 DEF Handle, Aside, CountRequest, CountMirrored, Respond, Refuse, Abort,
                    CountSuccess, AppendLog

\* Appending to a log below its bound makes it grow.
LEMMA TrimGrows ==
  ASSUME NEW log \in Seq(LogEntry), NEW e \in LogEntry, Len(log) < MaxLog
  PROVE  Trim(Append(log, e)) = Append(log, e)
<1>1. Len(Append(log, e)) = Len(log) + 1
  OBVIOUS
<1> QED
  BY <1>1, MaxLogAssumption DEF Trim

\* Appending to a log at its bound shifts it by one.
LEMMA TrimShifts ==
  ASSUME NEW log \in Seq(LogEntry), NEW e \in LogEntry, Len(log) = MaxLog
  PROVE  /\ Len(Trim(Append(log, e))) = MaxLog
         /\ \A i \in 1 .. MaxLog - 1 : Trim(Append(log, e))[i] = log[i + 1]
         /\ Trim(Append(log, e))[MaxLog] = e
<1> DEFINE app == Append(log, e)
<1>1. /\ app \in Seq(LogEntry) /\ Len(app) = MaxLog + 1
      /\ \A i \in 1 .. MaxLog : app[i] = log[i]
      /\ app[MaxLog + 1] = e
  BY MaxLogAssumption
<1> HIDE DEF app
<1>2. Trim(app) = SubSeq(app, 2, MaxLog + 1)
  BY <1>1, MaxLogAssumption DEF Trim
<1>3. /\ Len(Trim(app)) = MaxLog
      /\ \A i \in 1 .. MaxLog : Trim(app)[i] = app[i + 1]
  BY <1>1, <1>2, MaxLogAssumption
<1>4. \A i \in 1 .. MaxLog - 1 : Trim(app)[i] = log[i + 1]
  BY <1>1, <1>3, MaxLogAssumption
<1>5. Trim(app)[MaxLog] = e
  BY <1>1, <1>3, MaxLogAssumption
<1> QED
  BY <1>3, <1>4, <1>5 DEF app

\* record's critical section moves the window by one.
LEMMA WindowAppend ==
  ASSUME TypeOK, PassInv, LogIsWindow, NEW r \in Req, AppendLog(r)
  PROVE  LogIsWindow'
<1> USE MaxLogAssumption
<1>1. /\ validationLog \in Seq(LogEntry) /\ recorded \in Seq(Req)
      /\ Entry(r) \in LogEntry
  BY TypeParts, EntryType DEF HandlersOK
<1>2. PICK n \in Nat, m \in Nat :
        n = Len(recorded) /\ m = IF n > MaxLog THEN MaxLog ELSE n
  BY <1>1
<1>3. /\ Len(validationLog) = m
      /\ \A i \in 1 .. m : validationLog[i] = Entry(recorded[n - m + i])
  BY <1>2, Zenon DEF LogIsWindow
<1>4. /\ recorded' = Append(recorded, r) /\ status' = status
      /\ validationLog' = Trim(Append(validationLog, Entry(r)))
  BY DEF AppendLog
<1>5. /\ Len(recorded') = n + 1
      /\ \A i \in 1 .. n : recorded'[i] = recorded[i]
      /\ recorded'[n + 1] = r
  BY <1>1, <1>2, <1>4
<1>6. /\ \A i \in 1 .. n : Entry(recorded[i])' = Entry(recorded[i])
      /\ Entry(recorded[n + 1])' = Entry(r)
  <2>1. \A i \in 1 .. n : Entry(recorded[i])' = Entry(recorded[i])
    BY <1>4, <1>5, Zenon DEF Entry, Passed
  <2>2. Entry(recorded[n + 1])' = Entry(r)
    BY <1>4, <1>5, Zenon DEF Entry, Passed
  <2> QED
    BY <2>1, <2>2
<1>7. CASE n < MaxLog
  <2>1. m = n /\ ~(n + 1 > MaxLog)
    BY <1>2, <1>7
  <2>2. /\ Len(validationLog') = n + 1
        /\ \A i \in 1 .. n : validationLog'[i] = validationLog[i]
        /\ validationLog'[n + 1] = Entry(r)
    <3>1. Len(validationLog) = n
      BY <1>3, <2>1
    <3>2. validationLog' = Append(validationLog, Entry(r))
      BY <1>1, <1>4, <1>7, <3>1, TrimGrows
    <3> QED
      BY <1>1, <3>1, <3>2
  <2>3. \A i \in 1 .. n + 1 : validationLog'[i] = Entry(recorded[i])'
    BY <1>3, <1>6, <2>1, <2>2
  <2>4. \A i \in 1 .. n + 1 : (n + 1) - (n + 1) + i = i
    OBVIOUS
  <2> QED
    BY <1>5, <2>1, <2>2, <2>3, <2>4 DEF LogIsWindow
<1>8. CASE n >= MaxLog
  <2>1. m = MaxLog /\ n + 1 > MaxLog
    BY <1>2, <1>8
  <2>2. /\ Len(validationLog') = MaxLog
        /\ \A i \in 1 .. MaxLog - 1 : validationLog'[i] = validationLog[i + 1]
        /\ validationLog'[MaxLog] = Entry(r)
    <3>1. Len(validationLog) = MaxLog
      BY <1>3, <2>1
    <3> QED
      BY <1>1, <1>4, <3>1, TrimShifts
  <2>3. ASSUME NEW i \in 1 .. MaxLog
        PROVE  validationLog'[i] = Entry(recorded[(n + 1) - MaxLog + i])'
    <3>1. CASE i = MaxLog
      <4>1. (n + 1) - MaxLog + i = n + 1
        BY <3>1
      <4> QED
        BY <1>6, <2>2, <3>1, <4>1
    <3>2. CASE i # MaxLog
      <4>1. PICK j \in 1 .. n : j = n - MaxLog + (i + 1)
        BY <1>8, <3>2
      <4>2. validationLog'[i] = validationLog[i + 1]
        BY <2>2, <3>2
      <4>3. i + 1 \in 1 .. m /\ n - m + (i + 1) = j
        BY <2>1, <3>2, <4>1
      <4>4. validationLog'[i] = Entry(recorded[j])
        BY <1>3, <4>2, <4>3
      <4>5. (n + 1) - MaxLog + i = j
        BY <4>1
      <4> QED
        BY <1>6, <4>4, <4>5
    <3> QED
      BY <3>1, <3>2
  <2> QED
    BY <1>5, <2>1, <2>2, <2>3 DEF LogIsWindow
<1> QED
  BY <1>2, <1>7, <1>8

\* For any log size and any number of concurrent requests, the validation log
\* is exactly the window of the most recently recorded outcomes.
THEOREM LogKeepsNewest == Spec => []LogIsWindow
<1>1. Init => LogIsWindow
  BY MaxLogAssumption DEF Init, LogIsWindow
<1>2. TypeOK /\ PassInv /\ LogIsWindow /\ [Next]_vars => LogIsWindow'
  <2> SUFFICES ASSUME TypeOK, PassInv, LogIsWindow, [Next]_vars
               PROVE  LogIsWindow'
    OBVIOUS
  <2>1. ASSUME NEW r \in Req, AppendLog(r)
        PROVE  LogIsWindow'
    BY <2>1, WindowAppend
  <2>2. ASSUME NEW r \in Req, Handle(r), UNCHANGED <<validationLog, recorded>>
        PROVE  LogIsWindow'
    <3>1. \A i \in 1 .. Len(recorded) : Entry(recorded[i])' = Entry(recorded[i])
      BY <2>2, RecordedIsFixed
    <3> QED
      <4>1. PICK n \in Nat, m \in Nat :
              n = Len(recorded) /\ m = IF n > MaxLog THEN MaxLog ELSE n
        BY TypeParts, MaxLogAssumption DEF HandlersOK
      <4>2. /\ Len(validationLog) = m
            /\ \A i \in 1 .. m : validationLog[i] = Entry(recorded[n - m + i])
        BY <4>1, Zenon DEF LogIsWindow
      <4>3. \A i \in 1 .. m : n - m + i \in 1 .. Len(recorded)
        BY <4>1, MaxLogAssumption
      <4>4. \A i \in 1 .. m : validationLog'[i] = Entry(recorded[n - m + i])'
        BY <2>2, <3>1, <4>2, <4>3
      <4>5. Len(validationLog') = m /\ n = Len(recorded')
        BY <2>2, <4>1, <4>2
      <4> QED
        BY <4>1, <4>4, <4>5, Zenon DEF LogIsWindow
  <2>3. CASE UNCHANGED <<validationLog, recorded, status>>
    BY <2>3 DEF LogIsWindow, Entry, Passed
  <2>4. ASSUME NEW r \in Req, Handle(r)
        PROVE  AppendLog(r) \/ UNCHANGED <<validationLog, recorded>>
    BY <2>4 DEF Handle, Aside, CountRequest, CountMirrored, Respond, Refuse, Abort,
                CountSuccess
  <2> QED
    BY <2>1, <2>2, <2>3, <2>4 DEF Next, ReportCopy, ReportAnswer, ReportEnd, vars
<1> QED
  BY <1>1, <1>2, EwpTypeCorrect, PassInvariant, PTL DEF Spec

(***************************************************************************)
(* The balance of the counters                                             *)
(***************************************************************************)

\* Two finite sets that differ in one element at most.
LEMMA CardDelta ==
  ASSUME NEW X, NEW Y, NEW e, IsFiniteSet(X), IsFiniteSet(Y), X \ {e} = Y \ {e}
  PROVE  /\ Cardinality(X) \in Nat /\ Cardinality(Y) \in Nat
         /\ (e \in X <=> e \in Y) => Cardinality(Y) = Cardinality(X)
         /\ e \notin X /\ e \in Y => Cardinality(Y) = Cardinality(X) + 1
         /\ e \in X /\ e \notin Y => Cardinality(Y) = Cardinality(X) - 1
<1>1. Cardinality(X) \in Nat /\ Cardinality(Y) \in Nat
  BY FS_CardinalityType
<1>2. CASE e \in X <=> e \in Y
  <2>1. X = Y
    BY <1>2
  <2> QED
    BY <1>1, <1>2, <2>1
<1>3. CASE e \notin X /\ e \in Y
  <2>1. Y = X \cup {e}
    BY <1>3
  <2> QED
    BY <1>1, <1>3, <2>1, FS_AddElement
<1>4. CASE e \in X /\ e \notin Y
  <2>1. Y = X \ {e}
    BY <1>4
  <2> QED
    BY <1>1, <1>4, <2>1, FS_RemoveElement
<1> QED
  BY <1>2, <1>3, <1>4

\* Mirrored requests being served, about to be logged, and failed.
Serving == Shadow({"serve", "record"})
Logging == Shadow({"append"})
FailedReqs == {r \in Req : Failed(r)}

\* A step of the handler of r changes these sets in r only.
LEMMA ShadowFrame ==
  ASSUME HandlersOK, NEW r \in Req, NEW l, pc' = [pc EXCEPT ![r] = l],
         \A q \in Req \ {r} : status'[q] = status[q]
  PROVE  /\ IsFiniteSet(Serving) /\ IsFiniteSet(Serving') /\ Serving \ {r} = Serving' \ {r}
         /\ IsFiniteSet(Logging) /\ IsFiniteSet(Logging') /\ Logging \ {r} = Logging' \ {r}
         /\ IsFiniteSet(FailedReqs) /\ IsFiniteSet(FailedReqs')
         /\ FailedReqs \ {r} = FailedReqs' \ {r}
<1>1. \A q \in Req \ {r} : pc'[q] = pc[q]
  BY DEF HandlersOK
<1>2. /\ Serving \in SUBSET Req /\ Serving' \in SUBSET Req
      /\ Logging \in SUBSET Req /\ Logging' \in SUBSET Req
      /\ FailedReqs \in SUBSET Req /\ FailedReqs' \in SUBSET Req
  BY DEF Serving, Logging, FailedReqs, Shadow
<1>3. \A Z \in SUBSET Req : IsFiniteSet(Z)
  BY ReqAssumption, FS_Subset
<1>4. Serving \ {r} = Serving' \ {r}
  BY <1>1 DEF Serving, Shadow
<1>5. Logging \ {r} = Logging' \ {r}
  BY <1>1 DEF Logging, Shadow
<1>6. FailedReqs \ {r} = FailedReqs' \ {r}
  BY <1>1 DEF FailedReqs, Failed, Passed
<1> QED
  BY <1>2, <1>3, <1>4, <1>5, <1>6, Zenon

\* Where r is, before and after a step of its handler.
LEMMA ShadowMember ==
  ASSUME HandlersOK, NEW r \in Req, NEW l, pc' = [pc EXCEPT ![r] = l]
  PROVE  /\ r \in Serving <=> r.mirrored /\ pc[r] \in {"serve", "record"}
         /\ r \in Serving' <=> r.mirrored /\ l \in {"serve", "record"}
         /\ r \in Logging <=> r.mirrored /\ pc[r] = "append"
         /\ r \in Logging' <=> r.mirrored /\ l = "append"
         /\ r \in FailedReqs <=> /\ r.mirrored /\ r.handler \in Recording
                                 /\ pc[r] = "done" /\ ~Passed(status[r])
         /\ r \in FailedReqs' <=> /\ r.mirrored /\ r.handler \in Recording
                                  /\ l = "done" /\ ~Passed(status'[r])
<1>1. pc'[r] = l
  BY DEF HandlersOK
<1> QED
  BY <1>1 DEF Serving, Logging, FailedReqs, Shadow, Failed, Passed

\* ShadowAccounting in terms of these sets, before and after a step.
LEMMA BalanceDef ==
  /\ ShadowAccounting <=>
       /\ mirroredCount = successCount + Cardinality(FailedReqs) + Cardinality(Serving)
       /\ successCount = Len(recorded) + Cardinality(Logging)
  /\ ShadowAccounting' <=>
       /\ mirroredCount' = successCount' + Cardinality(FailedReqs') + Cardinality(Serving')
       /\ successCount' = Len(recorded') + Cardinality(Logging')
  BY Zenon DEF ShadowAccounting, Serving, Logging, FailedReqs

\* Every step of a handler keeps the balance.
LEMMA BalanceStep ==
  ASSUME TypeOK, PassInv, ShadowAccounting, NEW r \in Req, Handle(r)
  PROVE  ShadowAccounting'
<1>1. HandlersOK /\ Len(recorded) \in Nat
  BY TypeParts DEF HandlersOK
<1>2. PICK l : pc' = [pc EXCEPT ![r] = l]
  BY DEF Handle, Aside, CountRequest, CountMirrored, Respond, Refuse, Abort, CountSuccess,
         AppendLog, Goto
<1>3. \A q \in Req \ {r} : status'[q] = status[q]
  BY <1>1 DEF Handle, Aside, CountRequest, CountMirrored, Respond, Refuse, Abort,
              CountSuccess, AppendLog, HandlersOK
<1> DEFINE D(X, Y) ==
      /\ Cardinality(X) \in Nat /\ Cardinality(Y) \in Nat
      /\ (r \in X <=> r \in Y) => Cardinality(Y) = Cardinality(X)
      /\ r \notin X /\ r \in Y => Cardinality(Y) = Cardinality(X) + 1
      /\ r \in X /\ r \notin Y => Cardinality(Y) = Cardinality(X) - 1
<1>4. /\ D(Serving, Serving') /\ D(Logging, Logging') /\ D(FailedReqs, FailedReqs')
  <2> HIDE DEF D
  <2>1. D(Serving, Serving')
    BY <1>1, <1>2, <1>3, ShadowFrame, CardDelta DEF D
  <2>2. D(Logging, Logging')
    BY <1>1, <1>2, <1>3, ShadowFrame, CardDelta DEF D
  <2>3. D(FailedReqs, FailedReqs')
    BY <1>1, <1>2, <1>3, ShadowFrame, CardDelta DEF D
  <2> QED
    BY <2>1, <2>2, <2>3
<1>5. pc'[r] = l
  BY <1>1, <1>2 DEF HandlersOK
<1>6. mirroredCount \in Nat /\ successCount \in Nat
  BY <1>1 DEF HandlersOK
<1> USE BalanceDef
<1>7. CASE CountRequest(r)
  <2>1. /\ pc[r] = "new" /\ l = "counted"
        /\ UNCHANGED <<mirroredCount, successCount, recorded>>
    BY <1>5, <1>7, <1>1 DEF CountRequest, Goto, HandlersOK
  <2>2. /\ r \notin Serving /\ r \notin Serving' /\ r \notin Logging /\ r \notin Logging'
        /\ r \notin FailedReqs /\ r \notin FailedReqs'
    <3>1. pc[r] \notin {"serve", "record", "append", "done"}
          /\ l \notin {"serve", "record", "append", "done"}
      BY <2>1
    <3> QED
      BY <1>1, <1>2, <3>1, ShadowMember, Zenon
  <2> QED
    BY <1>4, <2>1, <2>2
<1>8. CASE CountMirrored(r)
  <2>1. /\ pc[r] = "counted" /\ l = "serve" /\ UNCHANGED <<successCount, recorded>>
        /\ r.mirrored => mirroredCount' = mirroredCount + 1
        /\ ~r.mirrored => mirroredCount' = mirroredCount
    BY <1>5, <1>8, <1>1 DEF CountMirrored, Goto, HandlersOK
  <2>2. /\ r \notin Serving /\ (r \in Serving' <=> r.mirrored)
        /\ r \notin Logging /\ r \notin Logging'
        /\ r \notin FailedReqs /\ r \notin FailedReqs'
    BY <1>1, <1>2, <2>1, ShadowMember
  <2> QED
    BY <1>1, <1>4, <1>6, <2>1, <2>2
<1>9. CASE Respond(r)
  <2>1. /\ pc[r] = "serve" /\ l = "record"
        /\ UNCHANGED <<mirroredCount, successCount, recorded>>
    BY <1>5, <1>9, <1>1 DEF Respond, Goto, HandlersOK, counters
  <2>2. /\ (r \in Serving <=> r \in Serving') /\ r \notin Logging /\ r \notin Logging'
        /\ r \notin FailedReqs /\ r \notin FailedReqs'
    BY <1>1, <1>2, <2>1, ShadowMember
  <2> QED
    BY <1>4, <2>1, <2>2
<1>10. CASE Refuse(r) \/ Abort(r)
  <2>0. r.handler \in Recording
    BY <1>10 DEF Refuse, Abort, NotAllowed, NilMap, Switches, Recording
  <2>1. /\ pc[r] = "serve" /\ l = "done" /\ ~Passed(status'[r])
        /\ UNCHANGED <<mirroredCount, successCount, recorded>>
    BY <1>5, <1>10, <1>1 DEF Refuse, Abort, Goto, HandlersOK, counters, Passed
  <2>2. /\ (r \in Serving <=> r.mirrored) /\ r \notin Serving'
        /\ r \notin Logging /\ r \notin Logging'
        /\ r \notin FailedReqs /\ (r \in FailedReqs' <=> r.mirrored)
    BY <1>1, <1>2, <2>0, <2>1, ShadowMember
  <2>3. CASE r.mirrored
    BY <1>4, <1>6, <2>1, <2>2, <2>3
  <2>4. CASE ~r.mirrored
    BY <1>4, <1>6, <2>1, <2>2, <2>4
  <2> QED
    BY <2>3, <2>4
<1>11. CASE CountSuccess(r)
  <2>1. pc[r] = "record" /\ Passed(status[r]) /\ Passed(status'[r])
    BY <1>11 DEF CountSuccess, PassInv, Passed
  <2>2. /\ r.mirrored => successCount' = successCount + 1 /\ l = "append"
        /\ ~r.mirrored => successCount' = successCount /\ l = "done"
        /\ UNCHANGED <<mirroredCount, recorded>>
    BY <1>5, <1>6, <1>11, <1>1, <2>1 DEF CountSuccess, Goto, HandlersOK
  <2>3. /\ (r \in Serving <=> r.mirrored) /\ r \notin Serving'
        /\ r \notin Logging /\ (r \in Logging' <=> r.mirrored)
        /\ r \notin FailedReqs /\ r \notin FailedReqs'
    BY <1>1, <1>2, <2>1, <2>2, ShadowMember
  <2>4. CASE r.mirrored
    <3>1. /\ Cardinality(Serving') = Cardinality(Serving) - 1
          /\ Cardinality(Logging') = Cardinality(Logging) + 1
          /\ Cardinality(FailedReqs') = Cardinality(FailedReqs)
      BY <1>4, <2>3, <2>4
    <3>2. /\ successCount' = successCount + 1 /\ mirroredCount' = mirroredCount
          /\ recorded' = recorded
      BY <2>2, <2>4
    <3> HIDE DEF D
    <3>3. Cardinality(Serving) \in Nat /\ Cardinality(Logging) \in Nat
          /\ Cardinality(FailedReqs) \in Nat
      BY <1>4 DEF D
    <3>4. mirroredCount' = successCount' + Cardinality(FailedReqs') + Cardinality(Serving')
      <4>1. mirroredCount = successCount + Cardinality(FailedReqs) + Cardinality(Serving)
        BY Zenon
      <4> QED
        BY <1>6, <3>1, <3>2, <3>3, <4>1
    <3>5. successCount' = Len(recorded') + Cardinality(Logging')
      <4>1. successCount = Len(recorded) + Cardinality(Logging)
        BY Zenon
      <4> QED
        BY <1>1, <1>6, <3>1, <3>2, <3>3, <4>1
    <3> QED
      BY <3>4, <3>5, Zenon
  <2>5. CASE ~r.mirrored
    BY <1>1, <1>4, <1>6, <2>2, <2>3, <2>5
  <2> QED
    BY <2>4, <2>5
<1>12. CASE AppendLog(r)
  <2>1. /\ pc[r] = "append" /\ l = "done" /\ Passed(status[r]) /\ Passed(status'[r])
        /\ UNCHANGED <<mirroredCount, successCount>>
    BY <1>5, <1>12, <1>1 DEF AppendLog, Goto, HandlersOK, PassInv, Passed, counters
  <2>2. Len(recorded') = Len(recorded) + 1
    BY <1>1, <1>12 DEF AppendLog, HandlersOK
  <2>3. r \notin Serving /\ r \notin Serving' /\ r \notin FailedReqs /\ r \notin FailedReqs'
        /\ r \notin Logging' /\ r \in Logging
    BY <1>1, <1>2, <2>1, ShadowMember DEF PassInv
  <2> QED
    BY <1>1, <1>4, <1>6, <2>1, <2>2, <2>3
<1>13. CASE Aside(r)
  <2>1. /\ pc[r] = "new" /\ l = "done" /\ r.handler \notin Recording
        /\ UNCHANGED <<mirroredCount, successCount, recorded>>
    BY <1>5, <1>13, <1>1 DEF Aside, Asides, Recording, Goto, HandlersOK, counters
  <2>2. /\ r \notin Serving /\ r \notin Serving' /\ r \notin Logging /\ r \notin Logging'
        /\ r \notin FailedReqs /\ r \notin FailedReqs'
    <3>1. pc[r] \notin {"serve", "record", "append"} /\ l \notin {"serve", "record", "append"}
      BY <2>1
    <3> QED
      BY <1>1, <1>2, <2>1, <3>1, ShadowMember, Zenon
  <2> QED
    BY <1>4, <2>1, <2>2
<1> QED
  BY <1>7, <1>8, <1>9, <1>10, <1>11, <1>12, <1>13 DEF Handle

\* For any requests in any interleaving, the mirrored requests counted are
\* those that succeeded, those that failed and those still being served, and
\* every success is in the log's history or about to be.
THEOREM CountersBalance == Spec => []ShadowAccounting
<1>1. Init => ShadowAccounting
  <2> SUFFICES ASSUME Init PROVE ShadowAccounting
    OBVIOUS
  <2>1. Serving = {} /\ Logging = {} /\ FailedReqs = {}
    BY DEF Init, Serving, Logging, FailedReqs, Shadow, Failed
  <2> QED
    BY <2>1, BalanceDef, FS_EmptySet DEF Init
<1>2. TypeOK /\ PassInv /\ ShadowAccounting /\ [Next]_vars => ShadowAccounting'
  <2> SUFFICES ASSUME TypeOK, PassInv, ShadowAccounting, [Next]_vars
               PROVE  ShadowAccounting'
    OBVIOUS
  <2>1. ASSUME NEW r \in Req, Handle(r)
        PROVE  ShadowAccounting'
    BY <2>1, BalanceStep
  <2>2. CASE UNCHANGED <<pc, status, counters, recorded>>
    BY <2>2 DEF ShadowAccounting, Shadow, Failed, Passed, counters
  <2> QED
    BY <2>1, <2>2 DEF Next, ReportCopy, ReportAnswer, ReportEnd, vars
<1> QED
  BY <1>1, <1>2, EwpTypeCorrect, PassInvariant, PTL DEF Spec

=============================================================================
