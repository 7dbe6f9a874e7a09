------------------------ MODULE AgentLifecycle_proofs ------------------------
(***************************************************************************)
(* Theorems about AgentLifecycle, for any number of agents, starts, faults *)
(* and crashes.                                                            *)
(***************************************************************************)
EXTENDS AgentLifecycle, TLAPS

\* Every call, signal and crash preserves the types; the budgets stay within
\* their bounds.
LEMMA TypeStep ==
  ASSUME TypeOK, [Next]_vars
  PROVE  TypeOK'
<1> USE BoundAssumption DEF TypeOK, Pcs, Loading, Closing, Exits, kernel, budget, Goto
<1>1. CASE UNCHANGED vars
  BY <1>1 DEF vars
<1>2. ASSUME NEW a \in Agent, Start(a)
      PROVE  TypeOK'
  BY <1>2 DEF Start
<1>5. ASSUME NEW a \in Agent, NewCollection(a) \/ PutPort(a) \/ NewReader(a) \/ LinkByName(a)
                              \/ FilterAddFault(a)
      PROVE  TypeOK'
  <2>1. CASE NewCollection(a)
    BY <2>1 DEF NewCollection, Ok, Fail
  <2>2. CASE PutPort(a)
    BY <2>2 DEF PutPort, Ok, Fail
  <2>3. CASE NewReader(a)
    BY <2>3 DEF NewReader, Ok, Fail
  <2>4. CASE LinkByName(a)
    BY <2>4 DEF LinkByName, Ok, Fail
  <2>5. CASE FilterAddFault(a)
    <3>1. /\ open' = [open EXCEPT ![a] = open[a] \ {"reader", "coll"}]
          /\ pc' = [pc EXCEPT ![a] = "failed"]
          /\ faults < MaxFaults /\ faults' = faults + 1
          /\ UNCHANGED <<sig, exit, starts, filter, qdisc, crashes>>
      BY <2>5 DEF FilterAddFault, Fail
    <3> QED
      BY <3>1
  <2> QED
    BY <1>5, <2>1, <2>2, <2>3, <2>4, <2>5
<1>6. ASSUME NEW a \in Agent, QdiscAdd(a)
      PROVE  TypeOK'
  <2>1. qdisc' \in BOOLEAN
    BY <1>6, Zenon DEF QdiscAdd
  <2>2. faults' \in 0 .. MaxFaults
    BY <1>6 DEF QdiscAdd
  <2>3. /\ pc' = [pc EXCEPT ![a] = "attach"]
        /\ UNCHANGED <<open, sig, exit, starts, filter, crashes>>
    BY <1>6 DEF QdiscAdd
  <2> QED
    BY <2>1, <2>2, <2>3
<1>7. ASSUME NEW a \in Agent, FilterAdd(a) \/ FilterAddFails(a)
      PROVE  TypeOK'
  BY <1>7 DEF FilterAdd, FilterAddFails
<1>8. ASSUME NEW a \in Agent, Fatal(a) \/ CloseColl(a)
      PROVE  TypeOK'
  BY <1>8 DEF Fatal, CloseColl, End
<1>9. ASSUME NEW a \in Agent, Notify(a) \/ Receive(a) \/ CloseReader(a) \/ FilterDel(a)
      PROVE  TypeOK'
  <2>1. CASE Notify(a) \/ Receive(a)
    BY <2>1 DEF Notify, Receive
  <2>2. CASE CloseReader(a)
    BY <2>2 DEF CloseReader
  <2>3. CASE FilterDel(a)
    BY <2>3 DEF FilterDel
  <2> QED
    BY <1>9, <2>1, <2>2, <2>3
<1>11. ASSUME NEW a \in Agent, FilterDelFails(a)
       PROVE  TypeOK'
  BY <1>11 DEF FilterDelFails
<1>10. ASSUME NEW a \in Agent, Sigterm(a) \/ Crash(a)
       PROVE  TypeOK'
  <2>1. CASE pc[a] \in Loading \cup {"failed", "notify"} /\ Sigterm(a)
    BY <2>1 DEF Sigterm, End
  <2>2. CASE pc[a] \notin Loading \cup {"failed", "notify"} /\ Sigterm(a)
    BY <2>2 DEF Sigterm
  <2>3. CASE Crash(a)
    BY <2>3 DEF Crash, End
  <2> QED
    BY <1>10, <2>1, <2>2, <2>3
<1> QED
  BY <1>1, <1>2, <1>5, <1>6, <1>7, <1>8, <1>9, <1>10, <1>11 DEF Next, Process

\* main, NewLoader and Close keep the type invariant, from any first start on.
LEMMA TypeInvariant == Spec => []TypeOK
<1>1. Init => TypeOK
  BY BoundAssumption DEF Init, TypeOK, Pcs, Exits
<1>2. TypeOK /\ [Next]_vars => TypeOK'
  BY TypeStep
<1> QED
  BY <1>1, <1>2, PTL DEF Spec

(***************************************************************************)
(* LifeInv                                                                 *)
(***************************************************************************)

\* The process of a moves to another point of its life and takes or gives back
\* the descriptors that go with it; the slot is left as it is.
LEMMA LifeMove ==
  ASSUME TypeOK, LifeInv, NEW a \in Agent, NEW to \in Pcs,
         to \in {"notify", "run", "closeReader", "filterDel"} => filter = a,
         to = "closeColl" => filter # a,
         pc' = [pc EXCEPT ![a] = to],
         open' = [open EXCEPT ![a] = Holds(to)],
         filter' = filter,
         exit' = [exit EXCEPT ![a] = exit'[a]],
         exit'[a] # "zero"
  PROVE  LifeInv'
<1>1. /\ pc'[a] = to /\ open'[a] = Holds(to)
      /\ \A b \in Agent \ {a} : pc'[b] = pc[b] /\ open'[b] = open[b] /\ exit'[b] = exit[b]
  BY DEF TypeOK
<1>2. \A b \in Agent : open'[b] = Holds(pc'[b])
  BY <1>1 DEF LifeInv
<1>3. \A b \in Agent : Attached(b)' => filter' = b
  BY <1>1 DEF LifeInv, Attached
<1>4. \A b \in Agent : pc'[b] = "closeColl" => filter' # b
  BY <1>1 DEF LifeInv
<1>5. \A b \in Agent : exit'[b] = "zero" => pc'[b] = "off" /\ filter' # b
  BY <1>1 DEF LifeInv
<1> QED
  BY <1>2, <1>3, <1>4, <1>5, Zenon DEF LifeInv, Holds

\* A process in mid-life has not exited with "zero".
LEMMA AliveNotZero ==
  ASSUME TypeOK, LifeInv, NEW a \in Agent, pc[a] # "off"
  PROVE  exit[a] # "zero" /\ exit = [exit EXCEPT ![a] = exit[a]]
  BY DEF TypeOK, LifeInv

\* A call of NewLoader succeeds, or fails on the path that closes fds.
LEMMA LoaderCall ==
  ASSUME TypeOK, LifeInv, NEW a \in Agent, NEW from \in Loading, NEW to \in Loading,
         NEW got, NEW fds,
         Ok(a, from, to, got) \/ Fail(a, from, fds),
         Holds(to) = Holds(from) \cup got,
         Holds(from) \ fds = {}
  PROVE  LifeInv'
<1>1. exit[a] # "zero" /\ exit = [exit EXCEPT ![a] = exit[a]]
  <2>1. pc[a] # "off"
    BY DEF Ok, Fail, Loading
  <2> QED
    BY <2>1, AliveNotZero
<1>2. open[a] = Holds(pc[a])
  BY DEF LifeInv
<1>3. CASE Ok(a, from, to, got)
  <2>1. /\ pc' = [pc EXCEPT ![a] = to]
        /\ open' = [open EXCEPT ![a] = Holds(to)]
        /\ filter' = filter /\ exit' = exit
    BY <1>2, <1>3 DEF Ok, Goto, kernel
  <2>2. to \in Pcs /\ to \notin {"notify", "run", "closeReader", "filterDel", "closeColl"}
    BY DEF Pcs, Loading
  <2> QED
    BY <1>1, <2>1, <2>2, LifeMove
<1>4. CASE Fail(a, from, fds)
  <2>1. /\ pc' = [pc EXCEPT ![a] = "failed"]
        /\ open' = [open EXCEPT ![a] = {}]
        /\ filter' = filter /\ exit' = exit
    BY <1>2, <1>4 DEF Fail, Goto, kernel
  <2>2. "failed" \in Pcs /\ Holds("failed") = {}
    BY DEF Pcs, Holds
  <2> QED
    BY <1>1, <2>1, <2>2, LifeMove
<1> QED
  BY <1>3, <1>4

\* Every call of NewLoader and Close, every signal and every crash preserves
\* the inductive invariant: descriptors follow the program counter, and an
\* attached process owns the slot.
LEMMA LifeStep ==
  ASSUME TypeOK, LifeInv, [Next]_vars
  PROVE  LifeInv'
<1>1. CASE UNCHANGED vars
  BY <1>1 DEF vars, LifeInv, Attached, Holds
<1>2. ASSUME NEW a \in Agent, Start(a)
      PROVE  LifeInv'
  <2>1. /\ pc' = [pc EXCEPT ![a] = "collection"] /\ filter' = filter
        /\ exit' = [exit EXCEPT ![a] = "none"] /\ open' = open /\ pc[a] = "off"
    BY <1>2 DEF Start, Goto, kernel
  <2>2. open' = [open EXCEPT ![a] = Holds("collection")]
    BY <2>1 DEF LifeInv, Holds, TypeOK
  <2>3. "collection" \in Pcs /\ exit'[a] = "none"
    BY <2>1 DEF Pcs, Loading, TypeOK
  <2> QED
    BY <2>1, <2>2, <2>3, LifeMove
<1>3. ASSUME NEW a \in Agent, NewCollection(a) \/ PutPort(a) \/ NewReader(a) \/ LinkByName(a)
      PROVE  LifeInv'
  <2> USE DEF Loading, Holds
  <2>1. CASE NewCollection(a)
    BY <2>1, LoaderCall DEF NewCollection
  <2>2. CASE PutPort(a)
    BY <2>2, LoaderCall DEF PutPort
  <2>3. CASE NewReader(a)
    BY <2>3, LoaderCall DEF NewReader
  <2>4. CASE LinkByName(a)
    BY <2>4, LoaderCall DEF LinkByName
  <2> QED
    BY <1>3, <2>1, <2>2, <2>3, <2>4
<1>4. ASSUME NEW a \in Agent, QdiscAdd(a) \/ Notify(a) \/ Receive(a) \/ CloseReader(a)
      PROVE  LifeInv'
  <2>1. pc[a] # "off" /\ UNCHANGED <<filter, exit>>
    BY <1>4 DEF QdiscAdd, Notify, Receive, CloseReader, kernel
  <2>2. exit[a] # "zero" /\ exit = [exit EXCEPT ![a] = exit[a]]
    BY <2>1, AliveNotZero
  <2>3. open[a] = Holds(pc[a]) /\ open = [open EXCEPT ![a] = open[a]]
        /\ (pc[a] \in {"notify", "run", "closeReader"} => filter = a)
    BY DEF LifeInv, Attached, TypeOK
  <2>4. \E to \in {"attach", "run", "closeReader", "filterDel"} :
          /\ pc' = [pc EXCEPT ![a] = to]
          /\ open' = [open EXCEPT ![a] = Holds(to)]
          /\ to # "attach" => filter = a
    BY <1>4, <2>3 DEF QdiscAdd, Notify, Receive, CloseReader, Goto, Holds
  <2>5. {"attach", "run", "closeReader", "filterDel"} \subseteq Pcs
    BY DEF Pcs, Loading, Closing
  <2> QED
    BY <2>1, <2>2, <2>4, <2>5, LifeMove
<1>5. ASSUME NEW a \in Agent, FilterAdd(a)
      PROVE  LifeInv'
  <2>1. /\ pc[a] = "attach" /\ filter = NoAgent /\ filter' = a
        /\ pc' = [pc EXCEPT ![a] = "notify"] /\ UNCHANGED <<open, exit>>
    BY <1>5 DEF FilterAdd, Goto
  <2>2. \A b \in Agent : open'[b] = Holds(pc'[b])
    BY <2>1 DEF LifeInv, Holds, TypeOK
  <2>3. \A b \in Agent : ~Attached(b)
    BY <2>1, AgentAssumption DEF LifeInv
  <2>4. \A b \in Agent \ {a} : ~Attached(b)' /\ pc'[b] = pc[b]
    BY <2>1, <2>3 DEF Attached, TypeOK
  <2>5. \A b \in Agent : exit'[b] = "zero" => pc'[b] = "off" /\ filter' # b
    BY <2>1, <2>4 DEF LifeInv, TypeOK
  <2> QED
    BY <2>1, <2>2, <2>4, <2>5 DEF LifeInv, TypeOK
<1>6. ASSUME NEW a \in Agent, FilterAddFails(a) \/ FilterAddFault(a)
      PROVE  LifeInv'
  <2>1. /\ pc[a] = "attach" /\ UNCHANGED <<filter, exit>>
        /\ pc' = [pc EXCEPT ![a] = "failed"]
        /\ open' = [open EXCEPT ![a] = open[a] \ {"reader", "coll"}]
    BY <1>6 DEF FilterAddFails, FilterAddFault, Fail, Goto, kernel
  <2>2. open' = [open EXCEPT ![a] = Holds("failed")] /\ "failed" \in Pcs
    BY <2>1 DEF LifeInv, Holds, Pcs
  <2>3. exit[a] # "zero" /\ exit = [exit EXCEPT ![a] = exit[a]]
    BY <2>1, AliveNotZero
  <2> QED
    BY <2>1, <2>2, <2>3, LifeMove
<1>7. ASSUME NEW a \in Agent, FilterDel(a) \/ FilterDelFails(a)
      PROVE  LifeInv'
  <2>1. CASE FilterDelFails(a)
    <3>1. /\ pc[a] = "filterDel" /\ UNCHANGED <<open, filter, exit>>
          /\ pc' = [pc EXCEPT ![a] = "closeKept"]
      BY <2>1 DEF FilterDelFails, Goto, kernel
    <3>2. open' = [open EXCEPT ![a] = Holds("closeKept")] /\ "closeKept" \in Pcs
      BY <3>1 DEF LifeInv, Holds, TypeOK, Pcs, Closing
    <3>3. exit[a] # "zero" /\ exit = [exit EXCEPT ![a] = exit[a]]
      BY <3>1, AliveNotZero
    <3> QED
      BY <3>1, <3>2, <3>3, LifeMove
  <2>2. CASE FilterDel(a)
    <3>1. /\ pc[a] = "filterDel" /\ filter' = NoAgent /\ UNCHANGED <<open, exit>>
          /\ pc' = [pc EXCEPT ![a] = "closeColl"]
      BY <2>2 DEF FilterDel, Goto
    <3>2. filter = a
      BY <3>1 DEF LifeInv, Attached
    <3>3. \A b \in Agent : ~Attached(b)'
      BY <3>1, <3>2 DEF LifeInv, Attached, TypeOK
    <3>4. \A b \in Agent : open'[b] = Holds(pc'[b])
      BY <3>1 DEF LifeInv, Holds, TypeOK
    <3>5. \A b \in Agent : exit'[b] = "zero" => pc'[b] = "off"
      BY <3>1 DEF LifeInv, TypeOK
    <3> QED
      BY <3>1, <3>3, <3>4, <3>5, AgentAssumption DEF LifeInv
  <2> QED
    BY <1>7, <2>1, <2>2
<1>8. ASSUME NEW a \in Agent, NEW how \in Exits, End(a, how), filter' = filter,
             how = "zero" => filter # a
      PROVE  LifeInv'
  <2>1. /\ pc' = [pc EXCEPT ![a] = "off"] /\ open' = [open EXCEPT ![a] = {}]
        /\ exit' = [exit EXCEPT ![a] = how]
    BY <1>8 DEF End, Goto
  <2>2. /\ pc'[a] = "off" /\ open'[a] = {} /\ exit'[a] = how
        /\ \A b \in Agent \ {a} : pc'[b] = pc[b] /\ open'[b] = open[b] /\ exit'[b] = exit[b]
    BY <2>1 DEF TypeOK
  <2>3. \A b \in Agent : open'[b] = Holds(pc'[b])
    BY <2>2 DEF LifeInv, Holds
  <2>4. \A b \in Agent : Attached(b)' => filter' = b
    BY <1>8, <2>2 DEF LifeInv, Attached
  <2> QED
    BY <1>8, <2>2, <2>3, <2>4 DEF LifeInv
<1>9. ASSUME NEW a \in Agent, Fatal(a) \/ CloseColl(a) \/ Crash(a)
      PROVE  LifeInv'
  <2>1. filter' = filter
    BY <1>9 DEF Fatal, CloseColl, Crash, kernel
  <2>2. End(a, "fatal") \/ End(a, "crash") \/ End(a, "kept")
        \/ (End(a, "zero") /\ pc[a] = "closeColl")
    BY <1>9 DEF Fatal, CloseColl, Crash
  <2>3. pc[a] = "closeColl" => filter # a
    BY DEF LifeInv
  <2>4. {"fatal", "crash", "kept", "zero"} \subseteq Exits
    BY DEF Exits
  <2> QED
    BY <1>8, <2>1, <2>2, <2>3, <2>4
<1>10. ASSUME NEW a \in Agent, Sigterm(a)
       PROVE  LifeInv'
  <2>1. filter' = filter
    BY <1>10 DEF Sigterm, kernel
  <2>2. End(a, "sigterm") \/ UNCHANGED <<pc, open, exit>>
    BY <1>10 DEF Sigterm
  <2>3. CASE End(a, "sigterm")
    BY <1>8, <2>1, <2>3 DEF Exits
  <2>4. CASE UNCHANGED <<pc, open, exit>>
    BY <2>1, <2>4 DEF LifeInv, Attached, Holds
  <2> QED
    BY <2>2, <2>3, <2>4
<1> QED
  BY <1>1, <1>2, <1>3, <1>4, <1>5, <1>6, <1>7, <1>9, <1>10 DEF Next, Process

\* LifeInv holds throughout the life of all agents on the interface.
LEMMA LifeInvariant == Spec => []LifeInv
<1>1. Init => LifeInv
  BY AgentAssumption DEF Init, LifeInv, Attached, Holds
<1>2. TypeOK /\ LifeInv /\ [Next]_vars => LifeInv'
  BY LifeStep
<1> QED
  BY <1>1, <1>2, TypeInvariant, PTL DEF Spec

\* For any number of agents on the interface, the one that believes itself
\* attached owns the filter slot and keeps its program's descriptor open, so
\* Close never deletes the filter of another agent.
THEOREM SlotIsExclusive == Spec => []AttachedOwnsSlot
<1>1. LifeInv => AttachedOwnsSlot
  BY DEF LifeInv, AttachedOwnsSlot, Attached, Holds
<1> QED
  BY <1>1, LifeInvariant, PTL

\* An agent that ends normally, with no error from FilterDel, leaves no filter, whatever else is started,
\* stopped or crashes on the interface.
THEOREM NormalEndDetaches == Spec => []ZeroExitDetached
<1>1. LifeInv => ZeroExitDetached
  BY DEF LifeInv, ZeroExitDetached
<1> QED
  BY <1>1, LifeInvariant, PTL

\* Every error path of NewLoader closes all that NewLoader had opened.
THEOREM ErrorPathsClose == Spec => []FailedHoldsNothing
<1>1. LifeInv => FailedHoldsNothing
  BY DEF LifeInv, FailedHoldsNothing, Holds
<1> QED
  BY <1>1, LifeInvariant, PTL

=============================================================================
