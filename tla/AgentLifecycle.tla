--------------------------- MODULE AgentLifecycle ---------------------------
(***************************************************************************)
(* mirror-agent/main.go and loader.go: how agents on one network interface *)
(* start, attach the TC filter, stop, die and are restarted.               *)
(*                                                                         *)
(* The kernel outlives the processes.  A BPF collection and a ring-buffer  *)
(* reader are file descriptors and go with the process; the clsact qdisc   *)
(* and the TC filter stay until somebody deletes them.  Every agent uses   *)
(* the same filter handle and priority on the interface, so they compete   *)
(* for one slot.                                                           *)
(***************************************************************************)
EXTENDS Integers, FiniteSets

CONSTANTS
  Agent,       \* agent services configured for the interface
  NoAgent,     \* not an agent: the filter slot is free
  MaxStarts,   \* bound on starts, per agent
  MaxFaults,   \* bound on failing loader calls
  MaxCrashes   \* bound on crashes

ASSUME AgentAssumption == NoAgent \notin Agent

ASSUME BoundAssumption == MaxStarts \in Nat /\ MaxFaults \in Nat /\ MaxCrashes \in Nat

VARIABLES
  pc,       \* pc[a]: what the process of a does next; "off" without a process
  open,     \* open[a]: the descriptors it holds
  sig,      \* sig[a]: a caught SIGTERM is waiting in the channel sig
  exit,     \* exit[a]: how its last process ended
  starts,   \* starts[a]: how often it was started
  filter,   \* kernel: whose program the TC filter runs
  qdisc,    \* kernel: the clsact qdisc exists
  faults,
  crashes

vars == <<pc, open, sig, exit, starts, filter, qdisc, faults, crashes>>

\* NewLoader's calls, then the rest of main, then Close.
Loading == {"collection", "port", "ringbuf", "link", "qdisc", "attach"}

\* closeKept is closeColl after an error of FilterDel.
Closing == {"closeReader", "filterDel", "closeColl", "closeKept"}

Pcs == Loading \cup Closing \cup {"off", "failed", "notify", "run"}

\* Ways to end; "kept" is a normal end that logged an error of FilterDel.
Exits == {"none", "zero", "kept", "fatal", "sigterm", "crash"}

TypeOK ==
  /\ pc \in [Agent -> Pcs]
  /\ open \in [Agent -> SUBSET {"coll", "reader"}]
  /\ sig \in [Agent -> BOOLEAN]
  /\ exit \in [Agent -> Exits]
  /\ starts \in [Agent -> 0 .. MaxStarts]
  /\ filter \in Agent \cup {NoAgent}
  /\ qdisc \in BOOLEAN
  /\ faults \in 0 .. MaxFaults
  /\ crashes \in 0 .. MaxCrashes

Init ==
  /\ pc = [a \in Agent |-> "off"]
  /\ open = [a \in Agent |-> {}]
  /\ sig = [a \in Agent |-> FALSE]
  /\ exit = [a \in Agent |-> "none"]
  /\ starts = [a \in Agent |-> 0]
  /\ filter = NoAgent
  /\ qdisc \in BOOLEAN
  /\ faults = 0
  /\ crashes = 0

kernel == <<filter, qdisc>>
budget == <<faults, crashes>>

Goto(a, l) == pc' = [pc EXCEPT ![a] = l]

\* The process of a ends; the kernel closes its descriptors.
End(a, how) ==
  /\ Goto(a, "off")
  /\ open' = [open EXCEPT ![a] = {}]
  /\ sig' = [sig EXCEPT ![a] = FALSE]
  /\ exit' = [exit EXCEPT ![a] = how]

\* systemctl start, or Restart=on-failure: main up to NewLoader.
Start(a) ==
  /\ pc[a] = "off"
  /\ starts[a] < MaxStarts
  /\ starts' = [starts EXCEPT ![a] = @ + 1]
  /\ exit' = [exit EXCEPT ![a] = "none"]
  /\ Goto(a, "collection")
  /\ UNCHANGED <<open, sig, kernel, budget>>

(***************************************************************************)
(* NewLoader                                                               *)
(***************************************************************************)

\* A call succeeds and yields the descriptors fds.
Ok(a, from, to, fds) ==
  /\ pc[a] = from
  /\ open' = [open EXCEPT ![a] = @ \cup fds]
  /\ Goto(a, to)
  /\ UNCHANGED <<sig, exit, starts, kernel, budget>>

\* A call fails: NewLoader closes the descriptors fds and returns the error.
Fail(a, from, fds) ==
  /\ pc[a] = from
  /\ faults < MaxFaults
  /\ faults' = faults + 1
  /\ open' = [open EXCEPT ![a] = @ \ fds]
  /\ Goto(a, "failed")
  /\ UNCHANGED <<sig, exit, starts, kernel, crashes>>

\* LoadCollectionSpec and NewCollection.
NewCollection(a) ==
  Ok(a, "collection", "port", {"coll"}) \/ Fail(a, "collection", {})

\* Look up cfg_target_port and write the port.
PutPort(a) == Ok(a, "port", "ringbuf", {}) \/ Fail(a, "port", {"coll"})

\* Mutant of NewReader: the error path does not close the collection.
NewReaderLeaks(a) == Ok(a, "ringbuf", "link", {"reader"}) \/ Fail(a, "ringbuf", {})

\* Look up rb and open its reader.
NewReader(a) ==
  Ok(a, "ringbuf", "link", {"reader"}) \/ Fail(a, "ringbuf", {"coll"})

LinkByName(a) ==
  Ok(a, "link", "qdisc", {}) \/ Fail(a, "link", {"reader", "coll"})

\* Errors, "already exists" among them, do not stop NewLoader.
QdiscAdd(a) ==
  /\ pc[a] = "qdisc"
  /\ \/ qdisc' = TRUE /\ faults' = faults
     \/ qdisc' = qdisc /\ faults < MaxFaults /\ faults' = faults + 1
  /\ Goto(a, "attach")
  /\ UNCHANGED <<open, sig, exit, starts, filter, crashes>>

\* Mutant of FilterAdd: the filter is replaced if it exists.
FilterAddReplaces(a) ==
  /\ pc[a] = "attach"
  /\ qdisc
  /\ filter' = a
  /\ Goto(a, "notify")
  /\ UNCHANGED <<open, sig, exit, starts, qdisc, budget>>

\* netlink.FilterAdd creates the filter exclusively: it fails if the slot is
\* taken, by whichever process, or if there is no qdisc.
FilterAdd(a) ==
  /\ pc[a] = "attach"
  /\ qdisc /\ filter = NoAgent
  /\ filter' = a
  /\ Goto(a, "notify")
  /\ UNCHANGED <<open, sig, exit, starts, qdisc, budget>>

FilterAddFails(a) ==
  /\ pc[a] = "attach"
  /\ ~qdisc \/ filter # NoAgent
  /\ open' = [open EXCEPT ![a] = @ \ {"reader", "coll"}]
  /\ Goto(a, "failed")
  /\ UNCHANGED <<sig, exit, starts, kernel, budget>>

\* mirror_ingress missing, or any other error of FilterAdd.
FilterAddFault(a) == Fail(a, "attach", {"reader", "coll"})

\* log.Fatalf in main.
Fatal(a) ==
  /\ pc[a] = "failed"
  /\ End(a, "fatal")
  /\ UNCHANGED <<starts, kernel, budget>>

(***************************************************************************)
(* The rest of main, and Loader.Close                                      *)
(***************************************************************************)

\* Start the goroutines, then signal.Notify.
Notify(a) ==
  /\ pc[a] = "notify"
  /\ Goto(a, "run")
  /\ UNCHANGED <<open, sig, exit, starts, kernel, budget>>

\* <-sig, printStats, and the deferred Close up to its PrintStats.
Receive(a) ==
  /\ pc[a] = "run"
  /\ sig[a]
  /\ sig' = [sig EXCEPT ![a] = FALSE]
  /\ Goto(a, "closeReader")
  /\ UNCHANGED <<open, exit, starts, kernel, budget>>

\* Mutant of CloseReader: Close waits for ReadEvents to end before it closes
\* the reader that ReadEvents blocks on.
CloseReaderWaits(a) ==
  /\ pc[a] = "closeReader"
  /\ "reader" \notin open[a]
  /\ Goto(a, "filterDel")
  /\ UNCHANGED <<open, sig, exit, starts, kernel, budget>>

CloseReader(a) ==
  /\ pc[a] = "closeReader"
  /\ open' = [open EXCEPT ![a] = @ \ {"reader"}]
  /\ Goto(a, "filterDel")
  /\ UNCHANGED <<sig, exit, starts, kernel, budget>>

\* Mutant of FilterDel: the filter is left in place.
FilterDelMissing(a) ==
  /\ pc[a] = "filterDel"
  /\ Goto(a, "closeColl")
  /\ UNCHANGED <<open, sig, exit, starts, kernel, budget>>

\* FilterDel names the filter by handle and priority, not by program.
FilterDel(a) ==
  /\ pc[a] = "filterDel"
  /\ filter' = NoAgent
  /\ Goto(a, "closeColl")
  /\ UNCHANGED <<open, sig, exit, starts, qdisc, budget>>

\* An error of FilterDel is logged, and Close goes on.
FilterDelFails(a) ==
  /\ pc[a] = "filterDel"
  /\ faults < MaxFaults
  /\ faults' = faults + 1
  /\ Goto(a, "closeKept")
  /\ UNCHANGED <<open, sig, exit, starts, kernel, crashes>>

\* coll.Close, and main returns.
CloseColl(a) ==
  /\ \/ pc[a] = "closeColl" /\ End(a, "zero")
     \/ pc[a] = "closeKept" /\ End(a, "kept")
  /\ UNCHANGED <<starts, kernel, budget>>

(***************************************************************************)
(* The environment                                                         *)
(***************************************************************************)

\* systemctl stop.  Until Notify the default action of SIGTERM applies.
Sigterm(a) ==
  /\ pc[a] # "off"
  /\ IF pc[a] \in Loading \cup {"failed", "notify"}
     THEN End(a, "sigterm")
     ELSE /\ sig' = [sig EXCEPT ![a] = TRUE]
          /\ UNCHANGED <<pc, open, exit>>
  /\ UNCHANGED <<starts, kernel, budget>>

\* A panic, SIGKILL or the OOM killer.
Crash(a) ==
  /\ pc[a] # "off"
  /\ crashes < MaxCrashes
  /\ crashes' = crashes + 1
  /\ End(a, "crash")
  /\ UNCHANGED <<starts, kernel, faults>>

-----------------------------------------------------------------------------

\* What the process of a does by itself.
Process(a) ==
  \/ NewCollection(a) \/ PutPort(a) \/ NewReader(a) \/ LinkByName(a)
  \/ QdiscAdd(a) \/ FilterAdd(a) \/ FilterAddFails(a) \/ FilterAddFault(a)
  \/ Fatal(a) \/ Notify(a) \/ Receive(a)
  \/ CloseReader(a) \/ FilterDel(a) \/ FilterDelFails(a) \/ CloseColl(a)

Next == \E a \in Agent : Start(a) \/ Process(a) \/ Sigterm(a) \/ Crash(a)

\* A process that can take a step does.
Fairness == \A a \in Agent : WF_vars(Process(a))

Spec == Init /\ [][Next]_vars

FairSpec == Spec /\ Fairness

-----------------------------------------------------------------------------
(***************************************************************************)
(* Properties                                                              *)
(***************************************************************************)

\* Each of NewLoader's error paths closes what the earlier calls opened.
FailedHoldsNothing == \A a \in Agent : pc[a] = "failed" => open[a] = {}

\* Agents whose process has attached and not yet detached.
Attached(a) == pc[a] \in {"notify", "run", "closeReader", "filterDel"}

\* The exclusive create makes the filter slot a lock: an agent that believes
\* itself attached is, it is the only one, and so the FilterDel of its Close,
\* which names only a handle, removes its own filter and no other.  The
\* descriptor of its program is open for as long ("Remove the TC filter before
\* closing the collection so the FD is still valid").  A second agent, which
\* TESTING.md starts on the interface for another port, is refused meanwhile.
AttachedOwnsSlot ==
  \A a \in Agent : Attached(a) => filter = a /\ "coll" \in open[a]

\* An agent that ran to its end, and logged no error of FilterDel, left no
\* filter behind, whatever happened to the other agents and to its own earlier
\* processes.
ZeroExitDetached == \A a \in Agent : exit[a] = "zero" => filter # a

\* A SIGTERM that main's channel catches ends the process.
SigtermEnds == \A a \in Agent : sig[a] ~> pc[a] = "off"

\* "Restart=on-failure": a service that died is running again after a restart,
\* so no start after a crash fails while every kernel call but the one on an
\* occupied slot succeeds.
RestartAttaches == crashes > 0 => \A a \in Agent : pc[a] # "failed"

-----------------------------------------------------------------------------
(***************************************************************************)
(* Inductive invariant                                                     *)
(***************************************************************************)

\* The descriptors a process holds at each point of its life.
Holds(l) ==
  CASE l \in {"off", "failed", "collection"} -> {}
    [] l \in {"port", "ringbuf", "filterDel", "closeColl", "closeKept"} -> {"coll"}
    [] OTHER -> {"coll", "reader"}

LifeInv ==
  /\ \A a \in Agent : open[a] = Holds(pc[a])
  /\ \A a \in Agent : Attached(a) => filter = a
  /\ \A a \in Agent : pc[a] = "closeColl" => filter # a
  /\ \A a \in Agent : exit[a] = "zero" => pc[a] = "off" /\ filter # a

=============================================================================
