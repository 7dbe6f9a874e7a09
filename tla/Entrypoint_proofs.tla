-------------------------- MODULE Entrypoint_proofs --------------------------
(***************************************************************************)
(* Theorems about Entrypoint, for any number of polls and signals.         *)
(***************************************************************************)
EXTENDS Entrypoint, TLAPS

Starting == {"apigee", "poll", "mirror", "trap"}

Stopping == {"kill mirror", "kill apigee", "wait mirror", "wait apigee", "stopped"}

\* The variables OrderlyStop depends on.
ShellOK ==
  /\ pc \in Starting \cup {"wait", "exited"} \cup Stopping
  /\ after \in {"none", "trap", "exit"}
  /\ state \in [Child -> {"none", "up", "ended", "killed"}]

\* The shell has an exit status when it has exited, and then only is a child
\* killed with the container.
EndInv ==
  /\ code = -1 <=> pc # "exited"
  /\ \A c \in Child : state[c] = "killed" => pc = "exited"

\* Which children were started.
StartInv ==
  /\ pc # "apigee" => state["apigee"] # "none"
  /\ pc \notin {"apigee", "poll", "mirror"} => state["mirror"] # "none"

\* _stop knows where to return to, and what its waits have established stays
\* true: a child that has ended does not come back.
StopInv ==
  /\ pc \in Starting \cup {"wait"} => after = "none"
  /\ pc \in Stopping => after # "none"
  /\ pc \in {"wait apigee", "stopped"} => state["mirror"] = "ended"
  /\ pc = "stopped" => state["apigee"] = "ended"

EntryInv == ShellOK /\ EndInv /\ StartInv /\ StopInv /\ OrderlyStop

\* Each command of the shell preserves EntryInv.
LEMMA ShellStep ==
  ASSUME EntryInv, Shell
  PROVE  EntryInv'
<1> USE DEF EntryInv, ShellOK, EndInv, StartInv, StopInv, OrderlyStop, Child, Starting,
            Stopping, Goto
<1>1. CASE StartApigee
  BY <1>1 DEF StartApigee, Spawn
<1>2. CASE PollEnds \/ Poll \/ SetTrap
  BY <1>2 DEF PollEnds, Poll, SetTrap, children
<1>3. CASE StartMirror
  BY <1>3 DEF StartMirror, Spawn
<1>4. CASE WaitZero \/ RunTrap
  BY <1>4 DEF WaitZero, RunTrap, Trapped, Alive, children
<1>5. CASE WaitFails
  BY <1>5 DEF WaitFails, Exit
<1>6. CASE StopKill
  BY <1>6 DEF StopKill, Kill
<1>7. CASE StopWait
  BY <1>7 DEF StopWait, Reap, children
<1>8. CASE Stopped
  BY <1>8 DEF Stopped, Exit
<1> QED
  BY <1>1, <1>2, <1>3, <1>4, <1>5, <1>6, <1>7, <1>8 DEF Shell

\* So does what happens around it: a child may only go from up to ended.
LEMMA OutsideStep ==
  ASSUME EntryInv,
         Signal \/ TermAgent \/ Ready \/ \E c \in Child, zero \in BOOLEAN : Ends(c, zero)
  PROVE  EntryInv'
<1> USE DEF EntryInv, ShellOK, EndInv, StartInv, StopInv, OrderlyStop, Child, Starting, Stopping
<1>1. CASE Signal \/ TermAgent \/ Ready
  BY <1>1 DEF Signal, TermAgent, Ready, shell, children
<1>2. ASSUME NEW c \in Child, NEW zero \in BOOLEAN, Ends(c, zero)
      PROVE  EntryInv'
  BY <1>2 DEF Ends, shell
<1> QED
  BY <1>1, <1>2

\* A container that went through _stop has let both children end: no signal,
\* however often it restarts _stop, and no death of a child makes the shell of
\* entrypoint.sh exit over a child that is still up.
THEOREM StopIsOrderly == Spec => []OrderlyStop
<1>1. Init => EntryInv
  BY DEF Init, EntryInv, ShellOK, EndInv, StartInv, StopInv, OrderlyStop, Child, Starting, Stopping
<1>2. EntryInv /\ [Next]_vars => EntryInv'
  <2>1. EntryInv /\ UNCHANGED vars => EntryInv'
    BY DEF EntryInv, ShellOK, EndInv, StartInv, StopInv, OrderlyStop, vars, shell, children
  <2> QED
    BY <2>1, ShellStep, OutsideStep DEF Next
<1>3. EntryInv => OrderlyStop
  BY DEF EntryInv
<1> QED
  BY <1>1, <1>2, <1>3, PTL DEF Spec

=============================================================================
