----------------------------- MODULE Entrypoint -----------------------------
(***************************************************************************)
(* apigee-sim/entrypoint.sh: the shell that starts the APIGEE simulator    *)
(* and the mirror agent in one container, waits for either to end and      *)
(* passes SIGTERM and SIGINT on to both.                                   *)
(*                                                                         *)
(* The script is process 1 of its container: a signal it has no trap for   *)
(* is ignored, and when it exits the kernel kills what is left.  bash runs *)
(* a trap between two commands, or when the signal cuts a wait short; the  *)
(* script runs under set -e.                                               *)
(***************************************************************************)
EXTENDS Integers

CONSTANTS
  Tries,     \* polls of /health before the agent is started anyway (10)
  MaxSig     \* bound: signals sent to the shell

ASSUME BoundAssumption == Tries \in Nat \ {0} /\ MaxSig \in Nat

Child == {"apigee", "mirror"}

VARIABLES
  pc,        \* the shell's next command
  try,       \* i of the polling loop
  after,     \* where _stop returns to: "trap", or line 56
  pending,   \* a trap has to be run
  sigs,      \* signals sent to the shell so far
  state,     \* state[c]: "none", "up", "ended", or "killed" with the container
  ok,        \* ok[c]: it ended with status 0
  term,      \* term[c]: a SIGTERM is pending for it
  ready,     \* APIGEE answers on /health
  code       \* exit status of the container: 0, 1 for any other, -1 none yet

shell == <<pc, try, after>>
signals == <<pending, sigs>>
children == <<state, ok, term, ready>>
vars == <<shell, signals, children, code>>

Init ==
  /\ pc = "apigee" /\ try = 1 /\ after = "none"
  /\ pending = FALSE /\ sigs = 0
  /\ state = [c \in Child |-> "none"]
  /\ ok = [c \in Child |-> FALSE]
  /\ term = [c \in Child |-> FALSE]
  /\ ready = FALSE
  /\ code = -1

(***************************************************************************)
(* Starting the children                                                   *)
(***************************************************************************)

Goto(from, to) == pc = from /\ pc' = to

Spawn(c, from, to) ==
  /\ Goto(from, to)
  /\ state' = [state EXCEPT ![c] = "up"]
  /\ UNCHANGED <<try, after, signals, ok, term, ready, code>>

StartApigee == Spawn("apigee", "apigee", "poll")

\* curl answers, or the last round of the loop is over.
PollEnds ==
  /\ Goto("poll", "mirror")
  /\ ready \/ try = Tries
  /\ UNCHANGED <<try, after, signals, children, code>>

Poll ==
  /\ pc = "poll" /\ ~ready /\ try < Tries
  /\ try' = try + 1
  /\ UNCHANGED <<pc, after, signals, children, code>>

StartMirror == Spawn("mirror", "mirror", "trap")

SetTrap ==
  /\ Goto("trap", "wait")
  /\ UNCHANGED <<try, after, signals, children, code>>

(***************************************************************************)
(* Waiting and stopping                                                    *)
(***************************************************************************)

Trapped == pc \notin {"apigee", "poll", "mirror", "trap"}

Alive == code = -1

\* The shell ends, and with it the container.
Exit(status) ==
  /\ pc' = "exited" /\ code' = status
  /\ state' = [c \in Child |-> IF state[c] = "up" THEN "killed" ELSE state[c]]
  /\ UNCHANGED <<try, after, signals, ok, term, ready>>

\* wait -n returns 0: the message, then _stop, then exit with that 0.
WaitZero ==
  /\ ~pending
  /\ \E c \in Child : state[c] = "ended" /\ ok[c]
  /\ Goto("wait", "kill mirror")
  /\ after' = "exit"
  /\ UNCHANGED <<try, signals, children, code>>

\* wait -n returns another status, at which set -e ends the script.
WaitFails ==
  /\ pc = "wait" /\ ~pending
  /\ \E c \in Child : state[c] = "ended" /\ ~ok[c]
  /\ Exit(1)

\* The trap: _stop, from its beginning also when it is already running.
RunTrap ==
  /\ Alive /\ Trapped /\ pending
  /\ pending' = FALSE
  /\ pc' = "kill mirror"
  /\ after' = IF pc = "wait" THEN "trap" ELSE after
  /\ UNCHANGED <<try, sigs, children, code>>

Kill(c, from, to) ==
  /\ Goto(from, to) /\ ~pending
  /\ term' = [term EXCEPT ![c] = state[c] = "up"]
  /\ UNCHANGED <<try, after, signals, state, ok, ready, code>>

\* Mutant of StopKill: the second kill names the agent again.
StopKillOne == Kill("mirror", "kill mirror", "kill apigee") \/ Kill("mirror", "kill apigee", "wait mirror")

StopKill == Kill("mirror", "kill mirror", "kill apigee") \/ Kill("apigee", "kill apigee", "wait mirror")

Reap(c, from, to) ==
  /\ Goto(from, to) /\ ~pending
  /\ state[c] # "up"
  /\ UNCHANGED <<try, after, signals, children, code>>

\* Mutant of StopWait: _stop waits for the agent only.
StopWaitOne == Reap("mirror", "wait mirror", "wait apigee") \/ Reap("mirror", "wait apigee", "stopped")

StopWait == Reap("mirror", "wait mirror", "wait apigee") \/ Reap("apigee", "wait apigee", "stopped")

\* After a trap the interrupted wait -n has status 143, and set -e applies.
Stopped ==
  /\ pc = "stopped" /\ ~pending
  /\ Exit(IF after = "trap" THEN 1 ELSE 0)

Shell ==
  \/ StartApigee \/ PollEnds \/ Poll \/ StartMirror \/ SetTrap
  \/ WaitZero \/ WaitFails \/ RunTrap \/ StopKill \/ StopWait \/ Stopped

(***************************************************************************)
(* The children, and who sends signals                                     *)
(***************************************************************************)

Ready ==
  /\ state["apigee"] = "up" /\ ~ready
  /\ ready' = TRUE
  /\ UNCHANGED <<shell, signals, state, ok, term, code>>

\* A child ends by itself, with an error; after a SIGTERM also, if it is the
\* agent and has its handler, with status 0.
Ends(c, zero) ==
  /\ state[c] = "up"
  /\ zero => c = "mirror" /\ term[c]
  /\ state' = [state EXCEPT ![c] = "ended"]
  /\ ok' = [ok EXCEPT ![c] = zero]
  /\ ready' = (ready /\ c # "apigee")
  /\ UNCHANGED <<shell, signals, term, code>>

Obeys(c) == term[c] /\ \E zero \in BOOLEAN : Ends(c, zero)

\* An operator stops the agent alone.
TermAgent ==
  /\ state["mirror"] = "up" /\ ~term["mirror"]
  /\ term' = [term EXCEPT !["mirror"] = TRUE]
  /\ UNCHANGED <<shell, signals, state, ok, ready, code>>

\* docker stop, or ^C.
Signal ==
  /\ Alive /\ sigs < MaxSig
  /\ sigs' = sigs + 1
  /\ pending' = (pending \/ Trapped)
  /\ UNCHANGED <<shell, children, code>>

-----------------------------------------------------------------------------

Next ==
  \/ Shell \/ Signal \/ TermAgent \/ Ready
  \/ \E c \in Child, zero \in BOOLEAN : Ends(c, zero)

Spec == Init /\ [][Next]_vars

\* The shell goes on when it can, and a child that is sent SIGTERM ends: the
\* simulator by the default action, the agent through AgentLifecycle.
Fairness == WF_vars(Shell) /\ \A c \in Child : WF_vars(Obeys(c))

FairSpec == Spec /\ Fairness

-----------------------------------------------------------------------------
(***************************************************************************)
(* Properties                                                              *)
(***************************************************************************)

\* A container that went through _stop, for whatever reason and however many
\* signals interrupted it, has let both children end: the kernel killed none.
OrderlyStop == code # -1 /\ after # "none" => \A c \in Child : state[c] = "ended"

\* A signal that the trap catches ends the container and both children, also
\* when a child dies or a second signal comes while _stop runs.
TrapStops == pending ~> code # -1 /\ \A c \in Child : state[c] = "ended"

=============================================================================
