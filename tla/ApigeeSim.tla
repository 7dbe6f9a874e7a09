------------------------------ MODULE ApigeeSim ------------------------------
(***************************************************************************)
(* apigee-sim/main.go: the proxy whose traffic is mirrored.  net/http runs *)
(* every request in its own goroutine; the only shared state is one atomic *)
(* counter.                                                                *)
(***************************************************************************)
EXTENDS Integers

\* Requests, once each: handler, method, and whether the body is a JSON object.
CONSTANT Req

VARIABLES
  pc,             \* pc[r]: where the handler goroutine of r is
  status,         \* status[r]: the status sent; 0 none yet, -1 aborted
  requestCount

vars == <<pc, status, requestCount>>

Init ==
  /\ pc = [r \in Req |-> "new"]
  /\ status = [r \in Req |-> 0]
  /\ requestCount = 0

Goto(r, from, to) == pc[r] = from /\ pc' = [pc EXCEPT ![r] = to]

\* products and orders count, and switch on the method; the others take any.
Switches(r) == r.handler \in {"products", "orders"}

Count(r) ==
  /\ Goto(r, "new", "serve")
  /\ requestCount' = requestCount + IF Switches(r) THEN 1 ELSE 0
  /\ status' = status

\* A POST whose body does not decode to a map assigns to a nil map.
NilMap(r) == Switches(r) /\ r.method = "POST" /\ ~r.object

StatusOf(r) ==
  IF ~Switches(r) \/ r.method = "GET" THEN 200
  ELSE IF r.method # "POST" THEN 405
  ELSE IF r.handler = "products" THEN 201 ELSE 202

End(r, st) ==
  /\ Goto(r, "serve", "done")
  /\ status' = [status EXCEPT ![r] = st]
  /\ requestCount' = requestCount

\* writeJSON or http.Error.
Respond(r) == ~NilMap(r) /\ End(r, StatusOf(r))

\* net/http aborts the connection.
Abort(r) == NilMap(r) /\ End(r, -1)

Handle(r) == Count(r) \/ Respond(r) \/ Abort(r)

Next == \E r \in Req : Handle(r)

Spec == Init /\ [][Next]_vars

=============================================================================
