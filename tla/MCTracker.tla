------------------------------ MODULE MCTracker ------------------------------
(***************************************************************************)
(* Connections for model checking TCPTracker.  One unit of time is 5 s.    *)
(***************************************************************************)
EXTENDS TCPTracker, TLC

CONSTANTS k1, k2

U(kind, val) == [kind |-> kind, val |-> val]

\* GET without a body: two units.
GetReq(id) == <<U("start", id), U("blank", 0)>>

\* POST with a printable body of n units.
PostReq(id, n) ==
  <<U("start", id), U("clen", n), U("blank", 0)>> \o [i \in 1 .. n |-> U("text", i)]

Captured(id, n) ==
  [line |-> <<U("start", id)>>, body |-> [i \in 1 .. n |-> U("text", i)]]

\* Prompt connections: a POST followed by a GET, and a single GET.
PairWire == (k1 :> PostReq(1, 2) \o GetReq(2)) @@ (k2 :> GetReq(3))
PairBound == (k1 :> <<0, 5, 7>>) @@ (k2 :> <<0, 2>>)
PairRequest == (k1 :> <<Captured(1, 2), Captured(2, 0)>>) @@ (k2 :> <<Captured(3, 0)>>)

\* k1 with a shorter body.  k2 is not Prompt: it sends what is no request.
NoiseWire == (k1 :> PostReq(1, 1) \o GetReq(2)) @@ (k2 :> <<U("line", 0), U("blank", 0)>>)
NoiseBound == (k1 :> <<0, 4, 6>>) @@ (k2 :> <<0>>)
NoiseRequest == (k1 :> <<Captured(1, 1), Captured(2, 0)>>) @@ (k2 :> <<>>)

\* Neither is Prompt.  k1: a request with a Content-Length Atoi rejects, then
\* one with a Content-Length make refuses.  k2: what is no text, and some text.
MixedWire ==
  (k1 :> <<U("start", 1), U("badclen", 0), U("blank", 0),
           U("start", 2), U("wildclen", 0), U("blank", 0)>>)
  @@ (k2 :> <<U("bin", 0), U("line", 0)>>)
MixedBound == (k1 :> <<0>>) @@ (k2 :> <<0>>)
MixedRequest == (k1 :> <<>>) @@ (k2 :> <<>>)

ASSUME PromptOK

=============================================================================
