------------------------------ MODULE MCShadow ------------------------------
(***************************************************************************)
(* Requests and route tables for model checking ShadowPath.                *)
(***************************************************************************)
EXTENDS ShadowPath

S(id, path, method, object, whole) ==
  [id |-> id, path |-> path, valid |-> TRUE, idempotent |-> method = "GET",
   method |-> method, object |-> object, whole |-> whole, pct |-> 50]

\* A read that may be repeated, creations with a body, a chunked one and one of
\* no object, a method that is refused, the health check of the load generator,
\* and a request that APIGEE echoes and that sets EWP's threshold.
Requests ==
  {S(1, <<"catalog">>, "GET", FALSE, TRUE), S(2, <<"orders">>, "POST", TRUE, FALSE),
   S(3, <<"products">>, "POST", FALSE, TRUE), S(4, <<"products">>, "DELETE", FALSE, TRUE),
   S(5, <<"orders">>, "POST", TRUE, TRUE), S(6, <<"health">>, "GET", FALSE, TRUE),
   S(7, <<"config">>, "POST", TRUE, TRUE)}

Rules == <<[apigee |-> <<"catalog">>, ewp |-> <<"users/">>]>>

\* A rule that sends a path to another handler, alone in a table that drops all
\* other paths, and in one with a syntax error.
Tables == {[json |-> "array", rules |-> Rules], [json |-> "bad", rules |-> Rules]}

=============================================================================
