------------------------------ MODULE MCMetrics ------------------------------
(***************************************************************************)
(* Requests for model checking EwpMetrics.                                 *)
(***************************************************************************)
EXTENDS EwpMetrics

M(n, handler, method, object, pct, mirrored) ==
  [id |-> n, handler |-> handler, method |-> method, object |-> object, pct |-> pct,
   mirrored |-> mirrored]

\* Two creations, mirrored, so that a window of one moves; one whose method is
\* refused, and one that is not mirrored.  The operator lowers the threshold,
\* and a mirrored request tries to set one out of range.
Requests ==
  {M(1, "products", "POST", TRUE, 0, TRUE), M(2, "orders", "POST", TRUE, 0, TRUE),
   M(3, "users", "GET", FALSE, 0, FALSE), M(4, "products", "DELETE", FALSE, 0, TRUE),
   M(5, "config", "PUT", TRUE, 0, FALSE), M(6, "config", "POST", TRUE, 101, TRUE)}

=============================================================================
