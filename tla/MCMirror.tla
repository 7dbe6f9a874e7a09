------------------------------ MODULE MCMirror ------------------------------
(***************************************************************************)
(* Requests and route tables for model checking Mirror.                    *)
(***************************************************************************)
EXTENDS Mirror

Q(id, path, valid, idempotent) ==
  [id |-> id, path |-> path, valid |-> valid, idempotent |-> idempotent]

Rule(apigee, ewp) == [apigee |-> apigee, ewp |-> ewp]

F(json, rules) == [json |-> json, rules |-> rules]

\* A GET that two rules match, and a request with a method that is no token on
\* a path that no rule lists.
Requests == {Q(1, <<"api", "v1", "orders">>, TRUE, TRUE), Q(2, <<"admin">>, FALSE, FALSE)}

\* No table, and one in which rules overlap.
Tables == {F("blank", <<>>),
           F("array", <<Rule(<<"api", "v1">>, <<"new">>), Rule(<<"api">>, <<"old">>)>>)}

\* A request on a path that no rule lists, and a table with a syntax error.
Strays == {Q(3, <<"admin">>, TRUE, TRUE)}

Broken == {F("bad", <<Rule(<<"api", "v1">>, <<"new">>)>>)}

=============================================================================
