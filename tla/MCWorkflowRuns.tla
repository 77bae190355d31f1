---------------------------- MODULE MCWorkflowRuns ----------------------------
(* Three workflows of one project that call each other and themselves, one for
   each store, and one of another project. *)
EXTENDS WorkflowRuns

Programs ==
  [chat   |-> <<"memory", "call", "memory", "memory">>,
   digest |-> <<"summary", "call", "summary">>,
   index  |-> <<"vector", "call", "vector", "batches">>,
   other  |-> <<"batches", "call">>]
Projects == [chat |-> "ours", digest |-> "ours", index |-> "ours", other |-> "theirs"]
AllWorkflows == {"chat", "digest", "index", "other"}
SomeVectors == {<<1>>, <<2>>, <<1, 1>>}
(* The metric "dot". *)
DotProduct(a, b) == FoldLeft(+, 0, [k \in DOMAIN a |-> a[k] * b[k]])
=============================================================================
