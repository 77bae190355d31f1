------------------------ MODULE MCTriggerActivation ------------------------
(***************************************************************************)
(* Instances of TriggerActivation for TLC.                                 *)
(***************************************************************************)
EXTENDS TriggerActivation

CONSTANTS wf1, wf2, r1, r2

OneWorkflow == {wf2}
TwoWorkflows == {wf1, wf2}
OneRequest == {r1}
TwoRequests == {r1, r2}
RequestSymmetry == Permutations(Request)

\* Everything but the flag `active', which no step and no property reads.
WithoutFlag == <<offered, definition, present, rows, registry, jobs, req, txn, process>>

Hook(n, k) == [node |-> n, kind |-> "webhook", key |-> k]
TraceHook(n, k) == [node |-> n, kind |-> "unsupported", key |-> k]
Cron(n) == [node |-> n, kind |-> "schedule", key |-> n]
BadCron(n) == [node |-> n, kind |-> "invalid", key |-> n]

\* Webhooks at different paths, a schedule, one that does not validate.
DistinctPaths ==
  (wf1 :> {<<Hook("a", "p"), Cron("b")>>})
  @@ (wf2 :> {<<Hook("a", "q")>>, <<BadCron("c"), Hook("a", "s")>>})

\* Two workflows that want the path p, one of them as its second trigger; a
\* version that has the same path twice, and one with an unsupported method.
SharedPath ==
  (wf1 :> {<<Hook("a", "p")>>, <<Hook("a", "p"), TraceHook("b", "t")>>})
  @@ (wf2 :> {<<Hook("a", "q"), Hook("b", "p")>>, <<Hook("a", "q"), Hook("b", "q")>>})

\* One workflow whose webhook has an unsupported method.
BadMethod == wf2 :> {<<TraceHook("a", "t")>>}

DistinctOrShared == {DistinctPaths, SharedPath}
OnlyBadMethod == {BadMethod}

\* One workflow with one webhook.
OneHook == wf2 :> {<<Hook("a", "q")>>}
OnlyOneHook == {OneHook}
=============================================================================
