------------------------------- MODULE DagRun -------------------------------
(***************************************************************************)
(* What one run of a workflow promises, with the ready queue, the pending  *)
(* sets and the input buckets of engine/executor.py left out: nodes        *)
(* complete one at a time, never before all their parents have, at most    *)
(* one node fails the run and nothing completes after it, and the verdict  *)
(* "success" is given only when every node has completed.  Module          *)
(* WorkflowExecutor implements this specification.                         *)
(***************************************************************************)
EXTENDS WorkflowGraph

CONSTANTS Workflows,    \* the workflows a run may be given
          None          \* no node

VARIABLES workflow,     \* the workflow of this run
          done,         \* the nodes that have completed
          failed,       \* the node that failed the run, or None
          verdict       \* "none" until the run ends

vars == <<workflow, done, failed, verdict>>

Init ==
    /\ workflow \in Workflows
    /\ done = {}
    /\ failed = None
    /\ verdict = "none"

(* A node may take its turn once all its parents have completed. *)
MayRun(n) ==
    /\ verdict = "none"
    /\ failed = None
    /\ n \notin done
    /\ Parents(workflow, n) \subseteq done

Complete(n) ==
    /\ MayRun(n)
    /\ done' = done \cup {n}
    /\ UNCHANGED <<workflow, failed, verdict>>

Fail(n) ==
    /\ MayRun(n)
    /\ failed' = n
    /\ UNCHANGED <<workflow, done, verdict>>

Conclude ==
    /\ verdict = "none"
    /\ verdict' = IF failed # None THEN "error" ELSE "success"
    /\ failed = None => done = NodesOf(workflow)
    /\ UNCHANGED <<workflow, done, failed>>

Refuse ==
    /\ verdict = "none"
    /\ ~WellFormed(workflow)
    /\ done = {} /\ failed = None
    /\ verdict' = "raised"
    /\ UNCHANGED <<workflow, done, failed>>

Next ==
    \/ \E n \in NodesOf(workflow) : Complete(n) \/ Fail(n)
    \/ Conclude
    \/ Refuse

Spec == Init /\ [][Next]_vars
=============================================================================
