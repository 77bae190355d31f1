-------------------------- MODULE TopologicalSort --------------------------
(***************************************************************************)
(* The constructor of WorkflowGraph (src/weftlyflow/engine/graph.py):      *)
(* index the nodes, check the connections, sort with Kahn's algorithm.     *)
(* Module WorkflowExecutor takes its verdict as WellFormed and its roots   *)
(* in declaration order; the properties here justify both.                 *)
(***************************************************************************)
EXTENDS WorkflowGraph, Integers

CONSTANTS NodeId,       \* the ids a workflow may use
          Workflows     \* the workflows the constructor may be given

ASSUME ShapesAssumption ==
    \A w \in Workflows :
        /\ w.nodes \in Seq(NodeId)
        /\ w.connections \in Seq([source_node : NodeId, source_index : Nat,
                                  target_node : NodeId])

VARIABLES
    workflow,    \* the constructor's argument
    step,        \* "index", "adjacency", "sort", then the way it ended
    indegree,    \* indegree[n]: parents of n not yet in order
    queue,       \* the deque of nodes to visit
    order        \* the list of visited nodes

vars == <<workflow, step, indegree, queue, order>>

Ends == {"built", "WorkflowValidationError", "InvalidConnectionError",
         "CycleDetectedError"}

(* The state of the constructor has the shape the code gives it; no        *)
(* indegree is ever decremented below zero.                                *)
TypeOK ==
    /\ workflow \in Workflows
    /\ step \in {"index", "adjacency", "sort"} \cup Ends
    /\ indegree \in [NodeId -> Nat]
    /\ queue \in Seq(NodeId)
    /\ order \in Seq(NodeId)

Init ==
    /\ workflow \in Workflows
    /\ step = "index"
    /\ indegree = [n \in NodeId |-> 0]
    /\ queue = <<>>
    /\ order = <<>>

(* _build_node_index *)
BuildNodeIndex ==
    /\ step = "index"
    /\ step' = IF NoDuplicateIds(workflow) THEN "adjacency"
                                           ELSE "WorkflowValidationError"
    /\ UNCHANGED <<workflow, indegree, queue, order>>

(* Mutant: the indegree counts connections, not parents. *)
IndegreePerConnection(w) == [n \in NodeId |-> Cardinality(Incoming(w, n))]

(* The indegree of _kahn_topological_sort: its edges are deduplicated. *)
Indegree(w) == [n \in NodeId |-> Cardinality(Parents(w, n))]

(* A deque of the nodes of T in the order in which nodes_by_id has them. *)
InOrder(w, T) ==
    {s \in [1 .. Cardinality(T) -> T] : Lists(s, T, DeclarationOrder(w))}

(* _build_adjacency, then the set-up of _kahn_topological_sort *)
BuildAdjacency ==
    /\ step = "adjacency"
    /\ IF EndpointsKnown(workflow)
       THEN /\ step' = "sort"
            /\ indegree' = Indegree(workflow)
            /\ queue' \in InOrder(workflow,
                              {n \in NodesOf(workflow) : Indegree(workflow)[n] = 0})
       ELSE /\ step' = "InvalidConnectionError"
            /\ UNCHANGED <<indegree, queue>>
    /\ UNCHANGED <<workflow, order>>

(* Mutant: the child is queued at its first decrement. *)
FreedEarly(n) == {t \in Children(workflow, n) : indegree[t] # 0}

(* The children of n whose indegree reaches zero *)
Freed(n) == {t \in Children(workflow, n) : indegree[t] - 1 = 0}

(* Mutant: one decrement per connection although parents are counted once. *)
DecrementedPerConnection(n) ==
    [t \in NodeId |->
        indegree[t] - Cardinality(Outgoing(workflow, n) \cap Incoming(workflow, t))]

(* Every child of n has one parent less to wait for. *)
Decremented(n) ==
    [t \in NodeId |-> IF t \in Children(workflow, n) THEN indegree[t] - 1
                                                     ELSE indegree[t]]

(* One iteration of the while loop *)
Visit ==
    /\ step = "sort"
    /\ queue # <<>>
    /\ LET n == Head(queue)
       IN  /\ order' = Append(order, n)
           /\ indegree' = Decremented(n)
           /\ \E s \in InOrder(workflow, Freed(n)) : queue' = Tail(queue) \o s
    /\ UNCHANGED <<workflow, step>>

(* len(order) == len(nodes_by_id) *)
AllVisited == Len(order) = Cardinality(NodesOf(workflow))

Finish ==
    /\ step = "sort"
    /\ queue = <<>>
    /\ step' = IF AllVisited THEN "built" ELSE "CycleDetectedError"
    /\ UNCHANGED <<workflow, indegree, queue, order>>

Next == BuildNodeIndex \/ BuildAdjacency \/ Visit \/ Finish

Spec == Init /\ [][Next]_vars
-----------------------------------------------------------------------------
(* Mutant: deg >= 0 *)
OffendersOffByOne == {n \in NodesOf(workflow) : indegree[n] >= 0}

(* The nodes the CycleDetectedError names *)
Offenders == {n \in NodesOf(workflow) : indegree[n] > 0}

(* No connection is listed twice: the edges of a workflow differ in an     *)
(* endpoint or in a port.                                                  *)
NoDuplicateConnections(w) == IsInjective(w.connections)

(* A graph is only built of a workflow with distinct ids, known endpoints  *)
(* and no cycle.  Of a workflow without duplicate connections nothing else *)
(* is refused, parallel connections of different ports included, and the   *)
(* error is the one of the first check that fails.  (What is to happen to  *)
(* duplicate connections is left open: domain/workflow.py:145-146 says     *)
(* graph.py refuses them, and it does not.)                                *)
VerdictIsRight ==
    /\ step = "built" => WellFormed(workflow)
    /\ NoDuplicateConnections(workflow) =>
          /\ step = "WorkflowValidationError" => ~NoDuplicateIds(workflow)
          /\ step = "InvalidConnectionError" =>
                NoDuplicateIds(workflow) /\ ~EndpointsKnown(workflow)
          /\ step = "CycleDetectedError" =>
                /\ NoDuplicateIds(workflow) /\ EndpointsKnown(workflow)
                /\ ~Acyclic(workflow)

(* At every moment of the sort the order lists distinct nodes and has all  *)
(* parents of a node before it: what "topological order" promises, for     *)
(* parallel connections too.                                               *)
OrderIsTopological ==
    /\ IsInjective(order)
    /\ \A i \in DOMAIN order :
          \A p \in Parents(workflow, order[i]) :
              \E j \in 1 .. i - 1 : order[j] = p

(* The offenders the error names are the largest set of nodes each of      *)
(* which has a parent in the set: the cycles and whatever they lead to.    *)
OffendersAreTheCyclicPart ==
    step = "CycleDetectedError" =>
        Offenders = UNION {S \in SUBSET NodesOf(workflow) :
                              \A n \in S : Parents(workflow, n) \cap S # {}}
=============================================================================
