--------------------------- MODULE WorkflowGraph ---------------------------
(***************************************************************************)
(* The shape of a workflow as src/weftlyflow/engine/graph.py sees it: a    *)
(* list of node ids and a list of connections.  Constant-level operators   *)
(* only; Kahn's algorithm itself is the state machine of module            *)
(* TopologicalSort, the run loop that walks the graph is the one of        *)
(* module WorkflowExecutor.                                                *)
(*                                                                         *)
(* A workflow is a record with (at least) the fields                       *)
(*   nodes        the node ids, in declaration order                       *)
(*   connections  the connections, in declaration order; a connection      *)
(*                names its source node and output index, and its target   *)
(*                node and input port.                                     *)
(***************************************************************************)
EXTENDS Naturals, Sequences, FiniteSets, Functions

(* graph.py: the keys of _nodes_by_id *)
NodesOf(w) == Range(w.nodes)

(* graph.py: connections are referred to by their place in the list *)
ConnsOf(w) == DOMAIN w.connections

Source(w, c) == w.connections[c].source_node
Target(w, c) == w.connections[c].target_node

(* graph.py: _outgoing[n] and _incoming[n] *)
Outgoing(w, n) == {c \in ConnsOf(w) : Source(w, c) = n}
Incoming(w, n) == {c \in ConnsOf(w) : Target(w, c) = n}

(* graph.py: the unique parents and children of a node *)
Parents(w, n)  == {Source(w, c) : c \in Incoming(w, n)}
Children(w, n) == {Target(w, c) : c \in Outgoing(w, n)}

(* graph.py: _root_ids *)
Roots(w) == {n \in NodesOf(w) : Incoming(w, n) = {}}

(***************************************************************************)
(* The three structural errors the constructor raises.                     *)
(***************************************************************************)
(* _build_node_index *)
NoDuplicateIds(w) == IsInjective(w.nodes)

(* _validate_connection *)
EndpointsKnown(w) ==
    \A c \in ConnsOf(w) : Source(w, c) \in NodesOf(w) /\ Target(w, c) \in NodesOf(w)

(* What a workflow without a cycle is, independently of the algorithm that *)
(* looks for one: every non-empty set of nodes has a member none of whose  *)
(* parents is in the set.                                                  *)
Acyclic(w) ==
    \A S \in SUBSET NodesOf(w) :
        S # {} => \E n \in S : Parents(w, n) \cap S = {}

WellFormed(w) == NoDuplicateIds(w) /\ EndpointsKnown(w) /\ Acyclic(w)

(***************************************************************************)
(* The loops of the source visit nodes or connections in list order and    *)
(* append each selected node once.  Lists(s, T, R) says s is that result:  *)
(* the members of T, each once, in the order of the relation R.            *)
(***************************************************************************)
Lists(s, T, R) ==
    /\ Range(s) = T
    /\ \A i, j \in DOMAIN s : i < j => s[i] # s[j] /\ <<s[i], s[j]>> \in R

(* Declaration order of nodes: the iteration order of nodes_by_id. *)
DeclarationOrder(w) ==
    {<<w.nodes[p[1]], w.nodes[p[2]]>> :
        p \in {q \in (DOMAIN w.nodes) \X (DOMAIN w.nodes) : q[1] < q[2]}}

(* The order in which a loop over outgoing(src) first meets its targets. *)
MeetingOrder(w, src) ==
    {p \in Children(w, src) \X Children(w, src) :
        \E c \in Outgoing(w, src) :
            /\ Target(w, c) = p[1]
            /\ \A d \in Outgoing(w, src) : Target(w, d) = p[2] => c < d}
=============================================================================
