------------------------- MODULE MCWorkflowExecutor -------------------------
(***************************************************************************)
(* Instances of WorkflowExecutor for TLC.                                  *)
(***************************************************************************)
EXTENDS WorkflowExecutor

CONSTANTS a, b, c, d

MCOutIndex == {0, 1}

Edge(s, t) == [source_node |-> s, source_index |-> 0,
               target_node |-> t, target_port |-> "main"]

Plain(ns, cs) == [nodes |-> ns, connections |-> cs, disabled |-> {},
                  pinned |-> {}, continue_on_fail |-> {}]

(* Every list of at most MaxConns connections over three declared nodes,   *)
(* and over two of them and the undeclared id d: chains, joins, cycles,    *)
(* self-loops, parallel connections and dangling ends; a duplicated node   *)
(* id; the empty workflow.                                                 *)
MaxConns == 3
ConnLists(ids) ==
    UNION {[1 .. k -> {Edge(s, t) : s \in ids, t \in ids}] : k \in 0 .. MaxConns}

SmallGraphs ==
    {Plain(<<a, b, c>>, cs) : cs \in ConnLists({a, b, c})}
    \cup {Plain(<<b, a>>, cs) : cs \in ConnLists({a, b, d})}
    \cup {Plain(<<a, b, a>>, <<Edge(a, b)>>), Plain(<<>>, <<>>)}

(* A diamond whose right arm uses the second output of a, and whose sink   *)
(* is also reached by a parallel connection on another port, with every    *)
(* choice of disabled, pinned and continue-on-fail nodes.                  *)
DiamondConns ==
    << Edge(a, b), [Edge(a, c) EXCEPT !.source_index = 1], Edge(b, d),
       [Edge(c, d) EXCEPT !.target_port = "other"], Edge(c, d) >>
Diamonds ==
    [nodes : {<<d, c, b, a>>}, connections : {DiamondConns},
     disabled : SUBSET {b, d}, pinned : SUBSET {a, b},
     continue_on_fail : SUBSET {a, c}]

Shapes == SmallGraphs \cup Diamonds
=============================================================================
