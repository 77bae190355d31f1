------------------------- MODULE MCTopologicalSort -------------------------
(***************************************************************************)
(* Instances of TopologicalSort for TLC.                                   *)
(***************************************************************************)
EXTENDS TopologicalSort

CONSTANTS a, b, c, d

Edge(s, t) == [source_node |-> s, source_index |-> 0, target_node |-> t]
OfSecondPort(e) == [e EXCEPT !.source_index = 1]
Lists3(ids) ==
    LET edges == {Edge(s, t) : s \in ids, t \in ids}
    IN  UNION {[1 .. k -> edges \cup {OfSecondPort(e) : e \in edges}] : k \in 0 .. 2}
        \cup {Append(s, e) : s \in [1 .. 2 -> edges],
                            e \in edges \cup {OfSecondPort(x) : x \in edges}}

(* Every list of at most two connections from two ports, or three of which *)
(* the last is from any port, over three nodes, or over two and an         *)
(* undeclared one.                                                         *)
ThreeNodes ==
    [nodes : {<<c, a, b>>}, connections : Lists3({a, b, c})]
    \cup [nodes : {<<b, a>>}, connections : Lists3({a, b, d})]
    \cup [nodes : {<<>>, <<a, b, a>>}, connections : {<<>>, <<Edge(a, b)>>}]

(* Every choice of ten connections over four nodes, in one fixed order,    *)
(* always with one more from a to d that leaves by the second port.        *)
FourNodes ==
    LET all == << Edge(a, b), Edge(b, a), Edge(a, c), Edge(c, a), Edge(b, c), Edge(c, b),
                  Edge(a, d), Edge(d, b), Edge(c, d), Edge(d, d) >>
        Pick(I) == SelectSeq(all, LAMBDA e : \E i \in I : all[i] = e)
    IN  {[nodes |-> <<d, a, c, b>>, connections |-> Append(Pick(I), OfSecondPort(all[7]))] :
            I \in SUBSET (1 .. 10)}

Small == ThreeNodes \cup FourNodes
=============================================================================
